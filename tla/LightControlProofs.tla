-------------------------- MODULE LightControlProofs --------------------------
(***************************************************************************)
(* Theorems on what is published and on what the bulbs make of it.         *)
(***************************************************************************)
EXTENDS LightControl, RgbwApiOverlapProofs

-----------------------------------------------------------------------------
(* The conversions.                                                        *)

\* Percentages become the bridge's 2 to 27, never fewer for more, and apart if
\* they differ by four (rgbw_controller.rb:231).
THEOREM BrightnessKept ==
  ASSUME NEW n \in 0..100
  PROVE  /\ Low(BrightnessByte(n)) = BrightnessByte(n) /\ BrightnessByte(n) \in 2..27
         /\ \A m \in 0..n : BrightnessByte(m) <= BrightnessByte(n)
         /\ \A m \in 0..100 : m + 4 <= n => BrightnessByte(m) < BrightnessByte(n)
BY DEF BrightnessByte, Low

\* A hue becomes the point of the dial within two degrees of it (255 points for
\* 360 degrees), and is told from white, but for 60, 239 and 240: yellow and
\* blue come out white (rgbw_controller.rb:113-117).
THEOREM HueKept ==
  ASSUME NEW hue \in 0..359
  PROVE  /\ HueByte(hue) \in 0..254 /\ Low(HueByte(hue)) = HueByte(hue)
         /\ HueByte(hue) = 0 <=> hue \in {60, 239, 240}
         /\ HueByte(hue) # 0 => 255 * ((600 - hue) % 360) - 360 * HueByte(hue) \in 0..359
<1>1. PICK k \in 0..359 : k = (240 - hue) % 360 /\ k = (600 - hue) % 360
                          /\ (k = 0 <=> hue = 240) /\ (k = 1 <=> hue = 239) /\ (k = 180 <=> hue = 60)
  OBVIOUS
<1>2. Dial(hue) = (k * 255) \div 360
  BY <1>1 DEF Dial
<1>3. Dial(hue) \in 0..254 /\ 255 * k - 360 * Dial(hue) \in 0..359
  BY <1>2
<1>4. (Dial(hue) = 0 <=> k \in {0, 1}) /\ (Dial(hue) = 127 <=> k = 180)
  BY <1>2, <1>3
<1> QED BY <1>1, <1>3, <1>4 DEF HueByte, Low

-----------------------------------------------------------------------------
(* The bulbs show what is published.                                       *)

Bulb == [power : {"unknown", "on", "off"}, brightness : Int, color : Int]
Bridge == [selected : Groups, bulbs : [Zones -> Bulb]]

\* No two instructions have the same first byte.
LEMMA Bytes ==
  /\ On[0] = 66 /\ On[1] = 69 /\ On[2] = 71 /\ On[3] = 73 /\ On[4] = 75
  /\ Off[0] = 65 /\ Off[1] = 70 /\ Off[2] = 72 /\ Off[3] = 74 /\ Off[4] = 76
  /\ White[0] = 194 /\ White[1] = 197 /\ White[2] = 199 /\ White[3] = 201 /\ White[4] = 203
BY DEF On, Off, White, Groups

LEMMA Distinct ==
  ASSUME NEW g \in Groups, NEW h \in Groups
  PROVE  /\ On[g] = On[h] => g = h
         /\ Off[g] = Off[h] => g = h
         /\ White[g] = White[h] => g = h
         /\ On[g] # Off[h] /\ On[g] # White[h] /\ Off[g] # White[h]
         /\ {78, 64} \cap {On[g], Off[g], White[g]} = {}
BY Bytes DEF Groups

LEMMA ObeysOn ==
  ASSUME NEW bridge, NEW g \in Groups
  PROVE  Obeyed(bridge, <<On[g], 0>>) = [Powered(bridge, g, "on") EXCEPT !.selected = g]
<1>1. PICK i : i = <<On[g], 0>>
  OBVIOUS
<1>2. i[1] = On[g]
  BY <1>1
<1>3. (CHOOSE h \in Groups : i[1] = On[h]) = g
  BY <1>2, Distinct
<1>4. \E h \in Groups : i[1] = On[h]
  BY <1>2
<1>5. ~\E h \in Groups : i[1] = Off[h]
  BY <1>2, Distinct
<1>6. ~\E h \in Groups : i[1] = White[h]
  BY <1>2, Distinct
<1>7. i[1] # 78 /\ i[1] # 64
  BY <1>2, Distinct
<1>8. Obeyed(bridge, i) = [Powered(bridge, g, "on") EXCEPT !.selected = g]
  BY <1>3, <1>4, <1>5, <1>6, <1>7, Zenon DEF Obeyed, Brightness, Color
<1> QED BY <1>1, <1>8, Zenon

LEMMA ObeysOff ==
  ASSUME NEW bridge, NEW g \in Groups
  PROVE  Obeyed(bridge, <<Off[g], 0>>) = Powered(bridge, g, "off")
<1>1. PICK i : i = <<Off[g], 0>>
  OBVIOUS
<1>2. i[1] = Off[g]
  BY <1>1
<1>3. (CHOOSE h \in Groups : i[1] = Off[h]) = g
  BY <1>2, Distinct
<1>4. \E h \in Groups : i[1] = Off[h]
  BY <1>2
<1>5. ~\E h \in Groups : i[1] = On[h]
  BY <1>2, Distinct
<1>6. ~\E h \in Groups : i[1] = White[h]
  BY <1>2, Distinct
<1>7. i[1] # 78 /\ i[1] # 64
  BY <1>2, Distinct
<1>8. Obeyed(bridge, i) = Powered(bridge, g, "off")
  BY <1>3, <1>4, <1>5, <1>6, <1>7, Zenon DEF Obeyed, Brightness, Color
<1> QED BY <1>1, <1>8, Zenon

LEMMA ObeysWhite ==
  ASSUME NEW bridge, NEW g \in Groups
  PROVE  Obeyed(bridge, <<White[g], 0>>) = Lit(bridge, g, "color", 0)
<1>1. (CHOOSE h \in Groups : <<White[g], 0>>[1] = White[h]) = g
  BY Distinct
<1>2. ~\E h \in Groups : White[g] = On[h] \/ White[g] = Off[h]
  BY Distinct
<1> QED BY <1>1, <1>2, Distinct DEF Obeyed, Brightness, Color

LEMMA ObeysValue ==
  ASSUME NEW bridge, NEW n
  PROVE  /\ Obeyed(bridge, <<Brightness, n>>) = Lit(bridge, bridge.selected, "brightness", n)
         /\ Obeyed(bridge, <<Color, n>>) = Lit(bridge, bridge.selected, "color", n)
<1>1. ~\E h \in Groups : 78 \in {On[h], Off[h], White[h]} \/ 64 \in {On[h], Off[h], White[h]}
  BY Distinct
<1> QED BY <1>1 DEF Obeyed, Brightness, Color

LEMMA PoweredBulbs ==
  ASSUME NEW bridge \in Bridge, NEW g \in Groups, NEW value \in {"on", "off"}
  PROVE  /\ Powered(bridge, g, value) \in Bridge
         /\ Powered(bridge, g, value).selected = bridge.selected
         /\ \A z \in Zones :
              LET old == bridge.bulbs[z]
                  new == Powered(bridge, g, value).bulbs[z]
              IN  IF z \in Members(g)
                    THEN new.power = value /\ new.brightness = old.brightness /\ new.color = old.color
                    ELSE new = old
BY DEF Powered, Bridge, Bulb

LEMMA LitBulbs ==
  ASSUME NEW bridge \in Bridge, NEW g \in Groups, NEW field \in {"brightness", "color"}, NEW n \in Int
  PROVE  /\ Lit(bridge, g, field, n) \in Bridge
         /\ \A z \in Zones :
              LET old == bridge.bulbs[z]
                  new == Lit(bridge, g, field, n).bulbs[z]
              IN  IF z \in Members(g)
                    THEN /\ new[field] = n /\ new.power = "on"
                         /\ field = "color" => new.brightness = old.brightness
                         /\ field = "brightness" => new.color = old.color
                    ELSE new = old
BY DEF Lit, Bridge, Bulb

\* The colour sent is a byte.
LEMMA ColorByteType ==
  ASSUME NEW color \in Colors
  PROVE  ColorByte(color) \in 0..254 /\ Low(ColorByte(color)) = ColorByte(color)
<1>1. Hue[Prefixed[color]] \in 0..359
  BY HueAssumption, PrefixedAssumption
<1>2. HueByte(Hue[Prefixed[color]]) \in 0..254
  BY <1>1, HueKept
<1>3. ColorByte(color) \in 0..254
  BY <1>2 DEF ColorByte
<1> QED BY <1>3 DEF Low

\* Whatever a bridge has been told before, the one or two instructions of a
\* request that the API does not refuse make its bulbs show that request, and
\* change nothing else (rgbw_controller.rb:196-264).
THEOREM InstructionsShow ==
  ASSUME NEW bridge \in Bridge, NEW a, Refusal(a) = "none", Failure(a) = "none",
         a.action = "brightness" => Number[a.value] \in Int
  PROVE  LET c == GenerateCommand(a) IN
         /\ Len(c) \in 1..2
         /\ \A n \in 0..Len(c) : Obeys(bridge, c, n) \in Bridge
         /\ Shown(bridge.bulbs, Obeys(bridge, c, Len(c)).bulbs, a)
<1>1. a.action \in Actions /\ a.group \in Groups
  BY DEF Refusal, Failure
<1> DEFINE g == a.group
           c == GenerateCommand(a)
           on == [Powered(bridge, g, "on") EXCEPT !.selected = g]
<1>2. on \in Bridge /\ on.selected = g /\ on.bulbs = Powered(bridge, g, "on").bulbs
  BY <1>1, PoweredBulbs DEF Bridge
<1>3. \A z \in Zones :
        IF z \in Members(g)
          THEN /\ on.bulbs[z].power = "on" /\ on.bulbs[z].brightness = bridge.bulbs[z].brightness
               /\ on.bulbs[z].color = bridge.bulbs[z].color
          ELSE on.bulbs[z] = bridge.bulbs[z]
  BY <1>1, <1>2, PoweredBulbs
<1>o. Obeyed(bridge, <<On[g], 0>>) = on
  BY <1>1, ObeysOn
<1>n. DOMAIN NewBulb = {"power", "brightness", "color"}
  BY DEF NewBulb
<1> HIDE DEF on
\* One instruction, and two.
<1>s. ASSUME NEW i, NEW b \in Bridge, c = <<i>>, Obeyed(bridge, i) = b, Shown(bridge.bulbs, b.bulbs, a)
      PROVE  /\ Len(c) \in 1..2
             /\ \A n \in 0..Len(c) : Obeys(bridge, c, n) \in Bridge
             /\ Shown(bridge.bulbs, Obeys(bridge, c, Len(c)).bulbs, a)
  <2> HIDE DEF c
  <2>1. Len(c) = 1 /\ c[1] = i
    BY <1>s
  <2>2. Obeys(bridge, c, 0) = bridge /\ Obeys(bridge, c, 1) = b
    BY <1>s, <2>1 DEF Obeys
  <2> QED BY <1>s, <2>1, <2>2
<1>d. ASSUME NEW i, NEW b \in Bridge, c = << <<On[g], 0>>, i>>, Obeyed(on, i) = b,
             Shown(bridge.bulbs, b.bulbs, a)
      PROVE  /\ Len(c) \in 1..2
             /\ \A n \in 0..Len(c) : Obeys(bridge, c, n) \in Bridge
             /\ Shown(bridge.bulbs, Obeys(bridge, c, Len(c)).bulbs, a)
  <2> HIDE DEF c
  <2>1. Len(c) = 2 /\ c[1] = <<On[g], 0>> /\ c[2] = i
    BY <1>d
  <2>2. Obeys(bridge, c, 0) = bridge /\ Obeys(bridge, c, 1) = on /\ Obeys(bridge, c, 2) = b
    BY <1>d, <1>o, <2>1 DEF Obeys
  <2> QED BY <1>2, <1>d, <2>1, <2>2
<1>4. CASE a.action = "power" /\ a.value = "on"
  <2>1. c = << <<On[g], 0>> >>
    BY <1>1, <1>4 DEF GenerateCommand
  <2>2. Shown(bridge.bulbs, on.bulbs, a)
    BY <1>3, <1>4, <1>n DEF Shown, Looks, Sets
  <2> QED BY <1>2, <1>o, <1>s, <2>1, <2>2
<1>5. CASE a.action = "power" /\ a.value = "off"
  <2>1. c = << <<Off[g], 0>> >>
    BY <1>1, <1>5 DEF GenerateCommand
  <2> DEFINE b == Powered(bridge, g, "off")
  <2>2. b \in Bridge /\ Obeyed(bridge, <<Off[g], 0>>) = b
    BY <1>1, ObeysOff, PoweredBulbs
  <2>3. \A z \in Zones :
          IF z \in Members(g)
            THEN /\ b.bulbs[z].power = "off" /\ b.bulbs[z].brightness = bridge.bulbs[z].brightness
                 /\ b.bulbs[z].color = bridge.bulbs[z].color
            ELSE b.bulbs[z] = bridge.bulbs[z]
    BY <1>1, PoweredBulbs
  <2> HIDE DEF b
  <2>4. Shown(bridge.bulbs, b.bulbs, a)
    BY <1>5, <1>n, <2>3 DEF Shown, Looks, Sets
  <2> QED BY <1>s, <2>1, <2>2, <2>4
<1>6. CASE a.action = "brightness"
  <2> DEFINE n == Low(BrightnessByte(Number[a.value]))
             b == Lit(on, g, "brightness", n)
  <2>1. c = << <<On[g], 0>>, <<Brightness, n>> >>
    BY <1>1, <1>6 DEF GenerateCommand
  <2>2. n \in Int
    BY <1>6 DEF Low, BrightnessByte
  <2>d. n = Low(BrightnessByte(Number[a.value]))
    OBVIOUS
  <2> HIDE DEF n
  <2>3. b \in Bridge /\ Obeyed(on, <<Brightness, n>>) = b
    <3>1. b \in Bridge
      BY <1>1, <1>2, <2>2, LitBulbs
    <3>2. Obeyed(on, <<Brightness, n>>) = Lit(on, on.selected, "brightness", n)
      BY ObeysValue
    <3> QED BY <1>2, <3>1, <3>2
  <2>4. \A z \in Zones :
          IF z \in Members(g)
            THEN /\ b.bulbs[z].brightness = n /\ b.bulbs[z].power = "on"
                 /\ b.bulbs[z].color = on.bulbs[z].color
            ELSE b.bulbs[z] = on.bulbs[z]
    BY <1>1, <1>2, <2>2, LitBulbs
  <2> HIDE DEF b
  <2>5. Shown(bridge.bulbs, b.bulbs, a)
    BY <1>3, <1>6, <1>n, <2>4, <2>d DEF Shown, Looks, Sets
  <2> QED BY <1>d, <2>1, <2>3, <2>5
<1>7. CASE a.action = "color"
  <2>1. a.value \in Colors
    BY <1>7 DEF Failure
  <2>2. ColorByte(a.value) \in Int /\ Low(ColorByte(a.value)) = ColorByte(a.value)
    BY <2>1, ColorByteType
  <2>3. CASE ColorByte(a.value) = 0
    <3>1. c = << <<White[g], 0>> >>
      BY <1>1, <1>7, <2>3 DEF GenerateCommand
    <3> DEFINE b == Lit(bridge, g, "color", 0)
    <3>2. b \in Bridge /\ Obeyed(bridge, <<White[g], 0>>) = b
      BY <1>1, ObeysWhite, LitBulbs
    <3>3. \A z \in Zones :
            IF z \in Members(g)
              THEN /\ b.bulbs[z].color = 0 /\ b.bulbs[z].power = "on"
                   /\ b.bulbs[z].brightness = bridge.bulbs[z].brightness
              ELSE b.bulbs[z] = bridge.bulbs[z]
      BY <1>1, LitBulbs
    <3> HIDE DEF b
    <3>4. Shown(bridge.bulbs, b.bulbs, a)
      BY <1>7, <1>n, <2>3, <3>3 DEF Shown, Looks, Sets
    <3> QED BY <1>s, <3>1, <3>2, <3>4
  <2>4. CASE ColorByte(a.value) # 0
    <3> DEFINE n == Low(ColorByte(a.value))
               b == Lit(on, g, "color", n)
    <3>1. c = << <<On[g], 0>>, <<Color, n>> >>
      BY <1>1, <1>7, <2>4 DEF GenerateCommand
    <3>2. n \in Int /\ n = ColorByte(a.value)
      BY <2>2
    <3> HIDE DEF n
    <3>3. b \in Bridge /\ Obeyed(on, <<Color, n>>) = b
      <4>1. b \in Bridge
        BY <1>1, <1>2, <3>2, LitBulbs
      <4>2. Obeyed(on, <<Color, n>>) = Lit(on, on.selected, "color", n)
        BY ObeysValue
      <4> QED BY <1>2, <4>1, <4>2
    <3>4. \A z \in Zones :
            IF z \in Members(g)
              THEN /\ b.bulbs[z].color = n /\ b.bulbs[z].power = "on"
                   /\ b.bulbs[z].brightness = on.bulbs[z].brightness
              ELSE b.bulbs[z] = on.bulbs[z]
      BY <1>1, <1>2, <3>2, LitBulbs
    <3> HIDE DEF b
    <3>5. Shown(bridge.bulbs, b.bulbs, a)
      BY <1>3, <1>7, <1>n, <3>2, <3>4 DEF Shown, Looks, Sets
    <3> QED BY <1>d, <3>1, <3>3, <3>5
  <2> QED BY <2>3, <2>4
<1>8. a.action = "power" => a.value \in {"on", "off"}
  BY DEF Failure
<1> QED BY <1>1, <1>4, <1>5, <1>6, <1>7, <1>8 DEF Actions

-----------------------------------------------------------------------------
(* Every message carried out.                                              *)

Macs == {Mac[h] : h \in Hub}

\* Each bridge is one, and gets its messages in the order of publication.
LightType ==
  /\ bridges \in [Macs -> Bridge]
  /\ taken \subseteq DOMAIN published /\ carried \subseteq taken
  /\ \A i \in taken : \A j \in 1..(i - 1) : To(j) = To(i) => j \in taken

\* What the bridges add changes nothing for the API.
LEMMA LightIsOverlap == LightSpec => OverlapSpec
<1>1. LightInit => OverlapInit
  BY DEF LightInit
<1>2. [LightNext]_lightVars => [OverlapNext]_overlapVars
  BY DEF LightNext, Take, lightVars
<1> QED BY <1>1, <1>2, PTL DEF LightSpec, OverlapSpec

LEMMA ApiAlways == Spec => [](ApiInv /\ PublishInv /\ OnceInv)
<1>1. Init => PublishInv
  BY DEF Init, PublishInv, IdFor
<1> QED BY <1>1, InitApi, NextApi, NextPublish, SpecOnceInv, PTL DEF Spec

\* A message is of a request that was not refused, for an existing address.
LEMMA MessageType ==
  ASSUME ApiInv, PublishInv, OnceInv, NEW i \in DOMAIN published
  PROVE  LET r == published[i].request IN
         /\ r \in Request /\ r \in logged /\ To(i) \in Macs
         /\ Refusal(Ask[r]) = "none" /\ Failure(Ask[r]) = "none"
<1>1. published \in Seq([request : Request, id : Nat])
  BY DEF ApiInv, TypeOK
<1>2. published[i] \in [request : Request, id : Nat]
  BY <1>1, ItemType
<1>3. published[i].request \in Request /\ Messages(published[i].request) # {}
  BY <1>2 DEF Messages
<1>4. published[i].request \in logged
  BY DEF PublishInv, IdFor
<1>5. hub[published[i].request] \in Hub
  BY <1>4, <1>3 DEF ApiInv, LogHasHub
<1> QED BY <1>3, <1>4, <1>5 DEF OnceInv, Once, To, Macs

\* Messages stay at their places, for their bridges.
LEMMA MessagesStay ==
  ASSUME ApiInv, PublishInv, [Next]_vars
  PROVE  \A i \in DOMAIN published :
           i \in DOMAIN published' /\ published'[i] = published[i] /\ To(i)' = To(i)
<1>1. PICK M : M = [request : Request, id : Nat]
  OBVIOUS
<1>2. published \in Seq(M)
  BY <1>1 DEF ApiInv, TypeOK
<1>3. published' = published \/ \E r \in Request : Publish(r)
  BY DEF Next, Step, Arrives, Authenticate, Validate, Save, Commit, Maximum, AuthenticateAgain,
         LastLog, DatabaseError, Killed, Environment, HubCreated, HubDestroyed, Processed, vars, queue
<1>4. published' = published \/ \E m : published' = Append(published, m)
  BY <1>3 DEF Publish
<1>5. \A i \in DOMAIN published : i \in DOMAIN published' /\ published'[i] = published[i]
  BY <1>2, <1>4
<1>6. \A i \in DOMAIN published : published[i].request \in logged
  BY DEF PublishInv, IdFor
<1> QED BY <1>5, <1>6, LoggedStays DEF To

\* The bridge of the next message obeys all of its instructions or the first few.
LEMMA TakeType ==
  ASSUME ApiInv, PublishInv, OnceInv, LightType, NEW i \in DOMAIN published, Take(i)
  PROVE  LET a == Ask[published[i].request]
             c == GenerateCommand(a)
         IN  /\ LightType' /\ taken' = taken \cup {i} /\ carried' \in {carried, carried \cup {i}}
             /\ \A mac \in Macs : mac # To(i) => bridges'[mac] = bridges[mac]
             /\ i \in carried' => /\ Len(c) \in 1..2
                                  /\ Shown(bridges[To(i)].bulbs, bridges'[To(i)].bulbs, a)
<1> DEFINE a == Ask[published[i].request]
           c == GenerateCommand(a)
<1>1. /\ published[i].request \in Request /\ To(i) \in Macs
      /\ Refusal(a) = "none" /\ Failure(a) = "none"
  BY MessageType
<1>2. bridges[To(i)] \in Bridge
  BY <1>1 DEF LightType
<1>3. /\ Len(c) \in 1..2
      /\ \A n \in 0..Len(c) : Obeys(bridges[To(i)], c, n) \in Bridge
      /\ Shown(bridges[To(i)].bulbs, Obeys(bridges[To(i)], c, Len(c)).bulbs, a)
  BY <1>1, <1>2, InstructionsShow, NumberAssumption
<1> HIDE DEF c
<1>4. PICK n \in 0..Len(c) :
        /\ bridges' = [bridges EXCEPT ![To(i)] = Obeys(bridges[To(i)], c, n)]
        /\ carried' = IF n = Len(c) THEN carried \cup {i} ELSE carried
  BY DEF Take, c
<1>5. i \notin taken /\ taken' = taken \cup {i} /\ UNCHANGED vars
      /\ \A j \in 1..(i - 1) : To(j) = To(i) => j \in taken
  BY DEF Take, overlapVars
<1>6. bridges' \in [Macs -> Bridge] /\ bridges'[To(i)] = Obeys(bridges[To(i)], c, n)
      /\ \A mac \in Macs : mac # To(i) => bridges'[mac] = bridges[mac]
  BY <1>1, <1>3, <1>4 DEF LightType
<1>7. carried \subseteq taken
  BY DEF LightType
<1>8. UNCHANGED <<published, hub>>
  BY <1>5 DEF vars, queue, local
<1>9. LightType'
  BY <1>4, <1>5, <1>6, <1>7, <1>8 DEF LightType, To
<1>10. i \in carried' => n = Len(c)
  BY <1>4, <1>5, <1>7
<1>11. carried' \in {carried, carried \cup {i}}
  BY <1>4
<1> QED BY <1>3, <1>5, <1>6, <1>9, <1>10, <1>11 DEF c

LEMMA NextLightType ==
  ASSUME ApiInv, PublishInv, OnceInv, LightType, [LightNext]_lightVars
  PROVE  LightType'
<1>1. CASE UNCHANGED light /\ [Next]_vars
  <2>1. published \in Seq([request : Request, id : Nat])
    BY DEF ApiInv, TypeOK
  <2>2. \A i \in taken : i \in DOMAIN published /\ \A j \in 1..(i - 1) : j \in DOMAIN published
    BY <2>1 DEF LightType
  <2> QED BY <1>1, <2>2, MessagesStay DEF LightType, light
<1>2. ASSUME NEW i \in DOMAIN published, Take(i) PROVE LightType'
  BY <1>2, TakeType
<1> QED BY <1>1, <1>2 DEF LightNext, lightVars, OverlapNext, overlapVars

LEMMA InitLightType == LightInit => LightType
<1>1. NewBulb \in Bulb
  BY DEF NewBulb, Bulb
<1>2. NewBridge \in Bridge
  BY <1>1 DEF NewBridge, Bridge, Groups
<1> QED BY <1>2 DEF LightInit, LightType, Macs

\* Whatever a bridge was told before, and whatever of it was lost, a message that
\* is carried out makes its bulbs show its request and changes nothing else; what
\* has no instructions is never published.
THEOREM SpecEachCommandShows == LightSpec => EachCommandShows
<1>1. ASSUME ApiInv, PublishInv, OnceInv, LightType, [LightNext]_lightVars
      PROVE  [\A i \in carried' \ carried :
                LET a == Ask[published[i].request] IN
                /\ GenerateCommand(a) # Nothing
                /\ Shown(bridges[To(i)].bulbs, bridges'[To(i)].bulbs, a)]_lightVars
  <2>1. CASE UNCHANGED light
    BY <2>1 DEF light
  <2>2. ASSUME NEW i \in DOMAIN published, Take(i), NEW j \in carried' \ carried
        PROVE  LET a == Ask[published[j].request] IN
               /\ GenerateCommand(a) # Nothing
               /\ Shown(bridges[To(j)].bulbs, bridges'[To(j)].bulbs, a)
    <3>1. j = i
      BY <1>1, <2>2, TakeType
    <3>2. GenerateCommand(Ask[published[i].request]) # Nothing
      <4>1. Len(GenerateCommand(Ask[published[i].request])) \in 1..2
        BY <1>1, <2>2, <3>1, TakeType
      <4> QED BY <4>1 DEF Nothing
    <3> QED BY <1>1, <2>2, <3>1, <3>2, TakeType
  <2> QED BY <1>1, <2>1, <2>2 DEF LightNext, lightVars
<1> QED BY <1>1, LightIsOverlap, OverlapIsApi, ApiAlways, InitLightType, NextLightType, PTL DEF LightSpec, EachCommandShows

-----------------------------------------------------------------------------
(* The bulbs show the status, if no two of its commands met.               *)

BulbFields == {"power", "brightness", "color"}

\* Command a sets a field of the bulbs of zone z, to this.
Writes(a, z, f) == z \in Members(a.group) /\ f \in Sets(a)
Wanted(a, f) == IF f = a.action THEN a.value ELSE "on"

\* Messages for one bridge are published in the order of their logs, but for those
\* of requests that met.
InOrder ==
  \A i, j \in DOMAIN published :
    LET q == published[i].request
        r == published[j].request
    IN  i < j /\ To(i) = To(j) => q \in met[r] \/ log[q] < log[r]

\* If all messages a bridge was to get were carried out, each field of a bulb
\* shows the last of them that sets it.
Whole(mac) == \A i \in taken : To(i) = mac => i \in carried
Wrote(mac, z, f) == {i \in taken : To(i) = mac /\ Writes(Ask[published[i].request], z, f)}
BulbsShowLast ==
  \A mac \in Macs : Whole(mac) => \A z \in Zones : \A f \in BulbFields :
    LET bulb == bridges[mac].bulbs[z] IN
    \/ bulb[f] = NewBulb[f]
    \/ \E i \in Wrote(mac, z, f) :
         /\ \A j \in Wrote(mac, z, f) : j <= i
         /\ Looks(bulb, f, Wanted(Ask[published[i].request], f))

\* No two of the committed commands of a hub met.
Apart(h) == \A r, s \in logged : hub[r] = h /\ hub[s] = h => s \notin met[r]

\* The row of such a hub holds what the last of its committed commands that sets
\* it says.
Saved(h, z, f) == {r \in logged : hub[r] = h /\ Writes(Ask[r], z, f)}
ShowsLast(h) ==
  /\ status[h] = Nil => NoLogs(h)
  /\ \A z \in Zones : \A f \in BulbFields : \A r \in Saved(h, z, f) :
       (\A s \in Saved(h, z, f) : log[s] <= log[r]) => status[h][z][f] = Wanted(Ask[r], f)
RowShowsLast == \A h \in Hub : hubs[h] = "present" /\ Apart(h) => ShowsLast(h)

\* A command that shows in the bulbs has its value in what it writes.
LEMMA ShownWrites ==
  ASSUME NEW before, NEW after, NEW a, a.action \in BulbFields, Shown(before, after, a),
         NEW z \in Zones, NEW f \in BulbFields
  PROVE  IF Writes(a, z, f) THEN Looks(after[z], f, Wanted(a, f)) ELSE after[z][f] = before[z][f]
<1>1. DOMAIN NewBulb = BulbFields
  BY DEF NewBulb, BulbFields
<1>2. CASE z \notin Members(a.group)
  BY <1>2 DEF Shown, Writes
<1>3. CASE z \in Members(a.group) /\ f \notin Sets(a)
  BY <1>1, <1>3 DEF Shown, Writes
<1>4. CASE z \in Members(a.group) /\ f = a.action
  BY <1>4 DEF Shown, Writes, Wanted, Sets
<1>5. CASE z \in Members(a.group) /\ f = "power" /\ f # a.action
  BY <1>5 DEF Shown, Writes, Wanted, Sets, Looks
<1> QED BY <1>2, <1>3, <1>4, <1>5 DEF Sets

\* So does the status a command makes.
LEMMA MakesWrites ==
  ASSUME NEW s \in Status \cup {Nil}, NEW t, NEW a, a.action \in BulbFields, a.group \in Groups,
         Commands!Makes(s, t, a), NEW z \in Zones, NEW f \in BulbFields
  PROVE  /\ Writes(a, z, f) => t[z][f] = Wanted(a, f)
         /\ ~Writes(a, z, f) /\ s # Nil => t[z][f] = s[z][f]
<1>1. z \in Commands!Groups /\ (z \in Commands!Addressed(a) <=> z \in Members(a.group))
  BY DEF Commands!Groups, Commands!Addressed, Members, Zones, Groups
<1>2. f \notin Sets(a) => f \in Commands!Untouched(a)
  BY DEF Sets, Commands!Untouched, BulbFields
<1>3. s # Nil => Commands!Entry(s, z) = s[z]
  BY DEF Commands!Entry
<1>4. CASE Writes(a, z, f)
  BY <1>1, <1>4 DEF Commands!Makes, Commands!Shows, Writes, Wanted, Sets
<1>5. CASE ~Writes(a, z, f)
  BY <1>1, <1>2, <1>3, <1>5 DEF Commands!Makes, Writes
<1> QED BY <1>4, <1>5

\* What is said of logged commands and of those that met is still so.
LEMMA NextApart ==
  ASSUME ApiInv, OverlapInv, [OverlapNext]_overlapVars
  PROVE  /\ \A r \in Request : met[r] \subseteq met'[r]
         /\ \A h \in Hub : Apart(h)' => Apart(h)
<1>1. \A r \in Request : met[r] \subseteq met'[r]
  BY NextMet DEF OverlapInv
<1>2. logged \subseteq Request /\ logged \subseteq logged' /\ \A r \in logged : hub'[r] = hub[r]
  BY LoggedStays DEF ApiInv, TypeOK, OverlapNext, overlapVars
<1> QED BY <1>1, <1>2 DEF Apart

\* A publication comes after those for its bridge with older logs, or met them.
LEMMA NextInOrder ==
  ASSUME ApiInv, PublishInv, OnceInv, OverlapInv, InOrder, [OverlapNext]_overlapVars
  PROVE  InOrder'
<1>n. [Next]_vars
  BY DEF OverlapNext, overlapVars
<1>f. log \in [Request -> Nat] /\ logged \subseteq Request
  BY DEF ApiInv, TypeOK
<1>1. \A i \in DOMAIN published : published[i].request \in logged
  BY DEF PublishInv, IdFor
<1>m. \A r \in Request : met[r] \subseteq met'[r]
  BY NextApart
<1>t. /\ \A i \in DOMAIN published : published'[i] = published[i] /\ To(i)' = To(i)
      /\ \A s \in logged : log'[s] = log[s]
  BY <1>n, MessagesStay, LoggedStays
<1>o. ASSUME NEW i \in DOMAIN published, NEW j \in DOMAIN published, i < j, To(i)' = To(j)'
      PROVE  LET q == published'[i].request
                 r == published'[j].request
             IN  q \in met'[r] \/ log'[q] < log'[r]
  BY <1>1, <1>f, <1>m, <1>o, <1>t DEF InOrder
<1>2. CASE published' = published
  BY <1>2, <1>o DEF InOrder
<1>3. ASSUME NEW r \in Request, Publish(r), published' # published PROVE InOrder'
  <2>1. /\ pc[r] = "publish" /\ r \in logged /\ log' = log /\ hub' = hub
        /\ published' = Append(published, [request |-> r, id |-> newest[r]])
    BY <1>3 DEF Publish, Go, logs, local, OverlapInv, Turn, CommandIsVisible
  <2>2. Messages(r) = {}
    BY <2>1 DEF OnceInv, Once
  <2>3. PICK m : m = [request |-> r, id |-> newest[r]]
    OBVIOUS
  <2>4. PICK M : M = [request : Request, id : Nat]
    OBVIOUS
  <2>5. published \in Seq(M)
    BY <2>4 DEF ApiInv, TypeOK
  <2>6. /\ DOMAIN published' = 1..(Len(published) + 1) /\ DOMAIN published = 1..Len(published)
        /\ Len(published) \in Nat /\ published'[Len(published) + 1].request = r
        /\ \A i \in DOMAIN published : published'[i] = published[i]
    BY <2>1, <2>3, <2>5
  <2>7. ASSUME NEW i \in DOMAIN published, To(i)' = Mac[hub'[r]]
        PROVE  published[i].request \in met'[r] \/ log[published[i].request] < log[r]
    <3> DEFINE q == published[i].request
    <3>1. q \in logged /\ q # r
      BY <1>1, <2>2 DEF Messages
    <3>2. Mac[hub[q]] = Mac[hub[r]]
      BY <1>t, <2>1, <2>7 DEF To
    <3>3. Turn(q) /\ Turn(r)
      BY <1>f, <3>1 DEF OverlapInv
    <3>4. SameMac(r, q)
      BY <2>1, <3>1, <3>2, <3>3 DEF Turn, FoundItsHub, Commands!For, SameMac
    <3>5. q \in met[r] \/ log[q] < log[r]
      BY <1>f, <2>1, <3>1, <3>3, <3>4 DEF Turn, IdIsLast
    <3> QED BY <1>m, <3>5
  <2>8. PICK n : n = Len(published) + 1 /\ published'[n].request = r
    BY <2>6
  <2>10. To(n)' = Mac[hub'[r]]
    BY <2>8 DEF To
  <2>9. ASSUME NEW i \in DOMAIN published', NEW j \in DOMAIN published', i < j, To(i)' = To(j)'
        PROVE  LET q == published'[i].request
                   s == published'[j].request
               IN  q \in met'[s] \/ log'[q] < log'[s]
    <3>1. i \in DOMAIN published
      BY <2>6, <2>9
    <3>2. CASE j \in DOMAIN published
      BY <1>o, <2>9, <3>1, <3>2
    <3>3. CASE j = n
      <4>1. To(i)' = Mac[hub'[r]]
        BY <2>9, <2>10, <3>3
      <4> QED BY <2>1, <2>6, <2>7, <2>8, <3>1, <3>3, <4>1
    <3> QED BY <2>6, <2>8, <3>2, <3>3
  <2> QED BY <2>9 DEF InOrder
<1>4. published' = published \/ \E r \in Request : Publish(r)
  BY <1>n DEF Next, Step, Arrives, Authenticate, Validate, Save, Commit, Maximum, AuthenticateAgain,
         LastLog, DatabaseError, Killed, Environment, HubCreated, HubDestroyed, Processed, vars, queue
<1> QED BY <1>2, <1>3, <1>4

\* Only a commit writes a status; no other step adds a log.
LEMMA RowsStay ==
  ASSUME ApiInv, [Next]_vars
  PROVE  (UNCHANGED <<status, logged>> /\ \A h \in Hub : hubs'[h] = "present" => hubs[h] = "present" \/ NoLogs(h))
         \/ \E r \in Request : Commit(r)
<1>1. hubs \in [Hub -> {"new", "present", "destroyed"}] /\ logged \subseteq Request
  BY DEF ApiInv, TypeOK
<1>2. ASSUME NEW h \in Hub, HubCreated(h) \/ HubDestroyed(h), NEW g \in Hub, hubs'[g] = "present"
      PROVE  hubs[g] = "present" \/ NoLogs(g)
  <2>1. hubs[g] = "present" \/ hubs[g] = "new"
    BY <1>1, <1>2 DEF HubCreated, HubDestroyed
  <2>2. hubs[g] = "new" => NoLogs(g)
    BY <1>1 DEF NoLogs, ApiInv, HubExisted
  <2> QED BY <2>1, <2>2
<1>3. CASE \E h \in Hub : HubCreated(h) \/ HubDestroyed(h)
  BY <1>2, <1>3 DEF HubCreated, HubDestroyed, logs
<1>4. CASE UNCHANGED table /\ logged' = logged
  BY <1>4 DEF table
<1> QED BY <1>3, <1>4 DEF Next, Step, Arrives, Authenticate, Validate, Save, Maximum, Publish,
     AuthenticateAgain, LastLog, DatabaseError, Killed, Environment, Processed, vars, logs

\* A row that is only read shows what it showed.
LEMMA RowIsRead ==
  ASSUME ApiInv, [Next]_vars, NEW h \in Hub, ShowsLast(h) \/ NoLogs(h), status'[h] = status[h],
         \A r \in logged' : r \in logged \/ hub'[r] # h
  PROVE  ShowsLast(h)'
<1>1. logged \subseteq logged' /\ \A s \in logged : hub'[s] = hub[s] /\ log'[s] = log[s]
  BY LoggedStays
<1>2. NoLogs(h) <=> NoLogs(h)'
  BY <1>1 DEF NoLogs
<1>3. \A z, f : Saved(h, z, f)' = Saved(h, z, f)
  BY <1>1 DEF Saved
<1>4. CASE NoLogs(h)
  BY <1>2, <1>3, <1>4 DEF NoLogs, Saved, ShowsLast
<1>5. CASE ShowsLast(h)
  <2>1. \A z, f : \A s \in Saved(h, z, f) : log'[s] = log[s]
    BY <1>1 DEF Saved
  <2> QED BY <1>2, <1>3, <1>5, <2>1 DEF ShowsLast
<1> QED BY <1>4, <1>5

\* A commit adds the last command.
LEMMA CommitShowsLast ==
  ASSUME ApiInv, OverlapInv, RowShowsLast, [OverlapNext]_overlapVars, NEW r \in Request, Commit(r)
  PROVE  RowShowsLast'
<1>n. [Next]_vars
  BY DEF Next, Step
<1>f. /\ log \in [Request -> Nat] /\ lastId \in Nat /\ logged \subseteq Request
      /\ status \in [Hub -> Status \cup {Nil}]
  BY DEF ApiInv, TypeOK
<1>m. /\ \A q \in Request : met[q] \subseteq met'[q]
      /\ \A h \in Hub : Apart(h)' => Apart(h)
  BY NextApart
<1>1. /\ pc[r] = "commit" /\ r \notin logged /\ logged' = logged \cup {r} /\ log[r] # 0
      /\ UNCHANGED <<hubs, hub, log, copy, dirty>>
  BY DEF Commit, Go, local, ApiInv, LogHasHub
<1>t. Turn(r) /\ \A s \in logged : Turn(s)
  BY <1>f DEF OverlapInv
<1>2. /\ hub[r] \in Commands!For(r) /\ hub[r] \in Hub
      /\ Refusal(Ask[r]) = "none" /\ Failure(Ask[r]) = "none"
  BY <1>1, <1>t DEF Turn, FoundItsHub, Commands!For
<1>4. ASSUME NEW h \in Hub, h # hub[r], hubs'[h] = "present", Apart(h)' PROVE ShowsLast(h)'
  <2>1. status'[h] = status[h]
    BY <1>f, <1>4 DEF Commit
  <2>2. ShowsLast(h)
    BY <1>1, <1>4, <1>m DEF RowShowsLast
  <2> QED BY <1>n, <1>1, <1>4, <2>1, <2>2, RowIsRead
<1>5. ASSUME NEW h \in Hub, h = hub[r], hubs'[h] = "present", Apart(h)' PROVE ShowsLast(h)'
  <2> DEFINE a == Ask[r]
  <2>s. ShowsLast(h)
    BY <1>1, <1>5, <1>m DEF RowShowsLast
  <2>x. \A s \in logged : hub[s] = h => s \notin met[r]
    BY <1>1, <1>5, <1>m DEF Apart
  <2>l. \A s \in logged : hub[s] = h => log[s] < log[r]
    <3> SUFFICES ASSUME NEW s \in logged, hub[s] = h PROVE log[s] < log[r]
      OBVIOUS
    <3>1. SameMac(r, s)
      BY <1>2, <1>5, <1>t DEF Turn, FoundItsHub, Commands!For, SameMac
    <3> QED BY <1>1, <1>f, <1>t, <2>x, <3>1 DEF Turn, IdIsLast
  <2>0. copy[r] = NewStatus(status[h], a) /\ dirty[r] = (copy[r] # status[h])
    BY <1>1, <1>5, <1>t, <2>x DEF Turn, CopyIsFresh, Outdated
  <2>1. status'[h] = NewStatus(status[h], a) /\ status[h] \in Status \cup {Nil}
    BY <1>f, <1>1, <1>5, <2>0 DEF Commit
  <2>2. Commands!Makes(status[h], status'[h], a)
    BY <1>2, <2>1, NewStatusMakes
  <2>3. a.action \in BulbFields /\ a.group \in Groups
    BY <1>2 DEF Refusal, Failure, Actions, BulbFields
  <2>h. hub' = hub
    BY <1>1
  <2> HIDE DEF a
  <2>4. ASSUME NEW z \in Zones, NEW f \in BulbFields, NEW q \in Saved(h, z, f)',
               \A s \in Saved(h, z, f)' : log'[s] <= log'[q]
        PROVE  status'[h][z][f] = Wanted(Ask[q], f)
    <3>1. Writes(a, z, f) => status'[h][z][f] = Wanted(a, f)
      BY <2>1, <2>2, <2>3, MakesWrites
    <3>2. ~Writes(a, z, f) /\ status[h] # Nil => status'[h][z][f] = status[h][z][f]
      BY <2>1, <2>2, <2>3, MakesWrites
    <3>3. CASE Writes(a, z, f)
      <4>1. r \in Saved(h, z, f)'
        BY <1>1, <1>5, <3>3 DEF Saved, a
      <4>2. log[r] <= log[q] /\ q \in logged \cup {r} /\ hub[q] = h
        BY <1>1, <2>4, <4>1 DEF Saved
      <4>3. q = r
        BY <1>f, <2>l, <4>2
      <4> QED BY <3>1, <3>3, <4>3 DEF a
    <3>4. CASE ~Writes(a, z, f)
      <4>1. Saved(h, z, f)' = Saved(h, z, f)
        BY <1>1, <3>4 DEF Saved, a
      <4>2. q \in Saved(h, z, f) /\ \A s \in Saved(h, z, f) : log[s] <= log[q]
        BY <1>1, <2>4, <4>1
      <4>3. status[h] # Nil
        BY <2>s, <4>2 DEF ShowsLast, NoLogs, Saved
      <4>4. status[h][z][f] = Wanted(Ask[q], f)
        BY <2>s, <4>2 DEF ShowsLast
      <4> QED BY <3>2, <3>4, <4>3, <4>4
    <3> QED BY <3>3, <3>4
  <2>5. status'[h] # Nil
    BY <2>2 DEF Commands!Makes
  <2> QED BY <2>4, <2>5 DEF ShowsLast
<1> QED BY <1>4, <1>5 DEF RowShowsLast

LEMMA NextRowShows ==
  ASSUME ApiInv, OverlapInv, RowShowsLast, [OverlapNext]_overlapVars
  PROVE  RowShowsLast'
<1>n. [Next]_vars
  BY DEF OverlapNext, overlapVars
<1>1. CASE \E r \in Request : Commit(r)
  BY <1>1, CommitShowsLast
<1>2. CASE /\ UNCHANGED <<status, logged>>
           /\ \A h \in Hub : hubs'[h] = "present" => hubs[h] = "present" \/ NoLogs(h)
  <2> SUFFICES ASSUME NEW h \in Hub, hubs'[h] = "present", Apart(h)' PROVE ShowsLast(h)'
    BY DEF RowShowsLast
  <2>1. ShowsLast(h) \/ NoLogs(h)
    BY <1>2, NextApart DEF RowShowsLast
  <2> QED BY <1>n, <1>2, <2>1, RowIsRead
<1> QED BY <1>n, <1>1, <1>2, RowsStay

\* A step of the API changes nothing that a bridge has got.
LEMMA BulbsKept ==
  ASSUME ApiInv, PublishInv, LightType, BulbsShowLast, [Next]_vars, UNCHANGED light
  PROVE  BulbsShowLast'
<1>1. /\ bridges' = bridges /\ taken' = taken /\ carried' = carried
      /\ \A i \in taken : published'[i] = published[i] /\ To(i)' = To(i)
  BY MessagesStay DEF LightType, light
<1>2. \A mac, z, f : Wrote(mac, z, f)' = Wrote(mac, z, f)
  BY <1>1 DEF Wrote
<1>3. \A mac : Whole(mac)' <=> Whole(mac)
  BY <1>1 DEF Whole
<1>4. \A mac, z, f : \A i \in Wrote(mac, z, f) : published'[i] = published[i]
  BY <1>1 DEF Wrote
<1> QED BY <1>1, <1>2, <1>3, <1>4 DEF BulbsShowLast

\* A message that is carried out becomes the last its bridge got.
LEMMA TakeShowsLast ==
  ASSUME ApiInv, PublishInv, OnceInv, LightType, BulbsShowLast, NEW i \in DOMAIN published, Take(i)
  PROVE  BulbsShowLast'
<1> DEFINE a == Ask[published[i].request]
<1>1. /\ taken' = taken \cup {i} /\ carried' \in {carried, carried \cup {i}}
      /\ \A mac \in Macs : mac # To(i) => bridges'[mac] = bridges[mac]
      /\ i \in carried' => Shown(bridges[To(i)].bulbs, bridges'[To(i)].bulbs, a)
  BY TakeType
<1>2. i \notin taken /\ UNCHANGED <<published, hub>> /\ \A j \in 1..(i - 1) : To(j) = To(i) => j \in taken
  BY DEF Take, overlapVars, vars, queue, local
<1>3. carried \subseteq taken /\ taken \subseteq DOMAIN published
      /\ \A j \in taken : \A k \in 1..(j - 1) : To(k) = To(j) => k \in taken
  BY DEF LightType
<1>4. DOMAIN published \subseteq Nat \ {0}
  <2>1. published \in Seq([request : Request, id : Nat])
    BY DEF ApiInv, TypeOK
  <2> QED BY <2>1
<1>5. \A j \in taken : To(j) = To(i) => j < i
  BY <1>2, <1>3, <1>4
<1>6. a.action \in BulbFields
  <2>1. Refusal(a) = "none" /\ Failure(a) = "none"
    BY MessageType
  <2> QED BY <2>1 DEF Refusal, Failure, Actions, BulbFields
<1>t. \A j : To(j)' = To(j)
  BY <1>2 DEF To
<1>7. ASSUME NEW mac \in Macs, mac # To(i), Whole(mac)', NEW z \in Zones, NEW f \in BulbFields
      PROVE  LET bulb == bridges'[mac].bulbs[z] IN
             \/ bulb[f] = NewBulb[f]
             \/ \E k \in Wrote(mac, z, f)' :
                  /\ \A j \in Wrote(mac, z, f)' : j <= k
                  /\ Looks(bulb, f, Wanted(Ask[published'[k].request], f))
  <2>1. Wrote(mac, z, f)' = Wrote(mac, z, f)
    BY <1>1, <1>2, <1>7, <1>t DEF Wrote
  <2>2. Whole(mac)
    BY <1>1, <1>2, <1>3, <1>7, <1>t DEF Whole
  <2>3. bridges'[mac] = bridges[mac]
    BY <1>1, <1>7
  <2> QED BY <1>2, <2>1, <2>2, <2>3 DEF BulbsShowLast
<1>8. ASSUME Whole(To(i))', NEW z \in Zones, NEW f \in BulbFields
      PROVE  LET bulb == bridges'[To(i)].bulbs[z] IN
             \/ bulb[f] = NewBulb[f]
             \/ \E k \in Wrote(To(i), z, f)' :
                  /\ \A j \in Wrote(To(i), z, f)' : j <= k
                  /\ Looks(bulb, f, Wanted(Ask[published'[k].request], f))
  <2>1. i \in carried'
    BY <1>1, <1>8, <1>t DEF Whole
  <2>2. Whole(To(i))
    BY <1>1, <1>2, <1>3, <1>8, <1>t DEF Whole
  <2>3. IF Writes(a, z, f) THEN Looks(bridges'[To(i)].bulbs[z], f, Wanted(a, f))
                           ELSE bridges'[To(i)].bulbs[z][f] = bridges[To(i)].bulbs[z][f]
    BY <1>1, <1>6, <2>1, ShownWrites
  <2>4. CASE Writes(a, z, f)
    <3>1. i \in Wrote(To(i), z, f)' /\ \A j \in Wrote(To(i), z, f)' : j <= i
      <4>1. \A j \in Wrote(To(i), z, f)' : j = i \/ (j \in taken /\ To(j) = To(i))
        BY <1>1, <1>t DEF Wrote
      <4>2. i \in Nat /\ \A j \in taken : j \in Nat
        BY <1>3, <1>4
      <4>3. \A j \in Wrote(To(i), z, f)' : j <= i
        BY <1>5, <4>1, <4>2
      <4>4. i \in taken' /\ published'[i].request = published[i].request
        BY <1>1, <1>2
      <4>5. i \in Wrote(To(i), z, f)'
        BY <1>t, <2>4, <4>4 DEF Wrote
      <4> QED BY <4>3, <4>5
    <3> QED BY <1>2, <2>3, <2>4, <3>1
  <2>5. CASE ~Writes(a, z, f)
    <3>1. Wrote(To(i), z, f)' = Wrote(To(i), z, f)
      BY <1>1, <1>2, <1>t, <2>5 DEF Wrote
    <3>2. To(i) \in Macs
      BY MessageType
    <3>3. bridges'[To(i)].bulbs[z][f] = bridges[To(i)].bulbs[z][f]
      BY <2>3, <2>5
    <3>4. \A v : Looks(bridges'[To(i)].bulbs[z], f, v) <=> Looks(bridges[To(i)].bulbs[z], f, v)
      BY <3>3 DEF Looks, BulbFields
    <3> QED BY <1>2, <2>2, <3>1, <3>2, <3>3, <3>4 DEF BulbsShowLast
  <2> QED BY <2>4, <2>5
<1> QED BY <1>7, <1>8, <1>t DEF BulbsShowLast

LightInv == LightType /\ InOrder /\ RowShowsLast /\ BulbsShowLast

LEMMA NextLight ==
  ASSUME ApiInv, PublishInv, OnceInv, OverlapInv, LightInv, [LightNext]_lightVars
  PROVE  LightInv'
<1>0. [OverlapNext]_overlapVars
  BY DEF LightNext, Take, lightVars
<1>1. [Next]_vars
  BY <1>0 DEF OverlapNext, overlapVars
<1>2. LightType' /\ InOrder' /\ RowShowsLast'
  BY <1>0, NextLightType, NextInOrder, NextRowShows DEF LightInv
<1>3. CASE UNCHANGED light
  BY <1>1, <1>2, <1>3, BulbsKept DEF LightInv
<1>4. ASSUME NEW i \in DOMAIN published, Take(i) PROVE BulbsShowLast'
  BY <1>4, TakeShowsLast DEF LightInv
<1> QED BY <1>2, <1>3, <1>4 DEF LightInv, LightNext, lightVars

LEMMA InitLight == LightInit => LightInv
<1> SUFFICES ASSUME LightInit PROVE LightInv
  OBVIOUS
<1>1. InOrder /\ RowShowsLast
  BY DEF LightInit, OverlapInit, Init, InOrder, RowShowsLast, ShowsLast, NoLogs, Saved
<1>2. BulbsShowLast
  <2>1. ASSUME NEW mac \in Macs, NEW z \in Zones, NEW f \in BulbFields
        PROVE  bridges[mac].bulbs[z][f] = NewBulb[f]
    BY DEF LightInit, Macs, NewBridge
  <2> QED BY <2>1 DEF BulbsShowLast
<1> QED BY <1>1, <1>2, InitLightType DEF LightInv

\* While all a hub's commands were published and carried out, no two of them met
\* and nothing else was sent to its bridge, the last of them that set a field of a
\* bulb is the last that set it in the row.
LEMMA LastIsShown ==
  ASSUME ApiInv, PublishInv, OnceInv, LightInv
  PROVE  BulbsShowStatus
<1> SUFFICES ASSUME NEW h \in Hub, hubs[h] = "present",
                    \A r, s \in {q \in logged : hub[q] = h} : s \notin met[r],
                    {r \in logged : hub[r] = h} =
                      {published[i].request : i \in {j \in DOMAIN published : To(j) = Mac[h]}},
                    {i \in DOMAIN published : To(i) = Mac[h]} \subseteq carried,
                    NEW z \in Zones, NEW f \in DOMAIN NewBulb
             PROVE  LET bulb == bridges[Mac[h]].bulbs[z]
                    IN  bulb[f] = NewBulb[f] \/ Looks(bulb, f, status[h][z][f])
  BY DEF BulbsShowStatus
<1>1. f \in BulbFields /\ Mac[h] \in Macs
  BY DEF NewBulb, BulbFields, Macs
<1>2. /\ taken \subseteq DOMAIN published /\ carried \subseteq taken
      /\ DOMAIN published \subseteq Nat /\ log \in [Request -> Nat] /\ logged \subseteq Request
  <2>1. published \in Seq([request : Request, id : Nat])
    BY DEF ApiInv, TypeOK
  <2> QED BY <2>1 DEF LightInv, LightType, ApiInv, TypeOK
<1>a. Apart(h)
  BY DEF Apart
<1>3. Whole(Mac[h])
  BY <1>2 DEF Whole
<1>4. PICK bulb : bulb = bridges[Mac[h]].bulbs[z]
  OBVIOUS
<1>5. ASSUME NEW i \in Wrote(Mac[h], z, f), \A j \in Wrote(Mac[h], z, f) : j <= i,
             Looks(bulb, f, Wanted(Ask[published[i].request], f))
      PROVE  Looks(bulb, f, status[h][z][f])
  <2>1. i \in DOMAIN published /\ To(i) = Mac[h] /\ Writes(Ask[published[i].request], z, f)
    BY <1>2 DEF Wrote
  <2>2. published[i].request \in Saved(h, z, f)
    BY <2>1 DEF Saved
  <2>3. ASSUME NEW s \in Saved(h, z, f) PROVE log[s] <= log[published[i].request]
    <3>1. PICK j \in DOMAIN published : To(j) = Mac[h] /\ published[j].request = s
      BY DEF Saved
    <3>2. j \in Wrote(Mac[h], z, f)
      BY <1>2, <3>1 DEF Wrote, Saved
    <3>3. j <= i
      BY <1>5, <3>2
    <3>5. published[i].request \in Request /\ s \in Request
      BY <1>2, <2>2 DEF Saved
    <3>6. s \notin met[published[i].request]
      BY <2>2 DEF Saved
    <3>4. j = i \/ log[s] < log[published[i].request]
      BY <1>2, <2>1, <3>1, <3>3, <3>6 DEF LightInv, InOrder
    <3> QED BY <1>2, <3>1, <3>4, <3>5
  <2>4. status[h][z][f] = Wanted(Ask[published[i].request], f)
    BY <1>1, <1>a, <2>2, <2>3 DEF LightInv, RowShowsLast, ShowsLast
  <2> QED BY <1>5, <2>4
<1>6. \/ bulb[f] = NewBulb[f]
      \/ \E i \in Wrote(Mac[h], z, f) :
           /\ \A j \in Wrote(Mac[h], z, f) : j <= i
           /\ Looks(bulb, f, Wanted(Ask[published[i].request], f))
  BY <1>1, <1>3, <1>4 DEF LightInv, BulbsShowLast
<1> QED BY <1>4, <1>5, <1>6

\* While every saved command of a hub was published and carried out, no two of
\* them were served at the same time, and nothing else was published for its MAC
\* address, its bulbs are what its status says, with any number of threads and
\* whatever failed in between (rgbw_controller.rb:136-159).
THEOREM SpecBulbsShowStatus == LightSpec => []BulbsShowStatus
<1>1. OverlapSpec => []OverlapInv
  <2>1. [OverlapNext]_overlapVars => [Next]_vars
    BY DEF OverlapNext, overlapVars
  <2>2. ApiInv /\ OverlapInv /\ [OverlapNext]_overlapVars => OverlapInv'
    BY NextOverlap
  <2> QED BY <2>1, <2>2, InitOverlap, OverlapIsApi, ApiAlways, PTL DEF OverlapSpec
<1>2. ApiInv /\ PublishInv /\ OnceInv /\ LightInv => BulbsShowStatus
  BY LastIsShown
<1> QED BY <1>1, <1>2, LightIsOverlap, OverlapIsApi, ApiAlways, InitLight, NextLight, PTL DEF LightSpec

=============================================================================
