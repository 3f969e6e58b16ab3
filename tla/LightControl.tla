----------------------------- MODULE LightControl -----------------------------
(***************************************************************************)
(* From a request to the bulbs.  generateCommand and groomCmds of          *)
(* rgbw_controller.rb turn a request into instructions, the TCP server     *)
(* writes them to the bridge in the order of publication or loses the last *)
(* of them (the module CommandDelivery), and the bridge obeys.             *)
(*                                                                         *)
(* An instruction is the first two of its three bytes, the third being     *)
(* always 0x55; that it travels in Base64 is left out.                     *)
(***************************************************************************)
EXTENDS RgbwApiOverlap

CONSTANTS
  Prefixed,  \* [Colors -> Colors], a '#' put before those that have none
  Hue,       \* [Colors -> hue in degrees], of the gem color
  Number     \* what String#to_i makes of a brightness

ASSUME PrefixedAssumption ==
  Prefixed \in [Colors -> Colors] /\ \A c \in Colors : Prefixed[Prefixed[c]] = Prefixed[c]
ASSUME HueAssumption == Hue \in [Colors -> 0..359]
ASSUME NumberAssumption ==
  \A r \in Request : Ask[r].action = "brightness" => Number[Ask[r].value] \in Int

VARIABLES
  bridges,  \* the bridge of each MAC address
  taken,    \* messages, by their place in published, that the TCP server has dealt with
  carried   \* those of which the bridge got all instructions

light == <<bridges, taken, carried>>
lightVars == <<overlapVars, light>>

Nothing == <<>>
Low(n) == n % 256

-----------------------------------------------------------------------------
(* The values sent.                                                        *)

\* Colours that SmartThings uses for white.
Whites == {"#FFFFFF", "#FDF8EC", "#EFF9FF", "#F7F8F3", "#F3F5F8"}

\* ((-(hue - 240) % 360) / 360.0 * 255.0).to_i; the bridges' dial starts at
\* blue and turns the other way.
Dial(hue) == (((240 - hue) % 360) * 255) \div 360

\* 127 becomes 0, the "smartthings workaround".
HueByte(hue) == IF Dial(hue) = 127 THEN 0 ELSE Dial(hue)

\* 0 stands for white.
ColorByte(color) ==
  IF Prefixed[color] \in Whites THEN 0 ELSE HueByte(Hue[Prefixed[color]])

BrightnessByte(number) == number \div 4 + 2

-----------------------------------------------------------------------------
(* generateCommand.                                                        *)

On    == [g \in Groups |-> <<66, 69, 71, 73, 75>>[g + 1]]
Off   == [g \in Groups |-> <<65, 70, 72, 74, 76>>[g + 1]]
White == [g \in Groups |-> <<194, 197, 199, 201, 203>>[g + 1]]
Brightness == 78
Color == 64

\* Mutant: brightness is sent without the group's on before it.
GenerateCommand_Unselected(a) ==
  IF a.group \notin Groups THEN Nothing ELSE
  CASE a.action = "power" -> << <<IF a.value = "on" THEN On[a.group] ELSE Off[a.group], 0>> >>
    [] a.action = "brightness" -> << <<Brightness, Low(BrightnessByte(Number[a.value]))>> >>
    [] OTHER -> << <<On[a.group], 0>>, <<Color, Low(ColorByte(a.value))>> >>

\* Brightness and colour go to the group that was put on last, so that comes
\* first; white has an instruction for each group.  pack('c*') keeps 8 bits.
GenerateCommand(a) ==
  IF a.group \notin Groups THEN Nothing ELSE
  CASE a.action = "power" /\ a.value = "on" -> << <<On[a.group], 0>> >>
    [] a.action = "power" /\ a.value = "off" -> << <<Off[a.group], 0>> >>
    [] a.action = "brightness" ->
         << <<On[a.group], 0>>, <<Brightness, Low(BrightnessByte(Number[a.value]))>> >>
    [] a.action = "color" /\ ColorByte(a.value) = 0 -> << <<White[a.group], 0>> >>
    [] a.action = "color" /\ ColorByte(a.value) # 0 ->
         << <<On[a.group], 0>>, <<Color, Low(ColorByte(a.value))>> >>
    [] OTHER -> Nothing

-----------------------------------------------------------------------------
(* The bridge and its bulbs.                                               *)

Zones == 1..4
Members(g) == IF g = 0 THEN Zones ELSE {g}

\* A bulb of which nobody has set anything yet.
NewBulb == [power |-> "unknown", brightness |-> -1, color |-> -1]

\* selected is the group put on last.
NewBridge == [selected |-> 0, bulbs |-> [z \in Zones |-> NewBulb]]

\* The bulbs of group g have a field set, and are on.
Lit(bridge, g, field, value) ==
  [bridge EXCEPT !.bulbs = [z \in Zones |->
     IF z \in Members(g) THEN [bridge.bulbs[z] EXCEPT ![field] = value, !["power"] = "on"]
     ELSE bridge.bulbs[z]]]

Powered(bridge, g, value) ==
  [bridge EXCEPT !.bulbs = [z \in Zones |->
     IF z \in Members(g) THEN [bridge.bulbs[z] EXCEPT !["power"] = value] ELSE bridge.bulbs[z]]]

\* The bridge carries out one instruction, and ignores what it does not know.
Obeyed(bridge, instruction) ==
  LET byte == instruction[1] IN
  CASE \E g \in Groups : byte = On[g] ->
         LET g == CHOOSE h \in Groups : byte = On[h]
         IN  [Powered(bridge, g, "on") EXCEPT !.selected = g]
    [] \E g \in Groups : byte = Off[g] -> Powered(bridge, CHOOSE h \in Groups : byte = Off[h], "off")
    [] \E g \in Groups : byte = White[g] -> Lit(bridge, CHOOSE h \in Groups : byte = White[h], "color", 0)
    [] byte = Brightness -> Lit(bridge, bridge.selected, "brightness", instruction[2])
    [] byte = Color -> Lit(bridge, bridge.selected, "color", instruction[2])
    [] OTHER -> bridge

-----------------------------------------------------------------------------
(* From Redis to the bridges.                                              *)

\* The bridge a message is for.
To(i) == Mac[hub[published[i].request]]

\* The bridge after the first n of at most two instructions.
Obeys(bridge, c, n) ==
  CASE n = 0 -> bridge
    [] n = 1 -> Obeyed(bridge, c[1])
    [] n = 2 -> Obeyed(Obeyed(bridge, c[1]), c[2])

\* The TCP server writes the next message for a bridge, or what it can of it
\* when there is no connection or the connection breaks.
Take(i) ==
  LET c == GenerateCommand(Ask[published[i].request]) IN
  /\ i \in DOMAIN published \ taken
  /\ \A j \in 1..(i - 1) : To(j) = To(i) => j \in taken
  /\ \E n \in 0..Len(c) :
       /\ n = Len(c) \/ "bridge" \in Unreliable
       /\ bridges' = [bridges EXCEPT ![To(i)] = Obeys(@, c, n)]
       /\ carried' = IF n = Len(c) THEN carried \cup {i} ELSE carried
  /\ taken' = taken \cup {i}
  /\ UNCHANGED overlapVars

LightInit ==
  /\ OverlapInit
  /\ bridges = [mac \in {Mac[h] : h \in Hub} |-> NewBridge]
  /\ taken = {} /\ carried = {}

\* A log is marked processed only after its message was written.
LightNext ==
  \/ /\ OverlapNext
     /\ processed' \subseteq processed \cup {published[i].id : i \in taken}
     /\ UNCHANGED light
  \/ \E i \in DOMAIN published : Take(i)

LightSpec == LightInit /\ [][LightNext]_lightVars

-----------------------------------------------------------------------------
(* Safety.                                                                 *)

\* A bulb shows a field of a hub's status, as far as the codec can.
Looks(bulb, field, value) ==
  CASE field = "power" -> bulb.power = value
    [] field = "brightness" -> bulb.brightness = Low(BrightnessByte(Number[value]))
    [] field = "color" -> bulb.color = ColorByte(value)

\* Fields of a bulb that a command sets, its own and that the bulb is on.
Sets(a) == {a.action, "power"}

\* Bulbs after a request, if the codec kept its meaning: those of its group show
\* what it asked for, are on unless that is off, and keep what they show else;
\* the others are as before.
Shown(before, after, a) ==
  \A z \in Zones :
    IF z \in Members(a.group)
      THEN /\ Looks(after[z], a.action, a.value)
           /\ a.action # "power" => after[z].power = "on"
           /\ \A f \in DOMAIN NewBulb \ Sets(a) : after[z][f] = before[z][f]
      ELSE after[z] = before[z]

\* Whatever a bridge was told before, for whichever group and by whichever
\* thread, and whatever of it was lost, the instructions of a message make its
\* bulbs show the request (rgbw_controller.rb:196-264).  A request that has no
\* instructions, such as one for group 44 (69), is never published.
EachCommandShows ==
  [][\A i \in carried' \ carried :
       LET a == Ask[published[i].request] IN
       /\ GenerateCommand(a) # Nothing
       /\ Shown(bridges[To(i)].bulbs, bridges'[To(i)].bulbs, a)]_lightVars

\* While every log of a hub has been published and carried out, no two of them
\* are of requests that met, and nothing else was published for its MAC address,
\* what its bulbs were ever told is what its status says (136-159), whatever
\* failed in between and was never saved.
BulbsShowStatus ==
  \A h \in Hub :
    LET saved == {r \in logged : hub[r] = h}
        sent == {i \in DOMAIN published : To(i) = Mac[h]}
        bulbs == bridges[Mac[h]].bulbs
    IN  /\ hubs[h] = "present"
        /\ \A r, s \in saved : s \notin met[r]
        /\ saved = {published[i].request : i \in sent} /\ sent \subseteq carried
        => \A z \in Zones : \A f \in DOMAIN NewBulb :
             bulbs[z][f] = NewBulb[f] \/ Looks(bulbs[z], f, status[h][z][f])

=============================================================================
