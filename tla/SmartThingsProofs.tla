--------------------------- MODULE SmartThingsProofs ---------------------------
(***************************************************************************)
(* Theorems on SmartThings, for any zones, levels, colours and platform.   *)
(***************************************************************************)
EXTENDS SmartThings, SequenceTheorems, TLAPS

(***************************************************************************)
(* Queues, as sets of what they hold.                                      *)
(***************************************************************************)

\* What is appended comes in addition.
LEMMA AppendMembers ==
  ASSUME NEW S, NEW s \in Seq(S), NEW x \in S
  PROVE  Append(s, x) \in Seq(S) /\ ToSet(Append(s, x)) = ToSet(s) \cup {x}
<1>1. /\ Append(s, x) \in Seq(S) /\ Len(Append(s, x)) = Len(s) + 1
      /\ \A i \in 1..Len(s) : Append(s, x)[i] = s[i]
      /\ Append(s, x)[Len(s) + 1] = x
  BY AppendProperties
<1>2. /\ DOMAIN s = 1..Len(s) /\ Len(s) \in Nat
      /\ DOMAIN Append(s, x) = 1..(Len(s) + 1)
  BY <1>1, LenProperties
<1>3. ToSet(Append(s, x)) \subseteq ToSet(s) \cup {x}
  BY <1>1, <1>2 DEF ToSet
<1>4. ToSet(s) \subseteq ToSet(Append(s, x)) /\ x \in ToSet(Append(s, x))
  BY <1>1, <1>2 DEF ToSet
<1> QED BY <1>1, <1>3, <1>4

\* Nothing but the element taken out can be missing afterwards.
LEMMA RemoveAtMembers ==
  ASSUME NEW S, NEW s \in Seq(S), NEW i \in DOMAIN s
  PROVE  /\ RemoveAt(s, i) \in Seq(S)
         /\ ToSet(RemoveAt(s, i)) \subseteq ToSet(s)
         /\ ToSet(s) \subseteq ToSet(RemoveAt(s, i)) \cup {s[i]}
<1> DEFINE n == Len(s)
           t == SubSeq(s, 1, i - 1)
           u == SubSeq(s, i + 1, n)
<1>1. n \in Nat /\ DOMAIN s = 1..n /\ i \in 1..n /\ \A j \in 1..n : s[j] \in S
  BY LenProperties, ElementOfSeq
<1>2. /\ t \in Seq(S) /\ Len(t) = i - 1
      /\ \A j \in 1..i - 1 : t[j] = s[j]
  <2>1. \A j \in 1..i - 1 : s[j] \in S
    BY <1>1
  <2>2. /\ t \in Seq(S) /\ Len(t) = IF 1 <= i - 1 THEN i - 1 - 1 + 1 ELSE 0
        /\ \A j \in 1..i - 1 - 1 + 1 : t[j] = s[1 + j - 1]
    BY <1>1, <2>1, SubSeqProperties
  <2> HIDE DEF t
  <2> QED BY <1>1, <2>2
<1>3. /\ u \in Seq(S) /\ Len(u) = n - i
      /\ \A j \in 1..n - i : u[j] = s[i + j]
  <2>1. \A j \in i + 1..n : s[j] \in S
    BY <1>1
  <2>2. /\ u \in Seq(S) /\ Len(u) = IF i + 1 <= n THEN n - (i + 1) + 1 ELSE 0
        /\ \A j \in 1..n - (i + 1) + 1 : u[j] = s[i + 1 + j - 1]
    BY <1>1, <2>1, SubSeqProperties
  <2> HIDE DEF u
  <2>3. ASSUME NEW j \in 1..n - i PROVE u[j] = s[i + j]
    <3>1. j \in 1..n - (i + 1) + 1 /\ i + 1 + j - 1 = i + j
      BY <1>1
    <3> QED BY <2>2, <3>1
  <2>4. Len(u) = n - i
    BY <1>1, <2>2
  <2> QED BY <2>2, <2>3, <2>4
<1>4. RemoveAt(s, i) = t \o u
  BY DEF RemoveAt
<1> HIDE DEF n, t, u
<1>5. t \o u \in Seq(S) /\ ToSet(t \o u) = ToSet(t) \cup ToSet(u)
  <2>1. Range(t \o u) = Range(t) \cup Range(u)
    BY <1>2, <1>3, RangeConcatenation
  <2>2. ToSet(t) = Range(t) /\ ToSet(u) = Range(u) /\ ToSet(t \o u) = Range(t \o u)
    BY DEF ToSet, Range
  <2> QED BY <1>2, <1>3, <2>1, <2>2, ConcatProperties
<1>6. /\ ToSet(t) = {s[j] : j \in 1..i - 1}
      /\ ToSet(u) = {s[i + j] : j \in 1..n - i}
  <2>1. DOMAIN t = 1..i - 1 /\ DOMAIN u = 1..n - i
    BY <1>2, <1>3, LenProperties
  <2> QED BY <1>2, <1>3, <2>1 DEF ToSet
<1>7. ASSUME NEW j \in 1..n, j # i PROVE s[j] \in ToSet(t) \cup ToSet(u)
  <2>1. CASE j < i
    BY <1>1, <1>6, <2>1
  <2>2. CASE j > i
    <3>1. j - i \in 1..n - i /\ i + (j - i) = j
      BY <1>1, <2>2
    <3> QED BY <1>6, <3>1
  <2> QED BY <1>1, <1>7, <2>1, <2>2
<1>8. ToSet(t) \cup ToSet(u) \subseteq ToSet(s)
  <2>1. \A j \in 1..i - 1 : j \in 1..n
    BY <1>1
  <2>2. \A j \in 1..n - i : i + j \in 1..n
    BY <1>1
  <2> QED BY <1>1, <1>6, <2>1, <2>2 DEF ToSet
<1> QED BY <1>1, <1>4, <1>5, <1>7, <1>8 DEF ToSet

\* An element that is changed is the only one that can be missing afterwards.
LEMMA ExceptMembers ==
  ASSUME NEW S, NEW s \in Seq(S), NEW i \in DOMAIN s, NEW x \in S
  PROVE  /\ [s EXCEPT ![i] = x] \in Seq(S)
         /\ ToSet([s EXCEPT ![i] = x]) \subseteq ToSet(s) \cup {x}
         /\ ToSet(s) \subseteq ToSet([s EXCEPT ![i] = x]) \cup {s[i]}
         /\ x \in ToSet([s EXCEPT ![i] = x])
<1>1. [s EXCEPT ![i] = x] \in Seq(S)
  BY ExceptSeq, LenProperties
<1> QED BY <1>1 DEF ToSet

\* Every element is of the type of the queue.
LEMMA MembersType ==
  ASSUME NEW S, NEW s \in Seq(S)
  PROVE  /\ ToSet(s) \subseteq S
         /\ \A i \in DOMAIN s : s[i] \in ToSet(s) /\ s[i] \in S
<1>1. \A i \in DOMAIN s : s[i] \in S
  BY ElementOfSeq, LenProperties
<1> QED BY <1>1 DEF ToSet

(***************************************************************************)
(* The device.                                                             *)
(***************************************************************************)

LEMMA MasterNoZone == Master \notin Zone
BY ZoneAssumption DEF Master

AttrType == [Device -> [Attr -> AnyValue \cup {Nil, "unknown"}]]

\* What commands that set name to value do to an attribute n.
Given(name, value, n) == IF n = name THEN value ELSE "on"

\* No value that is set is Nil or "unknown", or that of another attribute.
LEMMA ValuesFacts ==
  /\ \A n \in Attr : \A v \in Values(n) :
       v \in AnyValue /\ v \in AnyValue \cup {Nil, "unknown"} /\ v # Nil /\ v # "unknown"
  /\ "on" \in Values("switch") /\ "off" \in Values("switch") /\ "switch" \in Attr
  /\ \A n \in Attr : \A v \in Values(n) : \A k \in {n, "switch"} : Given(n, v, k) \in Values(k)
BY NilAssumption, ValueAssumption DEF Values, AnyValue, Attr, Given

\* The attributes after one of them was set.
Changed(a, d, n, v) == [a EXCEPT ![d][n] = v]

LEMMA ChangedValues ==
  ASSUME NEW a \in AttrType, NEW d \in Device, NEW n \in Attr, NEW v \in AnyValue \cup {Nil, "unknown"}
  PROVE  /\ Changed(a, d, n, v) \in AttrType
         /\ \A x \in Device : \A k \in Attr :
              Changed(a, d, n, v)[x][k] = IF x = d /\ k = n THEN v ELSE a[x][k]
BY DEF Changed, AttrType

\* What one sendEvent of a value does, for a value that handlers are called for.
SentTo(s, e, t) ==
  /\ t.attr = Changed(s.attr, e.dev, e.name, e.value) /\ t.attr \in AttrType
  /\ t.events \in Seq(EventType)
  /\ ToSet(s.events) \subseteq ToSet(t.events)
  /\ ToSet(t.events) \subseteq ToSet(s.events) \cup {e}
  /\ s.attr[e.dev][e.name] # e.value => e \in ToSet(t.events)

LEMMA SentEffect ==
  ASSUME NEW s, s.attr \in AttrType, s.events \in Seq(EventType),
         NEW e \in EventType,
         NEW t, t = Sent(s, e)
  PROVE  SentTo(s, e, t)
<1>1. /\ e.dev \in Device /\ e.name \in Attr /\ e.value # "unknown"
      /\ e.value \in AnyValue \cup {Nil, "unknown"}
  BY ValuesFacts DEF EventType
<1>2. Changed(s.attr, e.dev, e.name, e.value) \in AttrType
  BY <1>1, ChangedValues
<1>3. CASE s.attr[e.dev][e.name] = e.value
  <2>1. t = s
    BY <1>3 DEF Sent
  <2>2. Changed(s.attr, e.dev, e.name, e.value) = s.attr
    BY <1>1, <1>3 DEF Changed, AttrType
  <2> QED BY <1>3, <2>1, <2>2 DEF SentTo
<1>4. CASE s.attr[e.dev][e.name] # e.value
  <2>1. t.attr = Changed(s.attr, e.dev, e.name, e.value) /\ t.events = Append(s.events, e)
    BY <1>1, <1>4 DEF Sent, Changed
  <2>2. t.events \in Seq(EventType) /\ ToSet(t.events) = ToSet(s.events) \cup {e}
    BY <2>1, AppendMembers
  <2> QED BY <1>2, <1>4, <2>1, <2>2 DEF SentTo
<1> QED BY <1>3, <1>4

\* The event of a value is of the type of the queue.
LEMMA EventParts ==
  ASSUME NEW d \in Device, NEW n \in Attr, NEW v \in Values(n), NEW q \in BOOLEAN
  PROVE  LET e == Event(d, n, v, q)
         IN  e \in EventType /\ e.dev = d /\ e.name = n /\ e.value = v /\ e.sendReq = q
BY ValuesFacts DEF EventType, Event

\* What a command of a device does: its attribute and its switch are as given,
\* the others as they were, and what changed is queued.
CommandedTo(s, d, name, value, sendReq, t) ==
  /\ t.attr \in AttrType /\ t.events \in Seq(EventType)
  /\ \A x \in Device : \A n \in Attr :
       t.attr[x][n] = IF x = d /\ n \in {name, "switch"} THEN Given(name, value, n) ELSE s.attr[x][n]
  /\ ToSet(s.events) \subseteq ToSet(t.events)
  /\ \A e \in ToSet(t.events) \ ToSet(s.events) :
       \E n \in {name, "switch"} : e = Event(d, n, Given(name, value, n), sendReq)
  /\ \A n \in {name, "switch"} : s.attr[d][n] # Given(name, value, n)
       => Event(d, n, Given(name, value, n), sendReq) \in ToSet(t.events)

LEMMA CommandedEffect ==
  ASSUME NEW s, s.attr \in AttrType, s.events \in Seq(EventType),
         NEW d \in Device, NEW name \in Attr, NEW value \in Values(name), NEW sendReq \in BOOLEAN,
         NEW t, t = Commanded(s, d, name, value, sendReq)
  PROVE  CommandedTo(s, d, name, value, sendReq, t)
<1> DEFINE e == Event(d, name, value, sendReq)
           o == Event(d, "switch", "on", sendReq)
           u == Sent(s, e)
<1>1. /\ e = Event(d, name, value, sendReq) /\ o = Event(d, "switch", "on", sendReq)
      /\ u = Sent(s, e)
  OBVIOUS
<1>2. /\ e \in EventType /\ e.dev = d /\ e.name = name /\ e.value = value
      /\ o \in EventType /\ o.dev = d /\ o.name = "switch" /\ o.value = "on"
  BY ValuesFacts, EventParts
<1> HIDE DEF e, o, u
<1>3. SentTo(s, e, u)
  BY <1>1, <1>2, SentEffect
<1>4. Given(name, value, name) = value
  BY DEF Given
<1>5. \A x \in Device : \A n \in Attr :
        u.attr[x][n] = IF x = d /\ n = name THEN value ELSE s.attr[x][n]
  <2>1. value \in AnyValue \cup {Nil, "unknown"} /\ u.attr = Changed(s.attr, d, name, value)
    BY <1>2, <1>3, ValuesFacts DEF SentTo
  <2> QED BY <2>1, ChangedValues
<1>6. CASE name = "switch"
  <2>1. t = u
    BY <1>1, <1>6 DEF Commanded
  <2> QED BY <1>1, <1>2, <1>3, <1>4, <1>5, <1>6, <2>1 DEF SentTo, CommandedTo
<1>7. CASE name # "switch"
  <2>1. t = Sent(u, o)
    BY <1>1, <1>7 DEF Commanded
  <2>2. "on" \in Values("switch") /\ "switch" \in Attr /\ Given(name, value, "switch") = "on"
    BY <1>7, ValuesFacts DEF Given
  <2>3. SentTo(u, o, t)
    <3>1. u.attr \in AttrType /\ u.events \in Seq(EventType)
      BY <1>3 DEF SentTo
    <3> QED BY <1>2, <2>1, <3>1, SentEffect
  <2>4. \A x \in Device : \A n \in Attr :
          t.attr[x][n] = IF x = d /\ n = "switch" THEN "on" ELSE u.attr[x][n]
    <3>1. "on" \in AnyValue \cup {Nil, "unknown"} /\ t.attr = Changed(u.attr, d, "switch", "on")
      BY <1>2, <2>2, <2>3, ValuesFacts DEF SentTo
    <3>2. u.attr \in AttrType
      BY <1>3 DEF SentTo
    <3> QED BY <2>2, <3>1, <3>2, ChangedValues
  <2>5. u.attr[d]["switch"] = s.attr[d]["switch"]
    BY <1>5, <1>7, <2>2
  <2>6. \A x \in Device : \A n \in Attr :
          t.attr[x][n] = IF x = d /\ n \in {name, "switch"} THEN Given(name, value, n) ELSE s.attr[x][n]
    BY <1>4, <1>5, <1>7, <2>2, <2>4
  <2>7. /\ ToSet(s.events) \subseteq ToSet(t.events)
        /\ ToSet(t.events) \subseteq ToSet(s.events) \cup {e, o}
        /\ s.attr[d][name] # value => e \in ToSet(t.events)
        /\ s.attr[d]["switch"] # "on" => o \in ToSet(t.events)
    BY <1>2, <1>3, <2>3, <2>5 DEF SentTo
  <2>8. t.attr \in AttrType /\ t.events \in Seq(EventType)
    BY <2>3 DEF SentTo
  <2>9. \A x \in ToSet(t.events) \ ToSet(s.events) :
          \E n \in {name, "switch"} : x = Event(d, n, Given(name, value, n), sendReq)
    BY <1>1, <1>4, <2>2, <2>7
  <2>10. \A n \in {name, "switch"} : s.attr[d][n] # Given(name, value, n)
           => Event(d, n, Given(name, value, n), sendReq) \in ToSet(t.events)
    BY <1>1, <1>4, <2>2, <2>7
  <2> QED BY <2>6, <2>7, <2>8, <2>9, <2>10 DEF CommandedTo
<1> QED BY <1>6, <1>7

\* unknown() sets the master's switch, and no handler is called.
LEMMA UnknownEffect ==
  ASSUME NEW s, s.attr \in AttrType,
         NEW t, t = Unknown(s)
  PROVE  /\ t.attr \in AttrType /\ t.events = s.events
         /\ \A x \in Device : \A n \in Attr :
              t.attr[x][n] = IF x = Master /\ n = "switch" THEN "unknown" ELSE s.attr[x][n]
<1>1. Master \in Device /\ "switch" \in Attr
  BY DEF Device, Attr
<1>2. CASE s.attr[Master]["switch"] = "unknown"
  <2>1. t = s
    BY <1>2 DEF Unknown, Sent, Event
  <2> QED BY <1>1, <1>2, <2>1
<1>3. CASE s.attr[Master]["switch"] # "unknown"
  <2>1. t.attr = [s.attr EXCEPT ![Master]["switch"] = "unknown"] /\ t.events = s.events
    BY <1>3 DEF Unknown, Sent, Event
  <2> QED BY <1>1, <2>1 DEF AttrType
<1> QED BY <1>2, <1>3

(***************************************************************************)
(* Type correctness.                                                       *)
(***************************************************************************)

ToldType == [Zone -> [Attr -> AnyValue \cup {Nil}]]

\* What a request does to what the API was last asked for.
RequestedTo(e) ==
  /\ told' \in ToldType
  /\ \A z \in Zone : \A n \in Attr :
       told'[z][n] = IF z \in Addressed(e.dev) /\ n \in {e.name, "switch"}
                     THEN Given(e.name, e.value, n) ELSE told[z][n]

LEMMA RequestsEffect ==
  ASSUME told \in ToldType, NEW e \in EventType, Requests(e)
  PROVE  RequestedTo(e)
<1>1. /\ e.name \in Attr /\ e.value \in Values(e.name) /\ e.value \in AnyValue
      /\ "on" \in AnyValue /\ "switch" \in Attr
  BY ValuesFacts DEF EventType
<1>2. ASSUME NEW z \in Zone
      PROVE  /\ told'[z] \in [Attr -> AnyValue \cup {Nil}]
             /\ \A n \in Attr :
                  told'[z][n] = IF z \in Addressed(e.dev) /\ n \in {e.name, "switch"}
                                THEN Given(e.name, e.value, n) ELSE told[z][n]
  <2>1. told'[z] = IF z \notin Addressed(e.dev) THEN told[z]
                   ELSE IF e.name = "switch" THEN [told[z] EXCEPT !["switch"] = e.value]
                   ELSE [told[z] EXCEPT ![e.name] = e.value, !["switch"] = "on"]
    BY DEF Requests
  <2>2. told[z] \in [Attr -> AnyValue \cup {Nil}]
    BY DEF ToldType
  <2>3. CASE z \notin Addressed(e.dev)
    BY <2>1, <2>2, <2>3
  <2>4. CASE z \in Addressed(e.dev) /\ e.name = "switch"
    BY <1>1, <2>1, <2>2, <2>4 DEF Given
  <2>5. CASE z \in Addressed(e.dev) /\ e.name # "switch"
    BY <1>1, <2>1, <2>2, <2>5 DEF Given
  <2> QED BY <2>3, <2>4, <2>5
<1>3. told' = [z \in Zone |-> told'[z]]
  BY DEF Requests
<1>4. told' \in ToldType
  BY <1>2, <1>3 DEF ToldType
<1> QED BY <1>2, <1>4 DEF RequestedTo

\* The values of the attributes, and of what was told.
AttrOK ==
  \A d \in Device : \A n \in Attr :
    \/ attr[d][n] \in Values(n) \cup {Nil}
    \/ attr[d][n] = "unknown" /\ d = Master /\ n = "switch"
ToldOK == \A z \in Zone : \A n \in Attr : told[z][n] \in Values(n) \cup {Nil}

\* The types of the variables that a handler changes.
TypeParts ==
  /\ attr \in AttrType /\ AttrOK
  /\ events \in Seq(EventType) /\ running \in Seq(HandlerType)
  /\ told \in ToldType /\ ToldOK

LEMMA TypeOKParts == TypeOK <=> TypeParts /\ last \in Command \cup {Nil} /\ hurried \in 0..MaxHurried
BY DEF TypeOK, TypeParts, AttrType, AttrOK, ToldType, ToldOK

LEMMA CommandedType ==
  ASSUME AttrOK, attr \in AttrType,
         NEW s, s.attr = attr, s.events \in Seq(EventType),
         NEW d \in Device, NEW name \in Attr, NEW value \in Values(name), NEW sendReq \in BOOLEAN,
         Becomes(Commanded(s, d, name, value, sendReq))
  PROVE  attr' \in AttrType /\ AttrOK' /\ events' \in Seq(EventType)
<1> DEFINE t == Commanded(s, d, name, value, sendReq)
<1>1. t = Commanded(s, d, name, value, sendReq) /\ attr' = t.attr /\ events' = t.events
  BY DEF Becomes
<1> HIDE DEF t
<1>2. CommandedTo(s, d, name, value, sendReq, t)
  BY <1>1, CommandedEffect
<1>3. \A x \in Device : \A n \in Attr :
        attr'[x][n] = IF x = d /\ n \in {name, "switch"} THEN Given(name, value, n) ELSE attr[x][n]
  BY <1>1, <1>2 DEF CommandedTo
<1>4. \A n \in Attr : n \in {name, "switch"} => Given(name, value, n) \in Values(n)
  BY ValuesFacts
<1>5. AttrOK'
  BY <1>3, <1>4 DEF AttrOK
<1> QED BY <1>1, <1>2, <1>5 DEF CommandedTo

LEMMA RequestedType ==
  ASSUME ToldOK, NEW e \in EventType, RequestedTo(e)
  PROVE  told' \in ToldType /\ ToldOK'
<1>1. \A n \in Attr : n \in {e.name, "switch"} => Given(e.name, e.value, n) \in Values(n)
  BY ValuesFacts DEF EventType
<1>2. \A z \in Zone : \A n \in Attr :
        told'[z][n] = IF z \in Addressed(e.dev) /\ n \in {e.name, "switch"}
                      THEN Given(e.name, e.value, n) ELSE told[z][n]
  BY DEF RequestedTo
<1>3. ToldOK'
  BY <1>1, <1>2 DEF ToldOK
<1> QED BY <1>3 DEF RequestedTo

LEMMA HandlerParts ==
  ASSUME NEW e \in EventType, NEW left \in SUBSET Device,
         e.dev \in Zone => e.sendReq /\ left = {}
  PROVE  /\ Handler(e, left) \in HandlerType
         /\ Handler(e, left).evt = e /\ Handler(e, left).left = left
BY DEF Handler, HandlerType

\* The set forms of the three ways in which the queues change.
LEMMA BeginsEffect ==
  ASSUME TypeParts, NEW i \in DOMAIN events, NEW left, Begins(i, left),
         Handler(events[i], left) \in HandlerType
  PROVE  /\ running' \in Seq(HandlerType)
         /\ ToSet(running') = ToSet(running) \cup {Handler(events[i], left)}
<1>1. running' = Append(running, Handler(events[i], left))
  BY DEF Begins, Handler
<1> QED BY <1>1, AppendMembers DEF TypeParts

LEMMA EndsEffect ==
  ASSUME TypeParts, NEW i \in DOMAIN running, Ends(i)
  PROVE  /\ running' \in Seq(HandlerType)
         /\ ToSet(running') \subseteq ToSet(running)
         /\ ToSet(running) \subseteq ToSet(running') \cup {running[i]}
BY RemoveAtMembers DEF TypeParts, Ends

LEMMA FollowEffect ==
  ASSUME TypeParts, NEW i \in DOMAIN running, NEW d \in Device, FollowMaster(i, d)
  PROVE  LET r == Handler(running[i].evt, running[i].left \ {d})
         IN  /\ r \in HandlerType /\ running[i].evt \in EventType /\ running[i].evt.dev = Master
             /\ running' \in Seq(HandlerType)
             /\ ToSet(running') \subseteq ToSet(running) \cup {r}
             /\ ToSet(running) \subseteq ToSet(running') \cup {running[i]}
             /\ r \in ToSet(running')
<1> DEFINE r == Handler(running[i].evt, running[i].left \ {d})
<1>1. running[i] \in HandlerType /\ running \in Seq(HandlerType)
  BY MembersType DEF TypeParts
<1>2. running[i].evt \in EventType /\ running[i].left \in SUBSET Device /\ running[i].evt.dev \notin Zone
  BY <1>1 DEF HandlerType, FollowMaster
<1>3. running[i].evt.dev = Master
  BY <1>2 DEF EventType, Device
<1>4. r \in HandlerType
  BY <1>2, HandlerParts
<1>5. running' = [running EXCEPT ![i] = r]
  BY DEF FollowMaster
<1> HIDE DEF r
<1>6. /\ running' \in Seq(HandlerType)
      /\ ToSet(running') \subseteq ToSet(running) \cup {r}
      /\ ToSet(running) \subseteq ToSet(running') \cup {running[i]}
      /\ r \in ToSet(running')
  BY <1>1, <1>4, <1>5, ExceptMembers
<1> QED BY <1>2, <1>3, <1>4, <1>6 DEF r

\* Every action keeps the types.
LEMMA TypeStep ==
  ASSUME TypeOK, [Next]_vars
  PROVE  TypeOK'
<1>1. TypeParts /\ last \in Command \cup {Nil} /\ hurried \in 0..MaxHurried
  BY TypeOKParts
<1>2. ASSUME NEW i \in DOMAIN events PROVE events[i] \in EventType /\ events \in Seq(EventType)
  BY <1>1, MembersType DEF TypeParts
<1>3. ASSUME NEW i \in DOMAIN events
      PROVE  RemoveAt(events, i) \in Seq(EventType)
  BY <1>2, RemoveAtMembers
<1>4. ASSUME NEW i \in DOMAIN running PROVE running[i] \in HandlerType /\ running[i].evt \in EventType
  BY <1>1, MembersType DEF TypeParts, HandlerType
<1>5. ASSUME NEW i \in DOMAIN events, BeginMaster(i) PROVE TypeParts' /\ UNCHANGED <<last, hurried>>
  <2>1. PICK left \in Followers(events[i]) : Begins(i, left)
    BY <1>5 DEF BeginMaster
  <2>2. left \in SUBSET Device /\ events[i].dev \notin Zone
    BY <1>5, MasterNoZone DEF Followers, Device, BeginMaster
  <2>3. Handler(events[i], left) \in HandlerType
    BY <1>2, <2>2, HandlerParts
  <2>4. running' \in Seq(HandlerType)
    BY <1>1, <2>1, <2>3, BeginsEffect
  <2>5. told' \in ToldType /\ ToldOK'
    BY <1>1, <1>2, <1>5, RequestsEffect, RequestedType DEF BeginMaster, TypeParts
  <2> QED BY <1>1, <1>3, <1>5, <2>1, <2>4, <2>5 DEF TypeParts, BeginMaster, Begins, AttrOK
<1>6. ASSUME NEW i \in DOMAIN events, BeginZone(i) PROVE TypeParts' /\ UNCHANGED <<last, hurried>>
  <2> DEFINE rest == [attr |-> attr, events |-> RemoveAt(events, i)]
  <2>1. rest.attr = attr /\ rest.events = RemoveAt(events, i) /\ rest.events \in Seq(EventType)
    BY <1>3
  <2>2. CASE Asked(events[i]) /\ Begins(i, {}) /\ Becomes(Unknown(rest))
    <3>1. Handler(events[i], {}) \in HandlerType
      BY <1>2, <2>2, HandlerParts DEF Asked
    <3>2. running' \in Seq(HandlerType)
      BY <1>1, <2>2, <3>1, BeginsEffect
    <3> DEFINE t == Unknown(rest)
    <3>3. t = Unknown(rest) /\ attr' = t.attr /\ events' = t.events
      BY <2>2 DEF Becomes
    <3> HIDE DEF t, rest
    <3>4. /\ t.attr \in AttrType /\ t.events = rest.events
          /\ \A x \in Device : \A n \in Attr :
               t.attr[x][n] = IF x = Master /\ n = "switch" THEN "unknown" ELSE rest.attr[x][n]
      BY <1>1, <2>1, <3>3, UnknownEffect DEF TypeParts
    <3>5. AttrOK'
      BY <1>1, <2>1, <3>3, <3>4 DEF TypeParts, AttrOK
    <3> QED BY <1>1, <1>6, <2>1, <2>2, <3>2, <3>3, <3>4, <3>5 DEF TypeParts, BeginZone, Begins, ToldOK
  <2>3. CASE Becomes(rest) /\ UNCHANGED <<running, last, hurried>>
    <3>1. attr' = attr /\ events' = RemoveAt(events, i) /\ told' = told
      BY <1>6, <2>3 DEF Becomes, BeginZone
    <3> QED BY <1>1, <1>3, <2>3, <3>1 DEF TypeParts, AttrOK, ToldOK
  <2> HIDE DEF rest
  <2> QED BY <1>6, <2>2, <2>3 DEF BeginZone, rest
<1>7. ASSUME NEW i \in DOMAIN running, NEW d \in Device, FollowMaster(i, d)
      PROVE  TypeParts' /\ UNCHANGED <<last, hurried>>
  <2> DEFINE s == [attr |-> attr, events |-> events]
             e == running[i].evt
  <2>1. e.name \in Attr /\ e.value \in Values(e.name)
    BY <1>4 DEF EventType
  <2>2. s.attr = attr /\ s.events = events
    OBVIOUS
  <2>3. Becomes(Commanded(s, d, e.name, e.value, FALSE)) /\ UNCHANGED <<told, last, hurried>>
    BY <1>7 DEF FollowMaster
  <2> HIDE DEF s, e
  <2>4. attr' \in AttrType /\ AttrOK' /\ events' \in Seq(EventType)
    BY <1>1, <2>1, <2>2, <2>3, CommandedType DEF TypeParts
  <2>5. running' \in Seq(HandlerType)
    BY <1>1, <1>7, FollowEffect
  <2> QED BY <1>1, <2>3, <2>4, <2>5 DEF TypeParts, ToldOK
<1>8. ASSUME NEW i \in DOMAIN running, EndMaster(i) PROVE TypeParts' /\ UNCHANGED <<last, hurried>>
  <2>1. running' \in Seq(HandlerType)
    BY <1>1, <1>8, EndsEffect DEF EndMaster
  <2> QED BY <1>1, <1>8, <2>1 DEF TypeParts, EndMaster, Ends, AttrOK, ToldOK
<1>9. ASSUME NEW i \in DOMAIN running, EndZone(i) PROVE TypeParts' /\ UNCHANGED <<last, hurried>>
  <2>1. running' \in Seq(HandlerType)
    BY <1>1, <1>9, EndsEffect DEF EndZone
  <2>2. told' \in ToldType /\ ToldOK'
    BY <1>1, <1>4, <1>9, RequestsEffect, RequestedType DEF EndZone, TypeParts
  <2> QED BY <1>1, <1>9, <2>1, <2>2 DEF TypeParts, EndZone, Ends, AttrOK
<1>10. ASSUME NEW c \in Command, Commands(c)
       PROVE  TypeParts' /\ last' \in Command /\ hurried' \in 0..MaxHurried
  <2> DEFINE s == [attr |-> attr, events |-> events]
  <2>1. c.dev \in Device /\ c.name \in Attr /\ c.value \in Values(c.name)
    BY UserAssumption DEF Command
  <2>2. s.attr = attr /\ s.events = events
    OBVIOUS
  <2>3. Becomes(Commanded(s, c.dev, c.name, c.value, TRUE)) /\ UNCHANGED <<running, told>>
    BY <1>10 DEF Commands
  <2>4. last' \in Command /\ hurried' \in 0..MaxHurried
    BY <1>1, <1>10, UserAssumption DEF Commands
  <2> HIDE DEF s
  <2>5. attr' \in AttrType /\ AttrOK' /\ events' \in Seq(EventType)
    BY <1>1, <2>1, <2>2, <2>3, CommandedType DEF TypeParts
  <2> QED BY <1>1, <2>3, <2>4, <2>5 DEF TypeParts, ToldOK
<1>11. CASE UNCHANGED vars
  BY <1>11 DEF vars, TypeOK, Command, Quiet
<1>12. TypeOK' <=> TypeParts' /\ last' \in Command \cup {Nil} /\ hurried' \in 0..MaxHurried
  BY DEF TypeOK, TypeParts, AttrType, AttrOK, ToldType, ToldOK
<1> QED BY <1>1, <1>5, <1>6, <1>7, <1>8, <1>9, <1>10, <1>11, <1>12 DEF Next, Handlers

LEMMA TypeInit == ASSUME Init PROVE TypeOK
<1>1. /\ attr \in AttrType /\ told \in ToldType
      /\ events \in Seq(EventType) /\ running \in Seq(HandlerType) /\ hurried \in 0..MaxHurried
  BY UserAssumption, EmptySeq DEF Init, AttrType, ToldType
<1>2. AttrOK /\ ToldOK
  BY DEF Init, AttrOK, ToldOK
<1> QED BY <1>1, <1>2, TypeOKParts DEF Init, TypeParts

\* TypeOK of the runs, for any user: in particular a zone's handler never works
\* on an event that another device's handler caused, the switch of no zone
\* becomes unknown (mithings.groovy:184-236).
THEOREM SpecTypeOK == Spec => []TypeOK
<1>1. Init => TypeOK
  BY TypeInit
<1>2. TypeOK /\ [Next]_vars => TypeOK'
  BY TypeStep
<1> QED BY <1>1, <1>2, PTL DEF Spec

(***************************************************************************)
(* A user who waits: what one command sets off.  Nothing but the last      *)
(* command's values is under way, so the handlers agree with each other in *)
(* whatever order they run, and what a device shows differs from what the  *)
(* API was asked for only while an event or a handler is to make it equal. *)
(***************************************************************************)

InFlight == ToSet(events) \cup {r.evt : r \in ToSet(running)}

\* The attributes that a command, or the handler of an event, sets.
Sets(e) == {e.name, "switch"}

\* What everything under way sets an attribute to.
Target(n) == Given(last.name, last.value, n)

\* The zone is still to be given n by a handler of the master.
MasterPending(z, n) ==
  \/ \E e \in ToSet(events) : e.dev = Master /\ n \in Sets(e)
  \/ \E r \in ToSet(running) : r.evt.dev = Master /\ z \in r.left /\ n \in Sets(r.evt)

\* The API is still to be asked for n by a handler of the zone.
ZonePending(z, n) == \E e \in InFlight : e.dev = z /\ e.sendReq /\ e.name = n

StemsFromLast ==
  \A e \in InFlight :
    /\ last # Nil /\ e.name \in Sets(last) /\ e.value = Target(e.name)
    /\ e.dev = Master \/ e.sendReq => e.dev = last.dev

LastShown == last # Nil => \A n \in Sets(last) : attr[last.dev][n] = Target(n)

AskedFirst ==
  \A r \in ToSet(running) : r.evt.dev = Master =>
    \A z \in Zone : \A n \in Sets(r.evt) : told[z][n] = Target(n)

ShownOrPending ==
  \A z \in Zone : \A n \in Attr :
    attr[z][n] = told[z][n] \/ MasterPending(z, n) \/ ZonePending(z, n)

MasterOrPending ==
  attr[Master]["switch"] \in {"on", "off"} =>
    \A z \in Zone :
      \/ attr[z]["switch"] = attr[Master]["switch"]
      \/ MasterPending(z, "switch")
      \/ \E e \in ToSet(events) : e.dev \in Zone /\ e.sendReq

CascadeInv ==
  /\ TypeOK
  /\ StemsFromLast /\ LastShown /\ AskedFirst /\ ShownOrPending /\ MasterOrPending

\* What is under way sets what the last command set, to the same values.
LEMMA GivenTarget ==
  ASSUME StemsFromLast, NEW e \in InFlight
  PROVE  \A n \in Sets(e) : n \in Sets(last) /\ Given(e.name, e.value, n) = Target(n)
BY DEF StemsFromLast, Sets, Target, Given

LEMMA FlightTypes ==
  ASSUME TypeOK
  PROVE  /\ ToSet(events) \subseteq EventType /\ ToSet(running) \subseteq HandlerType
         /\ InFlight \subseteq EventType
         /\ \A i \in DOMAIN events : events[i] \in ToSet(events) /\ events[i] \in InFlight
         /\ \A i \in DOMAIN running : running[i] \in ToSet(running) /\ running[i].evt \in InFlight
<1>1. events \in Seq(EventType) /\ running \in Seq(HandlerType)
  BY DEF TypeOK
<1>2. /\ ToSet(events) \subseteq EventType /\ ToSet(running) \subseteq HandlerType
      /\ \A i \in DOMAIN events : events[i] \in ToSet(events)
      /\ \A i \in DOMAIN running : running[i] \in ToSet(running)
  BY <1>1, MembersType
<1> QED BY <1>2 DEF InFlight, HandlerType

LEMMA CascadeBeginMaster ==
  ASSUME CascadeInv, NEW i \in DOMAIN events, BeginMaster(i), TypeOK'
  PROVE  CascadeInv'
<1> DEFINE e == events[i]
<1>1. /\ e \in EventType /\ e \in ToSet(events) /\ e \in InFlight /\ e.dev = Master
      /\ e = events[i]
  BY FlightTypes DEF CascadeInv, BeginMaster
<1> HIDE DEF e
<1>2. PICK left \in Followers(e) : Begins(i, left)
  BY <1>1 DEF BeginMaster
<1> DEFINE h == Handler(e, left)
<1>3. Zone \subseteq left /\ h \in HandlerType /\ h.evt = e /\ h.left = left
  <2>1. Zone \subseteq left /\ left \in SUBSET Device
    BY DEF Followers, Device
  <2> QED BY <1>1, <2>1, HandlerParts, MasterNoZone
<1>4. ToSet(running') = ToSet(running) \cup {h}
  BY <1>1, <1>2, <1>3, TypeOKParts, BeginsEffect DEF CascadeInv
<1>5. ToSet(events') \subseteq ToSet(events) /\ ToSet(events) \subseteq ToSet(events') \cup {e}
  BY <1>1, RemoveAtMembers DEF CascadeInv, TypeOK, BeginMaster
<1>6. attr' = attr /\ last' = last /\ RequestedTo(e)
  BY <1>1, <1>2, TypeOKParts, RequestsEffect DEF BeginMaster, Begins, CascadeInv, TypeParts
<1> HIDE DEF h
<1>7. InFlight' \subseteq InFlight /\ InFlight \subseteq InFlight'
  BY <1>1, <1>3, <1>4, <1>5 DEF InFlight
<1>8. \A n \in Sets(e) : n \in Sets(last) /\ Given(e.name, e.value, n) = Target(n)
  BY <1>1, GivenTarget DEF CascadeInv
<1>9. \A z \in Zone : \A n \in Attr :
        told'[z][n] = IF n \in Sets(e) THEN Target(n) ELSE told[z][n]
  BY <1>1, <1>6, <1>8 DEF RequestedTo, Addressed, Sets
<1>10. \A z \in Zone : \A n \in Sets(e) : MasterPending(z, n)'
  BY <1>1, <1>3, <1>4 DEF MasterPending
<1>11. \A z \in Zone : \A n \in Attr \ Sets(e) :
         /\ MasterPending(z, n) => MasterPending(z, n)'
         /\ ZonePending(z, n) => ZonePending(z, n)'
  BY <1>4, <1>5, <1>7 DEF MasterPending, ZonePending
<1>12. StemsFromLast' /\ LastShown'
  BY <1>6, <1>7 DEF CascadeInv, StemsFromLast, LastShown, Target
<1>13. AskedFirst'
  <2>1. ASSUME NEW r \in ToSet(running'), r.evt.dev = Master, NEW z \in Zone, NEW n \in Sets(r.evt)
        PROVE  told'[z][n] = Target(n)
    <3>1. n \in Attr
      BY <1>1, <1>3, <1>4, FlightTypes DEF CascadeInv, HandlerType, EventType, Sets, Attr
    <3> QED BY <1>3, <1>4, <1>9, <2>1, <3>1 DEF CascadeInv, AskedFirst
  <2> QED BY <1>6, <2>1 DEF AskedFirst, Target
<1>14. ShownOrPending'
  BY <1>6, <1>9, <1>10, <1>11 DEF CascadeInv, ShownOrPending
<1>15. MasterOrPending'
  BY <1>10 DEF MasterOrPending, Sets
<1> QED BY <1>12, <1>13, <1>14, <1>15 DEF CascadeInv

LEMMA CascadeBeginZone ==
  ASSUME CascadeInv, NEW i \in DOMAIN events, BeginZone(i), TypeOK'
  PROVE  CascadeInv'
<1> DEFINE e == events[i]
           rest == [attr |-> attr, events |-> RemoveAt(events, i)]
<1>1. /\ e \in EventType /\ e \in ToSet(events) /\ e \in InFlight /\ e.dev \in Zone /\ e.dev # Master
      /\ e = events[i] /\ told' = told
      /\ rest.attr = attr /\ rest.events = RemoveAt(events, i)
  BY FlightTypes, MasterNoZone DEF CascadeInv, BeginZone
<1>2. \/ Asked(e) /\ Begins(i, {}) /\ Becomes(Unknown(rest))
      \/ ~Asked(e) /\ Becomes(rest) /\ UNCHANGED <<running, last, hurried>>
  BY DEF BeginZone
<1> HIDE DEF e, rest
<1>3. /\ ToSet(RemoveAt(events, i)) \subseteq ToSet(events)
      /\ ToSet(events) \subseteq ToSet(RemoveAt(events, i)) \cup {e}
  BY <1>1, RemoveAtMembers DEF CascadeInv, TypeOK
<1>4. CASE Asked(e) /\ Begins(i, {}) /\ Becomes(Unknown(rest))
  <2> DEFINE h == Handler(e, {})
             t == Unknown(rest)
  <2>1. e.sendReq /\ e.dev = last.dev
    BY <1>1, <1>4 DEF Asked, CascadeInv, StemsFromLast
  <2>2. h \in HandlerType /\ h.evt = e /\ h.left = {}
    BY <1>1, <2>1, HandlerParts
  <2>3. ToSet(running') = ToSet(running) \cup {h}
    BY <1>1, <1>4, <2>2, TypeOKParts, BeginsEffect DEF CascadeInv
  <2>4. t = Unknown(rest) /\ attr' = t.attr /\ events' = t.events /\ last' = last
    BY <1>4 DEF Becomes, Begins
  <2> HIDE DEF h, t
  <2>5. /\ events' = RemoveAt(events, i)
        /\ \A x \in Device : \A n \in Attr :
             attr'[x][n] = IF x = Master /\ n = "switch" THEN "unknown" ELSE attr[x][n]
    BY <1>1, <2>4, UnknownEffect, TypeOKParts DEF CascadeInv, TypeParts
  <2>6. ToSet(events') \subseteq ToSet(events) /\ ToSet(events) \subseteq ToSet(events') \cup {e}
    BY <1>3, <2>5
  <2>7. InFlight' \subseteq InFlight /\ InFlight \subseteq InFlight'
    BY <1>1, <2>2, <2>3, <2>6 DEF InFlight
  <2>8. StemsFromLast'
    BY <2>4, <2>7 DEF CascadeInv, StemsFromLast, Target
  <2>9. LastShown'
    <3>1. \A n \in Sets(last) : last # Nil => n \in Attr /\ last.dev \in Device
      BY <1>1, <2>1 DEF CascadeInv, TypeOK, Command, Sets, Attr, Device
    <3> QED BY <1>1, <2>1, <2>4, <2>5, <3>1 DEF CascadeInv, LastShown, Target
  <2>10. AskedFirst'
    BY <1>1, <2>2, <2>3, <2>4 DEF CascadeInv, AskedFirst, Target
  <2>11. \A z \in Zone : \A n \in Attr :
           /\ MasterPending(z, n) => MasterPending(z, n)'
           /\ ZonePending(z, n) => ZonePending(z, n)'
    BY <1>1, <2>3, <2>6, <2>7 DEF MasterPending, ZonePending
  <2>12. ShownOrPending'
    BY <1>1, <2>5, <2>11, MasterNoZone DEF CascadeInv, ShownOrPending, Device
  <2>13. MasterOrPending'
    BY <2>5 DEF MasterOrPending, Device, Attr
  <2> QED BY <2>8, <2>9, <2>10, <2>12, <2>13 DEF CascadeInv
<1>5. CASE ~Asked(e) /\ Becomes(rest) /\ UNCHANGED <<running, last, hurried>>
  <2>1. /\ attr' = attr /\ last' = last /\ running' = running /\ ~e.sendReq
        /\ events' = RemoveAt(events, i)
    BY <1>1, <1>5 DEF Becomes, Asked
  <2>2. ToSet(events') \subseteq ToSet(events) /\ ToSet(events) \subseteq ToSet(events') \cup {e}
    BY <1>3, <2>1
  <2>3. InFlight' \subseteq InFlight /\ InFlight \subseteq InFlight' \cup {e}
    BY <2>1, <2>2 DEF InFlight
  <2>4. StemsFromLast' /\ LastShown' /\ AskedFirst'
    BY <1>1, <2>1, <2>3 DEF CascadeInv, StemsFromLast, LastShown, AskedFirst, Target
  <2>5. \A z \in Zone : \A n \in Attr \cup {"switch"} :
          /\ MasterPending(z, n) => MasterPending(z, n)'
          /\ ZonePending(z, n) => ZonePending(z, n)'
    BY <1>1, <2>1, <2>2, <2>3 DEF MasterPending, ZonePending
  <2>6. ShownOrPending'
    BY <1>1, <2>1, <2>5 DEF CascadeInv, ShownOrPending
  <2>7. MasterOrPending'
    BY <1>1, <2>1, <2>2, <2>5 DEF CascadeInv, MasterOrPending
  <2> QED BY <2>4, <2>6, <2>7 DEF CascadeInv
<1> QED BY <1>2, <1>4, <1>5

LEMMA CascadeFollowMaster ==
  ASSUME CascadeInv, NEW i \in DOMAIN running, NEW d \in Device, FollowMaster(i, d), TypeOK'
  PROVE  CascadeInv'
<1> DEFINE e == running[i].evt
           r == Handler(e, running[i].left \ {d})
           s == [attr |-> attr, events |-> events]
           t == Commanded(s, d, e.name, e.value, FALSE)
<1>1. /\ running[i] \in ToSet(running) /\ e \in InFlight /\ e \in EventType
      /\ running[i].left \in SUBSET Device /\ e = running[i].evt
  BY FlightTypes DEF CascadeInv, HandlerType
<1>2. /\ e.dev = Master /\ r \in HandlerType
      /\ ToSet(running') \subseteq ToSet(running) \cup {r}
      /\ ToSet(running) \subseteq ToSet(running') \cup {running[i]}
      /\ r \in ToSet(running')
  BY TypeOKParts, FollowEffect DEF CascadeInv
<1>3. r.evt = e /\ r.left = running[i].left \ {d}
  BY <1>1, <1>2, HandlerParts, MasterNoZone
<1>4. /\ s.attr = attr /\ s.events = events /\ t = Commanded(s, d, e.name, e.value, FALSE)
      /\ attr' = t.attr /\ events' = t.events /\ UNCHANGED <<told, last>>
  BY DEF FollowMaster, Becomes
<1> HIDE DEF e, r, s, t
<1>5. e.name \in Attr /\ e.value \in Values(e.name)
  BY <1>1 DEF EventType
<1>6. CommandedTo(s, d, e.name, e.value, FALSE, t)
  BY <1>4, <1>5, CommandedEffect, TypeOKParts DEF CascadeInv, TypeParts
<1>7. \A n \in Sets(e) : n \in Attr /\ n \in Sets(last) /\ Given(e.name, e.value, n) = Target(n)
  BY <1>1, <1>5, GivenTarget DEF CascadeInv, Sets, Attr
<1>8. /\ \A x \in Device : \A n \in Attr :
           attr'[x][n] = IF x = d /\ n \in Sets(e) THEN Target(n) ELSE attr[x][n]
      /\ ToSet(events) \subseteq ToSet(events')
      /\ \A x \in ToSet(events') \ ToSet(events) :
           \E n \in Sets(e) : x = Event(d, n, Target(n), FALSE)
  BY <1>4, <1>6, <1>7 DEF CommandedTo, Sets
<1>9. last # Nil /\ last.dev = Master /\ Master \in Device /\ "switch" \in Attr /\ "switch" \in Sets(e)
  BY <1>1, <1>2 DEF CascadeInv, StemsFromLast, Device, Attr, Sets
<1>10. InFlight \subseteq InFlight'
  BY <1>1, <1>2, <1>3, <1>8 DEF InFlight
<1>11. \A x \in InFlight' \ InFlight : x \in ToSet(events') \ ToSet(events)
  BY <1>1, <1>2, <1>3 DEF InFlight
<1>12. StemsFromLast'
  <2>1. ASSUME NEW x \in InFlight', x \notin InFlight
        PROVE  /\ x.name \in Sets(last) /\ x.value = Target(x.name)
               /\ x.dev = Master \/ x.sendReq => x.dev = last.dev
    <3>1. PICK n \in Sets(e) : x = Event(d, n, Target(n), FALSE)
      BY <1>8, <1>11, <2>1
    <3> QED BY <1>7, <1>9, <3>1 DEF Event
  <2> QED BY <1>4, <1>9, <2>1 DEF CascadeInv, StemsFromLast, Target
<1>13. LastShown'
  <2>1. \A n \in Sets(last) : n \in Attr
    BY <1>9 DEF CascadeInv, TypeOK, Command, Sets, Attr
  <2> QED BY <1>4, <1>8, <1>9, <2>1 DEF CascadeInv, LastShown, Target
<1>14. AskedFirst'
  BY <1>1, <1>2, <1>3, <1>4 DEF CascadeInv, AskedFirst, Target
<1>15. \A z \in Zone : \A n \in Attr : ~(z = d /\ n \in Sets(e)) =>
         /\ MasterPending(z, n) => MasterPending(z, n)'
         /\ ZonePending(z, n) => ZonePending(z, n)'
  <2>1. ASSUME NEW z \in Zone, NEW n \in Attr, ~(z = d /\ n \in Sets(e)), MasterPending(z, n)
        PROVE  MasterPending(z, n)'
    <3>1. CASE \E x \in ToSet(events) : x.dev = Master /\ n \in Sets(x)
      BY <1>8, <3>1 DEF MasterPending
    <3>2. CASE \E x \in ToSet(running) : x.evt.dev = Master /\ z \in x.left /\ n \in Sets(x.evt)
      <4>1. PICK x \in ToSet(running) : x.evt.dev = Master /\ z \in x.left /\ n \in Sets(x.evt)
        BY <3>2
      <4>2. CASE x = running[i]
        BY <1>1, <1>2, <1>3, <2>1, <4>1, <4>2 DEF MasterPending
      <4>3. CASE x # running[i]
        BY <1>2, <4>1, <4>3 DEF MasterPending
      <4> QED BY <4>2, <4>3
    <3> QED BY <2>1, <3>1, <3>2 DEF MasterPending
  <2> QED BY <1>10, <2>1 DEF ZonePending
<1>16. ShownOrPending'
  <2>1. ASSUME NEW z \in Zone, NEW n \in Attr
        PROVE  attr'[z][n] = told'[z][n] \/ MasterPending(z, n)' \/ ZonePending(z, n)'
    <3>1. z \in Device
      BY DEF Device
    <3>2. CASE z = d /\ n \in Sets(e)
      <4>1. told[z][n] = Target(n)
        BY <1>1, <1>2, <3>2 DEF CascadeInv, AskedFirst
      <4> QED BY <1>4, <1>8, <3>1, <3>2, <4>1
    <3>3. CASE ~(z = d /\ n \in Sets(e))
      <4>1. attr'[z][n] = attr[z][n] /\ told'[z][n] = told[z][n]
        BY <1>4, <1>8, <3>1, <3>3
      <4>2. attr[z][n] = told[z][n] \/ MasterPending(z, n) \/ ZonePending(z, n)
        BY DEF CascadeInv, ShownOrPending
      <4> QED BY <1>15, <3>3, <4>1, <4>2
    <3> QED BY <3>2, <3>3
  <2> QED BY <2>1 DEF ShownOrPending
<1>17. MasterOrPending'
  <2>1. attr[Master]["switch"] = Target("switch")
    BY <1>7, <1>9 DEF CascadeInv, LastShown
  <2>2. attr'[Master]["switch"] = attr[Master]["switch"]
    BY <1>8, <1>9, <2>1
  <2>3. ASSUME NEW z \in Zone, attr[Master]["switch"] \in {"on", "off"}
        PROVE  \/ attr'[z]["switch"] = attr[Master]["switch"]
               \/ MasterPending(z, "switch")'
               \/ \E x \in ToSet(events') : x.dev \in Zone /\ x.sendReq
    <3>1. z \in Device
      BY DEF Device
    <3>2. CASE z = d
      BY <1>8, <1>9, <2>1, <3>1, <3>2
    <3>3. CASE z # d
      <4>1. attr'[z]["switch"] = attr[z]["switch"]
        BY <1>8, <1>9, <3>1, <3>3
      <4> QED BY <1>8, <1>9, <1>15, <2>3, <3>3, <4>1 DEF CascadeInv, MasterOrPending
    <3> QED BY <3>2, <3>3
  <2> QED BY <2>2, <2>3 DEF MasterOrPending
<1> QED BY <1>12, <1>13, <1>14, <1>16, <1>17 DEF CascadeInv

LEMMA CascadeEndMaster ==
  ASSUME CascadeInv, NEW i \in DOMAIN running, EndMaster(i), TypeOK'
  PROVE  CascadeInv'
<1> DEFINE h == running[i]
<1>1. h = running[i] /\ h.evt.dev = Master /\ h.left = {}
  BY DEF EndMaster
<1>2. /\ ToSet(running') \subseteq ToSet(running) /\ ToSet(running) \subseteq ToSet(running') \cup {h}
      /\ UNCHANGED <<attr, events, told, last>>
  BY TypeOKParts, EndsEffect DEF CascadeInv, EndMaster, Ends
<1> HIDE DEF h
<1>3. InFlight' \subseteq InFlight /\ InFlight \subseteq InFlight' \cup {h.evt}
  BY <1>2 DEF InFlight
<1>4. \A z \in Zone : \A n \in Attr \cup {"switch"} :
        /\ MasterPending(z, n) => MasterPending(z, n)'
        /\ ZonePending(z, n) => ZonePending(z, n)'
  BY <1>1, <1>2, <1>3, MasterNoZone DEF MasterPending, ZonePending
<1>5. StemsFromLast' /\ LastShown' /\ AskedFirst'
  BY <1>2, <1>3 DEF CascadeInv, StemsFromLast, LastShown, AskedFirst, Target
<1>6. ShownOrPending' /\ MasterOrPending'
  BY <1>2, <1>4 DEF CascadeInv, ShownOrPending, MasterOrPending
<1> QED BY <1>5, <1>6 DEF CascadeInv

LEMMA CascadeEndZone ==
  ASSUME CascadeInv, NEW i \in DOMAIN running, EndZone(i), TypeOK'
  PROVE  CascadeInv'
<1> DEFINE h == running[i]
           e == h.evt
<1>1. h = running[i] /\ e = h.evt /\ e \in InFlight /\ e \in EventType /\ e.dev \in Zone /\ e.dev # Master
  BY FlightTypes, MasterNoZone DEF CascadeInv, EndZone
<1>2. e.sendReq
  BY <1>1, FlightTypes DEF CascadeInv, HandlerType
<1>3. /\ ToSet(running') \subseteq ToSet(running) /\ ToSet(running) \subseteq ToSet(running') \cup {h}
      /\ UNCHANGED <<attr, events, last>> /\ RequestedTo(e)
  BY <1>1, TypeOKParts, EndsEffect, RequestsEffect DEF CascadeInv, EndZone, Ends, TypeParts
<1> HIDE DEF h, e
<1>4. InFlight' \subseteq InFlight /\ InFlight \subseteq InFlight' \cup {e}
  BY <1>1, <1>3 DEF InFlight
<1>5. last # Nil /\ last.dev = e.dev /\ e.name \in Attr /\ "switch" \in Sets(e) /\ e.name \in Sets(e)
  BY <1>1, <1>2 DEF CascadeInv, StemsFromLast, EventType, Sets
<1>6. \A n \in Sets(e) : n \in Sets(last) /\ Given(e.name, e.value, n) = Target(n)
  BY <1>1, GivenTarget DEF CascadeInv
<1>7. \A z \in Zone : \A n \in Attr :
        told'[z][n] = IF z = e.dev /\ n \in Sets(e) THEN Target(n) ELSE told[z][n]
  BY <1>1, <1>3, <1>6 DEF RequestedTo, Addressed, Sets
<1>8. \A n \in Sets(e) : attr[e.dev][n] = Target(n)
  BY <1>5, <1>6 DEF CascadeInv, LastShown
<1>9. StemsFromLast' /\ LastShown'
  BY <1>3, <1>4 DEF CascadeInv, StemsFromLast, LastShown, Target
<1>10. AskedFirst'
  <2>1. ASSUME NEW r \in ToSet(running'), r.evt.dev = Master, NEW z \in Zone, NEW n \in Sets(r.evt)
        PROVE  told'[z][n] = Target(n)
    <3>1. r \in ToSet(running) /\ n \in Attr
      BY <1>3, FlightTypes DEF CascadeInv, HandlerType, EventType, Sets, Attr
    <3> QED BY <1>7, <2>1, <3>1 DEF CascadeInv, AskedFirst
  <2> QED BY <1>3, <2>1 DEF AskedFirst, Target
<1>11. \A z \in Zone : \A n \in Attr :
         /\ MasterPending(z, n) => MasterPending(z, n)'
         /\ ZonePending(z, n) /\ ~(z = e.dev /\ n \in Sets(e)) => ZonePending(z, n)'
  BY <1>1, <1>3, <1>4, <1>5 DEF MasterPending, ZonePending
<1>12. ShownOrPending'
  <2>1. ASSUME NEW z \in Zone, NEW n \in Attr
        PROVE  attr'[z][n] = told'[z][n] \/ MasterPending(z, n)' \/ ZonePending(z, n)'
    <3>1. CASE z = e.dev /\ n \in Sets(e)
      BY <1>3, <1>7, <1>8, <3>1
    <3>2. CASE ~(z = e.dev /\ n \in Sets(e))
      <4>1. attr'[z][n] = attr[z][n] /\ told'[z][n] = told[z][n]
        BY <1>3, <1>7, <3>2
      <4>2. attr[z][n] = told[z][n] \/ MasterPending(z, n) \/ ZonePending(z, n)
        BY DEF CascadeInv, ShownOrPending
      <4> QED BY <1>11, <3>2, <4>1, <4>2
    <3> QED BY <3>1, <3>2
  <2> QED BY <2>1 DEF ShownOrPending
<1>13. MasterOrPending'
  <2>1. "switch" \in Attr
    BY DEF Attr
  <2> QED BY <1>3, <1>11, <2>1 DEF CascadeInv, MasterOrPending
<1> QED BY <1>9, <1>10, <1>12, <1>13 DEF CascadeInv

LEMMA CascadeCommands ==
  ASSUME CascadeInv, Quiet, NEW c \in Command, Commands(c), TypeOK'
  PROVE  CascadeInv'
<1> DEFINE s == [attr |-> attr, events |-> events]
           t == Commanded(s, c.dev, c.name, c.value, TRUE)
<1>1. c.dev \in Device /\ c.name \in Attr /\ c.value \in Values(c.name)
  BY UserAssumption DEF Command
<1>2. c # Nil
  BY NilAssumption
<1>3. ToSet(events) = {} /\ ToSet(running) = {} /\ ToSet(running') = {}
  BY DEF Quiet, ToSet, Commands
<1>4. /\ s.attr = attr /\ s.events = events /\ t = Commanded(s, c.dev, c.name, c.value, TRUE)
      /\ attr' = t.attr /\ events' = t.events /\ last' = c /\ told' = told
  BY DEF Commands, Becomes
<1> HIDE DEF s, t
<1>5. CommandedTo(s, c.dev, c.name, c.value, TRUE, t)
  BY <1>1, <1>4, CommandedEffect, TypeOKParts DEF CascadeInv, TypeParts
<1> DEFINE G(n) == Given(c.name, c.value, n)
<1>6. /\ \A x \in Device : \A n \in Attr :
           attr'[x][n] = IF x = c.dev /\ n \in Sets(c) THEN G(n) ELSE attr[x][n]
      /\ \A x \in ToSet(events') : \E n \in Sets(c) : x = Event(c.dev, n, G(n), TRUE)
      /\ \A n \in Sets(c) : attr[c.dev][n] # G(n) => Event(c.dev, n, G(n), TRUE) \in ToSet(events')
  BY <1>3, <1>4, <1>5 DEF CommandedTo, Sets
<1>7. \A n : Target(n)' = G(n)
  BY <1>4 DEF Target
<1> HIDE DEF G
<1>8. InFlight' = ToSet(events') /\ Master \in Device /\ "switch" \in Attr /\ "switch" \in Sets(c)
  BY <1>3 DEF InFlight, Device, Attr, Sets
<1>9. StemsFromLast'
  <2>1. ASSUME NEW x \in InFlight'
        PROVE  x.name \in Sets(c) /\ x.value = G(x.name) /\ x.dev = c.dev
    <3>1. PICK n \in Sets(c) : x = Event(c.dev, n, G(n), TRUE)
      BY <1>6, <1>8, <2>1
    <3> QED BY <3>1 DEF Event
  <2> QED BY <1>2, <1>4, <1>7, <2>1 DEF StemsFromLast
<1>10. LastShown'
  <2>1. \A n \in Sets(c) : n \in Attr
    BY <1>1 DEF Sets, Attr
  <2> QED BY <1>1, <1>4, <1>6, <1>7, <2>1 DEF LastShown
<1>11. AskedFirst'
  BY <1>3 DEF AskedFirst
<1>12. \A z \in Zone : \A n \in Attr : attr[z][n] = told[z][n]
  BY <1>3 DEF CascadeInv, ShownOrPending, MasterPending, ZonePending, InFlight
<1>13. ShownOrPending'
  <2>1. ASSUME NEW z \in Zone, NEW n \in Attr, attr'[z][n] # told'[z][n]
        PROVE  ZonePending(z, n)'
    <3>1. z \in Device
      BY DEF Device
    <3>2. z = c.dev /\ n \in Sets(c) /\ attr[c.dev][n] # G(n)
      <4>1. attr'[z][n] # attr[z][n]
        BY <1>4, <1>12, <2>1
      <4> QED BY <1>6, <3>1, <4>1
    <3>3. Event(c.dev, n, G(n), TRUE) \in InFlight'
      BY <1>6, <1>8, <3>2
    <3> QED BY <3>2, <3>3 DEF ZonePending, Event
  <2> QED BY <2>1 DEF ShownOrPending
<1>14. MasterOrPending'
  <2>1. SUFFICES ASSUME attr'[Master]["switch"] \in {"on", "off"}, NEW z \in Zone,
                        attr'[z]["switch"] # attr'[Master]["switch"]
                 PROVE  \/ MasterPending(z, "switch")'
                        \/ \E x \in ToSet(events') : x.dev \in Zone /\ x.sendReq
    BY DEF MasterOrPending
  <2>2. z \in Device
    BY DEF Device
  <2>3. attr[Master]["switch"] \in {"on", "off"} => attr[z]["switch"] = attr[Master]["switch"]
    BY <1>3 DEF CascadeInv, MasterOrPending, MasterPending
  <2>4. attr[c.dev]["switch"] # G("switch") /\ (c.dev = Master \/ c.dev = z)
    BY <1>6, <1>8, <2>1, <2>2, <2>3
  <2>5. Event(c.dev, "switch", G("switch"), TRUE) \in ToSet(events')
    BY <1>6, <1>8, <2>4
  <2> QED BY <2>4, <2>5 DEF MasterPending, Event, Sets
<1> QED BY <1>9, <1>10, <1>11, <1>13, <1>14 DEF CascadeInv

LEMMA CascadeStep ==
  ASSUME MaxHurried = 0, CascadeInv, [Next]_vars
  PROVE  CascadeInv'
<1>1. TypeOK'
  BY TypeStep DEF CascadeInv
<1>2. ASSUME NEW c \in Command, Commands(c) PROVE CascadeInv'
  <2>1. Quiet
    BY <1>2 DEF Commands, CascadeInv, TypeOK
  <2> QED BY <1>1, <1>2, <2>1, CascadeCommands
<1>3. CASE UNCHANGED vars
  BY <1>1, <1>3
  DEF vars, CascadeInv, StemsFromLast, LastShown, AskedFirst, ShownOrPending, MasterOrPending,
      InFlight, Target, MasterPending, ZonePending
<1> QED BY <1>1, <1>2, <1>3, CascadeBeginMaster, CascadeBeginZone, CascadeFollowMaster,
           CascadeEndMaster, CascadeEndZone DEF Next, Handlers

LEMMA CascadeInit == ASSUME Init PROVE CascadeInv
<1>1. ToSet(events) = {} /\ InFlight = {} /\ ToSet(running) = {}
  BY DEF Init, ToSet, InFlight
<1>2. StemsFromLast /\ LastShown /\ AskedFirst
  BY <1>1 DEF Init, StemsFromLast, LastShown, AskedFirst
<1>3. ShownOrPending /\ MasterOrPending
  BY <1>1, NilAssumption DEF Init, ShownOrPending, MasterOrPending, Device, Attr
<1> QED BY <1>2, <1>3, TypeInit DEF CascadeInv

\* Once nothing is under way, nothing is pending.
LEMMA CascadeQuiet ==
  ASSUME CascadeInv
  PROVE  MasterMeansAll /\ ShownIsTold
<1> SUFFICES ASSUME Quiet PROVE MasterMeansAll /\ ShownIsTold
  BY DEF MasterMeansAll, ShownIsTold
<1>1. ToSet(events) = {} /\ InFlight = {} /\ ToSet(running) = {}
  BY DEF Quiet, ToSet, InFlight
<1>2. \A z \in Zone : \A n \in Attr : attr[z][n] = told[z][n]
  BY <1>1 DEF CascadeInv, ShownOrPending, MasterPending, ZonePending
<1>3. \A z \in Zone : attr[z] = told[z]
  <2>1. \A z \in Zone : attr[z] = [n \in Attr |-> attr[z][n]] /\ told[z] = [n \in Attr |-> told[z][n]]
    BY DEF CascadeInv, TypeOK, Device
  <2> QED BY <1>2, <2>1
<1>4. MasterMeansAll
  BY <1>1 DEF CascadeInv, MasterOrPending, MasterPending, MasterMeansAll
<1> QED BY <1>3, <1>4 DEF ShownIsTold

\* MasterMeansAll of the runs, for a user who waits: whatever the zones and the
\* order in which handlers start and devices follow, the master claims on or off
\* only if all zones show it (mithings.groovy:131-236).
THEOREM SpecMasterMeansAll ==
  ASSUME MaxHurried = 0
  PROVE  Spec => []MasterMeansAll
<1>1. Init => CascadeInv
  BY CascadeInit
<1>2. CascadeInv /\ [Next]_vars => CascadeInv'
  BY CascadeStep
<1>3. CascadeInv => MasterMeansAll
  BY CascadeQuiet
<1> QED BY <1>1, <1>2, <1>3, PTL DEF Spec

\* ShownIsTold of the runs, for a user who waits: the requests and the devices
\* end up with the same values, zone by zone (mithings.groovy:131-236).
THEOREM SpecShownIsTold ==
  ASSUME MaxHurried = 0
  PROVE  Spec => []ShownIsTold
<1>1. Init => CascadeInv
  BY CascadeInit
<1>2. CascadeInv /\ [Next]_vars => CascadeInv'
  BY CascadeStep
<1>3. CascadeInv => ShownIsTold
  BY CascadeQuiet
<1> QED BY <1>1, <1>2, <1>3, PTL DEF Spec

=============================================================================
