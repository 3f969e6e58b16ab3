------------------------------ MODULE SmartThings ------------------------------
(***************************************************************************)
(* The SmartThings side: the devices of one bridge                         *)
(* (milight-controller.groovy), a master and its zones, all children of    *)
(* one app (mithings.groovy) whose handlers turn their events into         *)
(* requests to the API and commands to the other devices.                  *)
(*                                                                         *)
(* The platform calls a handler for an event only if the event changed its *)
(* attribute, and runs handlers concurrently.  A handler is cut where it   *)
(* waits for the answer to its request, and between two commands to        *)
(* devices.  Answers of the v1 API, errors included, hold nothing that     *)
(* parseResponse looks for at their top level.                             *)
(***************************************************************************)
EXTENDS Integers, SequencesExt

CONSTANTS
  Zone,        \* the zones named at setup
  Levels, Colors,
  Nil,         \* an attribute that was never set
  Used,        \* the devices that users, or other apps, command
  Ordered,     \* whether handlers start in the order of their events
  MaxHurried   \* commands given while others are still being handled

Master == 0
Device == {Master} \cup Zone
Attr == {"switch", "level", "color"}

ASSUME ZoneAssumption == Zone \subseteq 1..4
ASSUME ValueAssumption == "unknown" \notin Levels \cup Colors
ASSUME UserAssumption == Used \subseteq Device /\ Ordered \in BOOLEAN /\ MaxHurried \in Nat

VARIABLES
  attr,     \* [Device -> [Attr -> its current value]]
  events,   \* events whose handler has not started: [dev, name, value, sendReq]
  running,  \* the handlers that have: [evt, left], left the devices to command
  told,     \* what the API was last asked for, per zone
  last,     \* the last command given
  hurried   \* how many were given in a hurry

vars == <<attr, events, running, told, last, hurried>>

Values(name) ==
  CASE name = "switch" -> {"on", "off"} [] name = "level" -> Levels [] OTHER -> Colors

\* A command of a device's user: on(), off(), setLevel(v), setColor(v).
Command == UNION {[dev : Used, name : {n}, value : Values(n)] : n \in Attr}

ASSUME NilAssumption == Nil \notin Command \cup Levels \cup Colors \cup {"on", "off", "unknown"}

Quiet == events = <<>> /\ running = <<>>

Init ==
  /\ attr = [d \in Device |-> [n \in Attr |-> Nil]]
  /\ events = <<>> /\ running = <<>>
  /\ told = [z \in Zone |-> [n \in Attr |-> Nil]]
  /\ last = Nil /\ hurried = 0

-----------------------------------------------------------------------------
(* The device.                                                             *)

\* sendEvent on a state s = [attr, events].  initialize() subscribes to every
\* value of a zone's switch, and to on and off of the master's.
Sent(s, e) ==
  IF s.attr[e.dev][e.name] = e.value THEN s
  ELSE [attr   |-> [s.attr EXCEPT ![e.dev][e.name] = e.value],
        events |-> IF e.value = "unknown" THEN s.events ELSE Append(s.events, e)]

Event(d, name, value, sendReq) == [dev |-> d, name |-> name, value |-> value, sendReq |-> sendReq]

\* on, off, setLevel and setColor; the last two put the switch on.
Commanded(s, d, name, value, sendReq) ==
  LET t == Sent(s, Event(d, name, value, sendReq))
  IN  IF name = "switch" THEN t ELSE Sent(t, Event(d, "switch", "on", sendReq))

Becomes(s) == attr' = s.attr /\ events' = s.events

-----------------------------------------------------------------------------
(* The app.                                                                *)

\* Mutant: a zone is given the number of the one before.
Addressed_OffByOne(d) == IF d = Master THEN Zone ELSE {z \in Zone : z = d - 1}

\* Mutant: the master's group 0 is taken for a zone.
Addressed_Zero(d) == {z \in Zone : z = d}

\* The zones of the group of a device's requests; none in the path means all.
Addressed(d) == IF d = Master THEN Zone ELSE {d}

\* The API is asked for what an event says; it puts bulbs on as devices do.
Requests(e) ==
  told' = [z \in Zone |->
    IF z \notin Addressed(e.dev) THEN told[z]
    ELSE IF e.name = "switch" THEN [told[z] EXCEPT !["switch"] = e.value]
    ELSE [told[z] EXCEPT ![e.name] = e.value, !["switch"] = "on"]]

\* A handler of an event, with the devices that it is still to command.
Handler(e, left) == [evt |-> e, left |-> left]

Begins(i, left) ==
  /\ Ordered => i = 1
  /\ running' = Append(running, Handler(events[i], left))
  /\ UNCHANGED <<last, hurried>>

\* Mutant: the handler starts its request over and over.
Ends_Never(i) == UNCHANGED <<running, last, hurried>>

Ends(i) ==
  /\ running' = RemoveAt(running, i)
  /\ UNCHANGED <<last, hurried>>

\* The children that follow an event of the master, itself among them; for a
\* colour it is left out if the platform keeps the preference "group" as a text.
Followers(e) == {Device} \cup IF e.name = "color" THEN {Zone} ELSE {}

\* The master's handlers send their request first, whatever sendReq says.
BeginMaster(i) ==
  /\ events[i].dev = Master
  /\ Requests(events[i])
  /\ \E left \in Followers(events[i]) : Begins(i, left)
  /\ events' = RemoveAt(events, i)
  /\ UNCHANGED attr

\* Then it commands one child after the other, in the platform's order.
FollowMaster(i, d) ==
  LET e == running[i].evt
  IN  /\ d \in running[i].left
      /\ Becomes(Commanded([attr |-> attr, events |-> events], d, e.name, e.value, FALSE))
      /\ running' = [running EXCEPT ![i] = Handler(e, @.left \ {d})]
      /\ UNCHANGED <<told, last, hurried>>

EndMaster(i) ==
  /\ running[i].evt.dev = Master /\ running[i].left = {}
  /\ Ends(i)
  /\ UNCHANGED <<attr, events, told>>

\* Mutant: the master is left as it is.
Unknown_Never(s) == s

\* myDevice.unknown()
Unknown(s) == Sent(s, Event(Master, "switch", "unknown", FALSE))

\* Mutant: sendReq is not looked at.
Asked_Always(e) == TRUE

\* A zone's event was not made by a handler of this app.
Asked(e) == e.sendReq

\* A zone's handlers do nothing for events that followed another device's.
BeginZone(i) ==
  LET e == events[i]
      rest == [attr |-> attr, events |-> RemoveAt(events, i)]
  IN  /\ e.dev \in Zone
      /\ \/ /\ Asked(e)
            /\ Begins(i, {})
            /\ Becomes(Unknown(rest))
         \/ /\ ~Asked(e) /\ (Ordered => i = 1)
            /\ Becomes(rest)
            /\ UNCHANGED <<running, last, hurried>>
      /\ UNCHANGED told

EndZone(i) ==
  /\ running[i].evt.dev \in Zone
  /\ Requests(running[i].evt)
  /\ Ends(i)
  /\ UNCHANGED <<attr, events>>

Handlers ==
  \/ \E i \in DOMAIN events : BeginMaster(i) \/ BeginZone(i)
  \/ \E i \in DOMAIN running : EndMaster(i) \/ EndZone(i) \/ \E d \in Device : FollowMaster(i, d)

\* A person, or another app, commands a device.
Commands(c) ==
  /\ Quiet \/ hurried < MaxHurried
  /\ hurried' = IF Quiet THEN hurried ELSE hurried + 1
  /\ Becomes(Commanded([attr |-> attr, events |-> events], c.dev, c.name, c.value, TRUE))
  /\ last' = c
  /\ UNCHANGED <<running, told>>

Next == Handlers \/ \E c \in Command : Commands(c)

Spec == Init /\ [][Next]_vars

\* The platform runs the handlers of every event; nobody has to command.
FairSpec == Spec /\ WF_vars(Handlers)

-----------------------------------------------------------------------------
(* Type invariant.                                                         *)

AnyValue == UNION {Values(n) : n \in Attr}

EventType ==
  {e \in [dev : Device, name : Attr, value : AnyValue, sendReq : BOOLEAN] : e.value \in Values(e.name)}

\* A handler that runs is for the master, or for a zone's event that did not
\* follow another device's, and then commands no device.
HandlerType ==
  {r \in [evt : EventType, left : SUBSET Device] :
     r.evt.dev \in Zone => r.evt.sendReq /\ r.left = {}}

\* Every variable keeps its type; only the master's switch becomes unknown, and
\* no handler works on an event that it should have left alone.
TypeOK ==
  /\ attr \in [Device -> [Attr -> AnyValue \cup {Nil, "unknown"}]]
  /\ \A d \in Device : \A n \in Attr :
       \/ attr[d][n] \in Values(n) \cup {Nil}
       \/ attr[d][n] = "unknown" /\ d = Master /\ n = "switch"
  /\ events \in Seq(EventType) /\ running \in Seq(HandlerType)
  /\ told \in [Zone -> [Attr -> AnyValue \cup {Nil}]]
  /\ \A z \in Zone : \A n \in Attr : told[z][n] \in Values(n) \cup {Nil}
  /\ last \in Command \cup {Nil} /\ hurried \in 0..MaxHurried

-----------------------------------------------------------------------------
(* Safety, for a user who waits (MaxHurried = 0).                          *)

\* Once the handlers are done, the master shows on or off only if all zones
\* do: after a zone went its own way it shows "unknown" (mithings.groovy
\* 187-235), else a command that repeats its value would be swallowed.
MasterMeansAll ==
  Quiet /\ attr[Master]["switch"] \in {"on", "off"} =>
    \A z \in Zone : attr[z]["switch"] = attr[Master]["switch"]

\* Once the handlers are done, each zone shows what the API was last asked
\* for it, directly or through the master.
ShownIsTold == Quiet => \A z \in Zone : attr[z] = told[z]

-----------------------------------------------------------------------------
(* Liveness, under FairSpec.                                               *)

\* What one command sets off comes to an end.
Settles == ~Quiet ~> Quiet

\* A level or colour that changed the master's own reaches every zone, through
\* the API and in what the zones show (mithings.groovy:158-183).  One that
\* repeats the master's, after a zone got another, is swallowed by the platform.
MasterChangeReachesZones ==
  \A n \in {"level", "color"} : \A v \in Values(n) :
    Event(Master, n, v, TRUE) \in ToSet(events) \cup {r.evt : r \in ToSet(running)}
      ~> Quiet /\ \A z \in Zone : told[z][n] = v /\ attr[z][n] = v

\* INSTALL.md:42 "this is the switch that will control all 4 zones": when the
\* master was put on or off, and nothing else is commanded, all zones end up so.
MasterControlsZones ==
  \A v \in {"on", "off"} :
    LET given == last = [dev |-> Master, name |-> "switch", value |-> v]
    IN  given ~> (~given \/ (Quiet /\ \A z \in Zone : told[z]["switch"] = v))

=============================================================================
