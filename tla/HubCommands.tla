------------------------------ MODULE HubCommands ------------------------------
(***************************************************************************)
(* What the v1 API promises of command requests, which may be served at    *)
(* the same time.  Each takes effect on the status of its hub at most      *)
(* once, and is published after that; an answer "200" follows the          *)
(* publication.  Requests for one MAC address that did not meet are served *)
(* as if one at a time: in order, and each as a whole.  Two that met may   *)
(* undo each other's effect, never a part of it, and trade places and log  *)
(* ids on their way to the bridge.                                         *)
(***************************************************************************)
EXTENDS Integers, Sequences

CONSTANTS
  Request, Ask,  \* requests and what each asks for
  Hub,           \* the hubs
  Mac, Owner,    \* the MAC address and the user of each
  Nil            \* a hub without status

VARIABLES
  alive,    \* hubs that exist
  working,  \* requests being served
  met,      \* [requests -> others for the same MAC served at the same time]
  status,   \* the status of each hub
  effect,   \* when each request took effect: a number of its own, 0 before
  told,     \* what was published, in order: requests, and whose number it bears
  good      \* the status each request answered "200" was shown, <<>> before

requests == <<working, met>>
abstract == <<alive, requests, status, effect, told, good>>

Groups == 0..4

\* What the code answers for a hub that never got a command.
Fresh == [power |-> "on", brightness |-> "100", color |-> "0", hex |-> "#FFFFFF"]
Entry(s, g) == IF s = Nil THEN Fresh ELSE s[g]

Addressed(a) == {g \in Groups : a.group \in {0, g}}

\* Status s shows command a.
Shows(s, a) ==
  \A g \in Addressed(a) :
    /\ s[g][a.action] = a.value
    /\ a.action # "power" => s[g]["power"] = "on"
    /\ a.action = "color" => s[g]["hex"] = a.value

\* Fields a command does not set, in the groups it addresses.
Untouched(a) ==
  CASE a.action = "power" -> {"brightness", "color", "hex"}
    [] a.action = "brightness" -> {"color", "hex"}
    [] a.action = "color" -> {"brightness"}

\* Command a, and nothing else, makes status t of status s.
Makes(s, t, a) ==
  /\ t # Nil /\ Shows(t, a)
  /\ \A g \in Groups \ Addressed(a) : t[g] = Entry(s, g)
  /\ \A g \in Addressed(a) : \A f \in Untouched(a) : t[g][f] = Entry(s, g)[f]

\* Requests whose command was published.
Told == {told[i].request : i \in DOMAIN told}

\* Hubs a request can be for.
For(r) == {h \in Hub : Mac[h] = Ask[r].mac /\ Owner[h] = Ask[r].user}

SameMac(r, s) == Ask[r].mac = Ask[s].mac

\* A request that it met has taken effect.
Disturbed(r) == \E s \in met[r] : effect[s] # 0

\* While the requests W are served, those that meet r.
Beside(r, W) == {s \in W \ {r} : r \in W /\ SameMac(r, s)}

Init ==
  /\ alive \subseteq Hub
  /\ working = {} /\ met = [r \in Request |-> {}]
  /\ status = [h \in Hub |-> Nil]
  /\ effect = [r \in Request |-> 0] /\ told = <<>> /\ good = [r \in Request |-> <<>>]

\* Hubs come and go.
Change(h) ==
  /\ alive' = IF h \in alive THEN alive \ {h} ELSE alive \cup {h}
  /\ UNCHANGED <<requests, status, effect, told, good>>

Begin(r) ==
  /\ r \notin working /\ effect[r] = 0
  /\ working' = working \cup {r}
  /\ met' = [s \in Request |-> met[s] \cup Beside(s, working')]
  /\ UNCHANGED <<alive, status, effect, told, good>>

\* Requests end at any time.
End(S) ==
  /\ S \subseteq working /\ working' = working \ S
  /\ UNCHANGED <<alive, met, status, effect, told, good>>

\* A command makes the status of its hub, unless that was destroyed meanwhile.
\* Disturbed, it may also put in its place one it made of an older status, or
\* leave it to the other command.
Writes(r, h) ==
  \/ h \notin alive /\ status'[h] = status[h]
  \/ h \in alive /\ Makes(status[h], status'[h], Ask[r])
  \/ h \in alive /\ Disturbed(r) /\ (status'[h] = status[h] \/ Shows(status'[h], Ask[r]))

\* A command takes effect, after all for its MAC that it did not meet.
TakeEffect(r) ==
  /\ r \in working /\ effect[r] = 0 /\ effect'[r] # 0 /\ effect' \in [Request -> Nat]
  /\ \A s \in Request \ {r} : effect'[s] = effect[s] /\ effect[s] # effect'[r]
  /\ \A s \in Request \ {r} : SameMac(r, s) => s \in met[r] \/ effect[s] < effect'[r]
  /\ \E h \in For(r) : Writes(r, h) /\ \A g \in Hub \ {h} : status'[g] = status[g]
  /\ UNCHANGED <<alive, requests, told, good>>

\* A command is published under its number, or that of one it met and which took
\* effect later, and after all for its MAC that took effect before.
Tell(r) ==
  /\ r \in working /\ effect[r] # 0 /\ r \notin Told
  /\ \E s \in {r} \cup met[r] :
       effect[r] <= effect[s] /\ told' = Append(told, [request |-> r, id |-> effect[s]])
  /\ \A s \in Told : SameMac(r, s) => s \in met[r] \/ effect[s] < effect[r]
  /\ working' \in {working, working \ {r}}
  /\ UNCHANGED <<alive, met, status, effect, good>>

\* The answer shows a hub on which the command is visible, unless disturbed.
Confirm(r) ==
  /\ r \in working /\ r \in Told /\ working' = working \ {r}
  /\ good[r] = <<>> /\ good'[r] # <<>> /\ good' = [good EXCEPT ![r] = good'[r]]
  /\ Disturbed(r) \/ \E h \in For(r) :
       status[h] # Nil /\ Shows(status[h], Ask[r]) /\ good'[r] = <<status[h]>>
  /\ UNCHANGED <<alive, met, status, effect, told>>

Next ==
  \/ \E h \in Hub : Change(h)
  \/ \E r \in Request : Begin(r) \/ TakeEffect(r) \/ Tell(r) \/ Confirm(r)
  \/ \E S \in SUBSET working : End(S)

Spec == Init /\ [][Next]_abstract

=============================================================================
