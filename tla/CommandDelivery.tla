---------------------------- MODULE CommandDelivery ----------------------------
(***************************************************************************)
(* What backend/main.go promises of the commands the API publishes: each   *)
(* goes to the bridge it is for, at most once and in the order they were   *)
(* published.  It may be lost at any point, with the instructions that     *)
(* were still to be written.                                               *)
(***************************************************************************)
EXTENDS Integers, Sequences

CONSTANTS
  Mac,    \* adjusted MAC addresses, one per bridge
  Script  \* the commands the API publishes, in order: [mac, len]

VARIABLES
  fate,  \* [command -> where it is]
  got    \* the instructions each bridge has received, <<command, index>>

delivery == <<fate, got>>

Commands == 1..Len(Script)
Fates == {"unsent", "pending", "held", "done", "lost"}

Init ==
  /\ fate = [k \in Commands |-> "unsent"]
  /\ got = [m \in Mac |-> <<>>]

\* Published, in order: to the subscription, or to nobody.
Publish(k) ==
  /\ fate[k] = "unsent"
  /\ \A j \in 1..(k - 1) : fate[j] # "unsent"
  /\ \E f \in {"pending", "lost"} : fate' = [fate EXCEPT ![k] = f]
  /\ UNCHANGED got

\* Handed to a connection of its bridge, or dropped; the oldest one first.
Dispatch(k) ==
  /\ fate[k] = "pending"
  /\ \A j \in 1..(k - 1) : fate[j] # "pending"
  /\ \E f \in {"held", "lost"} : fate' = [fate EXCEPT ![k] = f]
  /\ UNCHANGED got

\* Its bridge receives an instruction, later than all it received before.
Deliver(k, i) ==
  LET received == got[Script[k].mac] IN
  /\ fate[k] = "held"
  /\ \A j \in DOMAIN received :
       received[j][1] < k \/ (received[j][1] = k /\ received[j][2] < i)
  /\ got' = [got EXCEPT ![Script[k].mac] = Append(@, <<k, i>>)]
  /\ UNCHANGED fate

\* Marked processed, or given up because its connection is dead.
Finish(k) ==
  /\ fate[k] = "held"
  /\ \E f \in {"done", "lost"} : fate' = [fate EXCEPT ![k] = f]
  /\ UNCHANGED got

\* The subscription, or the whole process, ends: what is waiting, or also what
\* is being written, is lost.
Crash ==
  /\ \E gone \in {{"pending"}, {"pending", "held"}} :
       fate' = [k \in Commands |-> IF fate[k] \in gone THEN "lost" ELSE fate[k]]
  /\ UNCHANGED got

Next ==
  \/ \E k \in Commands : Publish(k) \/ Dispatch(k) \/ Finish(k)
  \/ \E k \in Commands : \E i \in 1..Script[k].len : Deliver(k, i)
  \/ Crash

Spec == Init /\ [][Next]_delivery

=============================================================================
