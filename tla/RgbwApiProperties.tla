--------------------------- MODULE RgbwApiProperties ---------------------------
(***************************************************************************)
(* What makes the v1 API correct, and what a comment says of it.           *)
(***************************************************************************)
EXTENDS RgbwApi

-----------------------------------------------------------------------------
(* Safety.                                                                 *)

\* A command is published only after its own log row was committed, and under
\* the id of a committed row of the same hub, its own or a later one
\* (rgbw_controller.rb:154-159), whatever other requests save meanwhile.
PublishedUnderItsHub ==
  \A i \in DOMAIN published :
    LET r == published[i].request IN
    /\ r \in logged
    /\ \E s \in logged : hub[s] = hub[r] /\ log[s] = published[i].id /\ log[r] <= log[s]

\* Of the committed logs of a hub whose status changed, the newest is the one
\* whose status the row holds: the lock of the UPDATE is kept until the INSERT
\* that follows it is committed, so ids and statuses are in the same order.
Changed(h) == {r \in logged : dirty[r] /\ hub[r] = h}
StatusOfNewestLog ==
  \A h \in Hub : \A r \in Changed(h) :
    hubs[h] = "present" /\ IsNewest(log[r], {log[s] : s \in Changed(h)}) => status[h] = copy[r]

\* An answer "200" follows exactly one publication of the command, any other
\* final answer or the loss of the request at most one.
AnsweredWasPublished ==
  \A r \in Request :
    LET messages == {i \in DOMAIN published : published[i].request = r} IN
    /\ Cardinality(messages) <= 1
    /\ reply[r] = "200" => messages # {}

-----------------------------------------------------------------------------
(* Liveness, under FairSpec.                                               *)

\* No request waits for a row lock for ever: each that a thread serves ends.
RequestsEnd == \A r \in Request : (pc[r] = "authenticate") ~> (pc[r] = "done")

-----------------------------------------------------------------------------
(* What a comment of the code says, which several threads do not keep.     *)

Addresses(r, g) == Ask[r].group \in {0, g}

\* rgbw_controller.rb:137 "state of all groups should be set": after a command
\* for group 0 was answered, every group shows it, unless another command
\* addressed that group.
GroupZeroSetsAll ==
  \A r \in Request :
    reply[r] = "200" /\ Ask[r].group = 0 /\ hubs[hub[r]] = "present" =>
      \A g \in Groups :
        \/ \E s \in Request \ {r} : Addresses(s, g)
        \/ status[hub[r]][g][Ask[r].action] = Ask[r].value

=============================================================================
