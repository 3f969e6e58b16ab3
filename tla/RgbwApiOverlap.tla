----------------------------- MODULE RgbwApiOverlap -----------------------------
(***************************************************************************)
(* Which requests of the v1 API are served at the same time, and what it   *)
(* promises of those that are and of those that are not.                   *)
(***************************************************************************)
EXTENDS RgbwApiProperties

VARIABLE
  met  \* [requests -> others for the same MAC served at the same time]

overlapVars == <<vars, met>>

\* Requests for the MAC of r that are served while r is.
Beside(r, busy) == {s \in busy \ {r} : r \in busy /\ Ask[r].mac = Ask[s].mac}

OverlapInit == Init /\ met = [r \in Request |-> {}]

\* met only looks on: it says what has been, and no step depends on it.
OverlapNext == Next /\ met' = [r \in Request |-> met[r] \cup Beside(r, Busy')]

OverlapSpec == OverlapInit /\ [][OverlapNext]_overlapVars

-----------------------------------------------------------------------------
(* The API implements HubCommands.                                         *)

Commands == INSTANCE HubCommands WITH
  alive <- {h \in Hub : hubs[h] = "present"},
  working <- Busy,
  effect <- [r \in Request |-> IF r \in logged THEN log[r] ELSE 0],
  told <- published,
  good <- [r \in Request |-> IF reply[r] = "200" THEN <<body[r]>> ELSE <<>>]

\* With any number of threads a request is atomic for all requests it did not
\* meet, and loses or undoes nothing but as a whole for those it did, through
\* failures of PostgreSQL and Redis, restarts, and hubs that are destroyed and
\* re-created (78-168).
ImplementsHubCommands == Commands!Spec

=============================================================================
