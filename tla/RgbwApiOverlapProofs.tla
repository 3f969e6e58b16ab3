------------------------- MODULE RgbwApiOverlapProofs -------------------------
(***************************************************************************)
(* The v1 API implements HubCommands, with any number of threads, whatever *)
(* fails, and whichever rows come and go meanwhile: requests for one MAC   *)
(* address that do not meet are as if atomic and one after the other.      *)
(***************************************************************************)
EXTENDS RgbwApiOverlap, RgbwApiProofs

USE DEF Actions, Groups, Fields, Codes, PC, Status

-----------------------------------------------------------------------------
(* What a request computes.                                                *)

\* The entry a command makes of one group shows it and keeps the other fields.
LEMMA CommandedShows ==
  ASSUME NEW e \in [Fields -> Value], NEW r \in Request, Ask[r].action \in Actions
  PROVE  LET a == Ask[r]
             new == Commanded(e, a)
         IN  /\ new[a.action] = a.value
             /\ a.action # "power" => new["power"] = "on"
             /\ a.action = "color" => new["hex"] = a.value
             /\ \A f \in Commands!Untouched(a) : new[f] = e[f]
<1> DEFINE a == Ask[r]
<1>1. CASE a.action = "power"
  <2>1. Commanded(e, a) = [e EXCEPT !["power"] = a.value]
    BY <1>1 DEF Commanded
  <2> QED BY <1>1, <2>1 DEF Commands!Untouched
<1>2. CASE a.action = "brightness"
  <2>1. Commanded(e, a) = [[e EXCEPT !["brightness"] = a.value] EXCEPT !["power"] = "on"]
    BY <1>2 DEF Commanded
  <2> QED BY <1>2, <2>1 DEF Commands!Untouched
<1>3. CASE a.action = "color"
  <2>1. Commanded(e, a) =
          [[[e EXCEPT !["color"] = a.value] EXCEPT !["power"] = "on"] EXCEPT !["hex"] = a.value]
    BY <1>3 DEF Commanded
  <2> QED BY <1>3, <2>1 DEF Commands!Untouched
<1> QED BY <1>1, <1>2, <1>3

\* The status a request computes shows its command and nothing else that is new.
LEMMA NewStatusMakes ==
  ASSUME NEW r \in Request, NEW old \in Status \cup {Nil},
         Failure(Ask[r]) = "none", Refusal(Ask[r]) = "none"
  PROVE  Commands!Makes(old, NewStatus(old, Ask[r]), Ask[r])
<1> DEFINE a == Ask[r]
           before == IF old = Nil THEN [g \in Groups |-> NewEntry] ELSE old
           new == NewStatus(old, a)
<1>1. a.action \in Actions /\ a.group \in Groups
  BY DEF Failure, Refusal
<1>2. NewEntry \in [Fields -> Value] /\ NewEntry = Commands!Fresh
  <2>1. NewEntry \in [Fields -> Value]
    BY DEF NewEntry, Value
  <2>2. /\ NewEntry["power"] = "on" /\ NewEntry["brightness"] = "100"
        /\ NewEntry["color"] = "0" /\ NewEntry["hex"] = "#FFFFFF"
    BY DEF NewEntry
  <2> QED BY <2>1, <2>2 DEF Commands!Fresh
<1>3. before \in Status /\ \A g \in Groups : before[g] = Commands!Entry(old, g)
  BY <1>2 DEF Commands!Entry
<1>4. \A g \in Groups : new[g] = IF a.group \in {0, g} THEN Commanded(before[g], a) ELSE before[g]
  BY <1>1 DEF NewStatus
<1>5. new # Nil
  BY NewStatusType, NilAssumption
<1>6. \A g \in Groups : before[g] \in [Fields -> Value]
  BY <1>3
<1> HIDE DEF new, before
<1>7. \A g \in Commands!Addressed(a) : new[g] = Commanded(before[g], a) /\ g \in Groups
  BY <1>4 DEF Commands!Addressed, Commands!Groups
<1>8. \A g \in Groups \ Commands!Addressed(a) : new[g] = Commands!Entry(old, g)
  BY <1>3, <1>4 DEF Commands!Addressed, Commands!Groups
<1>9. Commands!Shows(new, a)
  BY <1>1, <1>6, <1>7, CommandedShows DEF Commands!Shows
<1>10. \A g \in Commands!Addressed(a) :
         \A f \in Commands!Untouched(a) : new[g][f] = Commands!Entry(old, g)[f]
  BY <1>1, <1>3, <1>6, <1>7, CommandedShows
<1> QED BY <1>5, <1>8, <1>9, <1>10 DEF Commands!Makes, Commands!Groups, new

-----------------------------------------------------------------------------
(* What a request can count on.                                            *)

SameMac(r, s) == Ask[r].mac = Ask[s].mac

\* Requests served together have met; only requests for one MAC ever do.
MetInv ==
  /\ met \in [Request -> SUBSET Request]
  /\ \A r \in Request : Beside(r, Busy) \subseteq met[r]
  /\ \A r \in Request : \A s \in met[r] : SameMac(r, s)

\* None it met has been saved.
Undisturbed(r) == met[r] \cap logged = {}

\* Its id is above those of all for its MAC that it did not meet.
IdIsLast(r) ==
  pc[r] \in {"commit", "maximum", "publish"} =>
    \A s \in Request \ {r} : SameMac(r, s) => s \in met[r] \/ log[s] < log[r]

\* A request that found a hub asked for it, for something that can be done.
FoundItsHub(r) ==
  pc[r] \in {"validate", "save", "commit"} \/ r \in logged =>
    hub[r] \in Commands!For(r) /\ Refusal(Ask[r]) = "none" /\ Failure(Ask[r]) = "none"

\* What it computed follows from what the row held, and still holds unless one it
\* met has changed the row.
Outdated(r) == \E s \in met[r] \cap logged : hub[s] = hub[r]
CopyShows(r) ==
  pc[r] \in {"validate", "save", "commit"} =>
    \E old \in Status \cup {Nil} : copy[r] = NewStatus(old, Ask[r])
CopyIsFresh(r) ==
  pc[r] \in {"validate", "save", "commit"} /\ ~Outdated(r) =>
    /\ copy[r] = NewStatus(status[hub[r]], Ask[r])
    /\ dirty[r] = (copy[r] # status[hub[r]])

\* A row that takes the place of its hub meanwhile has no log.
NoLogs(h) == \A s \in logged : hub[s] # h
ReplacementIsNew(r) ==
  pc[r] \in {"save", "commit", "maximum", "publish", "again"} /\ Undisturbed(r) =>
    \A h \in Hub \ {hub[r]} : Mac[h] = Mac[hub[r]] /\ hubs[h] # "destroyed" => NoLogs(h)

\* From its commit on the row shows the command, unless it was destroyed before.
Visible(h, r) == status[h] # Nil /\ Commands!Shows(status[h], Ask[r])
CommandIsVisible(r) ==
  pc[r] \in {"maximum", "publish", "again"} =>
    r \in logged /\ (hubs[hub[r]] = "present" /\ Undisturbed(r) => Visible(hub[r], r))

\* It publishes under the id of its own log, or a later one of a request it met.
OwnNewest(r) ==
  pc[r] = "publish" =>
    \E s \in logged : s \in {r} \cup met[r] /\ newest[r] = log[s] /\ log[r] <= log[s]

\* The row it answers with shows the command, or has no log.
AnswerShows(r) ==
  pc[r] = "last" =>
    /\ updated[r] \in Commands!For(r)
    /\ Undisturbed(r) =>
         /\ body[r] = status[updated[r]]
         /\ NoLogs(updated[r]) \/ Visible(updated[r], r)

Turn(r) ==
  /\ IdIsLast(r) /\ FoundItsHub(r) /\ CopyShows(r) /\ CopyIsFresh(r) /\ ReplacementIsNew(r)
  /\ CommandIsVisible(r) /\ OwnNewest(r) /\ AnswerShows(r)

OverlapInv == MetInv /\ \A r \in Request : Turn(r)

-----------------------------------------------------------------------------
(* The invariant is kept.                                                  *)

\* Requests go on to meet, and never stop having met.
LEMMA NextMet ==
  ASSUME MetInv, [OverlapNext]_overlapVars
  PROVE  MetInv' /\ \A r \in Request : met[r] \subseteq met'[r]
<1>1. CASE OverlapNext
  <2>1. \A r \in Request : Beside(r, Busy') \subseteq Request
    BY DEF Beside, Busy
  <2>2. \A r \in Request : met'[r] = met[r] \cup Beside(r, Busy')
    BY <1>1 DEF OverlapNext
  <2>3. met' \in [Request -> SUBSET Request]
    BY <1>1, <2>1 DEF OverlapNext, MetInv
  <2>4. \A r \in Request : \A s \in Beside(r, Busy') : SameMac(r, s)
    BY DEF Beside, SameMac
  <2> QED BY <2>2, <2>3, <2>4 DEF MetInv, Beside, SameMac
<1>2. CASE UNCHANGED overlapVars
  BY <1>2 DEF overlapVars, vars, MetInv, Beside, Busy, SameMac
<1> QED BY <1>1, <1>2

\* Only a request that starts meets others.
LEMMA NothingMet ==
  ASSUME MetInv, [OverlapNext]_overlapVars, Busy' \subseteq Busy
  PROVE  met' = met
<1>1. CASE OverlapNext
  <2>1. \A r \in Request : Beside(r, Busy') \subseteq Beside(r, Busy)
    BY DEF Beside
  <2>2. \A r \in Request : met[r] \cup Beside(r, Busy') = met[r]
    BY <2>1 DEF MetInv
  <2> QED BY <1>1, <2>2 DEF OverlapNext, MetInv
<1>2. CASE UNCHANGED overlapVars
  BY <1>2 DEF overlapVars
<1> QED BY <1>1, <1>2

\* A request that waits or is done, and has no new log, has nothing else to keep.
LEMMA IdleTurn ==
  ASSUME NEW r \in Request, Turn(r), pc'[r] \in {"new", "authenticate", "done"},
         r \in logged' => r \in logged /\ hub'[r] = hub[r]
  PROVE  Turn(r)'
BY DEF Turn, IdIsLast, FoundItsHub, CopyShows, CopyIsFresh, ReplacementIsNew, CommandIsVisible,
       OwnNewest, AnswerShows, Commands!For

\* What is of no concern to a request: others' locals, ids drawn by those it has
\* met, and the rows with its MAC once one of these has been saved.
Same(r) ==
  /\ pc'[r] = pc[r] /\ hub'[r] = hub[r] /\ copy'[r] = copy[r] /\ dirty'[r] = dirty[r]
  /\ log'[r] = log[r] /\ newest'[r] = newest[r] /\ updated'[r] = updated[r] /\ body'[r] = body[r]
  /\ r \in logged' => r \in logged
OthersIdsKept(r) ==
  \A s \in Request : SameMac(r, s) /\ s \notin met'[r] => log'[s] = log[s]
RowKept(h) == status'[h] = status[h] /\ (hubs'[h] = hubs[h]) /\ (NoLogs(h) => NoLogs(h)')
RowsKept(r) ==
  /\ hub[r] \in Commands!For(r) /\ ~Outdated(r)' => status'[hub[r]] = status[hub[r]]
  /\ Undisturbed(r)' => \A h \in Hub : Mac[h] = Ask[r].mac => RowKept(h)

LEMMA SameTurn ==
  ASSUME NEW r \in Request, Turn(r), Same(r), met[r] \subseteq met'[r], logged \subseteq logged',
         \A s \in logged : log'[s] = log[s] /\ hub'[s] = hub[s],
         r \in Busy => OthersIdsKept(r) /\ RowsKept(r)
  PROVE  Turn(r)'
<1>1. CASE pc[r] \in {"new", "authenticate", "done"}
  BY <1>1, IdleTurn DEF Same
<1>2. CASE pc[r] \notin {"new", "authenticate", "done"}
  <2>1. OthersIdsKept(r) /\ RowsKept(r)
    BY <1>2 DEF Busy
  <2>2. (Undisturbed(r)' => Undisturbed(r)) /\ (~Outdated(r)' => ~Outdated(r))
    BY DEF Undisturbed, Outdated, Same
  <2>3. IdIsLast(r)'
    BY <2>1 DEF Turn, IdIsLast, Same, OthersIdsKept, SameMac
  <2>4. FoundItsHub(r)' /\ CopyShows(r)'
    BY DEF Turn, FoundItsHub, CopyShows, Same, Commands!For
  <2>5. CopyIsFresh(r)'
    BY <2>1, <2>2 DEF Turn, FoundItsHub, CopyIsFresh, Same, RowsKept
  <2>6. pc[r] \in {"save", "commit", "maximum", "publish", "again"} =>
          hub[r] \in Hub /\ Mac[hub[r]] = Ask[r].mac
    BY DEF Turn, FoundItsHub, CommandIsVisible, Commands!For
  <2>7. ReplacementIsNew(r)'
    BY <2>1, <2>2, <2>6 DEF Turn, ReplacementIsNew, Same, RowsKept, RowKept, NoLogs
  <2>8. CommandIsVisible(r)'
    BY <2>1, <2>2, <2>6 DEF Turn, CommandIsVisible, Same, RowsKept, RowKept, Visible, Commands!Shows
  <2>9. OwnNewest(r)'
    BY DEF Turn, OwnNewest, Same
  <2>10. AnswerShows(r)'
    BY <2>1, <2>2 DEF Turn, AnswerShows, Same, RowsKept, RowKept, Visible, Commands!Shows, NoLogs,
                      Commands!For
  <2> QED BY <2>3, <2>4, <2>5, <2>7, <2>8, <2>9, <2>10 DEF Turn
<1> QED BY <1>1, <1>2

\* A statement of one request touches nothing local to another.
LEMMA StepSame ==
  ASSUME TypeOK, NEW r \in Request, Step(r) \/ DatabaseError(r), NEW q \in Request, q # r
  PROVE  Same(q) /\ hubs' = hubs /\ r \in Busy
<1>1. pc[r] \notin {"new", "done"}
  BY DEF Step, Authenticate, Validate, Save, Commit, Maximum, Publish, AuthenticateAgain, LastLog,
         DatabaseError, Go
<1>f. /\ pc \in [Request -> PC] /\ hub \in [Request -> Hub \cup {Nil}]
      /\ copy \in [Request -> Status \cup {Nil}] /\ dirty \in [Request -> BOOLEAN]
      /\ log \in [Request -> Nat] /\ newest \in [Request -> Nat]
      /\ updated \in [Request -> Hub \cup {Nil}] /\ body \in [Request -> Status \cup {Nil}]
  BY DEF TypeOK
<1> USE DEF Go, Halts, table, local, logs, queue, answer
<1>2. CASE Authenticate(r)
  <2>1. /\ pc'[q] = pc[q] /\ hub'[q] = hub[q] /\ copy'[q] = copy[q] /\ dirty'[q] = dirty[q]
        /\ UNCHANGED <<hubs, log, newest, updated, body, logged>>
    BY <1>2, <1>f DEF Authenticate
  <2> QED BY <1>1, <2>1 DEF Same, Busy
<1>3. CASE Validate(r) \/ Save(r) \/ Commit(r) \/ Maximum(r)
  <2>1. /\ pc'[q] = pc[q] /\ log'[q] = log[q] /\ newest'[q] = newest[q]
        /\ UNCHANGED <<hubs, hub, copy, dirty, updated, body>>
        /\ logged' \in {logged, logged \cup {r}}
    BY <1>3, <1>f DEF Validate, Save, Commit, Maximum
  <2> QED BY <1>1, <2>1 DEF Same, Busy
<1>4. CASE Publish(r) \/ AuthenticateAgain(r) \/ LastLog(r) \/ DatabaseError(r)
  <2>1. /\ pc'[q] = pc[q] /\ updated'[q] = updated[q] /\ body'[q] = body[q]
        /\ UNCHANGED <<hubs, hub, copy, dirty, log, newest, logged>>
    BY <1>4, <1>f DEF Publish, AuthenticateAgain, LastLog, DatabaseError
  <2> QED BY <1>1, <2>1 DEF Same, Busy
<1>5. Same(q) /\ hubs' = hubs
  BY <1>2, <1>3, <1>4 DEF Step
<1> QED BY <1>1, <1>5 DEF Busy

\* Whatever it does is of no concern to those it did not meet, and to the others
\* no more than they allow for.
LEMMA OthersTurn ==
  ASSUME ApiInv, OverlapInv, OverlapNext, NEW r \in Request, Step(r) \/ DatabaseError(r),
         NEW q \in Request, q # r
  PROVE  Turn(q)'
<1>t. TypeOK /\ MetInv /\ Turn(q) /\ Turn(r) /\ [Next]_vars /\ [OverlapNext]_overlapVars
  BY DEF ApiInv, OverlapInv, OverlapNext
<1>f. /\ log \in [Request -> Nat] /\ status \in [Hub -> Status \cup {Nil}]
      /\ logged \subseteq Request
  BY <1>t DEF TypeOK
<1>1. Same(q) /\ hubs' = hubs /\ r \in Busy
  BY <1>t, StepSame
<1>2. met[q] \subseteq met'[q] /\ met[q] \subseteq Request
  BY <1>t, NextMet DEF MetInv
<1>3. logged \subseteq logged' /\ \A s \in logged : log'[s] = log[s] /\ hub'[s] = hub[s]
  BY <1>t, LoggedStays
<1>4. q \in Busy /\ SameMac(q, r) => r \in met'[q]
  BY <1>t, <1>1, <1>2 DEF MetInv, Beside, SameMac
<1>5. q \in Busy => OthersIdsKept(q)
  <2>1. \A s \in Request : s # r => log'[s] = log[s]
    BY <1>f DEF Step, Authenticate, Validate, Save, Commit, Maximum, Publish, AuthenticateAgain,
                LastLog, DatabaseError, logs
  <2> QED BY <1>4, <2>1 DEF OthersIdsKept
<1>6. CASE Commit(r)
  <2>1. /\ pc[r] = "commit" /\ logged' = logged \cup {r} /\ hub' = hub
        /\ \A h \in Hub : h # hub[r] => status'[h] = status[h]
    BY <1>6, <1>f DEF Commit, Go, local
  <2>2. hub[r] \in Hub /\ Mac[hub[r]] = Ask[r].mac
    BY <1>t, <2>1 DEF Turn, FoundItsHub, Commands!For
  <2>3. CASE q \in Busy /\ SameMac(q, r)
    <3>1. r \in met'[q] \cap logged'
      BY <1>4, <2>1, <2>3
    <3>2. ~Undisturbed(q)' /\ (hub[q] = hub[r] => Outdated(q)')
      BY <2>1, <3>1 DEF Undisturbed, Outdated
    <3>3. RowsKept(q)
      BY <2>1, <3>2 DEF RowsKept, Commands!For
    <3> QED BY <1>t, <1>1, <1>2, <1>3, <1>5, <3>3, SameTurn
  <2>4. CASE ~SameMac(q, r)
    <3>1. \A h \in Hub : Mac[h] = Ask[q].mac => h # hub[r]
      BY <2>2, <2>4 DEF SameMac
    <3>2. \A h \in Hub : Mac[h] = Ask[q].mac => RowKept(h)
      BY <1>1, <2>1, <3>1 DEF RowKept, NoLogs
    <3>3. RowsKept(q)
      BY <3>2 DEF RowsKept, RowKept, Commands!For
    <3> QED BY <1>t, <1>1, <1>2, <1>3, <1>5, <3>3, SameTurn
  <2> QED BY <1>t, <1>1, <1>2, <1>3, <2>3, <2>4, SameTurn
<1>7. CASE ~Commit(r)
  <2>1. status' = status /\ logged' = logged
    BY <1>7 DEF Step, Authenticate, Validate, Save, Maximum, Publish, AuthenticateAgain, LastLog,
                DatabaseError, table, logs
  <2>2. \A h \in Hub : RowKept(h)
    BY <1>1, <1>3, <2>1 DEF RowKept, NoLogs
  <2>3. RowsKept(q)
    BY <2>1, <2>2 DEF RowsKept
  <2> QED BY <1>t, <1>1, <1>2, <1>3, <1>5, <2>3, SameTurn
<1> QED BY <1>6, <1>7

\* Each statement of a request keeps what it counts on itself.
LEMMA StepTurn ==
  ASSUME ApiInv, OverlapInv, OverlapNext, NEW r \in Request, Step(r)
  PROVE  Turn(r)'
<1> USE DEF Go, Halts
<1>t. TypeOK /\ MetInv /\ Turn(r) /\ [Next]_vars /\ [OverlapNext]_overlapVars
  BY DEF ApiInv, OverlapInv, OverlapNext
<1>f. /\ pc \in [Request -> PC] /\ hub \in [Request -> Hub \cup {Nil}]
      /\ copy \in [Request -> Status \cup {Nil}] /\ dirty \in [Request -> BOOLEAN]
      /\ log \in [Request -> Nat] /\ lastId \in Nat /\ logged \subseteq Request
      /\ newest \in [Request -> Nat] /\ updated \in [Request -> Hub \cup {Nil}]
      /\ body \in [Request -> Status \cup {Nil}] /\ status \in [Hub -> Status \cup {Nil}]
      /\ hubs \in [Hub -> {"new", "present", "destroyed"}]
  BY <1>t DEF TypeOK
<1>m. met[r] \subseteq met'[r]
  BY <1>t, NextMet
<1>l. logged \subseteq logged' /\ \A s \in logged : hub'[s] = hub[s] /\ log'[s] = log[s]
  BY <1>t, LoggedStays
<1>u. Undisturbed(r)' => Undisturbed(r)
  BY <1>m, <1>l DEF Undisturbed
<1>o. hub'[r] = hub[r] /\ ~Outdated(r)' => ~Outdated(r)
  BY <1>m, <1>l DEF Outdated
<1>1. CASE Authenticate(r)
  <2>1. pc[r] = "authenticate" /\ logged' = logged /\ r \notin logged /\ status' = status
    BY <1>1 DEF Authenticate, logs, table, ApiInv, LogHasHub, Early
  <2>2. CASE pc' = [pc EXCEPT ![r] = "done"]
    BY <1>f, <1>t, <2>1, <2>2, IdleTurn
  <2>3. ASSUME Refusal(Ask[r]) = "none", Failure(Ask[r]) = "none", NEW h \in Found(Ask[r]),
               hub' = [hub EXCEPT ![r] = h],
               copy' = [copy EXCEPT ![r] = NewStatus(status[h], Ask[r])],
               dirty' = [dirty EXCEPT ![r] = NewStatus(status[h], Ask[r]) # status[h]],
               pc' = [pc EXCEPT ![r] = "validate"]
        PROVE  Turn(r)'
    <3>1. /\ pc'[r] = "validate" /\ hub'[r] = h /\ copy'[r] = NewStatus(status[h], Ask[r])
          /\ dirty'[r] = (copy'[r] # status[h])
      BY <1>f, <2>3
    <3>2. h \in Commands!For(r) /\ status[h] \in Status \cup {Nil}
      BY <1>f DEF Found, Commands!For
    <3>3. FoundItsHub(r)' /\ CopyShows(r)' /\ CopyIsFresh(r)'
      BY <2>1, <2>3, <3>1, <3>2 DEF FoundItsHub, CopyShows, CopyIsFresh, Commands!For
    <3> QED BY <3>1, <3>3 DEF Turn, IdIsLast, ReplacementIsNew, CommandIsVisible, OwnNewest, AnswerShows
  <2> QED BY <1>1, <2>2, <2>3 DEF Authenticate
<1>2. CASE Validate(r)
  <2>1. /\ pc[r] = "validate" /\ logged' = logged /\ r \notin logged
        /\ UNCHANGED <<hubs, status, hub, copy, dirty>>
    BY <1>2 DEF Validate, logs, table, local, ApiInv, LogHasHub, Early
  <2>2. CASE pc' = [pc EXCEPT ![r] = "done"]
    BY <1>f, <1>t, <2>1, <2>2, IdleTurn
  <2>3. CASE /\ ~\E h \in Hub : h # hub[r] /\ hubs[h] = "present" /\ Mac[h] = Mac[hub[r]]
             /\ pc' = [pc EXCEPT ![r] = "save"]
    <3>1. pc'[r] = "save"
      BY <1>f, <2>3
    <3>2. \A h \in Hub : hubs[h] = "new" => NoLogs(h)
      BY <1>f DEF NoLogs, ApiInv, HubExisted, LogHasHub
    <3>3. ReplacementIsNew(r)'
      BY <1>f, <2>1, <2>3, <3>2 DEF ReplacementIsNew, NoLogs
    <3>4. FoundItsHub(r)' /\ CopyShows(r)' /\ CopyIsFresh(r)'
      BY <1>t, <1>o, <2>1, <3>1 DEF Turn, FoundItsHub, CopyShows, CopyIsFresh, Commands!For
    <3> QED BY <3>1, <3>3, <3>4 DEF Turn, IdIsLast, CommandIsVisible, OwnNewest, AnswerShows
  <2> QED BY <1>2, <2>2, <2>3 DEF Validate
<1>3. CASE Save(r)
  <2>1. /\ pc[r] = "save" /\ logged' = logged /\ r \notin logged
        /\ UNCHANGED <<hubs, status, hub, copy, dirty>>
    BY <1>3 DEF Save, table, local, ApiInv, LogHasHub, Early
  <2>2. pc'[r] = "commit" /\ log'[r] = lastId + 1 /\ \A s \in Request : s # r => log'[s] = log[s]
    BY <1>3, <1>f DEF Save
  <2>3. \A s \in Request : log[s] \in Nat /\ log[s] <= lastId
    BY <1>f DEF ApiInv, LogIds
  <2>4. IdIsLast(r)'
    BY <1>f, <2>2, <2>3 DEF IdIsLast
  <2>5. ReplacementIsNew(r)' /\ FoundItsHub(r)' /\ CopyShows(r)' /\ CopyIsFresh(r)'
    BY <1>t, <1>o, <1>u, <2>1, <2>2
       DEF Turn, ReplacementIsNew, NoLogs, FoundItsHub, CopyShows, CopyIsFresh, Commands!For
  <2> QED BY <2>2, <2>4, <2>5 DEF Turn, CommandIsVisible, OwnNewest, AnswerShows
<1>4. CASE Commit(r)
  <2>1. /\ pc[r] = "commit" /\ logged' = logged \cup {r} /\ hub[r] \in Hub
        /\ UNCHANGED <<hubs, hub, copy, dirty, log, lastId>>
    BY <1>4 DEF Commit, local, ApiInv, LogHasHub
  <2>2. pc'[r] = "maximum"
    BY <1>4, <1>f DEF Commit
  <2>3. ReplacementIsNew(r)' /\ FoundItsHub(r)' /\ IdIsLast(r)'
    BY <1>t, <1>m, <1>u, <2>1, <2>2
       DEF Turn, ReplacementIsNew, NoLogs, FoundItsHub, IdIsLast, Commands!For
  <2>4. Undisturbed(r) => ~Outdated(r)
    BY DEF Undisturbed, Outdated
  <2>5. hubs[hub[r]] = "present" /\ Undisturbed(r) =>
          status'[hub[r]] = NewStatus(status[hub[r]], Ask[r])
    BY <1>4, <1>f, <1>t, <2>1, <2>4 DEF Turn, CopyIsFresh, Commit
  <2>6. Commands!Makes(status[hub[r]], NewStatus(status[hub[r]], Ask[r]), Ask[r])
    BY <1>f, <1>t, <2>1, NewStatusMakes DEF Turn, FoundItsHub
  <2>7. CommandIsVisible(r)'
    BY <1>u, <2>1, <2>2, <2>5, <2>6 DEF CommandIsVisible, Visible, Commands!Makes, Commands!Shows
  <2> QED BY <2>2, <2>3, <2>7 DEF Turn, CopyShows, CopyIsFresh, OwnNewest, AnswerShows
<1>5. CASE Maximum(r)
  <2>1. pc[r] = "maximum" /\ UNCHANGED <<hubs, status, hub, copy, dirty, log, lastId, logged>>
    BY <1>5 DEF Maximum, local, logs, table
  <2>2. pc'[r] = "publish" /\ newest'[r] \in Logs(hub[r]) /\ IsNewest(newest'[r], Logs(hub[r]))
    BY <1>5, <1>f DEF Maximum
  <2>3. r \in logged /\ log[r] \in Logs(hub[r])
    BY <1>t, <2>1 DEF Turn, CommandIsVisible, Logs
  <2>4. PICK s \in logged : hub[s] = hub[r] /\ newest'[r] = log[s]
    BY <2>2 DEF Logs
  <2>5. log[r] <= log[s]
    BY <2>2, <2>3, <2>4 DEF IsNewest
  <2>6. SameMac(r, s)
    <3>1. Turn(s) /\ Turn(r)
      BY <1>f, <1>t, <2>4 DEF OverlapInv
    <3> QED BY <2>3, <2>4, <3>1 DEF Turn, FoundItsHub, Commands!For, SameMac
  <2>7. s \in {r} \cup met[r]
    <3>1. s # r => s \in met[r] \/ log[s] < log[r]
      BY <1>f, <1>t, <2>1, <2>4, <2>6 DEF Turn, IdIsLast
    <3>2. ~(log[s] < log[r])
      BY <1>f, <2>4, <2>5
    <3> QED BY <3>1, <3>2
  <2>8. OwnNewest(r)'
    BY <1>m, <2>1, <2>4, <2>5, <2>7 DEF OwnNewest
  <2>9. ReplacementIsNew(r)' /\ FoundItsHub(r)' /\ IdIsLast(r)' /\ CommandIsVisible(r)'
    BY <1>t, <1>m, <1>u, <2>1, <2>2 DEF Turn, ReplacementIsNew, NoLogs, FoundItsHub, IdIsLast,
                            CommandIsVisible, Visible, Commands!For, Commands!Shows
  <2> QED BY <2>2, <2>8, <2>9 DEF Turn, CopyShows, CopyIsFresh, AnswerShows
<1>6. CASE Publish(r)
  <2>1. pc[r] = "publish" /\ UNCHANGED <<hubs, status, hub, copy, dirty, log, lastId, logged, newest>>
    BY <1>6 DEF Publish, local, logs, table
  <2>2. CASE pc' = [pc EXCEPT ![r] = "again"]
    <3>1. pc'[r] = "again"
      BY <1>f, <2>2
    <3>2. ReplacementIsNew(r)' /\ FoundItsHub(r)' /\ CommandIsVisible(r)'
      BY <1>t, <1>u, <2>1, <3>1 DEF Turn, ReplacementIsNew, NoLogs, FoundItsHub, CommandIsVisible,
                              Visible, Commands!For, Commands!Shows
    <3> QED BY <3>1, <3>2 DEF Turn, CopyShows, CopyIsFresh, IdIsLast, OwnNewest, AnswerShows
  <2>3. CASE pc' = [pc EXCEPT ![r] = "done"]
    BY <1>f, <1>t, <2>1, <2>3, IdleTurn
  <2> QED BY <1>6, <2>2, <2>3 DEF Publish
<1>7. CASE AuthenticateAgain(r)
  <2>1. pc[r] = "again" /\ UNCHANGED <<hubs, status, hub, log, lastId, logged>>
    BY <1>7 DEF AuthenticateAgain, local, logs, table
  <2>2. CASE pc' = [pc EXCEPT ![r] = "done"]
    BY <1>f, <1>t, <2>1, <2>2, IdleTurn
  <2>3. ASSUME NEW h \in Found(Ask[r]), pc' = [pc EXCEPT ![r] = "last"],
               updated' = [updated EXCEPT ![r] = h], body' = [body EXCEPT ![r] = status[h]]
        PROVE  Turn(r)'
    <3>1. pc'[r] = "last" /\ updated'[r] = h /\ body'[r] = status[h]
      BY <1>f, <2>3
    <3>2. h \in Hub /\ hubs[h] = "present" /\ Mac[h] = Ask[r].mac /\ h \in Commands!For(r)
      BY DEF Found, Commands!For
    <3>3. r \in logged /\ Mac[hub[r]] = Ask[r].mac
      BY <1>t, <2>1 DEF Turn, CommandIsVisible, FoundItsHub, Commands!For
    <3>4. Undisturbed(r) => NoLogs(h) \/ Visible(h, r)
      BY <1>t, <2>1, <3>2, <3>3 DEF Turn, ReplacementIsNew, CommandIsVisible
    <3>5. AnswerShows(r)'
      BY <1>u, <2>1, <3>1, <3>2, <3>4 DEF AnswerShows, NoLogs, Visible, Commands!For, Commands!Shows
    <3>6. FoundItsHub(r)'
      BY <1>t, <2>1, <3>3 DEF Turn, FoundItsHub, Commands!For
    <3> QED BY <3>1, <3>5, <3>6 DEF Turn, IdIsLast, CopyShows, CopyIsFresh, ReplacementIsNew,
                                    CommandIsVisible, OwnNewest
  <2> QED BY <1>7, <2>2, <2>3 DEF AuthenticateAgain
<1>8. CASE LastLog(r)
  <2>1. pc'[r] = "done" /\ UNCHANGED <<hub, logged>>
    BY <1>8, <1>f DEF LastLog, local, logs
  <2> QED BY <1>t, <2>1, IdleTurn
<1> QED BY <1>1, <1>2, <1>3, <1>4, <1>5, <1>6, <1>7, <1>8 DEF Step

\* Steps after which the rows are as before, and nothing local has changed but
\* that some requests begin or end.
LEMMA QuietTurns ==
  ASSUME ApiInv, OverlapInv, [OverlapNext]_overlapVars,
         UNCHANGED <<table, local, updated, logs, newest>>,
         \A q \in Request :
           \/ pc'[q] \in {"new", "authenticate", "done"}
           \/ pc'[q] = pc[q] /\ body'[q] = body[q]
  PROVE  OverlapInv'
<1>1. MetInv' /\ \A q \in Request : met[q] \subseteq met'[q]
  BY NextMet DEF OverlapInv
<1>2. ASSUME NEW q \in Request PROVE Turn(q)'
  <2>1. CASE pc'[q] \in {"new", "authenticate", "done"}
    BY <2>1, IdleTurn DEF OverlapInv, local, logs
  <2>2. CASE pc'[q] = pc[q] /\ body'[q] = body[q]
    <3>1. Same(q) /\ OthersIdsKept(q) /\ RowsKept(q)
      BY <2>2 DEF Same, OthersIdsKept, RowsKept, RowKept, NoLogs, table, local, logs
    <3> QED BY <1>1, <3>1, SameTurn DEF OverlapInv, local, logs
  <2> QED BY <2>1, <2>2
<1> QED BY <1>1, <1>2 DEF OverlapInv

\* Every step of the system keeps the invariant.
LEMMA NextOverlap ==
  ASSUME ApiInv, OverlapInv, [OverlapNext]_overlapVars
  PROVE  OverlapInv'
<1>t. TypeOK /\ pc \in [Request -> PC] /\ MetInv /\ \A q \in Request : Turn(q)
  BY DEF ApiInv, TypeOK, OverlapInv
<1>m. MetInv' /\ \A q \in Request : met[q] \subseteq met'[q]
  BY <1>t, NextMet
<1>1. ASSUME OverlapNext, NEW r \in Request, Step(r) PROVE OverlapInv'
  BY <1>1, <1>m, StepTurn, OthersTurn DEF OverlapInv
<1>2. ASSUME OverlapNext, NEW r \in Request, DatabaseError(r) PROVE OverlapInv'
  <2>1. pc'[r] = "done" /\ UNCHANGED <<hub, logged>>
    BY <1>2, <1>t DEF DatabaseError, Go, local, logs
  <2>2. Turn(r)'
    BY <1>t, <2>1, IdleTurn
  <2> QED BY <1>2, <1>m, <2>2, OthersTurn DEF OverlapInv
<1>3. ASSUME NEW r \in Request, Arrives(r) PROVE OverlapInv'
  BY <1>3, <1>t, QuietTurns DEF Arrives, answer
<1>4. ASSUME NEW S \in SUBSET Busy, Killed(S) PROVE OverlapInv'
  BY <1>4, <1>t, QuietTurns DEF Killed
<1>5. ASSUME NEW h \in Hub, HubCreated(h) \/ HubDestroyed(h) PROVE OverlapInv'
  <2>1. UNCHANGED <<status, pc, local, updated, logs, newest, queue, answer>>
    BY <1>5 DEF HubCreated, HubDestroyed
  <2>2. hubs \in [Hub -> {"new", "present", "destroyed"}]
    BY <1>t DEF TypeOK
  <2>3. \A g \in Hub : (hubs'[g] # "destroyed" => hubs[g] # "destroyed")
                       /\ (hubs[g] # "new" /\ hubs'[g] = "present" => hubs[g] = "present")
    BY <1>5, <2>2 DEF HubCreated, HubDestroyed
  <2>4. \A q \in Request : hub[q] \in Hub => hubs[hub[q]] # "new"
    BY DEF ApiInv, HubExisted
  <2>5. met' = met
    BY <1>t, <2>1, NothingMet DEF Busy
  <2>6. ASSUME NEW q \in Request PROVE Turn(q)'
    <3>1. Turn(q) /\ (Undisturbed(q)' <=> Undisturbed(q)) /\ (Outdated(q)' <=> Outdated(q))
      BY <1>t, <2>1, <2>5 DEF Undisturbed, Outdated, logs, local
    <3>2. /\ IdIsLast(q)' /\ FoundItsHub(q)' /\ CopyShows(q)' /\ CopyIsFresh(q)'
          /\ OwnNewest(q)' /\ AnswerShows(q)'
      BY <2>1, <2>5, <3>1 DEF Turn, IdIsLast, FoundItsHub, CopyShows, CopyIsFresh, OwnNewest,
                        AnswerShows, NoLogs, Visible, Commands!For, Commands!Shows, local, logs, answer
    <3>3. ReplacementIsNew(q)'
      BY <2>1, <2>3, <3>1 DEF Turn, ReplacementIsNew, NoLogs, local, logs
    <3>4. CommandIsVisible(q)'
      <4>1. q \in logged => hub[q] \in Hub
        BY <3>1 DEF Turn, FoundItsHub, Commands!For
      <4> QED BY <2>1, <2>3, <2>4, <3>1, <4>1 DEF Turn, CommandIsVisible, Visible, Commands!Shows,
                                               local, logs
    <3> QED BY <3>2, <3>3, <3>4 DEF Turn
  <2> QED BY <1>m, <2>6 DEF OverlapInv
<1>6. ASSUME NEW i \in DOMAIN published, Processed(i) PROVE OverlapInv'
  BY <1>6, QuietTurns DEF Processed, answer
<1>7. CASE UNCHANGED overlapVars
  BY <1>7, QuietTurns DEF overlapVars, vars, answer
<1> QED BY <1>1, <1>2, <1>3, <1>4, <1>5, <1>6, <1>7 DEF OverlapNext, Next, Environment

LEMMA InitOverlap == OverlapInit => OverlapInv
<1> SUFFICES ASSUME OverlapInit PROVE OverlapInv
  OBVIOUS
<1>1. \A q \in Request : Turn(q)
  BY DEF OverlapInit, Init, Turn, IdIsLast, FoundItsHub, CopyShows, CopyIsFresh, ReplacementIsNew,
         CommandIsVisible, OwnNewest, AnswerShows
<1>2. MetInv
  BY DEF OverlapInit, Init, MetInv, Beside, Busy
<1> QED BY <1>1, <1>2 DEF OverlapInv

\* What is added to the API changes nothing in it.
LEMMA OverlapIsApi == OverlapSpec => Spec
<1>1. OverlapInit => Init
  BY DEF OverlapInit
<1>2. [OverlapNext]_overlapVars => [Next]_vars
  BY DEF OverlapNext, overlapVars
<1> QED BY <1>1, <1>2, PTL DEF OverlapSpec, Spec

-----------------------------------------------------------------------------
(* Every step is a step of HubCommands, or none.                           *)

Alive == {h \in Hub : hubs[h] = "present"}
Effect == [r \in Request |-> IF r \in logged THEN log[r] ELSE 0]
Good == [r \in Request |-> IF reply[r] = "200" THEN <<body[r]>> ELSE <<>>]

\* What does not change for the abstract system.
LEMMA SameEffect ==
  ASSUME ApiInv, [Next]_vars, logged' = logged
  PROVE  Effect' = Effect
<1>1. logged \subseteq Request
  BY DEF ApiInv, TypeOK
<1> QED BY <1>1, LoggedStays DEF Effect

LEMMA SameGood ==
  ASSUME \A r \in Request : reply[r] = "200" => reply'[r] = "200" /\ body'[r] = body[r],
         \A r \in Request : reply'[r] = "200" => reply[r] = "200"
  PROVE  Good' = Good
BY DEF Good

\* Those it met that took effect are those that were saved.
LEMMA Disturbing ==
  ASSUME ApiInv, MetInv, NEW r \in Request, ~Undisturbed(r)
  PROVE  Commands!Disturbed(r)
<1>1. PICK s \in met[r] : s \in logged
  BY DEF Undisturbed
<1>2. s \in Request /\ log[s] # 0
  BY <1>1 DEF ApiInv, TypeOK, LogHasHub
<1> QED BY <1>1, <1>2 DEF Commands!Disturbed

\* Requests at work after one of them has moved on, or ended.
LEMMA BusyAfter ==
  ASSUME TypeOK, NEW r \in Busy, NEW x, pc' = [pc EXCEPT ![r] = x]
  PROVE  /\ x \notin {"new", "done"} => Busy' = Busy
         /\ x = "done" => Busy' = Busy \ {r}
BY DEF TypeOK, Busy

\* Steps that change nothing, or only end some requests.
LEMMA Quiet ==
  ASSUME ApiInv, MetInv, [OverlapNext]_overlapVars, Busy' \subseteq Busy,
         UNCHANGED <<hubs, status, logged, published>>, Good' = Good
  PROVE  Commands!Next
<1>1. met' = met /\ [Next]_vars
  BY NothingMet DEF OverlapNext, overlapVars
<1>2. Alive' = Alive /\ Effect' = Effect
  BY <1>1, SameEffect DEF Alive
<1>3. Commands!End(Busy \ Busy')
  BY <1>1, <1>2 DEF Commands!End, Alive, Effect, Good
<1> QED BY <1>3 DEF Commands!Next

\* A request that starts meets those at work.
LEMMA ArrivalBegins ==
  ASSUME ApiInv, OverlapNext, NEW r \in Request, Arrives(r)
  PROVE  Commands!Begin(r)
<1>1. pc \in [Request -> PC] /\ pc[r] = "new" /\ pc' = [pc EXCEPT ![r] = "authenticate"]
      /\ UNCHANGED <<hubs, status, log, logged, published, reply, body>>
  BY DEF Arrives, ApiInv, TypeOK, table, logs, queue, answer
<1>2. r \notin Busy /\ Busy' = Busy \cup {r} /\ r \notin logged
  BY <1>1 DEF Busy, ApiInv, LogHasHub, Early
<1>3. \A s \in Request : Beside(s, Busy') = Commands!Beside(s, Busy')
  BY DEF Beside, Commands!Beside, Commands!SameMac
<1>4. met' = [s \in Request |-> met[s] \cup Commands!Beside(s, Busy')]
  BY <1>3 DEF OverlapNext
<1>5. Alive' = Alive /\ Effect' = Effect /\ Good' = Good /\ Effect[r] = 0
  BY <1>1, <1>2 DEF Alive, Effect, Good
<1> QED BY <1>1, <1>2, <1>4, <1>5 DEF Commands!Begin, Alive, Effect, Good

\* A commit takes effect, under an id above those of all it did not meet.
LEMMA CommitTakesEffect ==
  ASSUME ApiInv, OverlapInv, [OverlapNext]_overlapVars, NEW r \in Request, Commit(r)
  PROVE  Commands!TakeEffect(r)
<1>f. /\ log \in [Request -> Nat] /\ lastId \in Nat /\ logged \subseteq Request
      /\ hub \in [Request -> Hub \cup {Nil}] /\ status \in [Hub -> Status \cup {Nil}]
      /\ pc \in [Request -> PC] /\ TypeOK /\ MetInv /\ Turn(r)
  BY DEF ApiInv, TypeOK, OverlapInv
<1>1. /\ pc[r] = "commit" /\ pc' = [pc EXCEPT ![r] = "maximum"]
      /\ logged' = logged \cup {r} /\ r \notin logged /\ log[r] # 0
      /\ UNCHANGED <<hubs, hub, copy, dirty, log, published, answer>>
  BY DEF Commit, Go, local, queue, ApiInv, LogHasHub
<1>2. Effect[r] = 0 /\ Effect'[r] = log[r] /\ Effect' \in [Request -> Nat]
  BY <1>f, <1>1 DEF Effect
<1>3. \A s \in Request : s # r => Effect'[s] = Effect[s] /\ Effect[s] \in {0, log[s]}
  BY <1>1 DEF Effect
<1>4. \A s \in Request \ {r} : Effect'[s] = Effect[s] /\ Effect[s] # Effect'[r]
  <2>1. \A s \in Request : s # r => log[s] # log[r]
    BY <1>f, <1>1 DEF ApiInv, LogIds
  <2> QED BY <1>1, <1>2, <1>3, <2>1
<1>5. \A s \in Request \ {r} : Commands!SameMac(r, s) => s \in met[r] \/ Effect[s] < Effect'[r]
  <2>1. \A s \in Request \ {r} : Commands!SameMac(r, s) => s \in met[r] \/ log[s] < log[r]
    BY <1>f, <1>1 DEF Turn, IdIsLast, SameMac, Commands!SameMac
  <2> QED BY <1>f, <1>1, <1>2, <1>3, <2>1
<1>6. hub[r] \in Commands!For(r) /\ hub[r] \in Hub /\ Refusal(Ask[r]) = "none" /\ Failure(Ask[r]) = "none"
  BY <1>f, <1>1 DEF Turn, FoundItsHub, Commands!For
<1>7. Commands!Writes(r, hub[r])
  <2>1. CASE hub[r] \notin Alive
    <3>1. status'[hub[r]] = status[hub[r]]
      BY <1>6, <2>1 DEF Commit, Alive
    <3> QED BY <2>1, <3>1 DEF Commands!Writes, Alive
  <2>2. CASE hub[r] \in Alive /\ ~Outdated(r)
    <3>1. copy[r] = NewStatus(status[hub[r]], Ask[r]) /\ dirty[r] = (copy[r] # status[hub[r]])
      BY <1>f, <1>1, <2>2 DEF Turn, CopyIsFresh
    <3>2. status'[hub[r]] = NewStatus(status[hub[r]], Ask[r])
      BY <1>f, <1>6, <2>2, <3>1 DEF Commit, Alive
    <3>3. Commands!Makes(status[hub[r]], NewStatus(status[hub[r]], Ask[r]), Ask[r])
      BY <1>f, <1>6, NewStatusMakes
    <3> QED BY <2>2, <3>2, <3>3 DEF Commands!Writes, Alive
  <2>3. CASE hub[r] \in Alive /\ Outdated(r)
    <3>1. Commands!Disturbed(r)
      BY <1>f, <2>3, Disturbing DEF Outdated, Undisturbed
    <3>2. PICK old \in Status \cup {Nil} : copy[r] = NewStatus(old, Ask[r])
      BY <1>f, <1>1 DEF Turn, CopyShows
    <3>3. Commands!Shows(copy[r], Ask[r])
      BY <1>6, <3>2, NewStatusMakes DEF Commands!Makes
    <3>4. status'[hub[r]] \in {status[hub[r]], copy[r]}
      BY <1>f, <1>6 DEF Commit
    <3>5. status'[hub[r]] = status[hub[r]] \/ Commands!Shows(status'[hub[r]], Ask[r])
      BY <3>3, <3>4 DEF Commands!Shows
    <3> QED BY <2>3, <3>1, <3>5 DEF Commands!Writes, Alive
  <2> QED BY <2>1, <2>2, <2>3
<1>8. \A g \in Hub \ {hub[r]} : status'[g] = status[g]
  BY <1>f DEF Commit
<1>9. r \in Busy /\ Busy' = Busy
  <2>1. r \in Busy
    BY <1>1 DEF Busy
  <2>2. "maximum" \notin {"new", "done"}
    OBVIOUS
  <2> QED BY <1>f, <1>1, <2>1, <2>2, BusyAfter
<1>10. Alive' = Alive /\ Good' = Good /\ met' = met
  BY <1>f, <1>1, <1>9, NothingMet DEF Alive, Good, answer
<1>11. Effect'[r] # 0
  BY <1>1, <1>2
<1>12. \E h \in Commands!For(r) :
          Commands!Writes(r, h) /\ \A g \in Hub \ {h} : status'[g] = status[g]
  BY <1>6, <1>7, <1>8
<1> QED BY <1>1, <1>2, <1>4, <1>5, <1>9, <1>10, <1>11, <1>12
        DEF Commands!TakeEffect, Commands!requests, Alive, Effect, Good

\* A publication tells, under the id of its own log or of one of a request it met.
LEMMA PublishTells ==
  ASSUME ApiInv, OverlapInv, OnceInv, [OverlapNext]_overlapVars,
         NEW r \in Request, Publish(r), published' # published
  PROVE  Commands!Tell(r)
<1>f. /\ log \in [Request -> Nat] /\ logged \subseteq Request /\ TypeOK /\ MetInv
      /\ pc \in [Request -> PC] /\ [Next]_vars /\ Turn(r)
  BY DEF ApiInv, TypeOK, OverlapInv, Next, Step
<1>1. /\ pc[r] = "publish" /\ r \in logged
      /\ UNCHANGED <<hubs, status, hub, log, logged>>
  BY <1>f DEF Publish, Go, table, local, logs, Turn, CommandIsVisible
<1>2. log[r] # 0
  BY <1>1 DEF ApiInv, LogHasHub
<1>3. Messages(r) = {}
  BY <1>1 DEF OnceInv, Once
<1>4. r \notin Commands!Told
  BY <1>3 DEF Commands!Told, Messages
<1>5. \A s \in logged : Effect[s] = log[s]
  BY <1>f DEF Effect
<1>6. PICK s \in logged : s \in {r} \cup met[r] /\ newest[r] = log[s] /\ log[r] <= log[s]
  BY <1>f, <1>1 DEF Turn, OwnNewest
<1>7. /\ Effect[r] <= Effect[s]
      /\ published' = Append(published, [request |-> r, id |-> Effect[s]])
  BY <1>1, <1>5, <1>6 DEF Publish
<1>8. \A q \in Commands!Told : Commands!SameMac(r, q) => q \in met[r] \/ Effect[q] < Effect[r]
  <2>1. \A q \in Commands!Told : q \in Request /\ q # r
    <3>1. \A i \in DOMAIN published : published[i].request \in Request
      <4> SUFFICES ASSUME NEW i \in DOMAIN published PROVE published[i].request \in Request
        OBVIOUS
      <4>1. published \in Seq([request : Request, id : Nat])
        BY <1>f DEF TypeOK
      <4>2. published[i] \in [request : Request, id : Nat]
        BY <4>1, ItemType
      <4> QED BY <4>2
    <3> QED BY <1>4, <3>1 DEF Commands!Told
  <2>2. \A q \in Request \ {r} : Commands!SameMac(r, q) => q \in met[r] \/ log[q] < log[r]
    BY <1>f, <1>1 DEF Turn, IdIsLast, SameMac, Commands!SameMac
  <2>3. \A q \in Request : Effect[q] \in {0, log[q]}
    BY DEF Effect
  <2>4. 0 < log[r]
    BY <1>f, <1>2
  <2> QED BY <1>1, <1>5, <2>1, <2>2, <2>3, <2>4
<1>9. Alive' = Alive /\ Effect' = Effect
  BY <1>1, <1>f, SameEffect DEF Alive
<1>10. Good' = Good
  <2>1. CASE UNCHANGED answer
    BY <2>1 DEF Good, answer
  <2>2. CASE Halts(r, "500")
    <3>1. reply[r] = "none" /\ reply' = [reply EXCEPT ![r] = "500"] /\ body' = body
      BY <1>1, <2>2 DEF Halts, OnceInv, Once
    <3> QED BY <1>f, <3>1 DEF Good, TypeOK
  <2> QED BY <2>1, <2>2 DEF Publish
<1>11. r \in Busy /\ Busy' \in {Busy, Busy \ {r}}
  <2>1. r \in Busy
    BY <1>1 DEF Busy
  <2>2. pc' = [pc EXCEPT ![r] = "again"] \/ pc' = [pc EXCEPT ![r] = "done"]
    BY DEF Publish, Go, Halts
  <2>3. "again" \notin {"new", "done"}
    OBVIOUS
  <2> QED BY <1>f, <2>1, <2>2, <2>3, BusyAfter
<1>12. met' = met
  BY <1>f, <1>11, NothingMet
<1>13. Effect[r] # 0
  BY <1>1, <1>2, <1>5
<1> QED BY <1>1, <1>4, <1>6, <1>7, <1>8, <1>9, <1>10, <1>11, <1>12, <1>13
        DEF Commands!Tell, Alive, Effect, Good

\* An answer "200" confirms.
LEMMA AnswerConfirms ==
  ASSUME ApiInv, OverlapInv, OnceInv, [OverlapNext]_overlapVars,
         NEW r \in Request, LastLog(r), reply'[r] = "200"
  PROVE  Commands!Confirm(r)
<1>f. /\ logged \subseteq Request /\ reply \in [Request -> Codes \cup {"none"}] /\ MetInv
      /\ body \in [Request -> Status \cup {Nil}] /\ TypeOK /\ [Next]_vars
      /\ pc \in [Request -> PC]
  BY DEF ApiInv, TypeOK, OverlapInv, Next, Step
<1>1. /\ pc[r] = "last" /\ Logs(updated[r]) # {} /\ reply' = [reply EXCEPT ![r] = "200"]
      /\ pc' = [pc EXCEPT ![r] = "done"]
      /\ UNCHANGED <<hubs, status, body, logged, published>>
  BY <1>f DEF LastLog, Go, table, logs, queue
<1>2. Commands!Disturbed(r) \/ \E h \in Commands!For(r) :
        status[h] # Nil /\ Commands!Shows(status[h], Ask[r]) /\ body[r] = status[h]
  <2>1. CASE ~Undisturbed(r)
    BY <1>f, <2>1, Disturbing
  <2>2. CASE Undisturbed(r)
    <3>1. ~NoLogs(updated[r])
      BY <1>1 DEF Logs, NoLogs
    <3>2. /\ updated[r] \in Commands!For(r) /\ body[r] = status[updated[r]]
          /\ Visible(updated[r], r)
      BY <1>1, <2>2, <3>1 DEF OverlapInv, Turn, AnswerShows
    <3> QED BY <3>2 DEF Visible
  <2> QED BY <2>1, <2>2
<1>3. reply[r] = "none" /\ Messages(r) # {}
  BY <1>1 DEF OnceInv, Once
<1>4. r \in Commands!Told
  BY <1>3 DEF Messages, Commands!Told
<1>5. Good[r] = <<>> /\ Good' = [Good EXCEPT ![r] = <<body[r]>>]
  BY <1>f, <1>1, <1>3 DEF Good
<1>6. Good'[r] = <<body[r]>> /\ Good' = [Good EXCEPT ![r] = Good'[r]] /\ <<body[r]>> # <<>>
  BY <1>5 DEF Good
<1>7. r \in Busy /\ Busy' = Busy \ {r}
  <2>1. r \in Busy
    BY <1>1 DEF Busy
  <2> QED BY <1>f, <1>1, <2>1, BusyAfter
<1>8. Alive' = Alive /\ Effect' = Effect /\ met' = met
  BY <1>1, <1>f, <1>7, SameEffect, NothingMet DEF Alive
<1> QED BY <1>1, <1>2, <1>4, <1>5, <1>6, <1>7, <1>8
        DEF Commands!Confirm, Alive, Effect, Good

\* A row that comes or goes.
LEMMA HubChanges ==
  ASSUME ApiInv, OverlapInv, [OverlapNext]_overlapVars,
         NEW h \in Hub, HubCreated(h) \/ HubDestroyed(h)
  PROVE  Commands!Change(h)
<1>1. UNCHANGED <<status, pc, log, logged, published, answer>>
  BY DEF HubCreated, HubDestroyed, logs, queue
<1>2. hubs \in [Hub -> {"new", "present", "destroyed"}]
  BY DEF ApiInv, TypeOK
<1>3. Alive' = IF h \in Alive THEN Alive \ {h} ELSE Alive \cup {h}
  BY <1>2 DEF Alive, HubCreated, HubDestroyed
<1>4. Effect' = Effect /\ Good' = Good /\ Busy' = Busy
  BY <1>1 DEF Effect, Good, Busy, answer
<1>5. met' = met
  BY <1>4, NothingMet DEF OverlapInv
<1> QED BY <1>1, <1>3, <1>4, <1>5
        DEF Commands!Change, Commands!requests, Alive, Effect, Good

\* A statement moves one request at work.
LEMMA StepBusy ==
  ASSUME TypeOK, NEW r \in Request, Step(r)
  PROVE  Busy' \subseteq Busy
<1>1. \E x : pc' = [pc EXCEPT ![r] = x]
  BY DEF Step, Authenticate, Validate, Save, Commit, Maximum, Publish, AuthenticateAgain, LastLog,
         Go, Halts
<1>2. pc[r] \notin {"new", "done"}
  BY DEF Step, Authenticate, Validate, Save, Commit, Maximum, Publish, AuthenticateAgain, LastLog,
         Go
<1>3. \A q \in Request : q # r => pc'[q] = pc[q]
  BY <1>1 DEF TypeOK
<1> QED BY <1>2, <1>3 DEF Busy

LEMMA NextImplements ==
  ASSUME ApiInv, OverlapInv, OnceInv, OverlapNext
  PROVE  Commands!Next
<1>t. TypeOK /\ reply \in [Request -> Codes \cup {"none"}] /\ pc \in [Request -> PC] /\ MetInv
  BY DEF ApiInv, TypeOK, OverlapInv
<1>q. \A q \in Request : pc[q] # "done" => reply[q] # "200"
  BY DEF OnceInv, Once
<1>s. Busy' \subseteq Busy /\ UNCHANGED <<hubs, status, logged, published>> /\ Good' = Good
      => Commands!Next
  BY <1>t, Quiet
<1>1. ASSUME NEW r \in Request, Step(r) PROVE Commands!Next
  <2>b. Busy' \subseteq Busy
    BY <1>t, <1>1, StepBusy
  <2>1. CASE Commit(r)
    BY <2>1, CommitTakesEffect DEF Commands!Next
  <2>2. CASE Publish(r) /\ published' # published
    BY <2>2, PublishTells DEF Commands!Next
  <2>3. CASE LastLog(r) /\ reply'[r] = "200"
    BY <2>3, AnswerConfirms DEF Commands!Next
  <2>g. ASSUME pc[r] # "done", reply'[r] # "200",
               \A q \in Request : q # r => reply'[q] = reply[q] /\ body'[q] = body[q]
        PROVE  Good' = Good
    BY <1>q, <2>g, SameGood
  <2>4. CASE Publish(r) /\ published' = published
    <3>1. pc[r] = "publish" /\ reply'[r] = "500"
          /\ \A q \in Request : q # r => reply'[q] = reply[q] /\ body'[q] = body[q]
      <4>1. published \in Seq([request : Request, id : Nat])
        BY <1>t DEF TypeOK
      <4>2. PICK m : m = [request |-> r, id |-> newest[r]]
        OBVIOUS
      <4>3. PICK M : M = [request : Request, id : Nat]
        OBVIOUS
      <4>4. published \in Seq(M)
        BY <4>1, <4>3
      <4>5. Append(published, m) # published
        BY <4>4
      <4>6. Halts(r, "500") /\ pc[r] = "publish"
        BY <2>4, <4>2, <4>5 DEF Publish, Go
      <4> QED BY <1>t, <4>6 DEF Halts
    <3> QED BY <1>s, <2>b, <2>4, <2>g, <3>1 DEF Publish, table, logs
  <2>5. CASE LastLog(r) /\ reply'[r] # "200"
    BY <1>s, <1>t, <2>b, <2>5, <2>g DEF LastLog, Go, table, logs, queue, TypeOK
  <2>6. CASE Authenticate(r)
    <3>1. Good' = Good
      <4>1. CASE UNCHANGED answer
        BY <4>1 DEF Good, answer
      <4>2. ASSUME NEW code \in {"401", "404", "406", "500"}, Halts(r, code) PROVE Good' = Good
        BY <1>t, <2>6, <2>g, <4>2 DEF Halts, Authenticate
      <4> QED BY <2>6, <4>1, <4>2 DEF Authenticate, Refusal, Failure
    <3> QED BY <1>s, <2>b, <2>6, <3>1 DEF Authenticate, table, logs, queue
  <2>7. CASE Validate(r)
    <3>1. Good' = Good
      <4>1. CASE UNCHANGED answer
        BY <4>1 DEF Good, answer
      <4>2. CASE Halts(r, "500")
        BY <1>t, <2>7, <2>g, <4>2 DEF Halts, Validate
      <4> QED BY <2>7, <4>1, <4>2 DEF Validate
    <3> QED BY <1>s, <2>b, <2>7, <3>1 DEF Validate, table, logs, queue
  <2>8. CASE Save(r) \/ Maximum(r)
    <3>1. UNCHANGED <<hubs, status, logged, published>> /\ Good' = Good
      BY <2>8 DEF Save, Maximum, table, logs, queue, answer, Good
    <3> QED BY <1>s, <2>b, <3>1
  <2>9. CASE AuthenticateAgain(r)
    <3>1. Good' = Good
      <4>1. CASE Halts(r, "406")
        BY <1>t, <2>9, <2>g, <4>1 DEF Halts, AuthenticateAgain, Go
      <4>2. ASSUME NEW h, reply' = reply, body' = [body EXCEPT ![r] = status[h]], pc[r] = "again"
            PROVE  Good' = Good
        BY <1>q, <1>t, <2>g, <4>2 DEF TypeOK
      <4> QED BY <2>9, <4>1, <4>2 DEF AuthenticateAgain, Go
    <3> QED BY <1>s, <2>b, <2>9, <3>1 DEF AuthenticateAgain, table, logs, queue
  <2> QED BY <1>1, <2>1, <2>2, <2>3, <2>4, <2>5, <2>6, <2>7, <2>8, <2>9 DEF Step
<1>2. ASSUME NEW r \in Request, Arrives(r) PROVE Commands!Next
  BY <1>2, ArrivalBegins DEF Commands!Next
<1>3. ASSUME NEW r \in Request, DatabaseError(r) PROVE Commands!Next
  <2>1. pc[r] # "done" /\ reply'[r] = "500" /\ pc' = [pc EXCEPT ![r] = "done"]
        /\ \A q \in Request : q # r => reply'[q] = reply[q] /\ body'[q] = body[q]
    BY <1>3, <1>t DEF DatabaseError, Go, TypeOK
  <2>2. Good' = Good
    BY <1>q, <2>1, SameGood
  <2>3. Busy' \subseteq Busy
    BY <1>t, <2>1 DEF Busy
  <2> QED BY <1>s, <1>3, <2>2, <2>3 DEF DatabaseError, table, logs, queue
<1>4. ASSUME NEW S \in SUBSET Busy, Killed(S) PROVE Commands!Next
  <2>1. Good' = Good
    BY <1>4, <1>q, SameGood DEF Killed, Busy
  <2>2. Busy' \subseteq Busy
    BY <1>4 DEF Killed, Busy
  <2> QED BY <1>s, <1>4, <2>1, <2>2 DEF Killed, table, logs, queue
<1>5. ASSUME NEW h \in Hub, HubCreated(h) \/ HubDestroyed(h) PROVE Commands!Next
  BY <1>5, HubChanges DEF Commands!Next
<1>6. ASSUME NEW i \in DOMAIN published, Processed(i) PROVE Commands!Next
  <2>1. Good' = Good /\ Busy' = Busy
    BY <1>6 DEF Processed, answer, Good, Busy
  <2> QED BY <1>s, <1>6, <2>1 DEF Processed, table, logs
<1> QED BY <1>1, <1>2, <1>3, <1>4, <1>5, <1>6 DEF OverlapNext, Next, Environment

LEMMA InitImplements == OverlapInit => Commands!Init
<1> SUFFICES ASSUME OverlapInit PROVE Commands!Init
  OBVIOUS
<1>1. Effect = [r \in Request |-> 0] /\ Good = [r \in Request |-> <<>>] /\ Busy = {}
  BY DEF OverlapInit, Init, Effect, Good, Busy
<1> QED BY <1>1 DEF OverlapInit, Init, Commands!Init, Effect, Good

\* The API implements HubCommands, with any number of threads, for any requests
\* and hubs, and whatever fails (78-168): commands for one MAC address whose
\* requests did not meet take effect one after the other and as a whole, are
\* published in that order, each under its own log, and an answer "200" shows its
\* command; those that met lose or undo each other as a whole.
THEOREM SpecImplementsHubCommands == OverlapSpec => ImplementsHubCommands
<1>1. ApiInv /\ OverlapInv /\ OnceInv /\ [OverlapNext]_overlapVars => OverlapInv'
  BY NextOverlap
<1>2. UNCHANGED overlapVars => UNCHANGED Commands!abstract
  BY DEF overlapVars, vars, table, logs, queue, answer, Busy, Commands!abstract, Commands!requests
<1>3. ApiInv /\ OverlapInv /\ OnceInv /\ [OverlapNext]_overlapVars
      => [Commands!Next]_(Commands!abstract)
  BY <1>2, NextImplements
<1>4. [OverlapNext]_overlapVars => [Next]_vars
  BY DEF OverlapNext, overlapVars
<1>5. OverlapInit => Init
  BY DEF OverlapInit
<1> QED
  BY <1>1, <1>3, <1>4, <1>5, InitApi, NextApi, InitOverlap, InitImplements, SpecOnceInv,
     OverlapIsApi, PTL DEF OverlapSpec, ImplementsHubCommands, Commands!Spec

=============================================================================
