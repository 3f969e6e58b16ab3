----------------------------- MODULE RgbwApiProofs -----------------------------
(***************************************************************************)
(* Theorems about the v1 API, for any requests, hubs, threads and failures.*)
(***************************************************************************)
EXTENDS RgbwApiProperties, FiniteSetTheorems, TLAPS

-----------------------------------------------------------------------------
(* Type correctness.                                                       *)

LEMMA ItemType ==
  ASSUME NEW S, NEW q \in Seq(S), NEW i \in DOMAIN q
  PROVE  q[i] \in S
OBVIOUS

LEMMA AppendType ==
  ASSUME NEW S, NEW q \in Seq(S), NEW e \in S
  PROVE  Append(q, e) \in Seq(S)
OBVIOUS

LEMMA AppendItems ==
  ASSUME NEW S, NEW q \in Seq(S), NEW e, NEW i \in DOMAIN Append(q, e)
  PROVE  Append(q, e)[i] = e \/ (i \in DOMAIN q /\ Append(q, e)[i] = q[i])
OBVIOUS

USE DEF Actions, Groups, Fields, Codes, PC, Status

\* The status a request computes is a status, if what it read was one.
LEMMA NewStatusType ==
  ASSUME NEW r \in Request, NEW old \in Status \cup {Nil},
         Failure(Ask[r]) = "none", Refusal(Ask[r]) = "none"
  PROVE  NewStatus(old, Ask[r]) \in Status
<1> DEFINE a == Ask[r]
           before == IF old = Nil THEN [g \in Groups |-> NewEntry] ELSE old
<1>1. a.action \in Actions /\ a.value \in Value
  BY DEF Failure, Refusal, Value
<1>2. NewEntry \in [Fields -> Value]
  BY DEF NewEntry, Value
<1>3. before \in Status
  BY <1>2
<1>4. \A e \in [Fields -> Value] : Commanded(e, a) \in [Fields -> Value]
  <2> SUFFICES ASSUME NEW e \in [Fields -> Value] PROVE Commanded(e, a) \in [Fields -> Value]
    OBVIOUS
  <2>1. PICK set : set = [e EXCEPT ![a.action] = a.value]
    OBVIOUS
  <2>2. set \in [Fields -> Value]
    BY <1>1, <2>1
  <2>3. PICK lit : lit = IF a.action = "power" THEN set ELSE [set EXCEPT !["power"] = "on"]
    OBVIOUS
  <2>4. lit \in [Fields -> Value]
    BY <2>2, <2>3 DEF Value
  <2>5. Commanded(e, a) = IF a.action = "color" THEN [lit EXCEPT !["hex"] = a.value] ELSE lit
    BY <2>1, <2>3 DEF Commanded
  <2> HIDE DEF a
  <2> QED
    BY <1>1, <2>4, <2>5
<1>5. NewStatus(old, a) = [g \in Groups |->
        IF g \in (IF a.group = 0 THEN Groups ELSE {a.group})
          THEN Commanded(before[g], a) ELSE before[g]]
  BY DEF NewStatus
<1> HIDE DEF before
<1> QED
  BY <1>3, <1>4, <1>5

\* A thread's step keeps the types.
LEMMA StepType ==
  ASSUME TypeOK, NEW r \in Request, Step(r)
  PROVE  TypeOK'
<1> USE DEF TypeOK, Go, Halts
<1>1. CASE Authenticate(r)
  <2>1. CASE Refusal(Ask[r]) # "none" /\ Halts(r, Refusal(Ask[r])) /\ UNCHANGED local
    BY <1>1, <2>1 DEF Authenticate, Refusal, table, local, logs, queue
  <2>2. CASE Halts(r, "406") /\ UNCHANGED local
    BY <1>1, <2>2 DEF Authenticate, table, local, logs, queue
  <2>3. CASE Failure(Ask[r]) # "none" /\ Halts(r, Failure(Ask[r])) /\ UNCHANGED local
    BY <1>1, <2>3 DEF Authenticate, Failure, table, local, logs, queue
  <2>4. CASE Refusal(Ask[r]) = "none" /\ Failure(Ask[r]) = "none" /\ UNCHANGED answer
             /\ \E h \in Found(Ask[r]) :
                  /\ hub' = [hub EXCEPT ![r] = h]
                  /\ copy' = [copy EXCEPT ![r] = NewStatus(status[h], Ask[r])]
                  /\ dirty' = [dirty EXCEPT ![r] = NewStatus(status[h], Ask[r]) # status[h]]
             /\ Go(r, "authenticate", "validate")
    <3>1. PICK h \in Hub : /\ hub' = [hub EXCEPT ![r] = h]
                           /\ copy' = [copy EXCEPT ![r] = NewStatus(status[h], Ask[r])]
                           /\ dirty' = [dirty EXCEPT ![r] = NewStatus(status[h], Ask[r]) # status[h]]
      BY <2>4 DEF Found
    <3>2. NewStatus(status[h], Ask[r]) \in Status
      BY <2>4, NewStatusType
    <3> QED
      BY <1>1, <2>4, <3>1, <3>2 DEF Authenticate, answer, table, logs, queue
  <2> QED
    BY <1>1, <2>1, <2>2, <2>3, <2>4 DEF Authenticate
<1>2. CASE Validate(r)
  BY <1>2 DEF Validate, table, local, logs, queue, answer
<1>3. CASE Save(r)
  BY <1>3 DEF Save, table, local, logs, queue, answer
<1>4. CASE Commit(r)
  BY <1>4 DEF Commit, table, local, logs, queue, answer
<1>5. CASE Maximum(r)
  BY <1>5 DEF Maximum, Logs, table, local, logs, queue, answer
<1>6. CASE Publish(r)
  <2>1. PICK m : m = [request |-> r, id |-> newest[r]]
    OBVIOUS
  <2>2. m \in [request : Request, id : Nat]
    BY <2>1
  <2>3. published' \in {published, Append(published, m)}
    BY <1>6, <2>1 DEF Publish
  <2>4. published' \in Seq([request : Request, id : Nat])
    <3>1. PICK M : M = [request : Request, id : Nat]
      OBVIOUS
    <3>2. published \in Seq(M) /\ m \in M
      BY <2>2, <3>1
    <3>3. Append(published, m) \in Seq(M)
      BY <3>2, AppendType, Zenon
    <3>4. published' \in Seq(M)
      BY <2>3, <3>2, <3>3, Zenon
    <3> QED
      BY <3>1, <3>4
  <2> QED
    BY <1>6, <2>4 DEF Publish, table, local, logs, answer
<1>7. CASE AuthenticateAgain(r)
  <2>1. CASE Halts(r, "406") /\ UNCHANGED updated
    BY <1>7, <2>1 DEF AuthenticateAgain, table, local, logs, queue
  <2>2. ASSUME NEW h \in Hub, Go(r, "again", "last"), UNCHANGED reply,
               updated' = [updated EXCEPT ![r] = h], body' = [body EXCEPT ![r] = status[h]]
        PROVE  TypeOK'
    BY <1>7, <2>2 DEF AuthenticateAgain, table, local, logs, queue
  <2> QED
    BY <1>7, <2>1, <2>2 DEF AuthenticateAgain, Found
<1>8. CASE LastLog(r)
  BY <1>8 DEF LastLog, table, local, logs, queue, answer
<1> QED
  BY <1>1, <1>2, <1>3, <1>4, <1>5, <1>6, <1>7, <1>8 DEF Step

\* Every step keeps the types.
LEMMA NextType ==
  ASSUME TypeOK, [Next]_vars
  PROVE  TypeOK'
<1> USE DEF TypeOK
<1>1. ASSUME NEW r \in Request, Arrives(r) PROVE TypeOK'
  BY <1>1 DEF Arrives, table, local, logs, queue, answer
<1>2. ASSUME NEW r \in Request, Step(r) PROVE TypeOK'
  BY <1>2, StepType
<1>3. ASSUME NEW r \in Request, DatabaseError(r) PROVE TypeOK'
  BY <1>3 DEF DatabaseError, Go, table, local, logs, queue
<1>4. ASSUME NEW S \in SUBSET Busy, Killed(S) PROVE TypeOK'
  BY <1>4 DEF Killed, table, local, logs, queue
<1>5. ASSUME NEW h \in Hub, HubCreated(h) \/ HubDestroyed(h) PROVE TypeOK'
  BY <1>5 DEF HubCreated, HubDestroyed, local, logs, queue, answer
<1>6. ASSUME NEW i \in DOMAIN published, Processed(i) PROVE TypeOK'
  <2>1. published[i] \in [request : Request, id : Nat]
    BY ItemType
  <2>2. published[i].id \in Nat
    BY <2>1
  <2> QED
    BY <1>6, <2>2 DEF Processed, table, local, logs, answer
<1>7. CASE UNCHANGED vars
  BY <1>7 DEF vars, table, local, logs, queue, answer
<1> QED
  BY <1>1, <1>2, <1>3, <1>4, <1>5, <1>6, <1>7 DEF Next, Environment

\* The type invariant of the API.
THEOREM SpecTypeOK == Spec => []TypeOK
<1>1. Init => TypeOK
  BY DEF Init, TypeOK
<1> QED
  BY <1>1, NextType, PTL DEF Spec

-----------------------------------------------------------------------------
(* The status of the newest log.                                           *)

Early == {"new", "authenticate", "validate", "save"}

\* Ids are handed out once; a log is committed after its INSERT, for a hub.
LogIds ==
  /\ \A r \in Request : log[r] <= lastId
  /\ \A r, s \in Request : log[r] # 0 /\ log[r] = log[s] => r = s
LogHasHub ==
  /\ \A r \in Request : pc[r] \in Early \cup {"commit"} => r \notin logged
  /\ \A r \in Request : pc[r] \in {"validate", "save", "commit"} \/ r \in logged => hub[r] \in Hub
  /\ \A r \in Request : pc[r] = "commit" \/ r \in logged => log[r] # 0
\* A request found its hub, so that hub was created before.
HubExisted == \A r \in Request : hub[r] \in Hub => hubs[hub[r]] # "new"
\* r holds the lock of its row; its log is newer than all that changed the row.
HoldsRow(r) == pc[r] = "commit" /\ dirty[r]
OneHoldsRow ==
  \A r, s \in Request : HoldsRow(r) /\ HoldsRow(s) /\ hub[r] = hub[s] => r = s
HolderIsNewest ==
  \A r \in Request : HoldsRow(r) => \A s \in logged : dirty[s] /\ hub[s] = hub[r] => log[s] < log[r]

ApiInv ==
  TypeOK /\ LogIds /\ LogHasHub /\ HubExisted /\ OneHoldsRow /\ HolderIsNewest /\ StatusOfNewestLog

\* Steps that only move a request on keep the invariant.
LEMMA QuietStep ==
  ASSUME ApiInv, TypeOK', UNCHANGED <<table, local, logs>>,
         \A r \in Request : pc'[r] = "commit" => pc[r] = "commit",
         \A r \in Request : pc'[r] \in Early => pc[r] \in Early,
         \A r \in Request : pc'[r] \in {"validate", "save"} => pc[r] \in {"validate", "save"}
  PROVE  ApiInv'
<1> USE DEF ApiInv, table, local, logs
<1>1. LogIds' /\ LogHasHub' /\ HubExisted'
  BY DEF LogIds, LogHasHub, HubExisted, Early
<1>2. OneHoldsRow' /\ HolderIsNewest'
  BY DEF OneHoldsRow, HolderIsNewest, HoldsRow
<1>3. StatusOfNewestLog'
  BY DEF StatusOfNewestLog, Changed, IsNewest
<1> QED
  BY <1>1, <1>2, <1>3

\* Authenticate finds a hub for a request that has no log yet.
LEMMA FindsHub ==
  ASSUME ApiInv, TypeOK', NEW r \in Request, NEW h \in Found(Ask[r]), NEW c, NEW d,
         Go(r, "authenticate", "validate"), UNCHANGED <<table, logs>>,
         hub' = [hub EXCEPT ![r] = h], copy' = [copy EXCEPT ![r] = c],
         dirty' = [dirty EXCEPT ![r] = d]
  PROVE  ApiInv'
<1> USE DEF ApiInv, Go, table, logs
<1>1. h \in Hub /\ hubs[h] = "present" /\ r \notin logged
  BY DEF Found, LogHasHub, Early
<1>2. /\ hub' \in [Request -> Hub \cup {Nil}] /\ hub \in [Request -> Hub \cup {Nil}]
      /\ dirty \in [Request -> BOOLEAN] /\ pc \in [Request -> PC]
      /\ copy \in [Request -> Status \cup {Nil}] /\ logged \subseteq Request
  BY DEF TypeOK
<1>3. LogIds' /\ LogHasHub' /\ HubExisted'
  BY <1>1, <1>2 DEF LogIds, LogHasHub, HubExisted, Early
<1>4. \A s \in logged : hub'[s] = hub[s] /\ copy'[s] = copy[s] /\ dirty'[s] = dirty[s]
  BY <1>1, <1>2
<1>5. \A s \in Request : pc'[s] = "commit" =>
        pc[s] = "commit" /\ hub'[s] = hub[s] /\ dirty'[s] = dirty[s]
  BY <1>2
<1>6. OneHoldsRow' /\ HolderIsNewest'
  BY <1>4, <1>5 DEF OneHoldsRow, HolderIsNewest, HoldsRow
<1>7. StatusOfNewestLog'
  BY <1>4 DEF StatusOfNewestLog, Changed, IsNewest
<1> QED
  BY <1>3, <1>6, <1>7

\* The INSERT draws an id that is newer than all, under the lock of the row.
LEMMA SaveStep ==
  ASSUME ApiInv, TypeOK', NEW r \in Request, Save(r)
  PROVE  ApiInv'
<1> USE DEF ApiInv, Save, Go, table, local
<1>1. /\ log \in [Request -> Nat] /\ lastId \in Nat /\ pc \in [Request -> PC]
      /\ dirty \in [Request -> BOOLEAN] /\ logged \subseteq Request
  BY DEF TypeOK
<1>2. r \notin logged /\ hub[r] \in Hub
  BY DEF LogHasHub, Early
<1>3. log'[r] = lastId + 1 /\ \A s \in Request \ {r} : log'[s] = log[s] /\ pc'[s] = pc[s]
  BY <1>1
<1>4. LogIds'
  BY <1>1, <1>3 DEF LogIds
<1>5. LogHasHub' /\ HubExisted'
  BY <1>1, <1>2, <1>3 DEF LogHasHub, HubExisted, Early
<1>6. OneHoldsRow'
  BY <1>1, <1>3 DEF OneHoldsRow, HoldsRow, RowLocked
<1>7. HolderIsNewest'
  BY <1>1, <1>2, <1>3 DEF HolderIsNewest, HoldsRow, LogIds
<1>8. StatusOfNewestLog'
  BY <1>1, <1>2, <1>3 DEF StatusOfNewestLog, Changed, IsNewest
<1> QED
  BY <1>4, <1>5, <1>6, <1>7, <1>8

\* The commit writes the row, and its log is then the newest that did.
LEMMA CommitStep ==
  ASSUME ApiInv, TypeOK', NEW r \in Request, Commit(r)
  PROVE  ApiInv'
<1> USE DEF ApiInv, Commit, Go, local
<1>1. /\ log \in [Request -> Nat] /\ pc \in [Request -> PC] /\ status \in [Hub -> Status \cup {Nil}]
      /\ dirty \in [Request -> BOOLEAN] /\ logged \subseteq Request
  BY DEF TypeOK
<1>2. r \notin logged /\ hub[r] \in Hub /\ log[r] # 0 /\ pc[r] = "commit"
  BY DEF LogHasHub
<1>3. \A s \in Request \ {r} : pc'[s] = pc[s]
  BY <1>1
<1>4. LogIds' /\ LogHasHub' /\ HubExisted'
  BY <1>1, <1>2, <1>3 DEF LogIds, LogHasHub, HubExisted, Early
<1>5. OneHoldsRow'
  BY <1>1, <1>3 DEF OneHoldsRow, HoldsRow
<1>6. HolderIsNewest'
  BY <1>1, <1>2, <1>3 DEF HolderIsNewest, OneHoldsRow, HoldsRow
<1>7. StatusOfNewestLog'
  <2> SUFFICES ASSUME NEW h \in Hub, NEW q \in Changed(h)', hubs[h] = "present",
                      IsNewest(log[q], {log[s] : s \in Changed(h)'})
               PROVE  status'[h] = copy[q]
    BY DEF StatusOfNewestLog
  <2>1. CASE h = hub[r] /\ dirty[r]
    <3>1. r \in Changed(h)'
      BY <2>1 DEF Changed
    <3>2. log[r] <= log[q]
      BY <3>1 DEF IsNewest
    <3>3. q = r
      BY <1>1, <1>2, <2>1, <3>2 DEF HolderIsNewest, HoldsRow, Changed
    <3> QED
      BY <1>1, <1>2, <2>1, <3>3
  <2>2. CASE ~(h = hub[r] /\ dirty[r])
    <3>1. Changed(h)' = Changed(h)
      BY <2>2 DEF Changed
    <3>2. status'[h] = status[h]
      BY <1>1, <1>2, <2>2
    <3> QED
      BY <3>1, <3>2 DEF StatusOfNewestLog
  <2> QED
    BY <2>1, <2>2
<1> QED
  BY <1>4, <1>5, <1>6, <1>7

\* Hubs that come have no request, hubs that go are no longer looked at.
LEMMA HubStep ==
  ASSUME ApiInv, TypeOK', NEW h \in Hub, HubCreated(h) \/ HubDestroyed(h)
  PROVE  ApiInv'
<1> USE DEF ApiInv, HubCreated, HubDestroyed, local, logs
<1>1. hubs \in [Hub -> {"new", "present", "destroyed"}] /\ logged \subseteq Request
  BY DEF TypeOK
<1>2. hubs' \in {[hubs EXCEPT ![h] = "present"], [hubs EXCEPT ![h] = "destroyed"]}
  OBVIOUS
<1>3. LogIds' /\ LogHasHub' /\ OneHoldsRow' /\ HolderIsNewest'
  BY DEF LogIds, LogHasHub, OneHoldsRow, HolderIsNewest, HoldsRow
<1>4. HubExisted'
  BY <1>1, <1>2 DEF HubExisted
<1>5. hubs[h] = "new" => Changed(h) = {}
  BY <1>1 DEF Changed, HubExisted, LogHasHub
<1>6. StatusOfNewestLog'
  <2> SUFFICES ASSUME NEW g \in Hub, NEW q \in Changed(g), hubs'[g] = "present",
                      IsNewest(log[q], {log[s] : s \in Changed(g)})
               PROVE  status[g] = copy[q]
    BY DEF StatusOfNewestLog, Changed, IsNewest
  <2>1. hubs[g] = "present"
    BY <1>1, <1>5
  <2> QED
    BY <2>1 DEF StatusOfNewestLog
<1> QED
  BY <1>3, <1>4, <1>6

LEMMA InitApi == Init => ApiInv
<1> SUFFICES ASSUME Init PROVE ApiInv
  OBVIOUS
<1> USE DEF Init
<1>1. TypeOK
  BY DEF TypeOK
<1>2. LogIds /\ LogHasHub /\ HubExisted
  BY NilAssumption DEF LogIds, LogHasHub, HubExisted
<1>3. OneHoldsRow /\ HolderIsNewest /\ StatusOfNewestLog
  BY DEF OneHoldsRow, HolderIsNewest, HoldsRow, StatusOfNewestLog, Changed
<1> QED
  BY <1>1, <1>2, <1>3 DEF ApiInv

LEMMA NextApi == ASSUME ApiInv, [Next]_vars PROVE ApiInv'
<1>1. TypeOK'
  BY NextType DEF ApiInv
<1>2. pc \in [Request -> PC]
  BY DEF ApiInv, TypeOK
<1>3. ASSUME NEW r \in Request, Arrives(r) PROVE ApiInv'
  BY <1>1, <1>2, <1>3, QuietStep DEF Arrives, Early
<1>4. ASSUME NEW r \in Request, Step(r) PROVE ApiInv'
  <2>1. CASE Authenticate(r)
    <3>1. ASSUME NEW code, Halts(r, code), UNCHANGED local PROVE ApiInv'
      BY <1>1, <1>2, <2>1, <3>1, QuietStep DEF Authenticate, Halts, Early
    <3>2. ASSUME NEW h \in Found(Ask[r]), Go(r, "authenticate", "validate"),
                 hub' = [hub EXCEPT ![r] = h],
                 copy' = [copy EXCEPT ![r] = NewStatus(status[h], Ask[r])],
                 dirty' = [dirty EXCEPT ![r] = NewStatus(status[h], Ask[r]) # status[h]]
          PROVE  ApiInv'
      BY <1>1, <2>1, <3>2, FindsHub DEF Authenticate
    <3> QED
      BY <2>1, <3>1, <3>2 DEF Authenticate
  <2>2. CASE Validate(r)
    BY <1>1, <1>2, <2>2, QuietStep DEF Validate, Halts, Go, Early
  <2>3. CASE Save(r)
    BY <1>1, <2>3, SaveStep
  <2>4. CASE Commit(r)
    BY <1>1, <2>4, CommitStep
  <2>5. CASE Maximum(r)
    BY <1>1, <1>2, <2>5, QuietStep DEF Maximum, Go, Early
  <2>6. CASE Publish(r)
    BY <1>1, <1>2, <2>6, QuietStep DEF Publish, Halts, Go, Early
  <2>7. CASE AuthenticateAgain(r)
    BY <1>1, <1>2, <2>7, QuietStep DEF AuthenticateAgain, Halts, Go, Early
  <2>8. CASE LastLog(r)
    BY <1>1, <1>2, <2>8, QuietStep DEF LastLog, Go, Early
  <2> QED
    BY <1>4, <2>1, <2>2, <2>3, <2>4, <2>5, <2>6, <2>7, <2>8 DEF Step
<1>5. ASSUME NEW r \in Request, DatabaseError(r) PROVE ApiInv'
  BY <1>1, <1>2, <1>5, QuietStep DEF DatabaseError, Go, Early
<1>6. ASSUME NEW S \in SUBSET Busy, Killed(S) PROVE ApiInv'
  BY <1>1, <1>2, <1>6, QuietStep DEF Killed, Early
<1>7. ASSUME NEW h \in Hub, HubCreated(h) \/ HubDestroyed(h) PROVE ApiInv'
  BY <1>1, <1>7, HubStep
<1>8. ASSUME NEW i \in DOMAIN published, Processed(i) PROVE ApiInv'
  BY <1>1, <1>8, QuietStep DEF Processed
<1>9. CASE UNCHANGED vars
  BY <1>1, <1>9, QuietStep DEF vars
<1> QED
  BY <1>3, <1>4, <1>5, <1>6, <1>7, <1>8, <1>9 DEF Next, Environment

\* The status a hub's row holds is that of the newest committed log that
\* changed it, for any number of threads, requests, hubs and failures.
THEOREM SpecStatusOfNewestLog == Spec => []StatusOfNewestLog
<1>1. ApiInv => StatusOfNewestLog
  BY DEF ApiInv
<1> QED
  BY <1>1, InitApi, NextApi, PTL DEF Spec

-----------------------------------------------------------------------------
(* The id a command is published under.                                    *)

\* i is the id of a committed log of the hub of r, not older than that of r.
IdFor(r, i) ==
  /\ r \in logged
  /\ \E s \in logged : hub[s] = hub[r] /\ log[s] = i /\ log[r] <= log[s]

PublishInv ==
  /\ \A r \in Request : pc[r] = "maximum" => r \in logged
  /\ \A r \in Request : pc[r] = "publish" => IdFor(r, newest[r])
  /\ \A i \in DOMAIN published : IdFor(published[i].request, published[i].id)

\* A committed log stays, with its hub and its id.
LEMMA LoggedStays ==
  ASSUME ApiInv, [Next]_vars
  PROVE  logged \subseteq logged' /\ \A s \in logged : hub'[s] = hub[s] /\ log'[s] = log[s]
<1> USE DEF Halts, Go
<1>1. /\ hub \in [Request -> Hub \cup {Nil}] /\ log \in [Request -> Nat]
      /\ logged \subseteq Request
      /\ \A r \in Request : pc[r] \in Early => r \notin logged
  BY DEF ApiInv, TypeOK, LogHasHub
<1>2. ASSUME NEW r \in Request, Arrives(r) \/ Step(r) \/ DatabaseError(r)
      PROVE  logged \subseteq logged' /\ \A s \in logged : hub'[s] = hub[s] /\ log'[s] = log[s]
  <2>1. CASE Authenticate(r)
    BY <1>1, <2>1 DEF Authenticate, Early, local, logs
  <2>2. CASE Save(r)
    BY <1>1, <2>2 DEF Save, Early, local
  <2>3. CASE Commit(r)
    BY <2>3 DEF Commit, local
  <2>4. CASE Validate(r) \/ Maximum(r) \/ Publish(r) \/ AuthenticateAgain(r) \/ LastLog(r)
             \/ Arrives(r) \/ DatabaseError(r)
    BY <2>4 DEF Validate, Maximum, Publish, AuthenticateAgain, LastLog, Arrives, DatabaseError,
                local, logs
  <2> QED
    BY <1>2, <2>1, <2>2, <2>3, <2>4 DEF Step
<1>3. CASE (\E S \in SUBSET Busy : Killed(S)) \/ Environment \/ UNCHANGED vars
  BY <1>3 DEF Killed, Environment, HubCreated, HubDestroyed, Processed, vars, local, logs
<1> QED
  BY <1>2, <1>3 DEF Next

\* Steps that neither publish nor come near it.
LEMMA NoPublication ==
  ASSUME ApiInv, [Next]_vars, PublishInv, TypeOK', UNCHANGED <<published, newest>>,
         \A r \in Request : pc'[r] = "maximum" => pc[r] = "maximum" \/ r \in logged',
         \A r \in Request : pc'[r] = "publish" => pc[r] = "publish"
  PROVE  PublishInv'
<1>1. logged \subseteq logged' /\ \A s \in logged : hub'[s] = hub[s] /\ log'[s] = log[s]
  BY LoggedStays
<1>2. \A r \in Request : \A i : IdFor(r, i) => IdFor(r, i)'
  BY <1>1 DEF IdFor
<1>3. published \in Seq([request : Request, id : Nat])
  BY DEF ApiInv, TypeOK
<1>4. \A i \in DOMAIN published : published[i].request \in Request
  <2> SUFFICES ASSUME NEW i \in DOMAIN published PROVE published[i].request \in Request
    OBVIOUS
  <2>1. published[i] \in [request : Request, id : Nat]
    BY <1>3, ItemType
  <2> QED
    BY <2>1
<1> QED
  BY <1>1, <1>2, <1>4 DEF PublishInv

\* maximum(:id) is read after the own log was committed.
LEMMA MaximumStep ==
  ASSUME ApiInv, PublishInv, TypeOK', NEW r \in Request, Maximum(r)
  PROVE  PublishInv'
<1> USE DEF Maximum, Go, local, logs, queue
<1>1. /\ newest \in [Request -> Nat] /\ pc \in [Request -> PC] /\ log \in [Request -> Nat]
      /\ logged \subseteq Request
  BY DEF ApiInv, TypeOK
<1>2. r \in logged
  BY DEF PublishInv
<1>3. PICK i \in Logs(hub[r]) : IsNewest(i, Logs(hub[r])) /\ newest' = [newest EXCEPT ![r] = i]
  OBVIOUS
<1>4. log[r] \in Logs(hub[r])
  BY <1>2 DEF Logs
<1>5. log[r] <= i
  BY <1>3, <1>4 DEF IsNewest
<1>6. IdFor(r, i)
  BY <1>2, <1>3, <1>5 DEF IdFor, Logs
<1>7. \A q \in Request : pc'[q] = "publish" => IdFor(q, newest'[q])
  BY <1>1, <1>3, <1>6 DEF PublishInv
<1>8. \A q \in Request : pc'[q] = "maximum" => q \in logged
  BY <1>1 DEF PublishInv
<1> QED
  BY <1>7, <1>8 DEF PublishInv, IdFor

\* The message carries the request and the id just read.
LEMMA PublishStep ==
  ASSUME ApiInv, PublishInv, TypeOK', NEW r \in Request, Publish(r)
  PROVE  PublishInv'
<1> USE DEF Publish, Halts, Go, local, logs
<1>1. pc \in [Request -> PC] /\ published \in Seq([request : Request, id : Nat])
  BY DEF ApiInv, TypeOK
<1>2. IdFor(r, newest[r])
  BY DEF PublishInv
<1>3. \A q \in Request : pc'[q] \in {"maximum", "publish"} => pc'[q] = pc[q]
  BY <1>1
<1>4. PICK m : m = [request |-> r, id |-> newest[r]]
  OBVIOUS
<1>5. m.request = r /\ m.id = newest[r]
  BY <1>4
<1>6. published' \in {published, Append(published, m)}
  BY <1>4
<1>7. \A i \in DOMAIN published' : published'[i] = m \/ (i \in DOMAIN published /\ published'[i] = published[i])
  <2>1. CASE published' = published
    BY <2>1
  <2>2. CASE published' = Append(published, m)
    <3>1. PICK M : M = [request : Request, id : Nat]
      OBVIOUS
    <3>2. published \in Seq(M)
      BY <1>1, <3>1
    <3>3. \A i \in DOMAIN Append(published, m) :
            Append(published, m)[i] = m
              \/ (i \in DOMAIN published /\ Append(published, m)[i] = published[i])
      BY <3>2, AppendItems, Zenon
    <3> QED
      BY <2>2, <3>3, Zenon
  <2> QED
    BY <1>6, <2>1, <2>2
<1>8. \A i \in DOMAIN published' : IdFor(published'[i].request, published'[i].id)
  BY <1>2, <1>5, <1>7 DEF PublishInv
<1> QED
  BY <1>3, <1>8 DEF PublishInv, IdFor

LEMMA NextPublish == ASSUME ApiInv, PublishInv, [Next]_vars PROVE PublishInv'
<1>1. TypeOK'
  BY NextType DEF ApiInv
<1>2. pc \in [Request -> PC]
  BY DEF ApiInv, TypeOK
<1> USE DEF Halts, Go, queue
<1>3. ASSUME NEW r \in Request, Arrives(r) \/ Step(r) \/ DatabaseError(r) PROVE PublishInv'
  <2>1. CASE Maximum(r)
    BY <1>1, <2>1, MaximumStep
  <2>2. CASE Publish(r)
    BY <1>1, <2>2, PublishStep
  <2>3. CASE Commit(r)
    BY <1>1, <1>2, <2>3, NoPublication DEF Commit
  <2>4. CASE Authenticate(r) \/ Validate(r) \/ Save(r)
    BY <1>1, <1>2, <2>4, NoPublication DEF Authenticate, Validate, Save
  <2>5. CASE AuthenticateAgain(r) \/ LastLog(r) \/ Arrives(r) \/ DatabaseError(r)
    BY <1>1, <1>2, <2>5, NoPublication DEF AuthenticateAgain, LastLog, Arrives, DatabaseError
  <2> QED
    BY <1>3, <2>1, <2>2, <2>3, <2>4, <2>5 DEF Step
<1>4. CASE (\E S \in SUBSET Busy : Killed(S)) \/ Environment \/ UNCHANGED vars
  BY <1>1, <1>2, <1>4, NoPublication DEF Killed, Environment, HubCreated, HubDestroyed, Processed, vars
<1> QED
  BY <1>3, <1>4 DEF Next

\* A command is published after its log was committed, under the id of a
\* committed log of its own hub that is not older, whatever else is saved.
THEOREM SpecPublishedUnderItsHub == Spec => []PublishedUnderItsHub
<1>1. Init => PublishInv
  BY DEF Init, PublishInv, IdFor
<1>2. PublishInv => PublishedUnderItsHub
  BY DEF PublishInv, IdFor, PublishedUnderItsHub
<1> QED
  BY <1>1, <1>2, InitApi, NextApi, NextPublish, PTL DEF Spec

-----------------------------------------------------------------------------
(* Each request is published at most once.                                 *)

Messages(r) == {i \in DOMAIN published : published[i].request = r}

\* A request is published at its one place and answered when it is done; only
\* one that has instructions comes as far.
Once(r) ==
  /\ pc[r] # "done" => reply[r] = "none"
  /\ pc[r] \in {"new", "authenticate", "validate", "save", "commit", "maximum", "publish"} =>
       Messages(r) = {}
  /\ pc[r] \in {"again", "last"} \/ reply[r] = "200" => Messages(r) # {}
  /\ \A i, j \in Messages(r) : i = j
  /\ pc[r] \in {"validate", "save", "commit", "maximum", "publish"} \/ Messages(r) # {} =>
       Refusal(Ask[r]) = "none" /\ Failure(Ask[r]) = "none"

OnceInv == \A r \in Request : Once(r)

\* A request whose place and answer do not change, or that ends unanswered or
\* with an error, while nothing is published.
LEMMA QuietOnce ==
  ASSUME TypeOK, NEW r \in Request, Once(r), published' = published,
         \/ pc'[r] = pc[r] /\ reply'[r] = reply[r]
         \/ pc'[r] = "done" /\ reply'[r] \in {reply[r], "401", "404", "406", "500"}
  PROVE  Once(r)'
BY DEF Once, Messages

LEMMA StepOnce ==
  ASSUME TypeOK, OnceInv, NEW r \in Request, Step(r)
  PROVE  OnceInv'
<1> USE DEF Go, Halts
<1>t. TypeOK /\ Once(r)
  BY DEF OnceInv
<1>o. \A q \in Request \ {r} : pc'[q] = pc[q] /\ reply'[q] = reply[q]
  BY DEF TypeOK, Step, Authenticate, Validate, Save, Commit, Maximum, Publish, AuthenticateAgain,
         LastLog, answer
<1>q. ASSUME published' = published, Once(r)' PROVE OnceInv'
  BY <1>q, <1>o, QuietOnce DEF OnceInv
<1>1. CASE Authenticate(r)
  <2>1. pc[r] = "authenticate" /\ published' = published
    BY <1>1 DEF Authenticate, queue
  <2>2. CASE Halts(r, Refusal(Ask[r])) /\ Refusal(Ask[r]) # "none"
    BY <2>1, <2>2, <1>t, <1>q, QuietOnce DEF Refusal, TypeOK
  <2>3. CASE Halts(r, "406")
    BY <2>1, <2>3, <1>t, <1>q, QuietOnce DEF TypeOK
  <2>4. CASE Halts(r, Failure(Ask[r])) /\ Failure(Ask[r]) # "none"
    BY <2>1, <2>4, <1>t, <1>q, QuietOnce DEF Failure, TypeOK
  <2>5. CASE Go(r, "authenticate", "validate") /\ UNCHANGED answer
             /\ Refusal(Ask[r]) = "none" /\ Failure(Ask[r]) = "none"
    <3>1. pc'[r] = "validate" /\ reply'[r] = reply[r]
      BY <2>5, <1>t DEF TypeOK, answer
    <3> QED BY <2>1, <2>5, <3>1, <1>t, <1>q DEF Once, Messages
  <2> QED BY <1>1, <2>2, <2>3, <2>4, <2>5 DEF Authenticate
<1>2. CASE Validate(r)
  <2>1. pc[r] = "validate" /\ published' = published
    BY <1>2 DEF Validate, queue
  <2>2. CASE Halts(r, "500")
    BY <2>1, <2>2, <1>t, <1>q, QuietOnce DEF TypeOK
  <2>3. CASE Go(r, "validate", "save") /\ UNCHANGED answer
    <3>1. pc'[r] = "save" /\ reply'[r] = reply[r]
      BY <2>3, <1>t DEF TypeOK, answer
    <3> QED BY <2>1, <3>1, <1>t, <1>q DEF Once, Messages
  <2> QED BY <1>2, <2>2, <2>3 DEF Validate
<1>3. CASE Save(r) \/ Commit(r) \/ Maximum(r)
  <2>1. /\ pc[r] \in {"save", "commit", "maximum"} /\ pc'[r] \in {"commit", "maximum", "publish"}
        /\ reply' = reply /\ published' = published
    BY <1>3, <1>t DEF Save, Commit, Maximum, TypeOK, queue, answer
  <2> QED BY <2>1, <1>t, <1>q DEF Once, Messages
<1>4. CASE Publish(r)
  <2>1. pc[r] = "publish" /\ Messages(r) = {} /\ Refusal(Ask[r]) = "none" /\ Failure(Ask[r]) = "none"
    BY <1>4, <1>t DEF Publish, Once
  <2>2. CASE published' = published /\ Halts(r, "500")
    BY <2>1, <2>2, <1>t, <1>q, QuietOnce DEF TypeOK
  <2>3. CASE published' = Append(published, [request |-> r, id |-> newest[r]])
             /\ ((Go(r, "publish", "again") /\ UNCHANGED answer) \/ Halts(r, "500"))
    <3>1. PICK m : m = [request |-> r, id |-> newest[r]]
      OBVIOUS
    <3>2. m.request = r /\ published' = Append(published, m)
      BY <2>3, <3>1
    <3>3. PICK S : S = [request : Request, id : Nat]
      OBVIOUS
    <3>4. published \in Seq(S)
      BY <3>3, <1>t DEF TypeOK
    <3>5. /\ DOMAIN published' = DOMAIN published \cup {Len(published) + 1}
          /\ published'[Len(published) + 1] = m
          /\ \A i \in DOMAIN published : published'[i] = published[i]
      BY <3>2, <3>4
    <3>6. Messages(r)' = {Len(published) + 1}
      BY <2>1, <3>2, <3>5 DEF Messages
    <3>7. \A q \in Request \ {r} : Messages(q)' = Messages(q)
      BY <3>2, <3>5 DEF Messages
    <3>8. (pc'[r] = "again" /\ reply'[r] = reply[r]) \/ (pc'[r] = "done" /\ reply'[r] = "500")
      <4>1. CASE Go(r, "publish", "again") /\ UNCHANGED answer
        <5>1. pc \in [Request -> PC]
          BY <1>t DEF TypeOK
        <5>2. pc' = [pc EXCEPT ![r] = "again"] /\ reply' = reply
          BY <4>1 DEF answer
        <5> QED BY <5>1, <5>2
      <4>2. CASE Halts(r, "500")
        BY <4>2, <1>t DEF TypeOK
      <4> QED BY <2>3, <4>1, <4>2
    <3>9. Once(r)'
      BY <2>1, <3>6, <3>8, <1>t DEF Once
    <3>10. \A q \in Request \ {r} : Once(q)'
      BY <3>7, <1>o DEF Once, OnceInv
    <3> QED BY <3>9, <3>10 DEF OnceInv
  <2> QED BY <1>4, <2>2, <2>3 DEF Publish
<1>5. CASE AuthenticateAgain(r)
  <2>1. pc[r] = "again" /\ published' = published
    BY <1>5 DEF AuthenticateAgain, queue
  <2>2. CASE Halts(r, "406")
    BY <2>1, <2>2, <1>t, <1>q, QuietOnce DEF TypeOK
  <2>3. CASE Go(r, "again", "last") /\ UNCHANGED reply
    <3>1. pc'[r] = "last" /\ reply'[r] = reply[r]
      BY <2>3, <1>t DEF TypeOK
    <3> QED BY <2>1, <3>1, <1>t, <1>q DEF Once, Messages
  <2> QED BY <1>5, <2>2, <2>3 DEF AuthenticateAgain
<1>6. CASE LastLog(r)
  <2>1. pc[r] = "last" /\ pc'[r] = "done" /\ reply'[r] \in {"200", "500"} /\ published' = published
    BY <1>6, <1>t DEF LastLog, TypeOK, queue
  <2> QED BY <2>1, <1>t, <1>q DEF Once, Messages
<1> QED BY <1>1, <1>2, <1>3, <1>4, <1>5, <1>6 DEF Step

THEOREM SpecOnceInv == Spec => []OnceInv
<1>1. Init => OnceInv
  BY DEF Init, OnceInv, Once, Messages
<1>2. TypeOK /\ OnceInv /\ [Next]_vars => OnceInv'
  <2> SUFFICES ASSUME TypeOK, OnceInv, [Next]_vars PROVE OnceInv'
    OBVIOUS
  <2>q. ASSUME published' = published,
               \A r \in Request :
                 \/ pc'[r] = pc[r] /\ reply'[r] = reply[r]
                 \/ pc'[r] = "done" /\ reply'[r] \in {reply[r], "500"}
        PROVE  OnceInv'
    BY <2>q, QuietOnce DEF OnceInv
  <2>1. CASE UNCHANGED vars
    BY <2>1, <2>q DEF vars, queue, answer
  <2>2. ASSUME NEW r \in Request, Arrives(r) PROVE OnceInv'
    <3>1. pc[r] = "new" /\ pc'[r] = "authenticate" /\ reply' = reply /\ published' = published
      BY <2>2 DEF Arrives, TypeOK, answer, queue
    <3>2. Once(r)'
      BY <3>1 DEF OnceInv, Once, Messages
    <3>3. \A q \in Request \ {r} : Once(q)'
      BY <2>2, <3>1, QuietOnce DEF Arrives, TypeOK, OnceInv
    <3> QED BY <3>2, <3>3 DEF OnceInv
  <2>3. ASSUME NEW r \in Request, DatabaseError(r) PROVE OnceInv'
    BY <2>3, <2>q DEF DatabaseError, Go, TypeOK, queue
  <2>4. ASSUME NEW S \in SUBSET Busy, Killed(S) PROVE OnceInv'
    BY <2>4, <2>q DEF Killed, TypeOK, queue
  <2>5. CASE Environment
    BY <2>5, <2>q DEF Environment, HubCreated, HubDestroyed, Processed, answer, queue
  <2> QED BY <2>1, <2>2, <2>3, <2>4, <2>5, StepOnce DEF Next
<1> QED BY <1>1, <1>2, SpecTypeOK, PTL DEF Spec

\* An answer "200" follows exactly one publication of the command, any other
\* final answer or the loss of the request at most one.
THEOREM SpecAnsweredWasPublished == Spec => []AnsweredWasPublished
<1>1. OnceInv => AnsweredWasPublished
  <2> SUFFICES ASSUME OnceInv, NEW r \in Request
               PROVE  Cardinality(Messages(r)) <= 1 /\ (reply[r] = "200" => Messages(r) # {})
    BY DEF AnsweredWasPublished, Messages
  <2>1. Once(r)
    BY DEF OnceInv
  <2>2. CASE Messages(r) = {}
    BY <2>1, <2>2, FS_EmptySet DEF Once
  <2>3. ASSUME NEW i \in Messages(r) PROVE Cardinality(Messages(r)) = 1
    <3>1. Messages(r) = {i}
      BY <2>1, <2>3 DEF Once
    <3> QED BY <3>1, FS_Singleton
  <2> QED BY <2>1, <2>2, <2>3 DEF Once
<1> QED BY <1>1, SpecOnceInv, PTL

=============================================================================
