-------------------------------- MODULE RgbwApi --------------------------------
(***************************************************************************)
(* The v1 API of frontend-v1/app/controllers/api/v1/rgbw_controller.rb.    *)
(*                                                                         *)
(* Puma serves requests in concurrent threads.  A command request reads    *)
(* the row of its hub, computes a new status, saves it together with an    *)
(* action_logs row, asks for the newest log id of the hub, publishes the   *)
(* command under that id, and reads the hub again to answer.  One action   *)
(* stands for the code up to the next statement sent to PostgreSQL or      *)
(* Redis, where other requests, the hubs page and the TCP server can       *)
(* intervene.                                                              *)
(***************************************************************************)
EXTENDS Integers, Sequences, FiniteSets

CONSTANTS
  Request,     \* the requests made, one at a time per thread
  Ask,         \* what each asks for: [mac, user, action, value, group]
  Hub,         \* rows of the table hubs, past and future
  Mac, Owner,  \* the MAC address and the user of each
  Users,       \* users, that is, tokens that are known
  Colors,      \* the values Color::RGB.from_html accepts
  Nil,         \* no Authorization header, no MAC header, no status yet
  Threads,     \* Puma's threads (config/puma.rb:7-8), of all its processes
  Unreliable   \* what may fail, of {"db", "redis", "puma", "bridge"}

Actions == {"power", "brightness", "color"}
Groups == 0..4
Fields == {"power", "brightness", "color", "hex"}

\* What the fields of a status may hold.
Value == {"on", "100", "0", "#FFFFFF"} \cup {Ask[r].value : r \in Request}
Status == [Groups -> [Fields -> Value]]

ASSUME NilAssumption == Nil \notin Hub \cup Users /\ Nil \notin Status
ASSUME ThreadsAssumption == Threads \in Nat \ {0}
ASSUME UnreliableAssumption == Unreliable \subseteq {"db", "redis", "puma", "bridge"}

VARIABLES
  hubs,       \* [Hub -> "new", "present" or "destroyed"]
  status,     \* the column hubs.status
  pc,         \* where each request is
  hub,        \* @hub, the row it works for
  copy,       \* @hub.status as this request computed it
  dirty,      \* whether that differs from what it read
  log,        \* the id of its action_logs row, 0 before the INSERT
  logged,     \* requests whose action_logs row is committed
  lastId,     \* the sequence action_logs_id_seq
  newest,     \* @hub.action_log.maximum(:id)
  updated,    \* @updated_hub
  published,  \* messages on the command queue: [request, id]
  processed,  \* action_logs rows with processed = 1
  reply,      \* the HTTP status of the answer, "none" before it
  body        \* the hub status the answer carries

table == <<hubs, status>>
local == <<hub, copy, dirty>>
logs  == <<log, logged, lastId>>
queue == <<published, processed>>
answer == <<reply, body>>
vars  == <<table, pc, local, updated, logs, newest, queue, answer>>

-----------------------------------------------------------------------------
(* What a request computes.                                                *)

\* The row of status of a group when a hub has had no command yet.
NewEntry == [f \in Fields |-> CASE f = "brightness" -> "100" [] f = "color" -> "0"
                               [] f = "hex" -> "#FFFFFF" [] OTHER -> "on"]

\* Mutant: only a colour command records that the bulbs are on.
Commanded_StaysOff(entry, a) ==
  LET set == [entry EXCEPT ![a.action] = a.value]
  IN  IF a.action = "color" THEN [set EXCEPT !["power"] = "on", !["hex"] = a.value] ELSE set

\* The entry of one group after a command; colour and brightness put bulbs on.
Commanded(entry, a) ==
  LET set == [entry EXCEPT ![a.action] = a.value]
      lit == IF a.action = "power" THEN set ELSE [set EXCEPT !["power"] = "on"]
  IN  IF a.action = "color" THEN [lit EXCEPT !["hex"] = a.value] ELSE lit

\* Mutant: the first status is made with groups 0 to 3 only.
NewStatus_FourGroups(old, a) ==
  LET before == IF old = Nil THEN [g \in 0..3 |-> NewEntry] ELSE old
      set == IF a.group = 0 THEN Groups ELSE {a.group}
  IN  [g \in DOMAIN before |-> IF g \in set THEN Commanded(before[g], a) ELSE before[g]]

\* @hub.status: a command for group 0 sets all entries, another one only its own.
NewStatus(old, a) ==
  LET before == IF old = Nil THEN [g \in Groups |-> NewEntry] ELSE old
      set == IF a.group = 0 THEN Groups ELSE {a.group}
  IN  [g \in Groups |-> IF g \in set THEN Commanded(before[g], a) ELSE before[g]]

\* Routes and headers that are answered before any row is read, and the answer.
Refusal(a) ==
  IF a.action \notin Actions \cup {"status"} \/ a.group = Nil THEN "404"
  ELSE IF a.mac = Nil \/ a.user = Nil THEN "406"
  ELSE IF a.user \notin Users THEN "401"
  ELSE "none"

\* What generateCommand and groomCmds make of the rest: the status route names
\* an undefined variable, and false and nil have no flatten (or pack).
Failure(a) ==
  IF a.action = "color" /\ a.value \notin Colors THEN "406"
  ELSE IF \/ a.action = "status" \/ a.group \notin Groups
          \/ a.action = "power" /\ a.value \notin {"on", "off"} THEN "500"
  ELSE "none"

\* Rows @user.hubs.find_by(mac: mac) may return.
Found(a) == {h \in Hub : hubs[h] = "present" /\ Mac[h] = a.mac /\ Owner[h] = a.user}

-----------------------------------------------------------------------------
(* The rows.                                                               *)

\* Mutant: ActionLog.maximum(:id), of all hubs.
Logs_OfAll(h) == {log[r] : r \in logged}

\* Ids of the committed logs of a hub.
Logs(h) == {log[r] : r \in {s \in logged : hub[s] = h}}

IsNewest(i, ids) == i \in ids /\ \A j \in ids : j <= i

\* Mutants: the UPDATE takes no lock; an open transaction is never ended.
RowLocked_Never(h) == FALSE
RowLocked_Kept(h) == \E r \in Request : pc[r] \in {"commit", "done"} /\ dirty[r] /\ hub[r] = h

\* The UPDATE of an open transaction holds the lock of its row.
RowLocked(h) == \E r \in Request : pc[r] = "commit" /\ dirty[r] /\ hub[r] = h

Init ==
  /\ hubs \in [Hub -> {"new", "present"}]
  /\ \A g, h \in Hub : hubs[g] = "present" /\ hubs[h] = "present" /\ Mac[g] = Mac[h] => g = h
  /\ status = [h \in Hub |-> Nil]
  /\ pc = [r \in Request |-> "new"]
  /\ hub = [r \in Request |-> Nil]
  /\ copy = [r \in Request |-> Nil]
  /\ dirty = [r \in Request |-> FALSE]
  /\ log = [r \in Request |-> 0] /\ logged = {} /\ lastId = 0
  /\ newest = [r \in Request |-> 0] /\ updated = [r \in Request |-> Nil]
  /\ published = <<>> /\ processed = {}
  /\ reply = [r \in Request |-> "none"]
  /\ body = [r \in Request |-> Nil]

-----------------------------------------------------------------------------
(* A request.                                                              *)

Busy == {r \in Request : pc[r] \notin {"new", "done"}}

\* A thread is free.
Arrives(r) ==
  /\ pc[r] = "new" /\ Cardinality(Busy) < Threads
  /\ pc' = [pc EXCEPT ![r] = "authenticate"]
  /\ UNCHANGED <<table, local, updated, logs, newest, queue, answer>>

Go(r, from, to) == pc[r] = from /\ pc' = [pc EXCEPT ![r] = to]

\* halt, or an exception.
Halts(r, code) ==
  /\ pc' = [pc EXCEPT ![r] = "done"]
  /\ reply' = [reply EXCEPT ![r] = code]
  /\ UNCHANGED body

\* authenticate(mac), up to @hub.save!.
Authenticate(r) ==
  LET a == Ask[r] IN
  /\ pc[r] = "authenticate"
  /\ \/ /\ Refusal(a) # "none"
        /\ Halts(r, Refusal(a))
        /\ UNCHANGED local
     \/ /\ Refusal(a) = "none" /\ Found(a) = {}
        /\ Halts(r, "406")
        /\ UNCHANGED local
     \/ /\ Refusal(a) = "none" /\ Found(a) # {} /\ Failure(a) # "none"
        /\ Halts(r, Failure(a))
        /\ UNCHANGED local
     \/ /\ Refusal(a) = "none" /\ Failure(a) = "none"
        /\ \E h \in Found(a) :
             /\ hub' = [hub EXCEPT ![r] = h]
             /\ copy' = [copy EXCEPT ![r] = NewStatus(status[h], a)]
             /\ dirty' = [dirty EXCEPT ![r] = NewStatus(status[h], a) # status[h]]
        /\ Go(r, "authenticate", "validate")
        /\ UNCHANGED answer
  /\ UNCHANGED <<table, updated, logs, newest, queue>>

\* save! validates first: another hub with this MAC makes it raise.
Validate(r) ==
  LET taken == \E h \in Hub : h # hub[r] /\ hubs[h] = "present" /\ Mac[h] = Mac[hub[r]] IN
  /\ pc[r] = "validate"
  /\ \/ /\ taken
        /\ Halts(r, "500")
     \/ /\ ~taken
        /\ Go(r, "validate", "save")
        /\ UNCHANGED answer
  /\ UNCHANGED <<table, local, updated, logs, newest, queue>>

\* UPDATE hubs SET status = ..., if it changed, which waits for the lock of
\* the row; INSERT INTO action_logs.
Save(r) ==
  /\ dirty[r] => ~RowLocked(hub[r])
  /\ Go(r, "save", "commit")
  /\ lastId' = lastId + 1
  /\ log' = [log EXCEPT ![r] = lastId + 1]
  /\ UNCHANGED <<table, local, updated, logged, newest, queue, answer>>

\* Mutant: a change made in place to a status that was loaded goes unnoticed.
Commit_InPlace(r) ==
  /\ Go(r, "commit", "maximum")
  /\ logged' = logged \cup {r}
  /\ status' = IF status[hub[r]] = Nil THEN [status EXCEPT ![hub[r]] = copy[r]] ELSE status
  /\ UNCHANGED <<hubs, local, updated, log, lastId, newest, queue, answer>>

\* The whole column is written; a row destroyed meanwhile is not updated.
Commit(r) ==
  /\ Go(r, "commit", "maximum")
  /\ logged' = logged \cup {r}
  /\ status' = IF dirty[r] /\ hubs[hub[r]] = "present"
                 THEN [status EXCEPT ![hub[r]] = copy[r]] ELSE status
  /\ UNCHANGED <<hubs, local, updated, log, lastId, newest, queue, answer>>

\* @hub.action_log.maximum(:id)
Maximum(r) ==
  /\ Go(r, "maximum", "publish")
  /\ \E i \in Logs(hub[r]) :
       /\ IsNewest(i, Logs(hub[r]))
       /\ newest' = [newest EXCEPT ![r] = i]
  /\ UNCHANGED <<table, local, updated, logs, queue, answer>>

\* Mutant: the rescue clause does not halt.
Publish_GoesOn(r) ==
  /\ Go(r, "publish", "again")
  /\ \/ published' = Append(published, [request |-> r, id |-> newest[r]])
     \/ "redis" \in Unreliable /\ UNCHANGED published
  /\ UNCHANGED <<table, local, updated, logs, newest, processed, answer>>

\* redis.publish; an error is answered, whether or not Redis got the message.
Publish(r) ==
  /\ \/ /\ Go(r, "publish", "again")
        /\ published' = Append(published, [request |-> r, id |-> newest[r]])
        /\ UNCHANGED answer
     \/ /\ pc[r] = "publish" /\ "redis" \in Unreliable
        /\ \/ published' = Append(published, [request |-> r, id |-> newest[r]])
           \/ UNCHANGED published
        /\ Halts(r, "500")
  /\ UNCHANGED <<table, local, updated, logs, newest, processed>>

\* @updated_hub = authenticate(mac), which may be another row by now.
AuthenticateAgain(r) ==
  /\ \/ /\ pc[r] = "again" /\ Found(Ask[r]) = {}
        /\ Halts(r, "406")
        /\ UNCHANGED updated
     \/ /\ Go(r, "again", "last")
        /\ \E h \in Found(Ask[r]) :
             /\ updated' = [updated EXCEPT ![r] = h]
             /\ body' = [body EXCEPT ![r] = status[h]]
        /\ UNCHANGED reply
  /\ UNCHANGED <<table, local, logs, newest, queue>>

\* get_hub_status; a hub without any log has no last one: nil.slice raises.
LastLog(r) ==
  /\ Go(r, "last", "done")
  /\ \/ /\ Logs(updated[r]) # {}
        /\ reply' = [reply EXCEPT ![r] = "200"]
        /\ UNCHANGED body
     \/ /\ Logs(updated[r]) = {}
        /\ reply' = [reply EXCEPT ![r] = "500"]
        /\ body' = [body EXCEPT ![r] = Nil]
  /\ UNCHANGED <<table, local, updated, logs, newest, queue>>

\* A statement fails: the exception rolls the transaction back.
DatabaseError(r) ==
  /\ "db" \in Unreliable
  /\ pc[r] \in {"authenticate", "validate", "save", "commit", "maximum", "again", "last"}
  /\ Go(r, pc[r], "done")
  /\ reply' = [reply EXCEPT ![r] = "500"]
  /\ body' = [body EXCEPT ![r] = Nil]
  /\ UNCHANGED <<table, local, updated, logs, newest, queue>>

\* A process is killed and started again: the requests S it serves stay
\* unanswered, their open transactions are rolled back.
Killed(S) ==
  /\ "puma" \in Unreliable /\ S # {}
  /\ pc' = [r \in Request |-> IF r \in S THEN "done" ELSE pc[r]]
  /\ body' = [r \in Request |-> IF r \in S THEN Nil ELSE body[r]]
  /\ UNCHANGED <<table, local, updated, logs, newest, queue, reply>>

Step(r) ==
  \/ Authenticate(r) \/ Validate(r) \/ Save(r) \/ Commit(r) \/ Maximum(r)
  \/ Publish(r) \/ AuthenticateAgain(r) \/ LastLog(r)

-----------------------------------------------------------------------------
(* The hubs page and the TCP server.                                       *)

\* INSERT of a hub that passed its validation, maybe before others appeared.
HubCreated(h) ==
  /\ hubs[h] = "new"
  /\ hubs' = [hubs EXCEPT ![h] = "present"]
  /\ UNCHANGED <<status, pc, local, updated, logs, newest, queue, answer>>

\* DELETE of a hub, which waits for the lock of its row; its logs remain.
HubDestroyed(h) ==
  /\ hubs[h] = "present" /\ ~RowLocked(h)
  /\ hubs' = [hubs EXCEPT ![h] = "destroyed"]
  /\ UNCHANGED <<status, pc, local, updated, logs, newest, queue, answer>>

\* UPDATE action_logs of the TCP server, for the id it was given; it joins hubs.
Processed(i) ==
  LET r == published[i].request IN
  /\ hubs[hub[r]] = "present" /\ published[i].id \notin processed
  /\ processed' = processed \cup {published[i].id}
  /\ UNCHANGED <<table, pc, local, updated, logs, newest, published, answer>>

Environment ==
  \/ \E h \in Hub : HubCreated(h) \/ HubDestroyed(h)
  \/ \E i \in DOMAIN published : Processed(i)

Next ==
  \/ \E r \in Request : Arrives(r) \/ Step(r) \/ DatabaseError(r)
  \/ \E S \in SUBSET Busy : Killed(S)
  \/ Environment

Spec == Init /\ [][Next]_vars

\* Puma's threads and PostgreSQL make progress; nothing is assumed of clients.
FairSpec == Spec /\ \A r \in Request : WF_vars(Step(r))

-----------------------------------------------------------------------------
(* Type invariant.                                                         *)

PC == {"new", "authenticate", "validate", "save", "commit", "maximum", "publish", "again",
       "last", "done"}
Codes == {"200", "401", "404", "406", "500"}

\* Every variable keeps its type; a message names a request and a log id.
TypeOK ==
  /\ hubs \in [Hub -> {"new", "present", "destroyed"}]
  /\ status \in [Hub -> Status \cup {Nil}]
  /\ pc \in [Request -> PC]
  /\ hub \in [Request -> Hub \cup {Nil}]
  /\ copy \in [Request -> Status \cup {Nil}]
  /\ dirty \in [Request -> BOOLEAN]
  /\ log \in [Request -> Nat] /\ logged \subseteq Request /\ lastId \in Nat
  /\ newest \in [Request -> Nat]
  /\ updated \in [Request -> Hub \cup {Nil}]
  /\ published \in Seq([request : Request, id : Nat])
  /\ processed \subseteq Nat
  /\ reply \in [Request -> Codes \cup {"none"}]
  /\ body \in [Request -> Status \cup {Nil}]

=============================================================================
