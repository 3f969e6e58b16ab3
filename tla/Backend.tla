------------------------------- MODULE Backend -------------------------------
(***************************************************************************)
(* The TCP server of backend/main.go.  Every MiLight bridge keeps one TCP  *)
(* connection to it; commands arrive on a Redis subscription and are       *)
(* handed, through one Go channel per MAC address, to the goroutine that   *)
(* writes them to the bridge.                                              *)
(*                                                                         *)
(* Three kinds of goroutines share macMap, guarded (not everywhere) by     *)
(* cmdMutex: one handleConnection and one waitForCommands per connection,  *)
(* and one redisPubSub.  One action stands for the code between two points *)
(* where another goroutine, the network or a service can be observed.      *)
(*                                                                         *)
(* A channel has the name of the connection whose handler made it.         *)
(***************************************************************************)
EXTENDS Integers, Sequences

CONSTANTS
  Mac,        \* adjusted MAC addresses, one per bridge
  Conn,       \* TCP connections; each is accepted at most once
  Bridge,     \* the bridge that makes each of them
  Nil,        \* the nil channel: no entry in macMap
  Script,     \* the commands the API publishes, in order
  Unreliable  \* the services whose calls may fail, a subset of {"db", "redis"}

\* A command: the bridge it is for, and how many of its instructions are
\* decoded before the list ends or one is not base64 (main.go:333-339).
Command == [mac : Mac, len : Nat]

ASSUME NilAssumption == Nil \notin Conn
ASSUME BridgeAssumption == Bridge \in [Conn -> Mac]
ASSUME ScriptAssumption == Script \in Seq(Command)
ASSUME UnreliableAssumption == Unreliable \subseteq {"db", "redis"}

VARIABLES
  fault,      \* why the process died, "none" while it runs
  macMap,     \* [Mac -> channel]
  closed,     \* channels that have been closed
  hpc,        \* where handleConnection is, per connection
  link,       \* the TCP connection, as the network and the process see it
  wpc,        \* where waitForCommands is, per connection
  chan,       \* the channel it is receiving from
  job, step,  \* the command it holds (0: none), its next instruction
  ppc, msg,   \* where redisPubSub is, the command it holds
  queue,      \* messages pending on its subscription
  sent,       \* how many commands of Script have been published
  got,        \* the instructions each bridge has received, <<command, index>>
  processed,  \* action_logs rows with processed = 1
  connected,  \* the Redis set currentlyConnected
  heartbeat   \* hubs whose heartbeat has been set

shared     == <<macMap, closed>>
workers    == <<wpc, chan, job, step>>
dispatcher == <<ppc, msg, queue>>
stores     == <<processed, connected, heartbeat>>
outside    == <<sent, got>>
process    == <<fault, macMap, closed, hpc, link, wpc, chan, job, step, ppc, msg, queue>>
vars       == <<process, outside, stores>>

CmdId == 1..Len(Script)
Faults == {"sendOnClosed", "closeOfNil", "closeOfClosed", "mapRace", "nilRows"}

Init ==
  /\ fault = "none"
  /\ macMap = [m \in Mac |-> Nil]
  /\ closed = {}
  /\ hpc = [c \in Conn |-> "none"]
  /\ link = [c \in Conn |-> "none"]
  /\ wpc = [c \in Conn |-> "none"]
  /\ chan = [c \in Conn |-> Nil]
  /\ job = [c \in Conn |-> 0]
  /\ step = [c \in Conn |-> 0]
  /\ ppc = "receive" /\ msg = 0 /\ queue = <<>>
  /\ sent = 0
  /\ got = [m \in Mac |-> <<>>]
  /\ processed = {} /\ connected = {} /\ heartbeat = {}

-----------------------------------------------------------------------------
(* The process as a whole.                                                 *)

\* An unrecovered panic, or the runtime's throw on a map race, ends every
\* goroutine, and the kernel closes their sockets.
Panic(why) ==
  /\ fault' = why
  /\ macMap' = [m \in Mac |-> Nil]
  /\ closed' = {}
  /\ hpc' = [c \in Conn |-> IF hpc[c] = "none" THEN "none" ELSE "gone"]
  /\ link' = [c \in Conn |-> IF link[c] = "none" THEN "none" ELSE "closed"]
  /\ wpc' = [c \in Conn |-> "none"]
  /\ chan' = [c \in Conn |-> Nil]
  /\ job' = [c \in Conn |-> 0]
  /\ step' = [c \in Conn |-> 0]
  /\ ppc' = "dead" /\ msg' = 0 /\ queue' = <<>>

\* The container is started again: main subscribes with an empty macMap.
Restart ==
  /\ fault # "none"
  /\ fault' = "none"
  /\ ppc' = "receive"
  /\ UNCHANGED <<shared, hpc, link, workers, msg, queue, outside, stores>>

\* Mutant: waitForCommands deletes without taking the mutex.
LockFree_WorkerUnlocked ==
  /\ \A c \in Conn : hpc[c] \notin {"close", "make", "end"}
  /\ ppc # "select"

\* Mutant: waitForCommands returns without Unlock.
LockFree_NoUnlock ==
  /\ \A c \in Conn : hpc[c] \notin {"close", "make", "end"}
  /\ \A c \in Conn : wpc[c] \notin {"delete", "srem", "done"}
  /\ ppc # "select"

\* cmdMutex is held by the goroutine that is between Lock and Unlock.
LockFree ==
  /\ \A c \in Conn : hpc[c] \notin {"close", "make", "end"} /\ wpc[c] # "delete"
  /\ ppc # "select"

\* A goroutine holds the mutex to assign to macMap or delete from it.
MapWriting == \E c \in Conn : hpc[c] = "make" \/ wpc[c] = "delete"

\* Go 1.6 throws when it sees a read of a map another goroutine is writing.
UnlockedReadRaces ==
  /\ MapWriting
  /\ Panic("mapRace")
  /\ UNCHANGED <<outside, stores>>

HStep(c, from, to) == hpc[c] = from /\ hpc' = [hpc EXCEPT ![c] = to]
WStep(c, from, to) == wpc[c] = from /\ wpc' = [wpc EXCEPT ![c] = to]

-----------------------------------------------------------------------------
(* handleConnection.                                                       *)

\* The first bytes that hold a MAC; the MAC is added to the Redis set, whose
\* errors are ignored.
HIdentify(c) ==
  /\ link[c] # "closed"
  /\ HStep(c, "identify", "beat")
  /\ \/ connected' = connected \cup {Bridge[c]}
     \/ "redis" \in Unreliable /\ UNCHANGED connected
  /\ UNCHANGED <<fault, shared, link, workers, dispatcher, outside, processed, heartbeat>>

\* db.Query returns nil rows with an error, and rows.Close() is called first.
HHeartbeat(c) ==
  \/ /\ HStep(c, "beat", "check")
     /\ heartbeat' = heartbeat \cup {Bridge[c]}
     /\ UNCHANGED <<fault, shared, link, workers, dispatcher, outside, processed, connected>>
  \/ /\ hpc[c] = "beat" /\ "db" \in Unreliable
     /\ Panic("nilRows")
     /\ UNCHANGED <<outside, stores>>

\* Mutant: the test is the wrong way round.
HasEntry_Inverted(m) == macMap[m] = Nil

HasEntry(m) == macMap[m] # Nil

\* macMap[mac] != nil, read without the lock.
HCheck(c) ==
  /\ hpc[c] = "check"
  /\ \/ /\ HStep(c, "check", IF HasEntry(Bridge[c]) THEN "lockClose" ELSE "lockMake")
        /\ UNCHANGED <<fault, shared, link, workers, dispatcher, outside, stores>>
     \/ UnlockedReadRaces

\* cmdMutex.Lock() of the handler, at its three places.
HLock(c) ==
  /\ LockFree
  /\ \/ HStep(c, "lockClose", "close")
     \/ HStep(c, "lockMake", "make")
     \/ HStep(c, "lockEnd", "end")
  /\ UNCHANGED <<fault, shared, link, workers, dispatcher, outside, stores>>

\* close(macMap[mac]); cmdMutex.Unlock()
CloseRegistered(c, from, to) ==
  LET ch == macMap[Bridge[c]] IN
  /\ hpc[c] = from
  /\ \/ /\ ch # Nil /\ ch \notin closed
        /\ closed' = closed \cup {ch}
        /\ HStep(c, from, to)
        /\ UNCHANGED <<fault, macMap, link, workers, dispatcher>>
     \/ ch = Nil /\ Panic("closeOfNil")
     \/ ch \in closed /\ Panic("closeOfClosed")
  /\ UNCHANGED <<outside, stores>>

\* An entry for this MAC exists: close the channel of the connection before.
HClosePrevious(c) == CloseRegistered(c, "close", "lockMake")

\* The read loop has ended: close the channel of this MAC, whosever it is.
HCloseAtEnd(c) == CloseRegistered(c, "end", "done")

\* macMap[mac] = make(chan CommandItem); Unlock; go waitForCommands(...)
HMake(c) ==
  /\ HStep(c, "make", "serve")
  /\ macMap' = [macMap EXCEPT ![Bridge[c]] = c]
  /\ wpc' = [wpc EXCEPT ![c] = "fetch"]
  /\ UNCHANGED <<fault, closed, link, chan, job, step, dispatcher, outside, stores>>

\* c.Read fails or returns no byte: the socket is closed, and there is
\* something to clean up only if a MAC was read.
HReadError(c) ==
  /\ link[c] = "broken"
  /\ HStep(c, "identify", "done") \/ HStep(c, "serve", "lockEnd")
  /\ link' = [link EXCEPT ![c] = "closed"]
  /\ UNCHANGED <<fault, shared, workers, dispatcher, outside, stores>>

Handler(c) ==
  \/ HHeartbeat(c) \/ HCheck(c) \/ HLock(c) \/ HClosePrevious(c)
  \/ HMake(c) \/ HReadError(c) \/ HCloseAtEnd(c)

-----------------------------------------------------------------------------
(* waitForCommands.                                                        *)

\* macMap[s] is read, without the lock, each time around the loop; the
\* goroutine then blocks on the channel it found, for ever if that is nil.
WFetch(c) ==
  /\ wpc[c] = "fetch"
  /\ \/ /\ WStep(c, "fetch", "recv")
        /\ chan' = [chan EXCEPT ![c] = macMap[Bridge[c]]]
        /\ UNCHANGED <<fault, shared, hpc, link, job, step, dispatcher, outside, stores>>
     \/ UnlockedReadRaces

\* The channel was closed: leave the loop.
WChannelClosed(c) ==
  /\ chan[c] \in closed
  /\ WStep(c, "recv", "lockDelete")
  /\ chan' = [chan EXCEPT ![c] = Nil]
  /\ UNCHANGED <<fault, shared, hpc, link, job, step, dispatcher, outside, stores>>

\* Mutant: a probe that fails is tried again.
WriteCanFail_Retries(c) == FALSE

\* A write on a connection that broke may still succeed, once it is closed never.
WriteCanFail(c) == link[c] \in {"broken", "closed"}
WriteCanSucceed(c) == link[c] # "closed"

\* Mutant: the loop stops one instruction early.
AtInstruction_OffByOne(k, i) == IF i < Script[k].len THEN "write" ELSE "update"

\* Where the loop over the instructions of command k is before instruction i.
AtInstruction(k, i) == IF i <= Script[k].len THEN "write" ELSE "update"

\* c.Write(zero) tells whether the socket still takes data; if not, the
\* command just received is given up and the loop left.
WProbe(c) ==
  /\ wpc[c] = "probe"
  /\ \/ /\ WriteCanSucceed(c)
        /\ WStep(c, "probe", AtInstruction(job[c], 1))
        /\ step' = [step EXCEPT ![c] = 1]
        /\ UNCHANGED job
     \/ /\ WriteCanFail(c)
        /\ WStep(c, "probe", "lockDelete")
        /\ job' = [job EXCEPT ![c] = 0]
        /\ UNCHANGED step
  /\ UNCHANGED <<fault, shared, hpc, link, chan, dispatcher, outside, stores>>

\* One instruction is written, and 250 ms slept.  The result of Write is not
\* looked at: what is written to a dead connection is lost.
WWrite(c) ==
  /\ WStep(c, "write", AtInstruction(job[c], step[c] + 1))
  /\ step' = [step EXCEPT ![c] = step[c] + 1]
  /\ got' = IF link[c] = "up"
              THEN [got EXCEPT ![Bridge[c]] = Append(@, <<job[c], step[c]>>)]
              ELSE got
  /\ UNCHANGED <<fault, shared, hpc, link, chan, job, dispatcher, sent, stores>>

\* UPDATE action_logs SET processed = 1, then the next command.
WUpdate(c) ==
  \/ /\ WStep(c, "update", "fetch")
     /\ processed' = processed \cup {job[c]}
     /\ job' = [job EXCEPT ![c] = 0]
     /\ step' = [step EXCEPT ![c] = 0]
     /\ UNCHANGED <<fault, shared, hpc, link, chan, dispatcher, outside, connected, heartbeat>>
  \/ /\ wpc[c] = "update" /\ "db" \in Unreliable
     /\ Panic("nilRows")
     /\ UNCHANGED <<outside, stores>>

WLock(c) ==
  /\ LockFree
  /\ WStep(c, "lockDelete", "delete")
  /\ UNCHANGED <<fault, shared, hpc, link, chan, job, step, dispatcher, outside, stores>>

\* Mutant: the whole map is cleared.
Deleted_All(m) == [n \in Mac |-> Nil]

Deleted(m) == [macMap EXCEPT ![m] = Nil]

\* delete(macMap, s), whosever channel is there by now; Unlock.
WDelete(c) ==
  /\ WStep(c, "delete", "srem")
  /\ macMap' = Deleted(Bridge[c])
  /\ UNCHANGED <<fault, closed, hpc, link, chan, job, step, dispatcher, outside, stores>>

\* Mutant: DEL for SREM.
WRemoveConnected_Del(c) ==
  /\ WStep(c, "srem", "done")
  /\ \/ connected' = {}
     \/ "redis" \in Unreliable /\ UNCHANGED connected
  /\ UNCHANGED <<fault, shared, hpc, link, chan, job, step, dispatcher, outside, processed, heartbeat>>

\* SREM currentlyConnected, errors ignored.
WRemoveConnected(c) ==
  /\ WStep(c, "srem", "done")
  /\ \/ connected' = connected \ {Bridge[c]}
     \/ "redis" \in Unreliable /\ UNCHANGED connected
  /\ UNCHANGED <<fault, shared, hpc, link, chan, job, step, dispatcher, outside, processed, heartbeat>>

Worker(c) ==
  \/ WFetch(c) \/ WChannelClosed(c) \/ WProbe(c) \/ WWrite(c) \/ WUpdate(c)
  \/ WLock(c) \/ WDelete(c) \/ WRemoveConnected(c)

-----------------------------------------------------------------------------
(* redisPubSub.                                                            *)

\* Mutant: the message received is not consumed.
Unreceived_Kept == queue

Unreceived == Tail(queue)

\* Mutant: the youngest message is received first.
Received_LastFirst == queue[Len(queue)]

Received == Head(queue)

\* psc.Receive() returns the next message of the subscription.
PReceive ==
  /\ ppc = "receive" /\ queue # <<>>
  /\ msg' = Received
  /\ queue' = Unreceived
  /\ ppc' = "lock"
  /\ UNCHANGED <<fault, shared, hpc, link, workers, outside, stores>>

PLock ==
  /\ ppc = "lock" /\ LockFree
  /\ ppc' = "select"
  /\ UNCHANGED <<fault, shared, hpc, link, workers, msg, queue, outside, stores>>

\* Mutant: one channel for all bridges.
Receivers_OneChannel(k) == {c \in Conn : wpc[c] = "recv" /\ chan[c] # Nil}

\* Goroutines blocked on the channel a command is for.
Receivers(k) ==
  {c \in Conn : wpc[c] = "recv" /\ chan[c] # Nil /\ chan[c] = macMap[Script[k].mac]}

\* Mutant: the select has no default.
NobodyListens_Blocks(k) == FALSE

NobodyListens(k) == Receivers(k) = {}

\* select { case macMap[Mac] <- Command: ... default: ... }; Unlock.
\* Go does not say which of several blocked receivers gets the value.
PSelect ==
  /\ ppc = "select"
  /\ \/ /\ macMap[Script[msg].mac] \in closed
        /\ Panic("sendOnClosed")
     \/ /\ macMap[Script[msg].mac] \notin closed
        /\ ppc' = "receive"
        /\ msg' = 0
        /\ \/ \E c \in Receivers(msg) :
                /\ wpc' = [wpc EXCEPT ![c] = "probe"]
                /\ chan' = [chan EXCEPT ![c] = Nil]
                /\ job' = [job EXCEPT ![c] = msg]
                /\ UNCHANGED step
           \/ NobodyListens(msg) /\ UNCHANGED workers
        /\ UNCHANGED <<fault, shared, hpc, link, queue>>
  /\ UNCHANGED <<outside, stores>>

PubSub == PReceive \/ PLock \/ PSelect

-----------------------------------------------------------------------------
(* The environment: bridges, the network, the API, Redis.                  *)

\* A bridge has one client socket: it dials when it has no live connection.
BridgeDials(c) ==
  /\ fault = "none" /\ hpc[c] = "none"
  /\ \A d \in Conn : Bridge[d] = Bridge[c] => link[d] # "up"
  /\ hpc' = [hpc EXCEPT ![c] = "identify"]
  /\ link' = [link EXCEPT ![c] = "up"]
  /\ UNCHANGED <<fault, shared, workers, dispatcher, outside, stores>>

\* The bridge is gone and the server has not been told (no keepalive).
LinkGoesStale(c) ==
  /\ link[c] = "up"
  /\ link' = [link EXCEPT ![c] = "stale"]
  /\ UNCHANGED <<fault, shared, hpc, workers, dispatcher, outside, stores>>

\* A FIN or a RST reaches the server.
LinkBreaks(c) ==
  /\ link[c] \in {"up", "stale"}
  /\ link' = [link EXCEPT ![c] = "broken"]
  /\ UNCHANGED <<fault, shared, hpc, workers, dispatcher, outside, stores>>

\* Mutant: a message carries the number of the command before.
Publish_OffByOne ==
  /\ sent < Len(Script)
  /\ sent' = sent + 1
  /\ queue' = IF ppc = "dead" THEN queue ELSE Append(queue, sent)
  /\ UNCHANGED <<fault, shared, hpc, link, workers, ppc, msg, got, stores>>

\* The API publishes; Redis keeps a message only for a live subscriber.
Publish ==
  /\ sent < Len(Script)
  /\ sent' = sent + 1
  /\ queue' = IF ppc = "dead" THEN queue ELSE Append(queue, sent + 1)
  /\ UNCHANGED <<fault, shared, hpc, link, workers, ppc, msg, got, stores>>

\* psc.Receive() returns an error: redisPubSub returns and is not restarted.
SubscriptionError ==
  /\ "redis" \in Unreliable
  /\ ppc = "receive"
  /\ ppc' = "dead"
  /\ queue' = <<>>
  /\ UNCHANGED <<fault, shared, hpc, link, workers, msg, outside, stores>>

Environment ==
  \/ \E c \in Conn : BridgeDials(c) \/ HIdentify(c) \/ LinkGoesStale(c) \/ LinkBreaks(c)
  \/ Publish \/ SubscriptionError \/ Restart

Next ==
  \/ \E c \in Conn : Handler(c) \/ Worker(c)
  \/ PubSub
  \/ Environment

Spec == Init /\ [][Next]_vars

\* Go schedules every runnable goroutine; nothing is assumed of the bridges,
\* of the network, of the API, or that a dead process is started again.
Fairness ==
  /\ \A c \in Conn : WF_vars(Handler(c)) /\ WF_vars(Worker(c))
  /\ WF_vars(PubSub)

FairSpec == Spec /\ Fairness

-----------------------------------------------------------------------------
(* Type invariant.                                                         *)

HandlerPC == {"none", "identify", "beat", "check", "lockClose", "close", "lockMake",
              "make", "serve", "lockEnd", "end", "done", "gone"}
WorkerPC == {"none", "fetch", "recv", "probe", "write", "update", "lockDelete",
             "delete", "srem", "done"}

\* Every variable keeps its type, in particular indices into Script stay
\* inside it and a step index is that of an instruction of the job.
TypeOK ==
  /\ fault \in Faults \cup {"none"}
  /\ macMap \in [Mac -> Conn \cup {Nil}]
  /\ closed \subseteq Conn
  /\ hpc \in [Conn -> HandlerPC]
  /\ link \in [Conn -> {"none", "up", "stale", "broken", "closed"}]
  /\ wpc \in [Conn -> WorkerPC]
  /\ chan \in [Conn -> Conn \cup {Nil}]
  /\ job \in [Conn -> {0} \cup CmdId]
  /\ step \in [Conn -> Nat]
  /\ ppc \in {"receive", "lock", "select", "dead"}
  /\ msg \in {0} \cup CmdId
  /\ queue \in Seq(CmdId)
  /\ sent \in {0} \cup CmdId
  /\ got \in [Mac -> Seq(CmdId \X Nat)]
  /\ processed \subseteq CmdId
  /\ connected \subseteq Mac
  /\ heartbeat \subseteq Mac

=============================================================================
