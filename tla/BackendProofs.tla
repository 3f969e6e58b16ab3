----------------------------- MODULE BackendProofs -----------------------------
(***************************************************************************)
(* Theorems on Backend, for any bridges, connections, commands and faults. *)
(***************************************************************************)
EXTENDS BackendProperties, TLAPS

\* Every published command has a bridge and a number of instructions.
LEMMA ScriptItem ==
  ASSUME NEW k \in CmdId
  PROVE  Script[k].mac \in Mac /\ Script[k].len \in Nat
<1>1. Script[k] \in Command
  BY ScriptAssumption DEF CmdId
<1> QED BY <1>1 DEF Command

\* A goroutine has a command in hand exactly at the places that use it.
Holding ==
  /\ \A c \in Conn : job[c] # 0 <=> wpc[c] \in {"probe", "write", "update"}
  /\ \A c \in Conn : chan[c] # Nil => wpc[c] = "recv"
  /\ \A c \in Conn : wpc[c] # "none" => hpc[c] \in {"serve", "lockEnd", "end", "done"}
  /\ msg # 0 <=> ppc \in {"lock", "select"}
  /\ fault # "none" => ppc = "dead"

TypeInv == TypeOK /\ Holding

LEMMA InitType == Init => TypeInv
BY DEF Init, TypeInv, TypeOK, Holding, HandlerPC, WorkerPC, CmdId, Faults

\* A panic, or the throw on a map race, leaves every variable of its type.
LEMMA PanicType ==
  ASSUME TypeInv, NEW why \in Faults, Panic(why), UNCHANGED <<outside, stores>>
  PROVE  TypeInv'
BY NilAssumption DEF TypeInv, TypeOK, Holding, Panic, outside, stores, HandlerPC, WorkerPC, CmdId

LEMMA HandlerType ==
  ASSUME TypeInv, NEW c \in Conn, Handler(c) \/ HIdentify(c)
  PROVE  TypeInv'
<1> USE BridgeAssumption, NilAssumption DEF TypeInv, Holding, shared, workers, dispatcher, outside, stores
<1>1. CASE HIdentify(c)
  BY <1>1 DEF HIdentify, HStep, TypeOK, HandlerPC
<1>2. CASE HHeartbeat(c)
  <2>1. CASE hpc[c] = "beat" /\ Panic("nilRows") /\ UNCHANGED <<outside, stores>>
    BY <2>1, PanicType DEF Faults
  <2>2. CASE HStep(c, "beat", "check") /\ heartbeat' = heartbeat \cup {Bridge[c]}
             /\ UNCHANGED <<fault, shared, link, workers, dispatcher, outside, processed, connected>>
    BY <2>2 DEF HStep, TypeOK, HandlerPC
  <2> QED BY <1>2, <2>1, <2>2 DEF HHeartbeat
<1>3. CASE HCheck(c)
  <2>1. CASE UnlockedReadRaces
    BY <2>1, PanicType DEF UnlockedReadRaces, Faults
  <2>2. CASE ~UnlockedReadRaces
    <3> DEFINE to == IF HasEntry(Bridge[c]) THEN "lockClose" ELSE "lockMake"
    <3>1. to \in HandlerPC /\ HStep(c, "check", to)
          /\ UNCHANGED <<fault, shared, link, workers, dispatcher, outside, stores>>
      BY <1>3, <2>2 DEF HCheck, HandlerPC
    <3> HIDE DEF to
    <3> QED BY <3>1 DEF HStep, TypeOK
  <2> QED BY <2>1, <2>2
<1>4. CASE HLock(c)
  BY <1>4 DEF HLock, HStep, TypeOK, HandlerPC
<1>5. ASSUME NEW from \in HandlerPC, NEW to \in HandlerPC, CloseRegistered(c, from, to),
             from = "close" \/ to = "done"
      PROVE  TypeInv'
  <2>1. CASE macMap[Bridge[c]] = Nil /\ Panic("closeOfNil")
    BY <1>5, <2>1, PanicType DEF CloseRegistered, Faults
  <2>2. CASE macMap[Bridge[c]] \in closed /\ Panic("closeOfClosed")
    BY <1>5, <2>2, PanicType DEF CloseRegistered, Faults
  <2>3. CASE HStep(c, from, to) /\ closed' = closed \cup {macMap[Bridge[c]]}
             /\ macMap[Bridge[c]] # Nil
             /\ UNCHANGED <<fault, macMap, link, workers, dispatcher, outside, stores>>
    BY <1>5, <2>3 DEF HStep, TypeOK
  <2> QED BY <1>5, <2>1, <2>2, <2>3 DEF CloseRegistered
<1>6. CASE HClosePrevious(c)
  BY <1>6, <1>5 DEF HClosePrevious, HandlerPC
<1>7. CASE HMake(c)
  BY <1>7 DEF HMake, HStep, TypeOK, HandlerPC, WorkerPC
<1>8. CASE HReadError(c)
  BY <1>8 DEF HReadError, HStep, TypeOK, HandlerPC
<1>9. CASE HCloseAtEnd(c)
  BY <1>9, <1>5 DEF HCloseAtEnd, HandlerPC
<1> QED
  BY <1>1, <1>2, <1>3, <1>4, <1>6, <1>7, <1>8, <1>9 DEF Handler

LEMMA WorkerType ==
  ASSUME TypeInv, NEW c \in Conn, Worker(c)
  PROVE  TypeInv'
<1> USE BridgeAssumption, NilAssumption DEF TypeInv, Holding, shared, workers, dispatcher, outside, stores
<1>1. CASE WFetch(c)
  <2>1. CASE UnlockedReadRaces
    BY <2>1, PanicType DEF UnlockedReadRaces, Faults
  <2>2. CASE ~UnlockedReadRaces
    <3>1. macMap[Bridge[c]] \in Conn \cup {Nil}
      BY DEF TypeOK
    <3>2. WStep(c, "fetch", "recv") /\ chan' = [chan EXCEPT ![c] = macMap[Bridge[c]]]
          /\ UNCHANGED <<fault, shared, hpc, link, job, step, dispatcher, outside, stores>>
      BY <1>1, <2>2 DEF WFetch
    <3> QED BY <3>1, <3>2 DEF WStep, TypeOK, WorkerPC
  <2> QED BY <2>1, <2>2
<1>2. CASE WChannelClosed(c)
  BY <1>2 DEF WChannelClosed, WStep, TypeOK, WorkerPC
<1>3. CASE WProbe(c)
  <2>1. UNCHANGED <<fault, shared, hpc, link, chan, dispatcher, outside, stores>>
    BY <1>3 DEF WProbe
  <2>2. CASE WStep(c, "probe", AtInstruction(job[c], 1)) /\ UNCHANGED job
             /\ step' = [step EXCEPT ![c] = 1]
    <3>1. AtInstruction(job[c], 1) \in {"write", "update"}
      BY DEF AtInstruction
    <3> QED BY <2>1, <2>2, <3>1 DEF WStep, TypeOK, WorkerPC
  <2>3. CASE WStep(c, "probe", "lockDelete") /\ job' = [job EXCEPT ![c] = 0] /\ UNCHANGED step
    BY <2>1, <2>3 DEF WStep, TypeOK, WorkerPC
  <2> QED BY <1>3, <2>2, <2>3 DEF WProbe
<1>4. CASE WWrite(c)
  <2>1. job[c] \in CmdId /\ step[c] \in Nat /\ Bridge[c] \in Mac
    BY <1>4 DEF WWrite, WStep, TypeOK
  <2>2. got' \in [Mac -> Seq(CmdId \X Nat)]
    <3>1. <<job[c], step[c]>> \in CmdId \X Nat
      BY <2>1
    <3>2. Append(got[Bridge[c]], <<job[c], step[c]>>) \in Seq(CmdId \X Nat)
      BY <2>1, <3>1 DEF TypeOK
    <3> QED BY <1>4, <2>1, <3>2 DEF WWrite, TypeOK
  <2>3. wpc' \in [Conn -> WorkerPC] /\ step' \in [Conn -> Nat]
    BY <1>4, <2>1 DEF WWrite, WStep, AtInstruction, TypeOK, WorkerPC
  <2>4. wpc'[c] \in {"write", "update"} /\ \A d \in Conn \ {c} : wpc'[d] = wpc[d]
    BY <1>4 DEF WWrite, WStep, AtInstruction, TypeOK
  <2>5. UNCHANGED <<fault, macMap, closed, hpc, link, chan, job, ppc, msg, queue, sent,
                    processed, connected, heartbeat>>
    BY <1>4 DEF WWrite
  <2>6. TypeOK'
    BY <2>2, <2>3, <2>5 DEF TypeOK
  <2>7. Holding'
    BY <1>4, <2>4, <2>5 DEF WWrite, WStep
  <2> QED BY <2>6, <2>7
<1>5. CASE WUpdate(c)
  <2>1. CASE wpc[c] = "update" /\ Panic("nilRows") /\ UNCHANGED <<outside, stores>>
    BY <2>1, PanicType DEF Faults
  <2>2. CASE WStep(c, "update", "fetch") /\ processed' = processed \cup {job[c]}
             /\ job' = [job EXCEPT ![c] = 0] /\ step' = [step EXCEPT ![c] = 0]
             /\ UNCHANGED <<fault, shared, hpc, link, chan, dispatcher, outside, connected, heartbeat>>
    BY <2>2 DEF WStep, TypeOK, WorkerPC
  <2> QED BY <1>5, <2>1, <2>2 DEF WUpdate
<1>6. CASE WLock(c)
  BY <1>6 DEF WLock, WStep, TypeOK, WorkerPC
<1>7. CASE WDelete(c)
  BY <1>7 DEF WDelete, Deleted, WStep, TypeOK, WorkerPC
<1>8. CASE WRemoveConnected(c)
  BY <1>8 DEF WRemoveConnected, WStep, TypeOK, WorkerPC
<1> QED
  BY <1>1, <1>2, <1>3, <1>4, <1>5, <1>6, <1>7, <1>8 DEF Worker

LEMMA PubSubType ==
  ASSUME TypeInv, PubSub
  PROVE  TypeInv'
<1> USE BridgeAssumption, NilAssumption DEF TypeInv, Holding, shared, workers, dispatcher, outside, stores
<1>1. CASE PReceive
  <2>1. Head(queue) \in CmdId /\ Tail(queue) \in Seq(CmdId)
    BY <1>1 DEF PReceive, TypeOK
  <2> QED BY <1>1, <2>1 DEF PReceive, Received, Unreceived, TypeOK, CmdId
<1>2. CASE PLock
  BY <1>2 DEF PLock, TypeOK
<1>3. CASE PSelect
  <2>1. CASE Panic("sendOnClosed") /\ UNCHANGED <<outside, stores>>
    BY <2>1, PanicType DEF Faults
  <2>2. ASSUME NEW c \in Receivers(msg),
               ppc' = "receive", msg' = 0,
               wpc' = [wpc EXCEPT ![c] = "probe"],
               chan' = [chan EXCEPT ![c] = Nil],
               job' = [job EXCEPT ![c] = msg],
               UNCHANGED <<fault, shared, hpc, link, step, queue, outside, stores>>
        PROVE  TypeInv'
    <3>1. c \in Conn /\ msg \in CmdId /\ fault = "none" /\ wpc[c] = "recv"
      BY <1>3 DEF PSelect, Receivers, TypeOK
    <3> QED BY <2>2, <3>1 DEF TypeOK, WorkerPC, CmdId
  <2>3. CASE ppc' = "receive" /\ msg' = 0
             /\ UNCHANGED <<fault, shared, hpc, link, workers, queue, outside, stores>>
    BY <1>3, <2>3 DEF PSelect, TypeOK
  <2> QED BY <1>3, <2>1, <2>2, <2>3 DEF PSelect
<1> QED BY <1>1, <1>2, <1>3 DEF PubSub

LEMMA EnvironmentType ==
  ASSUME TypeInv, Environment
  PROVE  TypeInv'
<1> USE BridgeAssumption, NilAssumption DEF TypeInv, Holding, shared, workers, dispatcher, outside, stores
<1>1. ASSUME NEW c \in Conn, BridgeDials(c) PROVE TypeInv'
  BY <1>1 DEF BridgeDials, TypeOK, HandlerPC
<1>2. ASSUME NEW c \in Conn, HIdentify(c) PROVE TypeInv'
  BY <1>2, HandlerType
<1>3. ASSUME NEW c \in Conn, LinkGoesStale(c) \/ LinkBreaks(c) PROVE TypeInv'
  BY <1>3 DEF LinkGoesStale, LinkBreaks, TypeOK
<1>4. CASE Publish
  <2>1. sent + 1 \in CmdId
    BY <1>4, ScriptAssumption DEF Publish, TypeOK, CmdId
  <2>2. queue' \in Seq(CmdId)
    BY <1>4, <2>1 DEF Publish, TypeOK
  <2> QED BY <1>4, <2>1, <2>2 DEF Publish, TypeOK
<1>5. CASE SubscriptionError
  BY <1>5 DEF SubscriptionError, TypeOK
<1>6. CASE Restart
  BY <1>6 DEF Restart, TypeOK
<1> QED BY <1>1, <1>2, <1>3, <1>4, <1>5, <1>6 DEF Environment

LEMMA StutterType ==
  ASSUME TypeInv, UNCHANGED vars
  PROVE  TypeInv'
BY DEF TypeInv, TypeOK, Holding, vars, process, outside, stores

\* Every variable keeps its type, and commands are in hand where they are used.
THEOREM TypeCorrect == Spec => []TypeInv
<1>1. TypeInv /\ [Next]_vars => TypeInv'
  BY HandlerType, WorkerType, PubSubType, EnvironmentType, StutterType DEF Next
<1> QED BY <1>1, InitType, PTL DEF Spec

\* Every variable keeps its type.
THEOREM SpecTypeOK == Spec => []TypeOK
<1>1. TypeInv => TypeOK
  BY DEF TypeInv
<1> QED BY <1>1, TypeCorrect, PTL

-----------------------------------------------------------------------------
(* Mutual exclusion: the mutex is only entered when nobody is inside.      *)

\* A goroutine that does not enter its critical section cannot end exclusion.
LEMMA NoEntry ==
  ASSUME MutualExclusion, ppc' = "select" => ppc = "select",
         \A c \in Conn :
           /\ hpc'[c] \in {"close", "make", "end"} => hpc[c] \in {"close", "make", "end"}
           /\ wpc'[c] = "delete" => wpc[c] = "delete"
  PROVE  MutualExclusion'
BY DEF MutualExclusion, InCriticalSection

LEMMA PanicExclusion ==
  ASSUME NEW why, Panic(why)
  PROVE  MutualExclusion'
BY DEF MutualExclusion, InCriticalSection, Panic

\* A step of one handler other than Lock or a panic.
LEMMA HandlerMovesOn ==
  ASSUME TypeInv, MutualExclusion, NEW c \in Conn, NEW from, NEW to, HStep(c, from, to),
         to \notin {"close", "make", "end"}, wpc' = wpc \/ wpc' = [wpc EXCEPT ![c] = "fetch"],
         ppc' = ppc
  PROVE  MutualExclusion'
<1>1. hpc \in [Conn -> HandlerPC] /\ wpc \in [Conn -> WorkerPC]
  BY DEF TypeInv, TypeOK
<1> QED BY <1>1, NoEntry DEF HStep

\* A step of one worker other than Lock or a panic.
LEMMA WorkerMovesOn ==
  ASSUME TypeInv, MutualExclusion, NEW c \in Conn, NEW from, NEW to, WStep(c, from, to),
         to # "delete", hpc' = hpc, ppc' = ppc
  PROVE  MutualExclusion'
<1>1. wpc \in [Conn -> WorkerPC]
  BY DEF TypeInv, TypeOK
<1> QED BY <1>1, NoEntry DEF WStep

LEMMA HandlerExclusion ==
  ASSUME TypeInv, MutualExclusion, NEW c \in Conn, Handler(c) \/ HIdentify(c)
  PROVE  MutualExclusion'
<1> USE DEF workers, dispatcher
<1>1. CASE HIdentify(c)
  BY <1>1, HandlerMovesOn DEF HIdentify
<1>2. CASE HHeartbeat(c)
  BY <1>2, HandlerMovesOn, PanicExclusion DEF HHeartbeat
<1>3. CASE HCheck(c)
  BY <1>3, HandlerMovesOn, PanicExclusion DEF HCheck, UnlockedReadRaces
<1>4. CASE HLock(c)
  BY <1>4 DEF HLock, HStep, LockFree, MutualExclusion, InCriticalSection, TypeInv, TypeOK
<1>5. CASE HClosePrevious(c)
  BY <1>5, HandlerMovesOn, PanicExclusion DEF HClosePrevious, CloseRegistered
<1>6. CASE HMake(c)
  BY <1>6, HandlerMovesOn DEF HMake
<1>7. CASE HReadError(c)
  BY <1>7, HandlerMovesOn DEF HReadError
<1>8. CASE HCloseAtEnd(c)
  BY <1>8, HandlerMovesOn, PanicExclusion DEF HCloseAtEnd, CloseRegistered
<1> QED
  BY <1>1, <1>2, <1>3, <1>4, <1>5, <1>6, <1>7, <1>8 DEF Handler

LEMMA WorkerExclusion ==
  ASSUME TypeInv, MutualExclusion, NEW c \in Conn, Worker(c)
  PROVE  MutualExclusion'
<1> USE DEF dispatcher
<1>1. CASE WFetch(c)
  BY <1>1, WorkerMovesOn, PanicExclusion DEF WFetch, UnlockedReadRaces
<1>2. CASE WChannelClosed(c)
  BY <1>2, WorkerMovesOn DEF WChannelClosed
<1>3. CASE WProbe(c)
  BY <1>3, WorkerMovesOn DEF WProbe, AtInstruction
<1>4. CASE WWrite(c)
  BY <1>4, WorkerMovesOn DEF WWrite, AtInstruction
<1>5. CASE WUpdate(c)
  BY <1>5, WorkerMovesOn, PanicExclusion DEF WUpdate
<1>6. CASE WLock(c)
  BY <1>6 DEF WLock, WStep, LockFree, MutualExclusion, InCriticalSection, TypeInv, TypeOK
<1>7. CASE WDelete(c)
  BY <1>7, WorkerMovesOn DEF WDelete
<1>8. CASE WRemoveConnected(c)
  BY <1>8, WorkerMovesOn DEF WRemoveConnected
<1> QED
  BY <1>1, <1>2, <1>3, <1>4, <1>5, <1>6, <1>7, <1>8 DEF Worker

LEMMA PubSubExclusion ==
  ASSUME TypeInv, MutualExclusion, PubSub
  PROVE  MutualExclusion'
<1> USE DEF workers
<1>1. CASE PReceive
  BY <1>1, NoEntry DEF PReceive
<1>2. CASE PLock
  BY <1>2 DEF PLock, LockFree, MutualExclusion, InCriticalSection
<1>3. CASE PSelect
  <2>1. CASE Panic("sendOnClosed")
    BY <2>1, PanicExclusion
  <2>2. ASSUME NEW c \in Conn, ppc' = "receive", hpc' = hpc, wpc' = [wpc EXCEPT ![c] = "probe"]
        PROVE  MutualExclusion'
    BY <2>2, NoEntry DEF TypeInv, TypeOK
  <2>3. CASE ppc' = "receive" /\ hpc' = hpc /\ wpc' = wpc
    BY <2>3, NoEntry
  <2> QED BY <1>3, <2>1, <2>2, <2>3 DEF PSelect, Receivers
<1> QED BY <1>1, <1>2, <1>3 DEF PubSub

LEMMA EnvironmentExclusion ==
  ASSUME TypeInv, MutualExclusion, Environment
  PROVE  MutualExclusion'
<1> USE DEF workers, dispatcher
<1>1. ASSUME NEW c \in Conn, BridgeDials(c) PROVE MutualExclusion'
  BY <1>1, NoEntry DEF BridgeDials, TypeInv, TypeOK
<1>2. ASSUME NEW c \in Conn, HIdentify(c) PROVE MutualExclusion'
  BY <1>2, HandlerExclusion
<1>3. ASSUME NEW c \in Conn, LinkGoesStale(c) \/ LinkBreaks(c) PROVE MutualExclusion'
  BY <1>3, NoEntry DEF LinkGoesStale, LinkBreaks
<1>4. CASE Publish \/ SubscriptionError \/ Restart
  BY <1>4, NoEntry DEF Publish, SubscriptionError, Restart
<1> QED BY <1>1, <1>2, <1>3, <1>4 DEF Environment

\* No two goroutines are between Lock and Unlock of cmdMutex.
THEOREM SpecMutualExclusion == Spec => []MutualExclusion
<1>1. Init => MutualExclusion
  BY DEF Init, MutualExclusion, InCriticalSection
<1>2. TypeInv /\ MutualExclusion /\ [Next]_vars => MutualExclusion'
  <2>1. ASSUME MutualExclusion, UNCHANGED vars PROVE MutualExclusion'
    BY <2>1, NoEntry DEF vars, process
  <2> QED
    BY <2>1, HandlerExclusion, WorkerExclusion, PubSubExclusion, EnvironmentExclusion DEF Next
<1> QED BY <1>1, <1>2, TypeCorrect, PTL DEF Spec

-----------------------------------------------------------------------------
(* Commands reach their own bridge: channels and commands in hand belong to *)
(* the bridge they are found at.                                           *)

OwnInv ==
  /\ \A m \in Mac : macMap[m] # Nil => Bridge[macMap[m]] = m
  /\ \A c \in Conn : chan[c] # Nil => Bridge[chan[c]] = Bridge[c]
  /\ \A c \in Conn : job[c] # 0 => Script[job[c]].mac = Bridge[c]
  /\ OwnCommandsOnly

\* Steps that leave entries, channels, commands in hand and bridges alone, or
\* reset some of the first three.
LEMMA OwnReset ==
  ASSUME OwnInv, UNCHANGED got,
         \A m \in Mac : macMap'[m] \in {macMap[m], Nil},
         \A c \in Conn : chan'[c] \in {chan[c], Nil} /\ job'[c] \in {job[c], 0}
  PROVE  OwnInv'
BY DEF OwnInv, OwnCommandsOnly

LEMMA PanicOwn ==
  ASSUME OwnInv, NEW why, Panic(why), UNCHANGED <<outside, stores>>
  PROVE  OwnInv'
BY OwnReset DEF Panic, outside

LEMMA HandlerOwn ==
  ASSUME TypeInv, OwnInv, NEW c \in Conn, Handler(c) \/ HIdentify(c)
  PROVE  OwnInv'
<1> USE DEF shared, workers, outside
<1>1. CASE HIdentify(c)
  BY <1>1, OwnReset DEF HIdentify
<1>2. CASE HHeartbeat(c)
  BY <1>2, OwnReset, PanicOwn DEF HHeartbeat
<1>3. CASE HCheck(c)
  BY <1>3, OwnReset, PanicOwn DEF HCheck, UnlockedReadRaces
<1>4. CASE HLock(c)
  BY <1>4, OwnReset DEF HLock
<1>5. CASE HClosePrevious(c)
  BY <1>5, OwnReset, PanicOwn DEF HClosePrevious, CloseRegistered
<1>6. CASE HMake(c)
  <2>1. macMap' = [macMap EXCEPT ![Bridge[c]] = c] /\ UNCHANGED <<chan, job, got>>
    BY <1>6 DEF HMake
  <2>2. macMap \in [Mac -> Conn \cup {Nil}]
    BY DEF TypeInv, TypeOK
  <2> QED BY <2>1, <2>2 DEF OwnInv, OwnCommandsOnly
<1>7. CASE HReadError(c)
  BY <1>7, OwnReset DEF HReadError
<1>8. CASE HCloseAtEnd(c)
  BY <1>8, OwnReset, PanicOwn DEF HCloseAtEnd, CloseRegistered
<1> QED
  BY <1>1, <1>2, <1>3, <1>4, <1>5, <1>6, <1>7, <1>8 DEF Handler

LEMMA WorkerOwn ==
  ASSUME TypeInv, OwnInv, NEW c \in Conn, Worker(c)
  PROVE  OwnInv'
<1> USE DEF shared, outside
<1> DEFINE m == Bridge[c]
<1>t. /\ m \in Mac
      /\ macMap \in [Mac -> Conn \cup {Nil}] /\ chan \in [Conn -> Conn \cup {Nil}]
      /\ job \in [Conn -> {0} \cup CmdId] /\ got \in [Mac -> Seq(CmdId \X Nat)]
      /\ step[c] \in Nat
  BY BridgeAssumption DEF TypeInv, TypeOK
<1>1. CASE WFetch(c)
  <2>1. CASE UnlockedReadRaces
    BY <2>1, PanicOwn DEF UnlockedReadRaces
  <2>2. CASE chan' = [chan EXCEPT ![c] = macMap[m]] /\ UNCHANGED <<macMap, job, got>>
    BY <1>t, <2>2 DEF OwnInv, OwnCommandsOnly
  <2> QED BY <1>1, <2>1, <2>2 DEF WFetch
<1>2. CASE WChannelClosed(c)
  BY <1>2, <1>t, OwnReset DEF WChannelClosed
<1>3. CASE WProbe(c)
  BY <1>3, <1>t, OwnReset DEF WProbe
<1>4. CASE WWrite(c)
  <2>1. job[c] \in CmdId /\ Script[job[c]].mac = m
    BY <1>4, <1>t DEF WWrite, WStep, TypeInv, Holding, OwnInv
  <2>2. UNCHANGED <<macMap, chan, job>>
    BY <1>4 DEF WWrite
  <2>3. CASE got' = [got EXCEPT ![m] = Append(@, <<job[c], step[c]>>)]
    <3>1. ASSUME NEW n \in Mac, NEW i \in DOMAIN got'[n]
          PROVE  Script[got'[n][i][1]].mac = n
      <4>1. CASE n # m
        BY <2>3, <3>1, <4>1, <1>t DEF OwnInv, OwnCommandsOnly
      <4>2. CASE n = m
        <5>1. got'[m] = Append(got[m], <<job[c], step[c]>>) /\ got[m] \in Seq(CmdId \X Nat)
          BY <2>3, <1>t
        <5>2. CASE i = Len(got[m]) + 1
          <6>1. got'[m][i] = <<job[c], step[c]>>
            BY <5>1, <5>2
          <6> QED BY <4>2, <6>1, <2>1
        <5>3. CASE i \in DOMAIN got[m]
          <6>1. got'[m][i] = got[m][i]
            BY <5>1, <5>3
          <6> QED BY <4>2, <5>3, <6>1, <1>t DEF OwnInv, OwnCommandsOnly
        <5>4. i = Len(got[m]) + 1 \/ i \in DOMAIN got[m]
          BY <3>1, <4>2, <5>1
        <5> QED BY <5>2, <5>3, <5>4
      <4> QED BY <4>1, <4>2
    <3> QED BY <2>2, <3>1 DEF OwnInv, OwnCommandsOnly
  <2>4. CASE got' = got
    BY <2>2, <2>4, OwnReset
  <2> QED BY <1>4, <2>3, <2>4 DEF WWrite
<1>5. CASE WUpdate(c)
  BY <1>5, <1>t, OwnReset, PanicOwn DEF WUpdate
<1>6. CASE WLock(c)
  BY <1>6, OwnReset DEF WLock
<1>7. CASE WDelete(c)
  BY <1>7, <1>t, OwnReset DEF WDelete, Deleted
<1>8. CASE WRemoveConnected(c)
  BY <1>8, OwnReset DEF WRemoveConnected
<1> QED
  BY <1>1, <1>2, <1>3, <1>4, <1>5, <1>6, <1>7, <1>8 DEF Worker

LEMMA PubSubOwn ==
  ASSUME TypeInv, OwnInv, PubSub
  PROVE  OwnInv'
<1> USE DEF shared, workers, outside
<1>1. CASE PReceive \/ PLock
  BY <1>1, OwnReset DEF PReceive, PLock
<1>2. CASE PSelect
  <2>1. CASE Panic("sendOnClosed")
    BY <1>2, <2>1, PanicOwn DEF PSelect
  <2>2. ASSUME NEW c \in Receivers(msg), UNCHANGED <<macMap, got>>,
               chan' = [chan EXCEPT ![c] = Nil], job' = [job EXCEPT ![c] = msg]
        PROVE  OwnInv'
    <3>1. msg \in CmdId
      BY <1>2 DEF PSelect, TypeInv, TypeOK, Holding
    <3>2. c \in Conn /\ chan[c] # Nil /\ chan[c] = macMap[Script[msg].mac]
      BY DEF Receivers
    <3>3. Script[msg].mac = Bridge[c]
      BY <3>1, <3>2, ScriptItem DEF OwnInv
    <3>4. chan \in [Conn -> Conn \cup {Nil}] /\ job \in [Conn -> {0} \cup CmdId]
      BY DEF TypeInv, TypeOK
    <3> QED BY <2>2, <3>2, <3>3, <3>4 DEF OwnInv, OwnCommandsOnly
  <2>3. CASE UNCHANGED <<macMap, chan, job, got>>
    BY <2>3, OwnReset
  <2> QED BY <1>2, <2>1, <2>2, <2>3 DEF PSelect
<1> QED BY <1>1, <1>2 DEF PubSub

LEMMA EnvironmentOwn ==
  ASSUME TypeInv, OwnInv, Environment
  PROVE  OwnInv'
<1> USE DEF shared, workers, outside
<1>1. ASSUME NEW c \in Conn, BridgeDials(c) \/ LinkGoesStale(c) \/ LinkBreaks(c)
      PROVE  OwnInv'
  BY <1>1, OwnReset DEF BridgeDials, LinkGoesStale, LinkBreaks
<1>2. ASSUME NEW c \in Conn, HIdentify(c) PROVE OwnInv'
  BY <1>2, HandlerOwn
<1>3. CASE Publish \/ SubscriptionError \/ Restart
  BY <1>3, OwnReset DEF Publish, SubscriptionError, Restart
<1> QED BY <1>1, <1>2, <1>3 DEF Environment

THEOREM SpecOwnInv == Spec => []OwnInv
<1>1. Init => OwnInv
  BY DEF Init, OwnInv, OwnCommandsOnly
<1>2. TypeInv /\ OwnInv /\ [Next]_vars => OwnInv'
  <2>1. ASSUME OwnInv, UNCHANGED vars PROVE OwnInv'
    BY <2>1, OwnReset DEF vars, process, outside
  <2> QED
    BY <2>1, HandlerOwn, WorkerOwn, PubSubOwn, EnvironmentOwn DEF Next
<1> QED BY <1>1, <1>2, TypeCorrect, PTL DEF Spec

\* A bridge only receives commands published for its MAC.
THEOREM SpecOwnCommandsOnly == Spec => []OwnCommandsOnly
<1>1. OwnInv => OwnCommandsOnly
  BY DEF OwnInv
<1> QED BY <1>1, SpecOwnInv, PTL

-----------------------------------------------------------------------------
(* A bridge that keeps its first connection is served.                     *)

\* Handlers that have made their channel.
Serving(c) == hpc[c] \in {"serve", "lockEnd", "end", "done"}

\* Entries and closed channels are of handlers that made them; a handler that
\* closes the channel it found is not the only one of its bridge.
Registered ==
  /\ \A m \in Mac : macMap[m] # Nil => Serving(macMap[m])
  /\ \A c \in closed : Serving(c)
  /\ \A c \in Conn : hpc[c] \in {"lockClose", "close"} => ~Sole(c)

\* What StableBridgeServed says of one connection.
Served(c) ==
  Sole(c) /\ hpc[c] = "serve" /\ link[c] \in {"up", "stale"} =>
    /\ macMap[Bridge[c]] = c /\ c \notin closed
    /\ wpc[c] \in {"fetch", "recv", "probe", "write", "update"}
    /\ wpc[c] = "recv" => chan[c] = c

StableInv == Registered /\ \A c \in Conn : Served(c)

\* Steps that change neither the map nor the channels, and move no handler
\* into or out of the places the invariant is about.
LEMMA StableSame ==
  ASSUME StableInv, UNCHANGED <<macMap, closed, wpc, chan>>,
         \A c \in Conn :
           /\ Serving(c) => Serving(c)'
           /\ Identified(c) => Identified(c)'
           /\ hpc'[c] = "serve" =>
                hpc[c] = "serve" /\ (link'[c] \in {"up", "stale"} => link[c] \in {"up", "stale"})
           /\ hpc'[c] \in {"lockClose", "close"} => hpc[c] \in {"lockClose", "close"},
         macMap \in [Mac -> Conn \cup {Nil}], closed \subseteq Conn
  PROVE  StableInv'
<1>1. ASSUME NEW c \in Conn, Sole(c)' PROVE Sole(c)
  BY <1>1 DEF Sole
<1>2. Registered'
  BY <1>1 DEF StableInv, Registered
<1>3. ASSUME NEW c \in Conn PROVE Served(c)'
  BY <1>1 DEF StableInv, Served
<1> QED BY <1>2, <1>3 DEF StableInv

LEMMA PanicStable ==
  ASSUME NEW why, Panic(why)
  PROVE  StableInv'
BY BridgeAssumption DEF Panic, StableInv, Registered, Served, Serving

LEMMA HandlerStable ==
  ASSUME TypeInv, OwnInv, StableInv, NEW c \in Conn, Handler(c) \/ HIdentify(c)
  PROVE  StableInv'
<1> USE DEF shared, workers, dispatcher
<1> DEFINE m == Bridge[c]
<1>t. /\ m \in Mac
      /\ macMap \in [Mac -> Conn \cup {Nil}] /\ closed \subseteq Conn
      /\ hpc \in [Conn -> HandlerPC] /\ link \in [Conn -> {"none", "up", "stale", "broken", "closed"}]
      /\ wpc \in [Conn -> WorkerPC] /\ chan \in [Conn -> Conn \cup {Nil}]
  BY BridgeAssumption DEF TypeInv, TypeOK
\* A step to a place outside the map's critical sections.
<1>s. ASSUME NEW from, NEW to, HStep(c, from, to), UNCHANGED <<macMap, closed, wpc, chan, link>>,
             <<from, to>> \in {<<"identify", "beat">>, <<"beat", "check">>, <<"check", "lockMake">>,
                              <<"lockClose", "close">>, <<"lockMake", "make">>, <<"lockEnd", "end">>}
      PROVE  StableInv'
  <2>1. from # "none" /\ to # "serve" /\ (to = "close" => from = "lockClose")
        /\ to \notin {"none", "identify", "gone", "lockClose"}
        /\ (from \in {"serve", "lockEnd", "end", "done"} => to \in {"serve", "lockEnd", "end", "done"})
    BY <1>s
  <2> QED BY <1>s, <1>t, <2>1, StableSame DEF HStep, Serving, Identified
<1>1. CASE HIdentify(c)
  BY <1>1, <1>s DEF HIdentify
<1>2. CASE HHeartbeat(c)
  BY <1>2, <1>s, PanicStable DEF HHeartbeat
<1>3. CASE HCheck(c)
  <2>1. CASE UnlockedReadRaces
    BY <2>1, PanicStable DEF UnlockedReadRaces
  <2>2. CASE HStep(c, "check", "lockMake") /\ UNCHANGED <<link, shared, workers>>
    BY <2>2, <1>s
  <2>3. CASE HStep(c, "check", "lockClose") /\ macMap[m] # Nil /\ UNCHANGED <<link, shared, workers>>
    <3>1. ~Sole(c)
      <4>1. macMap[m] \in Conn /\ Bridge[macMap[m]] = m /\ Serving(macMap[m])
        BY <1>t, <2>3 DEF OwnInv, StableInv, Registered
      <4>2. macMap[m] # c
        BY <4>1, <2>3 DEF Serving, HStep
      <4> QED BY <4>1, <4>2 DEF Sole, Serving, Identified
    <3>2. \A d \in Conn : (Sole(d)' => Sole(d)) /\ (Serving(d) <=> Serving(d)')
      BY <2>3, <1>t DEF HStep, Sole, Identified, Serving
    <3> QED BY <2>3, <1>t, <3>1, <3>2 DEF HStep, StableInv, Registered, Served
  <2> QED BY <1>3, <2>1, <2>2, <2>3 DEF HCheck, HasEntry
<1>4. CASE HLock(c)
  BY <1>4, <1>s DEF HLock
<1>5. ASSUME NEW from, NEW to, CloseRegistered(c, from, to),
             \/ from = "close" /\ to = "lockMake"
             \/ from = "end" /\ to = "done"
      PROVE  StableInv'
  <2>1. CASE Panic("closeOfNil") \/ Panic("closeOfClosed")
    BY <2>1, PanicStable
  <2>2. CASE macMap[m] # Nil /\ closed' = closed \cup {macMap[m]} /\ HStep(c, from, to)
             /\ UNCHANGED <<fault, macMap, link, workers, dispatcher>>
    <3>1. macMap[m] \in Conn /\ Bridge[macMap[m]] = m /\ Serving(macMap[m])
      BY <1>t, <2>2 DEF OwnInv, StableInv, Registered
    <3>2. \A d \in Conn : (Sole(d)' => Sole(d)) /\ (Serving(d) <=> Serving(d)')
      BY <1>5, <2>2, <1>t DEF HStep, Sole, Identified, Serving
    <3>3. \A d \in Conn : Sole(d) /\ Bridge[d] = m => d = c
      BY <1>5, <2>2 DEF HStep, Sole, Identified
    <3>4. ASSUME NEW d \in Conn PROVE Served(d)'
      <4>1. CASE d = c
        BY <4>1, <1>5, <2>2, <1>t DEF Served, HStep
      <4>2. CASE d # c /\ Sole(d)
        <5>1. macMap[m] # d
          BY <4>2, <3>1, <3>3
        <5> QED BY <4>2, <5>1, <2>2, <1>t DEF StableInv, Served, HStep
      <4>3. CASE ~Sole(d)
        BY <4>3, <3>2 DEF Served
      <4> QED BY <4>1, <4>2, <4>3
    <3>5. Registered'
      BY <1>5, <2>2, <3>1, <3>2, <1>t DEF StableInv, Registered, HStep
    <3> QED BY <3>4, <3>5 DEF StableInv
  <2> QED BY <1>5, <2>1, <2>2 DEF CloseRegistered
<1>6. CASE HClosePrevious(c)
  BY <1>6, <1>5 DEF HClosePrevious
<1>7. CASE HMake(c)
  <2>1. /\ HStep(c, "make", "serve") /\ macMap' = [macMap EXCEPT ![m] = c]
        /\ wpc' = [wpc EXCEPT ![c] = "fetch"] /\ UNCHANGED <<closed, link, chan>>
    BY <1>7 DEF HMake
  <2>2. c \notin closed
    BY <2>1 DEF StableInv, Registered, Serving, HStep
  <2>3. \A d \in Conn : (Sole(d)' => Sole(d)) /\ (Serving(d) => Serving(d)')
    BY <2>1, <1>t DEF HStep, Sole, Identified, Serving
  <2>4. \A d \in Conn : d # c /\ Sole(d) => Bridge[d] # m
    BY <2>1 DEF HStep, Sole, Identified
  <2>5. Served(c)'
    BY <2>1, <2>2, <1>t DEF Served, HStep
  <2>6. ASSUME NEW d \in Conn, d # c PROVE Served(d)'
    <3>1. CASE Sole(d)
      <4>1. Bridge[d] # m /\ Bridge[d] \in Mac
        BY <2>4, <2>6, <3>1, BridgeAssumption
      <4> QED BY <2>6, <3>1, <4>1, <2>1, <1>t DEF StableInv, Served, HStep
    <3>2. CASE ~Sole(d)
      BY <3>2, <2>3 DEF Served
    <3> QED BY <3>1, <3>2
  <2>7. Registered'
    <3>1. Serving(c)'
      BY <2>1, <1>t DEF Serving, HStep
    <3> QED BY <3>1, <2>1, <2>3, <1>t DEF StableInv, Registered, HStep
  <2> QED BY <2>5, <2>6, <2>7 DEF StableInv
<1>8. CASE HReadError(c)
  BY <1>8, <1>t, StableSame DEF HReadError, HStep, Serving, Identified
<1>9. CASE HCloseAtEnd(c)
  BY <1>9, <1>5 DEF HCloseAtEnd
<1> QED
  BY <1>1, <1>2, <1>3, <1>4, <1>6, <1>7, <1>8, <1>9 DEF Handler

LEMMA WorkerStable ==
  ASSUME TypeInv, OwnInv, StableInv, NEW c \in Conn, Worker(c)
  PROVE  StableInv'
<1> USE DEF shared, dispatcher
<1> DEFINE m == Bridge[c]
<1>t. /\ m \in Mac
      /\ macMap \in [Mac -> Conn \cup {Nil}] /\ closed \subseteq Conn
      /\ wpc \in [Conn -> WorkerPC] /\ chan \in [Conn -> Conn \cup {Nil}]
  BY BridgeAssumption DEF TypeInv, TypeOK
\* Only this worker moves, and if its connection is served it goes on.
<1>s. ASSUME UNCHANGED <<macMap, closed, hpc, link>>,
             \A d \in Conn \ {c} : wpc'[d] = wpc[d] /\ chan'[d] = chan[d],
             Served(c)'
      PROVE  StableInv'
  <2>1. \A d \in Conn : (Sole(d) <=> Sole(d)') /\ (Serving(d) <=> Serving(d)')
    BY <1>s DEF Sole, Identified, Serving
  <2>2. Registered'
    BY <1>s, <2>1, <1>t DEF StableInv, Registered
  <2>3. ASSUME NEW d \in Conn PROVE Served(d)'
    BY <1>s, <2>1 DEF StableInv, Served
  <2> QED BY <2>2, <2>3 DEF StableInv
\* Nothing is claimed of a worker that has left its loop.
<1>o. \/ Served(c) /\ wpc[c] \in {"fetch", "recv", "probe", "write", "update"}
      \/ ~(Sole(c) /\ hpc[c] = "serve" /\ link[c] \in {"up", "stale"})
  BY DEF StableInv, Served
<1>u. UNCHANGED hpc => (Sole(c)' <=> Sole(c))
  BY DEF Sole, Identified
<1>1. CASE WFetch(c)
  <2>1. CASE UnlockedReadRaces
    BY <2>1, PanicStable DEF UnlockedReadRaces
  <2>2. CASE WStep(c, "fetch", "recv") /\ chan' = [chan EXCEPT ![c] = macMap[m]]
             /\ UNCHANGED <<shared, hpc, link>>
    <3>1. Served(c)'
      BY <2>2, <1>t, <1>o, <1>u DEF Served, WStep
    <3> QED BY <2>2, <3>1, <1>s, <1>t DEF WStep
  <2> QED BY <1>1, <2>1, <2>2 DEF WFetch
<1>2. CASE WChannelClosed(c)
  <2>1. Served(c)'
    BY <1>2, <1>t, <1>o, <1>u DEF WChannelClosed, Served, WStep
  <2> QED BY <1>2, <2>1, <1>s, <1>t DEF WChannelClosed, WStep
<1>3. CASE WProbe(c)
  <2>1. /\ UNCHANGED <<shared, hpc, link, chan>>
        /\ \/ WStep(c, "probe", "write") \/ WStep(c, "probe", "update")
           \/ link[c] \in {"broken", "closed"} /\ WStep(c, "probe", "lockDelete")
    BY <1>3 DEF WProbe, AtInstruction, WriteCanFail
  <2>2. Served(c)'
    BY <2>1, <1>t, <1>o, <1>u DEF Served, WStep
  <2> QED BY <2>1, <2>2, <1>s, <1>t DEF WStep
<1>4. CASE WWrite(c)
  <2>1. /\ UNCHANGED <<shared, hpc, link, chan>>
        /\ WStep(c, "write", "write") \/ WStep(c, "write", "update")
    BY <1>4 DEF WWrite, AtInstruction
  <2>2. Served(c)'
    BY <2>1, <1>t, <1>o, <1>u DEF Served, WStep
  <2> QED BY <2>1, <2>2, <1>s, <1>t DEF WStep
<1>5. CASE WUpdate(c)
  <2>1. CASE Panic("nilRows")
    BY <2>1, PanicStable
  <2>2. CASE WStep(c, "update", "fetch") /\ UNCHANGED <<shared, hpc, link, chan>>
    <3>1. Served(c)'
      BY <2>2, <1>t, <1>o, <1>u DEF Served, WStep
    <3> QED BY <2>2, <3>1, <1>s, <1>t DEF WStep
  <2> QED BY <1>5, <2>1, <2>2 DEF WUpdate
<1>6. CASE WLock(c)
  <2>1. Served(c)'
    BY <1>6, <1>t, <1>o, <1>u DEF WLock, Served, WStep
  <2> QED BY <1>6, <2>1, <1>s, <1>t DEF WLock, WStep
<1>7. CASE WDelete(c)
  <2>1. /\ wpc[c] = "delete" /\ wpc' = [wpc EXCEPT ![c] = "srem"]
        /\ macMap' = [macMap EXCEPT ![m] = Nil] /\ UNCHANGED <<closed, hpc, link, chan>>
    BY <1>7 DEF WDelete, WStep, Deleted
  <2>2. \A d \in Conn : (Sole(d) <=> Sole(d)') /\ (Serving(d) <=> Serving(d)')
    BY <2>1 DEF Sole, Identified, Serving
  <2>3. Identified(c)
    BY <2>1 DEF TypeInv, Holding, Identified
  <2>4. ASSUME NEW d \in Conn PROVE Served(d)'
    <3>1. CASE d = c
      BY <3>1, <2>1, <2>2, <1>o, <1>t DEF Served
    <3>2. CASE d # c /\ ~Sole(d)
      BY <3>2, <2>2 DEF Served
    <3>3. CASE d # c /\ Sole(d)
      <4>1. Bridge[d] # m /\ Bridge[d] \in Mac
        BY <3>3, <2>3, BridgeAssumption DEF Sole
      <4> QED BY <3>3, <4>1, <2>1, <1>t DEF StableInv, Served
    <3> QED BY <3>1, <3>2, <3>3
  <2>5. Registered'
    BY <2>1, <2>2, <1>t DEF StableInv, Registered
  <2> QED BY <2>4, <2>5 DEF StableInv
<1>8. CASE WRemoveConnected(c)
  <2>1. Served(c)'
    BY <1>8, <1>t, <1>o, <1>u DEF WRemoveConnected, Served, WStep
  <2> QED BY <1>8, <2>1, <1>s, <1>t DEF WRemoveConnected, WStep
<1> QED
  BY <1>1, <1>2, <1>3, <1>4, <1>5, <1>6, <1>7, <1>8 DEF Worker

LEMMA PubSubStable ==
  ASSUME TypeInv, StableInv, PubSub
  PROVE  StableInv'
<1> USE DEF shared, workers
<1>t. /\ macMap \in [Mac -> Conn \cup {Nil}] /\ closed \subseteq Conn
      /\ wpc \in [Conn -> WorkerPC] /\ chan \in [Conn -> Conn \cup {Nil}]
  BY DEF TypeInv, TypeOK
<1>1. CASE PReceive \/ PLock
  BY <1>1, <1>t, StableSame DEF PReceive, PLock, Serving, Identified
<1>2. CASE PSelect
  <2>1. CASE Panic("sendOnClosed")
    BY <2>1, PanicStable
  <2>2. ASSUME NEW c \in Receivers(msg), UNCHANGED <<shared, hpc, link>>,
               wpc' = [wpc EXCEPT ![c] = "probe"], chan' = [chan EXCEPT ![c] = Nil]
        PROVE  StableInv'
    <3>1. c \in Conn /\ wpc[c] = "recv"
      BY DEF Receivers
    <3>2. \A d \in Conn : (Sole(d) <=> Sole(d)') /\ (Serving(d) <=> Serving(d)')
      BY <2>2 DEF Sole, Identified, Serving
    <3>3. Registered'
      BY <2>2, <3>2, <1>t DEF StableInv, Registered
    <3>4. \A d \in Conn : Served(d)'
      BY <2>2, <3>1, <3>2, <1>t DEF StableInv, Served
    <3> QED BY <3>3, <3>4 DEF StableInv
  <2>3. CASE UNCHANGED <<shared, hpc, link, workers>>
    BY <2>3, <1>t, StableSame DEF Serving, Identified
  <2> QED BY <1>2, <2>1, <2>2, <2>3 DEF PSelect
<1> QED BY <1>1, <1>2 DEF PubSub

LEMMA EnvironmentStable ==
  ASSUME TypeInv, OwnInv, StableInv, Environment
  PROVE  StableInv'
<1> USE DEF shared, workers
<1>t. /\ macMap \in [Mac -> Conn \cup {Nil}] /\ closed \subseteq Conn
      /\ hpc \in [Conn -> HandlerPC] /\ link \in [Conn -> {"none", "up", "stale", "broken", "closed"}]
  BY DEF TypeInv, TypeOK
<1>1. ASSUME NEW c \in Conn, BridgeDials(c) PROVE StableInv'
  BY <1>1, <1>t, StableSame DEF BridgeDials, Serving, Identified
<1>2. ASSUME NEW c \in Conn, HIdentify(c) PROVE StableInv'
  BY <1>2, HandlerStable
<1>3. ASSUME NEW c \in Conn, LinkGoesStale(c) \/ LinkBreaks(c) PROVE StableInv'
  BY <1>3, <1>t, StableSame DEF LinkGoesStale, LinkBreaks, Serving, Identified
<1>4. CASE Publish \/ SubscriptionError \/ Restart
  BY <1>4, <1>t, StableSame DEF Publish, SubscriptionError, Restart, Serving, Identified
<1> QED BY <1>1, <1>2, <1>3, <1>4 DEF Environment

THEOREM SpecStableInv == Spec => []StableInv
<1>1. Init => StableInv
  BY BridgeAssumption DEF Init, StableInv, Registered, Served, Serving
<1>2. TypeInv /\ OwnInv /\ StableInv /\ [Next]_vars => StableInv'
  <2>1. ASSUME TypeInv, StableInv, UNCHANGED vars PROVE StableInv'
    <3>1. macMap \in [Mac -> Conn \cup {Nil}] /\ closed \subseteq Conn
      BY <2>1 DEF TypeInv, TypeOK
    <3> QED BY <2>1, <3>1, StableSame DEF vars, process, Serving, Identified
  <2> QED
    BY <2>1, HandlerStable, WorkerStable, PubSubStable, EnvironmentStable DEF Next
<1> QED BY <1>1, <1>2, TypeCorrect, SpecOwnInv, PTL DEF Spec

\* A bridge that keeps its first connection stays reachable, whatever the
\* connections of other bridges do.
THEOREM SpecStableBridgeServed == Spec => []StableBridgeServed
<1>1. StableInv => StableBridgeServed
  BY DEF StableInv, Served, StableBridgeServed
<1> QED BY <1>1, SpecStableInv, PTL

\* The connections StableBridgeListed is about.
Listable(c) ==
  /\ Sole(c) /\ Identified(c) /\ hpc[c] \notin {"lockEnd", "end", "done"}
  /\ link[c] \in {"up", "stale"}

\* Steps that remove nothing from the set, and after which the claim is about
\* no connection it was not about before.
LEMMA ListedSame ==
  ASSUME StableBridgeListed, connected \subseteq connected',
         \A c \in Conn :
           /\ Identified(c) => Identified(c)'
           /\ Identified(c)' /\ hpc'[c] \notin {"lockEnd", "end", "done"}
                => Identified(c) /\ hpc[c] \notin {"lockEnd", "end", "done"}
           /\ Identified(c)' /\ link'[c] \in {"up", "stale"} => link[c] \in {"up", "stale"}
  PROVE  StableBridgeListed'
<1>1. ASSUME NEW c \in Conn, Listable(c)' PROVE Listable(c)
  BY <1>1 DEF Listable, Sole
<1> QED BY <1>1 DEF StableBridgeListed, Listable

LEMMA PanicListed ==
  ASSUME NEW why, Panic(why)
  PROVE  StableBridgeListed'
BY DEF Panic, StableBridgeListed, Identified

LEMMA HandlerListed ==
  ASSUME TypeInv, StableBridgeListed, NEW c \in Conn, Handler(c) \/ HIdentify(c)
  PROVE  StableBridgeListed'
<1> USE DEF shared, workers, dispatcher, stores
<1>t. /\ hpc \in [Conn -> HandlerPC]
      /\ link \in [Conn -> {"none", "up", "stale", "broken", "closed"}]
  BY DEF TypeInv, TypeOK
<1>s. ASSUME NEW from, NEW to, HStep(c, from, to), connected \subseteq connected',
             from \notin {"none", "identify", "gone"}, to \notin {"none", "identify", "gone"},
             from \in {"lockEnd", "end", "done"} => to \in {"lockEnd", "end", "done"},
             link' = link \/ link' = [link EXCEPT ![c] = "closed"]
      PROVE  StableBridgeListed'
  BY <1>s, <1>t, ListedSame DEF HStep, Identified
<1>1. CASE HIdentify(c)
  <2>1. HStep(c, "identify", "beat") /\ link' = link
    BY <1>1 DEF HIdentify
  <2>2. \A d \in Conn : d # c /\ Listable(d)' => Listable(d)
    BY <2>1, <1>t DEF HStep, Listable, Sole, Identified
  <2>3. "redis" \notin Unreliable => connected' = connected \cup {Bridge[c]}
    BY <1>1 DEF HIdentify
  <2> QED BY <2>2, <2>3 DEF StableBridgeListed, Listable
<1>2. CASE HHeartbeat(c)
  BY <1>2, <1>s, PanicListed DEF HHeartbeat
<1>3. CASE HCheck(c)
  BY <1>3, <1>s, PanicListed DEF HCheck, UnlockedReadRaces
<1>4. CASE HLock(c)
  BY <1>4, <1>s DEF HLock
<1>5. CASE HClosePrevious(c)
  BY <1>5, <1>s, PanicListed DEF HClosePrevious, CloseRegistered
<1>6. CASE HCloseAtEnd(c)
  BY <1>6, <1>s, PanicListed DEF HCloseAtEnd, CloseRegistered
<1>7. CASE HMake(c)
  BY <1>7, <1>s DEF HMake
<1>8. CASE HReadError(c)
  <2>1. /\ hpc[c] \in {"identify", "serve"} /\ link' = [link EXCEPT ![c] = "closed"]
        /\ hpc' = [hpc EXCEPT ![c] = IF hpc[c] = "serve" THEN "lockEnd" ELSE "done"]
        /\ connected' = connected
    BY <1>8 DEF HReadError, HStep
  <2> QED BY <2>1, <1>t, ListedSame DEF Identified
<1> QED
  BY <1>1, <1>2, <1>3, <1>4, <1>5, <1>6, <1>7, <1>8 DEF Handler

\* A worker that removes a MAC is that of a connection that is over, or of one
\* that shares its bridge with a second one.
LEMMA WorkerListed ==
  ASSUME TypeInv, StableInv, StableBridgeListed, NEW c \in Conn, Worker(c)
  PROVE  StableBridgeListed'
<1> USE DEF shared, dispatcher, outside, stores
<1>1. CASE WRemoveConnected(c)
  <2>1. wpc[c] = "srem" /\ UNCHANGED <<hpc, link>>
    BY <1>1 DEF WRemoveConnected, WStep
  <2>2. hpc[c] \in {"serve", "lockEnd", "end", "done"}
    BY <2>1 DEF TypeInv, Holding
  <2>3. \A d \in Conn : Listable(d)' => Listable(d)
    BY <2>1 DEF Listable, Sole, Identified
  <2>4. ~Listable(c)
    BY <2>1, <2>2 DEF Listable, StableInv, Served
  <2>5. ASSUME NEW d \in Conn, Listable(d) PROVE Bridge[d] # Bridge[c]
    BY <2>2, <2>4, <2>5 DEF Listable, Sole, Identified
  <2>6. connected \ {Bridge[c]} \subseteq connected'
    BY <1>1 DEF WRemoveConnected
  <2> QED BY <2>3, <2>5, <2>6 DEF StableBridgeListed, Listable
<1>2. CASE UNCHANGED <<hpc, link, connected>>
  BY <1>2, ListedSame DEF Identified
<1> QED
  BY <1>1, <1>2, PanicListed
     DEF Worker, WFetch, UnlockedReadRaces, WChannelClosed, WProbe, WWrite, WUpdate, WLock, WDelete

LEMMA OthersListed ==
  ASSUME TypeInv, StableBridgeListed, PubSub \/ Environment \/ UNCHANGED vars
  PROVE  StableBridgeListed'
<1> USE DEF shared, workers, stores
<1>t. /\ hpc \in [Conn -> HandlerPC]
      /\ link \in [Conn -> {"none", "up", "stale", "broken", "closed"}]
  BY DEF TypeInv, TypeOK
<1>1. CASE UNCHANGED <<hpc, link, connected>>
  BY <1>1, ListedSame DEF Identified
<1>2. CASE PubSub
  BY <1>2, <1>1, PanicListed DEF PubSub, PReceive, PLock, PSelect
<1>3. ASSUME NEW c \in Conn, BridgeDials(c) PROVE StableBridgeListed'
  BY <1>3, <1>t, ListedSame DEF BridgeDials, Identified
<1>4. ASSUME NEW c \in Conn, HIdentify(c) PROVE StableBridgeListed'
  BY <1>4, HandlerListed
<1>5. ASSUME NEW c \in Conn, LinkGoesStale(c) \/ LinkBreaks(c) PROVE StableBridgeListed'
  BY <1>5, <1>t, ListedSame DEF LinkGoesStale, LinkBreaks, Identified
<1>6. CASE Publish \/ SubscriptionError \/ Restart \/ UNCHANGED vars
  BY <1>6, <1>1 DEF Publish, SubscriptionError, Restart, vars, process
<1> QED BY <1>2, <1>3, <1>4, <1>5, <1>6 DEF Environment

\* A bridge that keeps its first connection stays in currentlyConnected,
\* unless calls to Redis fail.
THEOREM SpecStableBridgeListed == Spec => []StableBridgeListed
<1>1. Init => StableBridgeListed
  BY DEF Init, StableBridgeListed, Identified
<1>2. TypeInv /\ StableInv /\ StableBridgeListed /\ [Next]_vars => StableBridgeListed'
  BY HandlerListed, WorkerListed, OthersListed DEF Next
<1> QED BY <1>1, <1>2, TypeCorrect, SpecStableInv, PTL DEF Spec

\* A handler has a connection.
Dialled == \A c \in Conn : hpc[c] # "none" => link[c] # "none"

LEMMA DialledStep ==
  ASSUME TypeInv, Dialled, [Next]_vars
  PROVE  Dialled'
<1> USE DEF shared, workers, dispatcher, outside, stores
<1>t. hpc \in [Conn -> HandlerPC] /\ link \in [Conn -> {"none", "up", "stale", "broken", "closed"}]
  BY DEF TypeInv, TypeOK
<1>1. ASSUME NEW why, Panic(why) PROVE Dialled'
  BY <1>1 DEF Panic, Dialled
<1>2. ASSUME NEW c \in Conn, NEW from, NEW to, HStep(c, from, to), from # "none",
             link' = link \/ link' = [link EXCEPT ![c] = "closed"]
      PROVE  Dialled'
  BY <1>2, <1>t DEF HStep, Dialled
<1>3. CASE UNCHANGED <<hpc, link>>
  BY <1>3 DEF Dialled
<1>4. ASSUME NEW c \in Conn, Handler(c) \/ HIdentify(c) PROVE Dialled'
  BY <1>4, <1>1, <1>2
     DEF Handler, HIdentify, HHeartbeat, HCheck, UnlockedReadRaces, HLock, HClosePrevious,
         CloseRegistered, HMake, HReadError, HCloseAtEnd
<1>5. ASSUME NEW c \in Conn, Worker(c) PROVE Dialled'
  BY <1>5, <1>1, <1>3
     DEF Worker, WFetch, UnlockedReadRaces, WChannelClosed, WProbe, WWrite, WUpdate, WLock,
         WDelete, WRemoveConnected
<1>6. CASE PubSub
  BY <1>6, <1>1, <1>3 DEF PubSub, PReceive, PLock, PSelect
<1>7. ASSUME NEW c \in Conn, BridgeDials(c) \/ LinkGoesStale(c) \/ LinkBreaks(c) PROVE Dialled'
  BY <1>7, <1>t DEF BridgeDials, LinkGoesStale, LinkBreaks, Dialled
<1>8. CASE Publish \/ SubscriptionError \/ Restart \/ UNCHANGED vars
  BY <1>8, <1>3 DEF Publish, SubscriptionError, Restart, vars, process
<1> QED BY <1>4, <1>5, <1>6, <1>7, <1>8 DEF Next, Environment

\* Only a close and a send can panic on a channel.
LEMMA ChannelFaultStep ==
  ASSUME TypeInv, StableInv, Dialled, Next, fault = "none", fault' \in ChannelFaults
  PROVE  Churn
<1> USE DEF shared, workers, dispatcher, outside, stores, ChannelFaults
<1>t. macMap \in [Mac -> Conn \cup {Nil}] /\ closed \subseteq Conn
      /\ link \in [Conn -> {"none", "up", "stale", "broken", "closed"}]
  BY DEF TypeInv, TypeOK
<1>1. ASSUME NEW c \in Conn, HClosePrevious(c) PROVE Churn
  <2>1. hpc[c] = "close"
    BY <1>1 DEF HClosePrevious, CloseRegistered
  <2> QED BY <2>1 DEF StableInv, Registered, Churn, Identified
<1>2. ASSUME NEW c \in Conn, HCloseAtEnd(c) PROVE Churn
  BY <1>2 DEF HCloseAtEnd, CloseRegistered, Churn, Identified
<1>3. CASE PSelect
  <2>1. PICK c \in closed : TRUE
    BY <1>3 DEF PSelect
  <2>2. c \in Conn /\ Serving(c)
    BY <1>t, <2>1 DEF StableInv, Registered
  <2>3. PICK m \in Mac : macMap[m] \in closed
    <3>1. msg \in CmdId
      BY <1>3 DEF PSelect, TypeInv, TypeOK, Holding
    <3> QED BY <1>3, <3>1, ScriptItem DEF PSelect
  <2> DEFINE d == macMap[m]
  <2>4. d \in Conn /\ Serving(d)
    BY <1>t, <2>3 DEF StableInv, Registered
  <2>5. Identified(d) /\ link[d] # "none"
    BY <2>4 DEF Serving, Identified, Dialled
  <2>6. ~(Sole(d) /\ hpc[d] = "serve" /\ link[d] \in {"up", "stale"})
    BY <2>3, <2>4 DEF StableInv, Served
  <2> QED BY <2>4, <2>5, <2>6, <1>t DEF Churn, Serving
<1>4. ASSUME NEW c \in Conn, Handler(c) \/ HIdentify(c), ~HClosePrevious(c), ~HCloseAtEnd(c)
      PROVE  FALSE
  BY <1>4 DEF Handler, HIdentify, HHeartbeat, HCheck, UnlockedReadRaces, Panic, HLock, HMake, HReadError
<1>5. ASSUME NEW c \in Conn, Worker(c) PROVE FALSE
  BY <1>5 DEF Worker, WFetch, UnlockedReadRaces, Panic, WChannelClosed, WProbe, WWrite, WUpdate,
              WLock, WDelete, WRemoveConnected
<1>6. CASE PReceive \/ PLock
  BY <1>6 DEF PReceive, PLock
<1>7. ASSUME NEW c \in Conn, BridgeDials(c) \/ LinkGoesStale(c) \/ LinkBreaks(c) PROVE FALSE
  BY <1>7 DEF BridgeDials, LinkGoesStale, LinkBreaks
<1>8. CASE Publish \/ SubscriptionError \/ Restart
  BY <1>8 DEF Publish, SubscriptionError, Restart
<1> QED BY <1>1, <1>2, <1>3, <1>4, <1>5, <1>6, <1>7, <1>8 DEF Next, PubSub, Environment

\* As long as every bridge keeps its first connection, no close and no send
\* on a channel panics.
THEOREM SpecNoChannelFault == Spec => NoChannelFaultWithoutChurn
<1>1. Init => Dialled
  BY DEF Init, Dialled
<1>2. Spec => []Dialled
  BY <1>1, DialledStep, TypeCorrect, PTL DEF Spec
<1>3. TypeInv /\ StableInv /\ Dialled /\ [Next]_vars
        => [fault = "none" /\ fault' \in ChannelFaults => Churn]_vars
  BY ChannelFaultStep
<1> QED
  BY <1>2, <1>3, TypeCorrect, SpecStableInv, PTL DEF Spec, NoChannelFaultWithoutChurn

=============================================================================
