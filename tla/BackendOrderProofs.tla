-------------------------- MODULE BackendOrderProofs --------------------------
(***************************************************************************)
(* The order in which commands are handed out and instructions received,   *)
(* for any bridges, connections, commands and faults.                      *)
(***************************************************************************)
EXTENDS BackendProofs

\* Only published commands are anywhere.
Published ==
  /\ \A i \in DOMAIN queue : queue[i] <= sent
  /\ msg <= sent
  /\ \A c \in Conn : job[c] <= sent
  /\ \A k \in processed : k <= sent
  /\ \A m \in Mac : \A i \in DOMAIN got[m] : got[m][i][1] <= sent

\* What a bridge has received comes before all that is still to be handed out.
ReceivedBefore ==
  \A m \in Mac : \A i \in DOMAIN got[m] :
    /\ \A j \in DOMAIN queue : got[m][i][1] < queue[j]
    /\ msg # 0 => got[m][i][1] < msg

\* What workers hold comes before what the dispatcher holds.
InHandBefore == \A c \in Conn : msg # 0 => job[c] < msg

\* A bridge has one live connection.
OneLive ==
  \A c, d \in Conn : link[c] = "up" /\ link[d] = "up" /\ Bridge[c] = Bridge[d] => c = d

\* The instruction its worker writes next is later than all a bridge received.
NextIsLater(c) ==
  link[c] = "up" /\ job[c] # 0 =>
    \A i \in DOMAIN got[Bridge[c]] :
      \/ got[Bridge[c]][i][1] < job[c]
      \/ wpc[c] # "probe" /\ Precedes(got[Bridge[c]][i], <<job[c], step[c]>>)

\* Instructions are counted from 1 to the number of the command's.
StepInRange(c) ==
  /\ wpc[c] = "write" => step[c] \in 1..Script[job[c]].len
  /\ wpc[c] = "update" => step[c] = Script[job[c]].len + 1

\* On a live connection, what was written was received.
WrittenReceived(c) ==
  wpc[c] \in {"write", "update"} /\ link[c] = "up" =>
    \A i \in 1..(step[c] - 1) :
      \E j \in DOMAIN got[Bridge[c]] : got[Bridge[c]][j] = <<job[c], i>>

OrderInv ==
  /\ Published
  /\ OneHolder
  /\ ReceivedBefore
  /\ InHandBefore
  /\ OneLive
  /\ BridgeOrder
  /\ \A c \in Conn : NextIsLater(c) /\ StepInRange(c) /\ WrittenReceived(c)

LEMMA OrderTypes ==
  ASSUME TypeInv
  PROVE  /\ CmdId \subseteq Nat \ {0}
         /\ queue \in Seq(CmdId) /\ \A i \in DOMAIN queue : queue[i] \in Nat \ {0}
         /\ msg \in Nat /\ sent \in Nat /\ job \in [Conn -> Nat] /\ step \in [Conn -> Nat]
         /\ processed \subseteq Nat \ {0}
         /\ got \in [Mac -> Seq(CmdId \X Nat)]
         /\ \A m \in Mac : \A i \in DOMAIN got[m] :
              /\ got[m][i] = <<got[m][i][1], got[m][i][2]>>
              /\ got[m][i][1] \in Nat \ {0} /\ got[m][i][2] \in Nat
         /\ wpc \in [Conn -> WorkerPC] /\ Bridge \in [Conn -> Mac]
<1>1. CmdId \subseteq Nat \ {0}
  BY DEF CmdId
<1>2. queue \in Seq(CmdId) /\ \A i \in DOMAIN queue : queue[i] \in CmdId
  BY DEF TypeInv, TypeOK
<1>3. got \in [Mac -> Seq(CmdId \X Nat)]
  BY DEF TypeInv, TypeOK
<1>4. ASSUME NEW m \in Mac, NEW i \in DOMAIN got[m]
      PROVE  /\ got[m][i] = <<got[m][i][1], got[m][i][2]>>
             /\ got[m][i][1] \in CmdId /\ got[m][i][2] \in Nat
  <2>1. got[m] \in Seq(CmdId \X Nat)
    BY <1>3
  <2>2. got[m][i] \in CmdId \X Nat
    BY <2>1, <1>4
  <2> QED BY <2>2
<1>5. msg \in {0} \cup CmdId /\ sent \in {0} \cup CmdId /\ job \in [Conn -> {0} \cup CmdId]
      /\ step \in [Conn -> Nat] /\ processed \subseteq CmdId /\ wpc \in [Conn -> WorkerPC]
  BY DEF TypeInv, TypeOK
<1>6. msg \in Nat /\ sent \in Nat /\ job \in [Conn -> Nat] /\ processed \subseteq Nat \ {0}
  <2>1. {0} \cup CmdId \subseteq Nat
    BY <1>1
  <2>2. \A c \in Conn : job[c] \in Nat
    BY <2>1, <1>5
  <2>3. processed \subseteq Nat \ {0} /\ msg \in Nat /\ sent \in Nat
    BY <2>1, <1>1, <1>5
  <2> QED BY <2>2, <2>3, <1>5
<1>7. \A m \in Mac : \A i \in DOMAIN got[m] :
        /\ got[m][i] = <<got[m][i][1], got[m][i][2]>>
        /\ got[m][i][1] \in Nat \ {0} /\ got[m][i][2] \in Nat
  BY <1>1, <1>4
<1> QED
  BY <1>1, <1>2, <1>3, <1>5, <1>6, <1>7, BridgeAssumption

\* Steps that hand nothing out and deliver nothing: what waits, is in the
\* dispatcher's hand or in a worker's stays there or is given up.
LEMMA OrderDrop ==
  ASSUME TypeInv, OrderInv, UNCHANGED <<got, processed, sent>>,
         queue' = queue \/ queue' = <<>>, msg' = msg \/ msg' = 0,
         \A c \in Conn :
           \/ job'[c] = job[c] /\ step'[c] = step[c] /\ wpc'[c] = wpc[c]
           \/ job'[c] = 0 /\ wpc'[c] \notin {"probe", "write", "update"},
         \A c \in Conn : link'[c] = "up" => link[c] = "up"
  PROVE  OrderInv'
<1>t. /\ \A i \in DOMAIN queue : queue[i] \in Nat \ {0}
      /\ msg \in Nat /\ sent \in Nat /\ job \in [Conn -> Nat] /\ processed \subseteq Nat \ {0}
  BY OrderTypes
<1>q. DOMAIN queue' \subseteq DOMAIN queue /\ \A i \in DOMAIN queue' : queue'[i] = queue[i]
  OBVIOUS
<1>j. \A c \in Conn : job'[c] \in {0, job[c]}
  OBVIOUS
<1>1. Published'
  BY <1>t, <1>q, <1>j DEF OrderInv, Published
<1>2. OneHolder'
  <2>1. (\A c, d \in Conn : job[c] # 0 /\ job[c] = job[d] => c = d)'
    BY <1>j DEF OrderInv, OneHolder
  <2>2. (\A i, j \in DOMAIN queue : i < j => queue[i] < queue[j])'
    BY <1>q DEF OrderInv, OneHolder
  <2>3. (\A c \in Conn : job[c] \notin processed)'
    BY <1>j, <1>t DEF OrderInv, OneHolder
  <2>4. (\A k \in processed \cup {msg} \cup {job[c] : c \in Conn} :
           \A i \in DOMAIN queue : k < queue[i])'
    <3>1. ASSUME NEW k \in (processed \cup {msg} \cup {job[c] : c \in Conn})',
                 NEW i \in DOMAIN queue'
          PROVE  k < queue'[i]
      <4>1. CASE k = 0
        BY <4>1, <1>t, <1>q
      <4>2. CASE k # 0
        <5>1. k \in processed \cup {msg} \cup {job[c] : c \in Conn}
          BY <1>j, <4>2
        <5> QED BY <5>1, <1>q DEF OrderInv, OneHolder
      <4> QED BY <4>1, <4>2
    <3> QED BY <3>1
  <2>5. (msg # 0 => msg \notin processed \cup {job[c] : c \in Conn})'
    BY <1>j DEF OrderInv, OneHolder
  <2> QED BY <2>1, <2>2, <2>3, <2>4, <2>5 DEF OneHolder
<1>3. ReceivedBefore'
  BY <1>q DEF OrderInv, ReceivedBefore
<1>4. OneLive' /\ BridgeOrder' /\ InHandBefore'
  BY <1>j, <1>t DEF OrderInv, OneLive, BridgeOrder, InHandBefore
<1>5. ASSUME NEW c \in Conn PROVE (NextIsLater(c) /\ StepInRange(c) /\ WrittenReceived(c))'
  <2>0. NextIsLater(c) /\ StepInRange(c) /\ WrittenReceived(c)
    BY DEF OrderInv
  <2>1. CASE job'[c] = 0 /\ wpc'[c] \notin {"probe", "write", "update"}
    BY <2>1 DEF NextIsLater, StepInRange, WrittenReceived
  <2>2. CASE job'[c] = job[c] /\ step'[c] = step[c] /\ wpc'[c] = wpc[c]
    BY <2>0, <2>2 DEF NextIsLater, StepInRange, WrittenReceived, Precedes
  <2> QED BY <2>1, <2>2
<1> QED BY <1>1, <1>2, <1>3, <1>4, <1>5 DEF OrderInv

LEMMA PanicOrder ==
  ASSUME TypeInv, OrderInv, NEW why, Panic(why), UNCHANGED <<outside, stores>>
  PROVE  OrderInv'
BY OrderDrop DEF Panic, outside, stores

LEMMA HandlerOrder ==
  ASSUME TypeInv, OrderInv, NEW c \in Conn, Handler(c) \/ HIdentify(c)
  PROVE  OrderInv'
<1> USE OrderTypes DEF shared, workers, dispatcher, outside, stores
<1>1. CASE HIdentify(c)
  BY <1>1, OrderDrop DEF HIdentify
<1>2. CASE HHeartbeat(c)
  BY <1>2, OrderDrop, PanicOrder DEF HHeartbeat
<1>3. CASE HCheck(c)
  BY <1>3, OrderDrop, PanicOrder DEF HCheck, UnlockedReadRaces
<1>4. CASE HLock(c)
  BY <1>4, OrderDrop DEF HLock
<1>5. CASE HClosePrevious(c)
  BY <1>5, OrderDrop, PanicOrder DEF HClosePrevious, CloseRegistered
<1>6. CASE HMake(c)
  <2>1. wpc[c] = "none" /\ job[c] = 0
    BY <1>6 DEF HMake, HStep, TypeInv, Holding
  <2>2. job' = job /\ step' = step /\ wpc' = [wpc EXCEPT ![c] = "fetch"]
    BY <1>6 DEF HMake
  <2>3. \A d \in Conn :
          \/ job'[d] = job[d] /\ step'[d] = step[d] /\ wpc'[d] = wpc[d]
          \/ job'[d] = 0 /\ wpc'[d] \notin {"probe", "write", "update"}
    BY <2>1, <2>2
  <2> QED BY <1>6, <2>3, OrderDrop DEF HMake
<1>7. CASE HReadError(c)
  <2>1. \A d \in Conn : link'[d] = "up" => link[d] = "up"
    BY <1>7 DEF HReadError, TypeInv, TypeOK
  <2> QED BY <1>7, <2>1, OrderDrop DEF HReadError
<1>8. CASE HCloseAtEnd(c)
  BY <1>8, OrderDrop, PanicOrder DEF HCloseAtEnd, CloseRegistered
<1> QED
  BY <1>1, <1>2, <1>3, <1>4, <1>5, <1>6, <1>7, <1>8 DEF Handler

\* A worker that holds nothing moves to where it holds nothing.
LEMMA WorkerIdle ==
  ASSUME TypeInv, OrderInv, NEW c \in Conn, NEW from, NEW to, WStep(c, from, to),
         from \notin {"probe", "write", "update"}, to \notin {"probe", "write", "update"},
         UNCHANGED <<link, job, step, dispatcher, outside, processed>>
  PROVE  OrderInv'
<1>1. job[c] = 0
  BY DEF WStep, TypeInv, Holding
<1>2. \A d \in Conn :
        \/ job'[d] = job[d] /\ step'[d] = step[d] /\ wpc'[d] = wpc[d]
        \/ job'[d] = 0 /\ wpc'[d] \notin {"probe", "write", "update"}
  BY <1>1, OrderTypes DEF WStep
<1> QED BY <1>2, OrderDrop DEF dispatcher, outside

\* The probe succeeds: the first instruction is next.
LEMMA ProbeOrder ==
  ASSUME TypeInv, OrderInv, NEW c \in Conn, WProbe(c)
  PROVE  OrderInv'
<1> USE DEF shared, dispatcher, outside, stores
<1>t. /\ wpc \in [Conn -> WorkerPC] /\ job \in [Conn -> Nat] /\ step \in [Conn -> Nat]
      /\ job[c] \in CmdId /\ Script[job[c]].len \in Nat
      /\ Bridge[c] \in Mac
      /\ \A i \in DOMAIN got[Bridge[c]] :
           /\ got[Bridge[c]][i][1] \in Nat /\ got[Bridge[c]][i][2] \in Nat
  <2>1. job[c] \in CmdId
    BY DEF WProbe, TypeInv, TypeOK, Holding
  <2> QED BY <2>1, OrderTypes, ScriptItem
<1>1. CASE WStep(c, "probe", "lockDelete") /\ job' = [job EXCEPT ![c] = 0] /\ UNCHANGED step
  <2>1. \A d \in Conn :
          \/ job'[d] = job[d] /\ step'[d] = step[d] /\ wpc'[d] = wpc[d]
          \/ job'[d] = 0 /\ wpc'[d] \notin {"probe", "write", "update"}
    BY <1>1, <1>t DEF WStep
  <2> QED BY <2>1, OrderDrop DEF WProbe
<1>2. CASE WStep(c, "probe", AtInstruction(job[c], 1)) /\ UNCHANGED job
           /\ step' = [step EXCEPT ![c] = 1]
  <2>1. UNCHANGED <<link, dispatcher, outside, stores, job>>
    BY <1>2 DEF WProbe
  <2>2. /\ \A d \in Conn \ {c} : wpc'[d] = wpc[d] /\ step'[d] = step[d]
        /\ wpc[c] = "probe" /\ step'[c] = 1
        /\ wpc'[c] = IF 1 <= Script[job[c]].len THEN "write" ELSE "update"
    BY <1>2, <1>t DEF WStep, AtInstruction
  <2>3. (Published /\ OneHolder /\ ReceivedBefore /\ InHandBefore /\ OneLive /\ BridgeOrder)'
    BY <2>1 DEF OrderInv, Published, OneHolder, ReceivedBefore, InHandBefore, OneLive, BridgeOrder
  <2>4. ASSUME NEW d \in Conn PROVE (NextIsLater(d) /\ StepInRange(d) /\ WrittenReceived(d))'
    <3>1. CASE d # c
      BY <3>1, <2>1, <2>2 DEF OrderInv, NextIsLater, StepInRange, WrittenReceived, Precedes
    <3>2. CASE d = c
      <4>1. NextIsLater(c)'
        BY <2>1, <2>2, <1>t DEF OrderInv, NextIsLater, Precedes
      <4>2. StepInRange(c)'
        BY <2>1, <2>2, <1>t DEF StepInRange
      <4>3. WrittenReceived(c)'
        BY <2>2 DEF WrittenReceived
      <4> QED BY <3>2, <4>1, <4>2, <4>3
    <3> QED BY <3>1, <3>2
  <2> QED BY <2>3, <2>4 DEF OrderInv
<1> QED BY <1>1, <1>2 DEF WProbe

\* An instruction is written: if its connection is live, it is the bridge's
\* latest.
LEMMA WriteOrder ==
  ASSUME TypeInv, OrderInv, NEW c \in Conn, WWrite(c)
  PROVE  OrderInv'
<1> DEFINE m == Bridge[c]
           k == job[c]
           n == Script[k].len
<1>t. /\ wpc \in [Conn -> WorkerPC] /\ job \in [Conn -> Nat] /\ step \in [Conn -> Nat]
      /\ k \in CmdId /\ k \in Nat \ {0} /\ n \in Nat /\ m \in Mac
      /\ got \in [Mac -> Seq(CmdId \X Nat)] /\ Bridge \in [Conn -> Mac]
      /\ \A b \in Mac : \A i \in DOMAIN got[b] :
           /\ got[b][i][1] \in Nat \ {0} /\ got[b][i][2] \in Nat
      /\ \A i \in DOMAIN queue : queue[i] \in Nat
      /\ msg \in Nat /\ sent \in Nat
  <2>1. k \in CmdId
    BY DEF WWrite, WStep, TypeInv, TypeOK, Holding
  <2> QED BY <2>1, OrderTypes, ScriptItem
<1>s. /\ wpc[c] = "write" /\ step[c] \in 1..n
      /\ \A d \in Conn \ {c} : wpc'[d] = wpc[d] /\ step'[d] = step[d]
      /\ step'[c] = step[c] + 1
      /\ wpc'[c] = IF step[c] + 1 <= n THEN "write" ELSE "update"
      /\ UNCHANGED <<link, job, msg, queue, sent, processed>>
  BY <1>t DEF WWrite, WStep, AtInstruction, OrderInv, StepInRange, dispatcher, stores
<1>1. CASE link[c] # "up"
  <2>1. got' = got
    BY <1>1 DEF WWrite
  <2>2. (Published /\ OneHolder /\ ReceivedBefore /\ InHandBefore /\ OneLive /\ BridgeOrder)'
    BY <2>1, <1>s DEF OrderInv, Published, OneHolder, ReceivedBefore, InHandBefore, OneLive, BridgeOrder
  <2>3. ASSUME NEW d \in Conn PROVE (NextIsLater(d) /\ StepInRange(d) /\ WrittenReceived(d))'
    <3>1. CASE d # c
      BY <3>1, <2>1, <1>s DEF OrderInv, NextIsLater, StepInRange, WrittenReceived, Precedes
    <3>2. CASE d = c
      BY <3>2, <1>1, <1>s, <1>t DEF NextIsLater, StepInRange, WrittenReceived
    <3> QED BY <3>1, <3>2
  <2> QED BY <2>2, <2>3 DEF OrderInv
<1>2. CASE link[c] = "up"
  <2> DEFINE l == Len(got[m])
  <2>1. /\ got' = [got EXCEPT ![m] = Append(@, <<k, step[c]>>)]
        /\ l \in Nat /\ DOMAIN got[m] = 1..l /\ DOMAIN got'[m] = 1..(l + 1)
        /\ \A i \in 1..l : got'[m][i] = got[m][i]
        /\ got'[m][l + 1] = <<k, step[c]>>
        /\ \A b \in Mac \ {m} : got'[b] = got[b]
    <3>1. got' = [got EXCEPT ![m] = Append(@, <<k, step[c]>>)]
      BY <1>2 DEF WWrite
    <3>2. got[m] \in Seq(CmdId \X Nat) /\ got'[m] = Append(got[m], <<k, step[c]>>)
      BY <3>1, <1>t
    <3> QED BY <3>1, <3>2, <1>t
  <2> HIDE DEF l
  <2>2. \A i \in 1..l : Precedes(got[m][i], <<k, step[c]>>)
    BY <1>2, <1>t, <2>1 DEF OrderInv, NextIsLater, Precedes
  <2>3. Published'
    <3>1. k <= sent
      BY DEF OrderInv, Published
    <3>2. ASSUME NEW b \in Mac, NEW i \in DOMAIN got'[b] PROVE got'[b][i][1] <= sent
      <4>1. CASE b # m
        BY <4>1, <2>1 DEF OrderInv, Published
      <4>2. CASE b = m /\ i \in 1..l
        BY <4>2, <2>1 DEF OrderInv, Published
      <4>3. CASE b = m /\ i = l + 1
        BY <4>3, <2>1, <3>1
      <4> QED BY <4>1, <4>2, <4>3, <2>1
    <3> QED BY <3>2, <1>s DEF OrderInv, Published
  <2>4. ReceivedBefore'
    <3>1. (\A j \in DOMAIN queue : k < queue[j]) /\ (msg # 0 => k < msg)
      BY DEF OrderInv, OneHolder, InHandBefore
    <3>2. ASSUME NEW b \in Mac, NEW i \in DOMAIN got'[b]
          PROVE  /\ \A j \in DOMAIN queue : got'[b][i][1] < queue[j]
                 /\ msg # 0 => got'[b][i][1] < msg
      <4>1. CASE b # m
        BY <4>1, <2>1 DEF OrderInv, ReceivedBefore
      <4>2. CASE b = m /\ i \in 1..l
        BY <4>2, <2>1 DEF OrderInv, ReceivedBefore
      <4>3. CASE b = m /\ i = l + 1
        BY <4>3, <2>1, <3>1
      <4> QED BY <4>1, <4>2, <4>3, <2>1
    <3> QED BY <3>2, <1>s DEF ReceivedBefore
  <2>5. BridgeOrder'
    <3>1. ASSUME NEW b \in Mac, NEW i \in DOMAIN got'[b], NEW j \in DOMAIN got'[b], i < j
          PROVE  Precedes(got'[b][i], got'[b][j])
      <4>1. CASE b # m
        BY <4>1, <3>1, <2>1 DEF OrderInv, BridgeOrder
      <4>2. CASE b = m /\ j \in 1..l
        <5>1. i \in 1..l
          BY <4>2, <3>1, <2>1
        <5>2. got'[b][i] = got[m][i] /\ got'[b][j] = got[m][j]
          BY <4>2, <5>1, <2>1
        <5>3. \A h, g \in 1..l : h < g => Precedes(got[m][h], got[m][g])
          BY <2>1, <1>t DEF OrderInv, BridgeOrder
        <5> QED BY <4>2, <5>1, <5>2, <5>3, <3>1
      <4>3. CASE b = m /\ j = l + 1
        <5>1. i \in 1..l
          BY <4>3, <3>1, <2>1
        <5>2. got'[b][i] = got[m][i] /\ got'[b][j] = <<k, step[c]>>
          BY <4>3, <5>1, <2>1
        <5> QED BY <5>1, <5>2, <2>2
      <4> QED BY <4>1, <4>2, <4>3, <2>1
    <3> QED BY <3>1 DEF BridgeOrder
  <2>6. OneHolder' /\ OneLive' /\ InHandBefore'
    BY <1>s DEF OrderInv, OneHolder, OneLive, InHandBefore
  <2>7. ASSUME NEW d \in Conn PROVE (NextIsLater(d) /\ StepInRange(d) /\ WrittenReceived(d))'
    <3>1. CASE d # c
      <4>1. link[d] = "up" => Bridge[d] \in Mac \ {m}
        BY <3>1, <1>2, <1>t DEF OrderInv, OneLive
      <4>2. link[d] = "up" => got'[Bridge[d]] = got[Bridge[d]]
        BY <4>1, <2>1
      <4>3. NextIsLater(d)'
        BY <3>1, <4>2, <1>s DEF OrderInv, NextIsLater, Precedes
      <4>4. StepInRange(d)'
        BY <3>1, <1>s DEF OrderInv, StepInRange
      <4>5. WrittenReceived(d)'
        BY <3>1, <4>2, <1>s DEF OrderInv, WrittenReceived
      <4> QED BY <4>3, <4>4, <4>5
    <3>2. CASE d = c
      <4>1. NextIsLater(c)'
        <5>1. ASSUME NEW i \in DOMAIN got'[m]
              PROVE  Precedes(got'[m][i], <<k, step[c] + 1>>)
          <6>1. CASE i \in 1..l
            BY <6>1, <2>1, <2>2, <1>t DEF Precedes
          <6>2. CASE i = l + 1
            BY <6>2, <2>1, <1>t DEF Precedes
          <6> QED BY <5>1, <6>1, <6>2, <2>1
        <5> QED BY <5>1, <1>s DEF NextIsLater
      <4>2. StepInRange(c)'
        BY <1>s, <1>t DEF StepInRange
      <4>3. WrittenReceived(c)'
        <5>1. ASSUME NEW i \in 1..step[c]
              PROVE  \E j \in DOMAIN got'[m] : got'[m][j] = <<k, i>>
          <6>1. CASE i = step[c]
            BY <6>1, <2>1
          <6>2. CASE i \in 1..(step[c] - 1)
            <7>1. WrittenReceived(c)
              BY DEF OrderInv
            <7>2. PICK j \in DOMAIN got[m] : got[m][j] = <<k, i>>
              BY <7>1, <6>2, <1>2, <1>s DEF WrittenReceived
            <7>3. j \in DOMAIN got'[m] /\ got'[m][j] = got[m][j]
              BY <2>1
            <7> QED BY <7>2, <7>3
          <6> QED BY <5>1, <6>1, <6>2, <1>t
        <5>2. step'[c] - 1 = step[c] /\ job'[c] = k
          BY <1>s, <1>t
        <5> QED BY <5>1, <5>2 DEF WrittenReceived
      <4> QED BY <3>2, <4>1, <4>2, <4>3
    <3> QED BY <3>1, <3>2
  <2> QED BY <2>3, <2>4, <2>5, <2>6, <2>7 DEF OrderInv
<1> QED BY <1>1, <1>2

\* The command is marked processed and given out of hand.
LEMMA UpdateOrder ==
  ASSUME TypeInv, OrderInv, NEW c \in Conn, WUpdate(c)
  PROVE  OrderInv'
<1> USE DEF shared, dispatcher, outside, stores
<1> DEFINE k == job[c]
<1>t. /\ wpc \in [Conn -> WorkerPC] /\ job \in [Conn -> Nat] /\ step \in [Conn -> Nat]
      /\ k \in Nat \ {0} /\ \A i \in DOMAIN queue : queue[i] \in Nat \ {0}
  BY OrderTypes DEF WUpdate, WStep, TypeInv, Holding
<1>1. CASE Panic("nilRows") /\ UNCHANGED <<outside, stores>>
  BY <1>1, PanicOrder
<1>2. CASE WStep(c, "update", "fetch") /\ processed' = processed \cup {k}
           /\ job' = [job EXCEPT ![c] = 0] /\ step' = [step EXCEPT ![c] = 0]
           /\ UNCHANGED <<link, dispatcher, outside>>
  <2>1. /\ \A d \in Conn \ {c} : wpc'[d] = wpc[d] /\ step'[d] = step[d] /\ job'[d] = job[d]
        /\ job'[c] = 0 /\ wpc'[c] = "fetch"
    BY <1>2, <1>t DEF WStep
  <2>2. (Published /\ ReceivedBefore /\ InHandBefore /\ OneLive /\ BridgeOrder)'
    <3>1. Published'
      BY <1>2, <2>1, OrderTypes DEF OrderInv, Published
    <3>2. InHandBefore'
      BY <1>2, <2>1, OrderTypes DEF OrderInv, InHandBefore
    <3> QED BY <1>2, <3>1, <3>2 DEF OrderInv, ReceivedBefore, OneLive, BridgeOrder
  <2>3. OneHolder'
    <3>1. (\A d, e \in Conn : job[d] # 0 /\ job[d] = job[e] => d = e)'
      BY <2>1 DEF OrderInv, OneHolder
    <3>2. (\A d \in Conn : job[d] \notin processed)'
      BY <2>1, <1>2, <1>t, OrderTypes DEF OrderInv, OneHolder
    <3>3. \A x \in (processed \cup {msg} \cup {job[d] : d \in Conn})' :
            x = 0 \/ x \in processed \cup {msg} \cup {job[d] : d \in Conn}
      BY <2>1, <1>2
    <3>4. (\A x \in processed \cup {msg} \cup {job[d] : d \in Conn} :
             \A i \in DOMAIN queue : x < queue[i])'
      <4>1. ASSUME NEW x \in (processed \cup {msg} \cup {job[d] : d \in Conn})',
                   NEW i \in DOMAIN queue
            PROVE  x < queue[i]
        BY <3>3, <1>t DEF OrderInv, OneHolder
      <4> QED BY <4>1, <1>2
    <3>5. (msg # 0 => msg \notin processed \cup {job[d] : d \in Conn})'
      BY <2>1, <1>2 DEF OrderInv, OneHolder
    <3> QED BY <3>1, <3>2, <3>4, <3>5, <1>2 DEF OrderInv, OneHolder
  <2>4. ASSUME NEW d \in Conn PROVE (NextIsLater(d) /\ StepInRange(d) /\ WrittenReceived(d))'
    <3>0. NextIsLater(d) /\ StepInRange(d) /\ WrittenReceived(d)
      BY DEF OrderInv
    <3>1. CASE d = c
      BY <3>1, <2>1 DEF NextIsLater, StepInRange, WrittenReceived
    <3>2. CASE d # c
      <4>1. NextIsLater(d)'
        BY <3>0, <3>2, <2>1, <1>2 DEF NextIsLater, Precedes
      <4>2. StepInRange(d)'
        BY <3>0, <3>2, <2>1, <1>2 DEF StepInRange
      <4>3. WrittenReceived(d)'
        BY <3>0, <3>2, <2>1, <1>2 DEF WrittenReceived
      <4> QED BY <4>1, <4>2, <4>3
    <3> QED BY <3>1, <3>2
  <2> QED BY <2>2, <2>3, <2>4 DEF OrderInv
<1> QED BY <1>1, <1>2 DEF WUpdate

LEMMA WorkerOrder ==
  ASSUME TypeInv, OrderInv, NEW c \in Conn, Worker(c)
  PROVE  OrderInv'
<1> USE DEF stores
<1>1. CASE WFetch(c)
  BY <1>1, WorkerIdle, PanicOrder DEF WFetch, UnlockedReadRaces
<1>2. CASE WChannelClosed(c)
  BY <1>2, WorkerIdle DEF WChannelClosed
<1>3. CASE WLock(c)
  BY <1>3, WorkerIdle DEF WLock
<1>4. CASE WDelete(c)
  BY <1>4, WorkerIdle DEF WDelete
<1>5. CASE WRemoveConnected(c)
  BY <1>5, WorkerIdle DEF WRemoveConnected
<1> QED
  BY <1>1, <1>2, <1>3, <1>4, <1>5, ProbeOrder, WriteOrder, UpdateOrder DEF Worker

\* The head of the queue goes to the dispatcher's hand.
LEMMA ReceiveOrder ==
  ASSUME TypeInv, OrderInv, PReceive
  PROVE  OrderInv'
<1> USE DEF shared, workers, outside, stores
<1>1. /\ queue \in Seq(CmdId) /\ queue # <<>> /\ msg = 0
      /\ \A i \in DOMAIN queue : queue[i] \in Nat \ {0}
      /\ \A c \in Conn : job[c] \in Nat
  BY OrderTypes DEF PReceive, TypeInv, Holding
<1>2. 1 \in DOMAIN queue /\ msg' = queue[1]
  BY <1>1 DEF PReceive, Received
<1>3. \A i \in DOMAIN queue' : i + 1 \in DOMAIN queue /\ queue'[i] = queue[i + 1] /\ i \in Nat \ {0}
  BY <1>1 DEF PReceive, Unreceived
<1>4. UNCHANGED <<wpc, job, step, link, got, sent, processed>>
  BY DEF PReceive
<1>5. Published'
  BY <1>2, <1>3, <1>4 DEF OrderInv, Published
<1>6. OneHolder'
  <2>1. (\A i, j \in DOMAIN queue : i < j => queue[i] < queue[j])'
    BY <1>3 DEF OrderInv, OneHolder
  <2>2. (\A x \in processed \cup {msg} \cup {job[c] : c \in Conn} :
           \A i \in DOMAIN queue : x < queue[i])'
    <3>1. ASSUME NEW x \in processed \cup {msg'} \cup {job[c] : c \in Conn},
                 NEW i \in DOMAIN queue'
          PROVE  x < queue'[i]
      <4>1. CASE x = msg'
        <5>1. 1 < i + 1 /\ i + 1 \in DOMAIN queue
          BY <1>3
        <5> QED BY <4>1, <5>1, <1>2, <1>3 DEF OrderInv, OneHolder
      <4>2. CASE x # msg'
        BY <4>2, <1>3 DEF OrderInv, OneHolder
      <4> QED BY <4>1, <4>2
    <3> QED BY <3>1, <1>4
  <2>3. msg' \notin processed \cup {job[c] : c \in Conn}
    <3>1. \A x \in processed \cup {job[c] : c \in Conn} : x < msg'
      BY <1>2 DEF OrderInv, OneHolder
    <3> QED BY <3>1, <1>1, <1>2
  <2> QED BY <2>1, <2>2, <2>3, <1>4 DEF OrderInv, OneHolder
<1>7. ReceivedBefore'
  BY <1>2, <1>3, <1>4 DEF OrderInv, ReceivedBefore
<1>8. InHandBefore'
  BY <1>2, <1>4 DEF OrderInv, OneHolder, InHandBefore
<1>9. (OneLive /\ BridgeOrder)'
  BY <1>4 DEF OrderInv, OneLive, BridgeOrder
<1>10. ASSUME NEW c \in Conn PROVE (NextIsLater(c) /\ StepInRange(c) /\ WrittenReceived(c))'
  <2>1. NextIsLater(c) /\ StepInRange(c) /\ WrittenReceived(c)
    BY DEF OrderInv
  <2> QED BY <2>1, <1>4 DEF NextIsLater, StepInRange, WrittenReceived, Precedes
<1> QED BY <1>5, <1>6, <1>7, <1>8, <1>9, <1>10 DEF OrderInv

\* The command in the dispatcher's hand goes to one worker, or to nobody.
LEMMA SelectOrder ==
  ASSUME TypeInv, OrderInv, PSelect
  PROVE  OrderInv'
<1> USE DEF shared, outside, stores
<1>1. CASE Panic("sendOnClosed")
  BY <1>1, PanicOrder DEF PSelect
<1>2. CASE msg' = 0 /\ UNCHANGED <<workers, queue, link, outside, stores>>
  BY <1>2, OrderDrop DEF workers
<1>3. ASSUME NEW c \in Receivers(msg), msg' = 0,
             wpc' = [wpc EXCEPT ![c] = "probe"], job' = [job EXCEPT ![c] = msg],
             UNCHANGED <<link, step, queue, outside, stores>>
      PROVE  OrderInv'
  <2>1. c \in Conn /\ wpc[c] = "recv" /\ job[c] = 0 /\ msg # 0
    BY DEF PSelect, Receivers, TypeInv, Holding
  <2>2. /\ \A d \in Conn \ {c} : wpc'[d] = wpc[d] /\ job'[d] = job[d]
        /\ wpc'[c] = "probe" /\ job'[c] = msg
    BY <1>3, <2>1, OrderTypes
  <2>3. Published'
    BY <1>3, <2>2, OrderTypes DEF OrderInv, Published
  <2>4. OneHolder'
    <3>1. (\A d, e \in Conn : job[d] # 0 /\ job[d] = job[e] => d = e)'
      BY <2>1, <2>2 DEF OrderInv, OneHolder
    <3>2. (\A d \in Conn : job[d] \notin processed)'
      BY <2>1, <2>2, <1>3 DEF OrderInv, OneHolder
    <3>3. \A x \in (processed \cup {msg} \cup {job[d] : d \in Conn})' :
            x = 0 \/ x \in processed \cup {msg} \cup {job[d] : d \in Conn}
      BY <2>2, <1>3
    <3>4. (\A x \in processed \cup {msg} \cup {job[d] : d \in Conn} :
             \A i \in DOMAIN queue : x < queue[i])'
      <4>1. ASSUME NEW x \in (processed \cup {msg} \cup {job[d] : d \in Conn})',
                   NEW i \in DOMAIN queue
            PROVE  x < queue[i]
        <5>1. queue[i] \in Nat \ {0}
          BY OrderTypes
        <5>2. x # 0 => x < queue[i]
          BY <3>3 DEF OrderInv, OneHolder
        <5> QED BY <5>1, <5>2
      <4> QED BY <4>1, <1>3
    <3> QED BY <3>1, <3>2, <3>4, <1>3 DEF OrderInv, OneHolder
  <2>5. (ReceivedBefore /\ InHandBefore /\ OneLive /\ BridgeOrder)'
    BY <1>3 DEF OrderInv, ReceivedBefore, InHandBefore, OneLive, BridgeOrder
  <2>6. ASSUME NEW d \in Conn PROVE (NextIsLater(d) /\ StepInRange(d) /\ WrittenReceived(d))'
    <3>0. NextIsLater(d) /\ StepInRange(d) /\ WrittenReceived(d)
      BY DEF OrderInv
    <3>1. CASE d # c
      <4>1. NextIsLater(d)'
        BY <3>0, <3>1, <2>2, <1>3 DEF NextIsLater, Precedes
      <4>2. StepInRange(d)'
        BY <3>0, <3>1, <2>2, <1>3 DEF StepInRange
      <4>3. WrittenReceived(d)'
        BY <3>0, <3>1, <2>2, <1>3 DEF WrittenReceived
      <4> QED BY <4>1, <4>2, <4>3
    <3>2. CASE d = c
      <4>1. NextIsLater(c)'
        BY <2>1, <2>2, <1>3, BridgeAssumption DEF OrderInv, ReceivedBefore, NextIsLater
      <4> QED BY <3>2, <4>1, <2>2 DEF StepInRange, WrittenReceived
    <3> QED BY <3>1, <3>2
  <2> QED BY <2>3, <2>4, <2>5, <2>6 DEF OrderInv
<1> QED BY <1>1, <1>2, <1>3 DEF PSelect

LEMMA EnvironmentOrder ==
  ASSUME TypeInv, OrderInv, Environment
  PROVE  OrderInv'
<1> USE DEF shared, workers, dispatcher, outside, stores
<1>1. ASSUME NEW c \in Conn, BridgeDials(c) PROVE OrderInv'
  <2>1. job[c] = 0 /\ wpc[c] = "none" /\ link' = [link EXCEPT ![c] = "up"]
        /\ \A d \in Conn : Bridge[d] = Bridge[c] => link[d] # "up"
    BY <1>1 DEF BridgeDials, TypeInv, Holding
  <2>2. UNCHANGED <<wpc, job, step, msg, queue, got, sent, processed>>
    BY <1>1 DEF BridgeDials
  <2>3. link \in [Conn -> {"none", "up", "stale", "broken", "closed"}]
    BY DEF TypeInv, TypeOK
  <2>4. (Published /\ OneHolder /\ ReceivedBefore /\ InHandBefore /\ BridgeOrder)'
    BY <2>2 DEF OrderInv, Published, OneHolder, ReceivedBefore, InHandBefore, BridgeOrder
  <2>5. OneLive'
    BY <2>1, <2>3 DEF OrderInv, OneLive
  <2>6. ASSUME NEW d \in Conn PROVE (NextIsLater(d) /\ StepInRange(d) /\ WrittenReceived(d))'
    <3>1. NextIsLater(d) /\ StepInRange(d) /\ WrittenReceived(d)
      BY DEF OrderInv
    <3> QED BY <3>1, <2>1, <2>2, <2>3 DEF NextIsLater, StepInRange, WrittenReceived, Precedes
  <2> QED BY <2>4, <2>5, <2>6 DEF OrderInv
<1>2. ASSUME NEW c \in Conn, HIdentify(c) PROVE OrderInv'
  BY <1>2, HandlerOrder
<1>3. ASSUME NEW c \in Conn, LinkGoesStale(c) \/ LinkBreaks(c) PROVE OrderInv'
  <2>1. \A d \in Conn : link'[d] = "up" => link[d] = "up"
    BY <1>3 DEF LinkGoesStale, LinkBreaks, TypeInv, TypeOK
  <2> QED BY <1>3, <2>1, OrderDrop DEF LinkGoesStale, LinkBreaks
<1>4. CASE Publish
  <2>1. UNCHANGED <<wpc, job, step, link, msg, got, processed>> /\ sent' = sent + 1
    BY <1>4 DEF Publish
  <2>n. \A x \in Int : x <= sent => x <= sent' /\ x < sent + 1
    BY <2>1, OrderTypes
  <2>p. /\ \A i \in DOMAIN queue : queue[i] \in Int /\ queue[i] <= sent
        /\ msg \in Int /\ msg <= sent
        /\ \A c \in Conn : job[c] \in Int /\ job[c] <= sent
        /\ \A k \in processed : k \in Int /\ k <= sent
        /\ \A m \in Mac : \A i \in DOMAIN got[m] : got[m][i][1] \in Int /\ got[m][i][1] <= sent
    BY OrderTypes DEF OrderInv, Published
  <2>c. (InHandBefore /\ OneLive /\ BridgeOrder)'
        /\ \A d \in Conn : (NextIsLater(d) /\ StepInRange(d) /\ WrittenReceived(d))'
    <3>1. ASSUME NEW d \in Conn PROVE (NextIsLater(d) /\ StepInRange(d) /\ WrittenReceived(d))'
      <4>1. NextIsLater(d) /\ StepInRange(d) /\ WrittenReceived(d)
        BY DEF OrderInv
      <4> QED BY <4>1, <2>1 DEF NextIsLater, StepInRange, WrittenReceived, Precedes
    <3>2. (InHandBefore /\ OneLive /\ BridgeOrder)'
      BY <2>1 DEF OrderInv, InHandBefore, OneLive, BridgeOrder
    <3> QED BY <3>1, <3>2
  <2>2. CASE queue' = queue
    <3>1. Published'
      BY <2>1, <2>2, <2>n, <2>p DEF Published
    <3>2. (OneHolder /\ ReceivedBefore)'
      BY <2>1, <2>2 DEF OrderInv, OneHolder, ReceivedBefore
    <3> QED BY <2>c, <3>1, <3>2 DEF OrderInv
  <2>3. CASE queue' = Append(queue, sent + 1)
    <3> DEFINE l == Len(queue)
    <3>1. /\ l \in Nat /\ DOMAIN queue = 1..l /\ DOMAIN queue' = 1..(l + 1)
          /\ \A i \in 1..l : queue'[i] = queue[i]
          /\ queue'[l + 1] = sent + 1
      BY <2>3, OrderTypes
    <3> HIDE DEF l
    <3>2. Published'
      <4>1. ASSUME NEW i \in DOMAIN queue' PROVE queue'[i] <= sent'
        <5>1. CASE i \in 1..l
          BY <5>1, <3>1, <2>n, <2>p
        <5>2. CASE i = l + 1
          BY <5>2, <3>1, <2>1, OrderTypes
        <5> QED BY <4>1, <5>1, <5>2, <3>1
      <4> QED BY <4>1, <2>1, <2>n, <2>p DEF Published
    <3>3. OneHolder'
      <4>1. \A x \in processed \cup {msg} \cup {job[c] : c \in Conn} : x < sent + 1
        BY <2>p, <2>n
      <4>2. (\A i, j \in DOMAIN queue : i < j => queue[i] < queue[j])'
        BY <3>1, OrderTypes DEF OrderInv, OneHolder, Published
      <4>3. \A x \in processed \cup {msg} \cup {job[c] : c \in Conn} :
              \A i \in DOMAIN queue' : x < queue'[i]
        <5>1. ASSUME NEW x \in processed \cup {msg} \cup {job[c] : c \in Conn}, NEW i \in DOMAIN queue'
              PROVE  x < queue'[i]
          <6>1. CASE i \in 1..l
            BY <6>1, <3>1 DEF OrderInv, OneHolder
          <6>2. CASE i = l + 1
            BY <6>2, <3>1, <4>1
          <6> QED BY <5>1, <6>1, <6>2, <3>1
        <5> QED BY <5>1
      <4> QED BY <2>1, <4>2, <4>3 DEF OrderInv, OneHolder
    <3>4. ReceivedBefore'
      <4>1. ASSUME NEW m \in Mac, NEW i \in DOMAIN got[m], NEW j \in DOMAIN queue'
            PROVE  got[m][i][1] < queue'[j]
        <5>1. CASE j \in 1..l
          BY <5>1, <3>1 DEF OrderInv, ReceivedBefore
        <5>2. CASE j = l + 1
          BY <5>2, <3>1, <2>n, <2>p
        <5> QED BY <4>1, <5>1, <5>2, <3>1
      <4> QED BY <4>1, <2>1 DEF OrderInv, ReceivedBefore
    <3> QED BY <2>c, <3>2, <3>3, <3>4 DEF OrderInv
  <2> QED BY <1>4, <2>2, <2>3 DEF Publish
<1>5. CASE SubscriptionError \/ Restart
  BY <1>5, OrderDrop DEF SubscriptionError, Restart
<1> QED BY <1>1, <1>2, <1>3, <1>4, <1>5 DEF Environment

THEOREM SpecOrderInv == Spec => []OrderInv
<1>1. Init => OrderInv
  BY DEF Init, OrderInv, Published, OneHolder, ReceivedBefore, InHandBefore, OneLive, BridgeOrder,
         NextIsLater, StepInRange, WrittenReceived
<1>2. TypeInv /\ OrderInv /\ [Next]_vars => OrderInv'
  <2>1. ASSUME TypeInv, OrderInv, UNCHANGED vars PROVE OrderInv'
    BY <2>1, OrderDrop DEF vars, process, outside, stores
  <2>2. ASSUME TypeInv, OrderInv, PLock PROVE OrderInv'
    BY <2>2, OrderDrop DEF PLock, workers, outside, stores
  <2> QED
    BY <2>1, <2>2, HandlerOrder, WorkerOrder, ReceiveOrder, SelectOrder, EnvironmentOrder
       DEF Next, PubSub
<1> QED BY <1>1, <1>2, TypeCorrect, PTL DEF Spec

\* A bridge receives each instruction at most once, in order of publication.
THEOREM SpecBridgeOrder == Spec => []BridgeOrder
<1>1. OrderInv => BridgeOrder
  BY DEF OrderInv
<1> QED BY <1>1, SpecOrderInv, PTL

\* A command is in one place at a time and is never handed out again.
THEOREM SpecOneHolder == Spec => []OneHolder
<1>1. OrderInv => OneHolder
  BY DEF OrderInv
<1> QED BY <1>1, SpecOrderInv, PTL

(***************************************************************************)
(* backend/main.go implements CommandDelivery, for any bridges,            *)
(* connections, commands and faults; and what the invariants say of single *)
(* steps.                                                                  *)
(***************************************************************************)

\* The abstract state of a command, from where it is.
Queued(k) == k = msg \/ \E i \in DOMAIN queue : queue[i] = k
InHand(k) == \E c \in Conn : job[c] = k

fateBar == [k \in CmdId |-> Fate(k)]

\* A command is in one place.
LEMMA OnePlace ==
  ASSUME TypeInv, OrderInv, NEW k \in CmdId
  PROVE  /\ k > sent => ~Queued(k) /\ ~InHand(k) /\ k \notin processed
         /\ Queued(k) => ~InHand(k) /\ k \notin processed
         /\ InHand(k) => k \notin processed
<1>t. k \in Nat \ {0} /\ sent \in Nat /\ msg \in Nat
      /\ (\A c \in Conn : job[c] \in Nat) /\ processed \subseteq Nat
      /\ \A i \in DOMAIN queue : queue[i] \in Nat
  BY OrderTypes
<1>1. ASSUME k > sent PROVE ~Queued(k) /\ ~InHand(k) /\ k \notin processed
  BY <1>1, <1>t DEF OrderInv, Published, Queued, InHand
<1>2. ASSUME Queued(k) PROVE ~InHand(k) /\ k \notin processed
  <2>1. CASE k = msg
    BY <2>1, <1>t DEF OrderInv, OneHolder, InHand
  <2>2. ASSUME NEW i \in DOMAIN queue, queue[i] = k PROVE ~InHand(k) /\ k \notin processed
    <3>1. \A x \in processed \cup {msg} \cup {job[c] : c \in Conn} : x < k
      BY <2>2 DEF OrderInv, OneHolder
    <3> QED BY <3>1, <1>t DEF InHand
  <2> QED BY <1>2, <2>1, <2>2 DEF Queued
<1>3. ASSUME InHand(k) PROVE k \notin processed
  BY <1>3 DEF OrderInv, OneHolder, InHand
<1> QED BY <1>1, <1>2, <1>3

LEMMA FateIs ==
  ASSUME NEW k \in CmdId
  PROVE  Fate(k) = IF k > sent THEN "unsent" ELSE IF Queued(k) THEN "pending"
                   ELSE IF InHand(k) THEN "held"
                   ELSE IF k \in processed THEN "done" ELSE "lost"
BY DEF Fate, Queued, InHand

\* The refinement mapping of the initial states.
LEMMA InitDelivers == Init => Delivery!Init
<1> SUFFICES ASSUME Init PROVE Delivery!Init
  OBVIOUS
<1>1. ASSUME NEW k \in CmdId PROVE Fate(k) = "unsent"
  BY DEF Init, Fate, CmdId
<1>2. fateBar = [k \in CmdId |-> "unsent"]
  BY <1>1 DEF fateBar
<1> QED BY <1>2 DEF Delivery!Init, Delivery!Commands, CmdId, fateBar, Init

\* A step that moves no command is a stutter of the abstract specification.
LEMMA FateSame ==
  ASSUME UNCHANGED <<sent, processed, got>>,
         \A k \in CmdId : (Queued(k) <=> Queued(k)') /\ (InHand(k) <=> InHand(k)')
  PROVE  UNCHANGED Delivery!delivery
<1>1. \A k \in CmdId : Fate(k)' = Fate(k)
  BY FateIs DEF Fate, Queued, InHand
<1>2. fateBar' = fateBar
  BY <1>1 DEF fateBar
<1> QED BY <1>2 DEF Delivery!delivery, fateBar

\* The process or the subscription ends.
LEMMA CrashDelivers ==
  ASSUME TypeInv, OrderInv, UNCHANGED <<sent, processed, got>>, msg' = 0, queue' = <<>>,
         (\A c \in Conn : job'[c] = 0) \/ job' = job
  PROVE  Delivery!Next
<1> DEFINE gone == IF job' = job THEN {"pending"} ELSE {"pending", "held"}
<1>1. ASSUME NEW k \in CmdId
      PROVE  Fate(k)' = IF Fate(k) \in gone THEN "lost" ELSE Fate(k)
  <2>1. ~Queued(k)' /\ k # 0
    BY DEF Queued, CmdId
  <2>2. CASE job' = job
    BY <2>1, <2>2, OnePlace DEF Fate, Queued, InHand
  <2>3. CASE job' # job
    <3>1. ~InHand(k)'
      BY <2>1, <2>3 DEF InHand
    <3> QED BY <2>1, <2>3, <3>1, OnePlace DEF Fate, Queued, InHand
  <2> QED BY <2>2, <2>3
<1>2. gone \in {{"pending"}, {"pending", "held"}}
  OBVIOUS
<1> HIDE DEF gone
<1>3. fateBar' = [k \in CmdId |-> IF fateBar[k] \in gone THEN "lost" ELSE fateBar[k]]
  BY <1>1 DEF fateBar
<1> QED BY <1>2, <1>3 DEF Delivery!Next, Delivery!Crash, Delivery!Commands, CmdId, fateBar

\* One command changes its fate.
LEMMA FateChange ==
  ASSUME NEW k \in CmdId, NEW f, Fate(k)' = f,
         \A j \in CmdId \ {k} : Fate(j)' = Fate(j)
  PROVE  fateBar' = [fateBar EXCEPT ![k] = f]
BY DEF fateBar

LEMMA PublishDelivers ==
  ASSUME TypeInv, OrderInv, Publish
  PROVE  Delivery!Next
<1>0. sent \in Nat /\ sent + 1 \in CmdId
  BY ScriptAssumption, OrderTypes DEF Publish, CmdId
<1>1. PICK k \in CmdId : k = sent + 1
  BY <1>0
<1>2. /\ sent' = k /\ UNCHANGED <<msg, job, got, processed>>
      /\ queue' = queue \/ queue' = Append(queue, k)
      /\ queue \in Seq(CmdId)
  BY <1>1, OrderTypes DEF Publish, workers, stores
<1>3. \A j \in CmdId : j \in Nat
  BY DEF CmdId
<1>4. \A j \in CmdId \ {k} : Queued(j)' <=> Queued(j)
  BY <1>2 DEF Queued
<1>5. \A j \in CmdId : InHand(j)' <=> InHand(j)
  BY <1>2 DEF InHand
<1>6. ASSUME NEW j \in CmdId \ {k} PROVE Fate(j)' = Fate(j)
  <2>1. j > sent' <=> j > sent
    BY <1>0, <1>1, <1>2, <1>3
  <2> QED BY <2>1, <1>2, <1>4, <1>5 DEF Fate, Queued, InHand
<1>7. Fate(k)' \in {"pending", "lost"}
  <2>1. ~(k > sent') /\ k > sent
    BY <1>0, <1>1, <1>2, <1>3
  <2>2. ~InHand(k)' /\ k \notin processed'
    BY <1>2, <1>5, <2>1, OnePlace
  <2> QED BY <2>1, <2>2 DEF Fate, InHand
<1>8. Fate(k) = "unsent" /\ \A j \in 1..(k - 1) : j \in CmdId /\ Fate(j) # "unsent"
  BY <1>0, <1>1, <1>3 DEF Fate, CmdId
<1>9. PICK f \in {"pending", "lost"} : Fate(k)' = f
  BY <1>7
<1>10. fateBar' = [fateBar EXCEPT ![k] = f]
  BY <1>6, <1>9, FateChange
<1>11. Delivery!Publish(k)
  BY <1>2, <1>8, <1>10 DEF Delivery!Publish, fateBar
<1> QED BY <1>11 DEF Delivery!Next, Delivery!Commands, CmdId

\* The head of the queue is still pending in the dispatcher's hand.
LEMMA ReceiveDelivers ==
  ASSUME TypeInv, OrderInv, PReceive
  PROVE  UNCHANGED Delivery!delivery
<1>1. /\ queue \in Seq(CmdId) /\ queue # <<>> /\ msg = 0
      /\ msg' = queue[1] /\ UNCHANGED <<sent, processed, got, job>>
      /\ queue' = Tail(queue)
  BY OrderTypes DEF PReceive, Received, Unreceived, TypeInv, Holding, workers, outside, stores
<1>2. ASSUME NEW k \in CmdId PROVE Queued(k) <=> Queued(k)'
  <2>1. k # 0
    BY DEF CmdId
  <2>2. \A i \in DOMAIN queue \ {1} : i - 1 \in DOMAIN queue' /\ queue'[i - 1] = queue[i]
    BY <1>1
  <2>3. \A i \in DOMAIN queue' : i + 1 \in DOMAIN queue /\ queue[i + 1] = queue'[i]
    BY <1>1
  <2>4. 1 \in DOMAIN queue
    BY <1>1
  <2>5. ASSUME Queued(k) PROVE Queued(k)'
    <3>1. PICK i \in DOMAIN queue : queue[i] = k
      BY <1>1, <2>1, <2>5 DEF Queued
    <3> QED BY <1>1, <2>2, <3>1 DEF Queued
  <2>6. ASSUME Queued(k)' PROVE Queued(k)
    <3>1. CASE k = msg'
      BY <1>1, <2>4, <3>1 DEF Queued
    <3>2. ASSUME NEW i \in DOMAIN queue', queue'[i] = k PROVE Queued(k)
      BY <2>3, <3>2 DEF Queued
    <3> QED BY <2>6, <3>1, <3>2 DEF Queued
  <2> QED BY <2>5, <2>6
<1> QED BY <1>1, <1>2, FateSame DEF InHand

LEMMA SelectDelivers ==
  ASSUME TypeInv, OrderInv, PSelect
  PROVE  Delivery!Next
<1> USE DEF shared, workers, outside, stores
<1>0. msg \in CmdId
  BY DEF PSelect, TypeInv, TypeOK, Holding
<1>1. PICK k \in CmdId : k = msg
  BY <1>0
<1>2. k \in Nat \ {0} /\ sent \in Nat /\ ~(k > sent) /\ job \in [Conn -> Nat]
      /\ \A i \in DOMAIN queue : queue[i] \in Nat
  BY <1>1, OrderTypes DEF OrderInv, Published
<1>3. CASE Panic("sendOnClosed") /\ UNCHANGED <<outside, stores>>
  BY <1>3, CrashDelivers DEF Panic
<1>4. ASSUME msg' = 0, UNCHANGED <<queue, outside, stores>>,
             \/ job' = job
             \/ \E c \in Conn : job[c] = 0 /\ job' = [job EXCEPT ![c] = msg]
      PROVE  Delivery!Next
  <2>1. ASSUME NEW j \in CmdId \ {k}
        PROVE  (Queued(j)' <=> Queued(j)) /\ (InHand(j)' <=> InHand(j))
    BY <1>1, <1>2, <1>4 DEF Queued, InHand, CmdId
  <2>2. \A j \in CmdId \ {k} : Fate(j)' = Fate(j)
    BY <1>4, <2>1 DEF Fate, Queued, InHand
  <2>3. Queued(k) /\ ~Queued(k)' /\ k \notin processed'
    <3>1. \A i \in DOMAIN queue : k < queue[i]
      BY <1>1 DEF OrderInv, OneHolder
    <3>2. Queued(k) /\ k \notin processed
      BY <1>1, OnePlace DEF Queued
    <3> QED BY <1>2, <1>4, <3>1, <3>2 DEF Queued
  <2>4. Fate(k) = "pending" /\ Fate(k)' \in {"held", "lost"}
    BY <1>2, <1>4, <2>3 DEF Fate, Queued
  <2>5. ASSUME NEW j \in 1..(k - 1) PROVE j \in CmdId /\ Fate(j) # "pending"
    <3>1. j \in CmdId /\ j < k
      BY <1>2 DEF CmdId
    <3>2. ~Queued(j)
      BY <1>1, <1>2, <3>1 DEF OrderInv, OneHolder, Queued, CmdId
    <3> QED BY <3>1, <3>2 DEF Fate, Queued
  <2>6. PICK f \in {"held", "lost"} : Fate(k)' = f
    BY <2>4
  <2>7. fateBar' = [fateBar EXCEPT ![k] = f]
    BY <2>2, <2>6, FateChange
  <2>8. Delivery!Dispatch(k)
    BY <1>4, <2>4, <2>5, <2>7 DEF Delivery!Dispatch, fateBar
  <2> QED BY <2>8 DEF Delivery!Next, Delivery!Commands, CmdId
<1>5. \A c \in Receivers(msg) : c \in Conn /\ job[c] = 0
  BY DEF Receivers, TypeInv, Holding
<1> QED BY <1>3, <1>4, <1>5 DEF PSelect

\* A worker is done with its command, or gives it up.
LEMMA FinishDelivers ==
  ASSUME TypeInv, OrderInv, NEW c \in Conn, job[c] # 0, job' = [job EXCEPT ![c] = 0],
         UNCHANGED <<sent, msg, queue, got>>,
         processed' = processed \/ processed' = processed \cup {job[c]}
  PROVE  Delivery!Next
<1>0. job[c] \in CmdId
  BY DEF TypeInv, TypeOK
<1>1. PICK k \in CmdId : k = job[c]
  BY <1>0
<1>2. k \in Nat \ {0} /\ job \in [Conn -> Nat]
  BY OrderTypes
<1>3. InHand(k) /\ ~InHand(k)' /\ ~Queued(k) /\ ~Queued(k)' /\ ~(k > sent)
  <2>1. InHand(k)
    BY <1>1 DEF InHand
  <2>2. ~InHand(k)'
    BY <1>1, <1>2 DEF InHand, OrderInv, OneHolder
  <2> QED BY <2>1, <2>2, OnePlace DEF Queued
<1>4. ASSUME NEW j \in CmdId \ {k} PROVE Fate(j)' = Fate(j)
  <2>1. InHand(j)' <=> InHand(j)
    BY <1>1, <1>2 DEF InHand, CmdId
  <2>2. j \in processed' <=> j \in processed
    BY <1>1
  <2> QED BY <2>1, <2>2 DEF Fate, InHand
<1>5. Fate(k) = "held" /\ Fate(k)' \in {"done", "lost"}
  BY <1>3 DEF Fate, InHand, Queued
<1>6. PICK f \in {"done", "lost"} : Fate(k)' = f
  BY <1>5
<1>7. fateBar' = [fateBar EXCEPT ![k] = f]
  BY <1>4, <1>6, FateChange
<1>8. Delivery!Finish(k)
  BY <1>5, <1>7 DEF Delivery!Finish, fateBar
<1> QED BY <1>8 DEF Delivery!Next, Delivery!Commands, CmdId

\* An instruction written on a live connection is delivered.
LEMMA WriteDelivers ==
  ASSUME TypeInv, OrderInv, OwnInv, NEW c \in Conn, WWrite(c)
  PROVE  Delivery!Next \/ UNCHANGED Delivery!delivery
<1> USE DEF dispatcher, stores
<1>0. job[c] \in CmdId
  BY DEF WWrite, WStep, TypeInv, TypeOK, Holding
<1>1. PICK k \in CmdId : k = job[c]
  BY <1>0
<1>2. PICK i \in 1..Script[k].len : i = step[c]
  BY <1>1 DEF WWrite, WStep, OrderInv, StepInRange
<1>3. UNCHANGED <<sent, processed, queue, msg, job>>
  BY DEF WWrite
<1>4. \A j \in CmdId : Fate(j)' = Fate(j)
  BY <1>3 DEF Fate
<1>5. fateBar' = fateBar
  BY <1>4 DEF fateBar
<1>6. CASE link[c] # "up"
  BY <1>5, <1>6 DEF WWrite, Delivery!delivery, fateBar
<1>7. CASE link[c] = "up"
  <2>1. Script[k].mac = Bridge[c] /\ k # 0
    BY <1>1 DEF OwnInv, CmdId
  <2>2. got' = [got EXCEPT ![Script[k].mac] = Append(@, <<k, i>>)]
    BY <1>1, <1>2, <1>7, <2>1 DEF WWrite
  <2>3. Fate(k) = "held"
    <3>1. InHand(k) /\ ~Queued(k) /\ ~(k > sent)
      BY <1>1, OnePlace DEF InHand
    <3> QED BY <3>1 DEF Fate, InHand, Queued
  <2>4. \A j \in DOMAIN got[Script[k].mac] :
          \/ got[Script[k].mac][j][1] < k
          \/ got[Script[k].mac][j][1] = k /\ got[Script[k].mac][j][2] < i
    BY <1>1, <1>2, <1>7, <2>1 DEF OrderInv, NextIsLater, Precedes
  <2>5. Delivery!Deliver(k, i)
    BY <2>2, <2>3, <2>4, <1>5 DEF Delivery!Deliver, fateBar
  <2> QED BY <2>5 DEF Delivery!Next, Delivery!Commands, CmdId
<1> QED BY <1>6, <1>7

LEMMA HandlerDelivers ==
  ASSUME TypeInv, OrderInv, NEW c \in Conn, Handler(c) \/ HIdentify(c)
  PROVE  Delivery!Next \/ UNCHANGED Delivery!delivery
<1> USE DEF workers, dispatcher, outside, stores
<1>1. ASSUME UNCHANGED <<job, msg, queue, sent, got, processed>>
      PROVE  UNCHANGED Delivery!delivery
  BY <1>1, FateSame DEF Queued, InHand
<1>2. ASSUME NEW why, Panic(why), UNCHANGED <<outside, stores>>
      PROVE  Delivery!Next
  BY <1>2, CrashDelivers DEF Panic
<1> QED
  BY <1>1, <1>2
     DEF Handler, HIdentify, HHeartbeat, HCheck, UnlockedReadRaces, HLock, HClosePrevious,
         CloseRegistered, HMake, HReadError, HCloseAtEnd

LEMMA WorkerDelivers ==
  ASSUME TypeInv, OrderInv, OwnInv, NEW c \in Conn, Worker(c)
  PROVE  Delivery!Next \/ UNCHANGED Delivery!delivery
<1> USE DEF dispatcher, outside, stores
<1>1. ASSUME UNCHANGED <<job, msg, queue, sent, got, processed>>
      PROVE  UNCHANGED Delivery!delivery
  BY <1>1, FateSame DEF Queued, InHand
<1>2. ASSUME NEW why, Panic(why), UNCHANGED <<outside, stores>>
      PROVE  Delivery!Next
  BY <1>2, CrashDelivers DEF Panic
<1>3. CASE WProbe(c)
  <2>1. job[c] # 0
    BY <1>3 DEF WProbe, TypeInv, Holding
  <2> QED BY <1>1, <1>3, <2>1, FinishDelivers DEF WProbe
<1>4. CASE WUpdate(c)
  <2>1. job[c] # 0
    BY <1>4 DEF WUpdate, WStep, TypeInv, Holding
  <2> QED BY <1>2, <1>4, <2>1, FinishDelivers DEF WUpdate
<1>5. CASE WFetch(c) \/ WChannelClosed(c) \/ WLock(c) \/ WDelete(c) \/ WRemoveConnected(c)
  BY <1>1, <1>2, <1>5
     DEF WFetch, UnlockedReadRaces, WChannelClosed, WLock, WDelete, WRemoveConnected
<1> QED BY <1>3, <1>4, <1>5, WriteDelivers DEF Worker

LEMMA EnvironmentDelivers ==
  ASSUME TypeInv, OrderInv, Environment
  PROVE  Delivery!Next \/ UNCHANGED Delivery!delivery
<1> USE DEF workers, dispatcher, outside, stores
<1>1. ASSUME UNCHANGED <<job, msg, queue, sent, got, processed>>
      PROVE  UNCHANGED Delivery!delivery
  BY <1>1, FateSame DEF Queued, InHand
<1>2. ASSUME NEW c \in Conn, BridgeDials(c) \/ LinkGoesStale(c) \/ LinkBreaks(c)
      PROVE  UNCHANGED Delivery!delivery
  BY <1>1, <1>2 DEF BridgeDials, LinkGoesStale, LinkBreaks
<1>3. CASE SubscriptionError
  <2>1. msg = 0
    BY <1>3 DEF SubscriptionError, TypeInv, Holding
  <2> QED BY <1>3, <2>1, CrashDelivers DEF SubscriptionError
<1>4. CASE Restart
  BY <1>1, <1>4 DEF Restart
<1> QED BY <1>2, <1>3, <1>4, PublishDelivers, HandlerDelivers DEF Environment

\* backend/main.go delivers every command at most once, in order of
\* publication, to its own bridge, through every reconnect, fault and crash.
THEOREM SpecImplementsDelivery == Spec => ImplementsDelivery
<1>1. TypeInv /\ OwnInv /\ OrderInv /\ [Next]_vars => [Delivery!Next]_(Delivery!delivery)
  <2>1. ASSUME UNCHANGED vars PROVE UNCHANGED Delivery!delivery
    BY <2>1, FateSame DEF vars, process, outside, stores, Queued, InHand
  <2>2. ASSUME TypeInv, OrderInv, PLock PROVE UNCHANGED Delivery!delivery
    BY <2>2, FateSame DEF PLock, workers, outside, stores, Queued, InHand
  <2> QED
    BY <2>1, <2>2, HandlerDelivers, WorkerDelivers, ReceiveDelivers, SelectDelivers,
       EnvironmentDelivers DEF Next, PubSub
<1> QED
  BY <1>1, InitDelivers, TypeCorrect, SpecOwnInv, SpecOrderInv, PTL
     DEF Spec, ImplementsDelivery, Delivery!Spec

\* A row is marked processed, with its connection up, only after the bridge
\* received every instruction of the command.
THEOREM SpecProcessedMeansReceived == Spec => ProcessedMeansReceived
<1> DEFINE P == \A c \in Conn : \A k \in processed' \ processed :
                  job[c] = k /\ link[c] = "up" =>
                    \A i \in 1..Script[k].len :
                      \E j \in DOMAIN got[Bridge[c]] : got[Bridge[c]][j] = <<k, i>>
<1>1. ASSUME TypeInv, OrderInv, Next PROVE P
  <2> USE DEF stores
  <2>1. ASSUME NEW d \in Conn, WUpdate(d) PROVE P
    <3> SUFFICES ASSUME NEW c \in Conn, NEW k \in processed' \ processed,
                        job[c] = k, link[c] = "up", NEW i \in 1..Script[k].len
                 PROVE  \E j \in DOMAIN got[Bridge[c]] : got[Bridge[c]][j] = <<k, i>>
      OBVIOUS
    <3>1. k = job[d] /\ wpc[d] = "update" /\ k # 0 /\ k \in CmdId
      BY <1>1, <2>1 DEF WUpdate, WStep, TypeInv, TypeOK, Holding
    <3>2. d = c
      BY <1>1, <3>1 DEF OrderInv, OneHolder
    <3>3. step[c] = Script[k].len + 1 /\ Script[k].len \in Nat
      BY <1>1, <3>1, <3>2, ScriptItem DEF OrderInv, StepInRange
    <3>4. WrittenReceived(c) /\ i \in 1..(step[c] - 1)
      BY <1>1, <3>3 DEF OrderInv
    <3> QED BY <3>1, <3>2, <3>4 DEF WrittenReceived
  <2>2. ASSUME NEW d \in Conn, Handler(d) \/ HIdentify(d) PROVE P
    BY <2>2 DEF Handler, HIdentify, HHeartbeat, HCheck, UnlockedReadRaces, HLock, HClosePrevious,
                CloseRegistered, HMake, HReadError, HCloseAtEnd
  <2>3. ASSUME NEW d \in Conn, Worker(d), ~WUpdate(d) PROVE P
    BY <2>3 DEF Worker, WFetch, UnlockedReadRaces, WChannelClosed, WProbe, WWrite, WLock,
                WDelete, WRemoveConnected
  <2>4. CASE PubSub
    BY <2>4 DEF PubSub, PReceive, PLock, PSelect
  <2>5. ASSUME NEW d \in Conn, BridgeDials(d) \/ LinkGoesStale(d) \/ LinkBreaks(d) PROVE P
    BY <2>5 DEF BridgeDials, LinkGoesStale, LinkBreaks
  <2>6. CASE Publish \/ SubscriptionError \/ Restart
    BY <2>6 DEF Publish, SubscriptionError, Restart
  <2> QED BY <1>1, <2>1, <2>2, <2>3, <2>4, <2>5, <2>6 DEF Next, Environment
<1>2. TypeInv /\ OrderInv /\ [Next]_vars => [P]_vars
  BY <1>1
<1> QED BY <1>2, TypeCorrect, SpecOrderInv, PTL DEF Spec, ProcessedMeansReceived

=============================================================================
