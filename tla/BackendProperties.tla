-------------------------- MODULE BackendProperties --------------------------
(***************************************************************************)
(* What makes backend/main.go correct, and what its comments say of it.    *)
(***************************************************************************)
EXTENDS Backend

-----------------------------------------------------------------------------
(* Safety.                                                                 *)

\* Instruction a is published before instruction b.
Precedes(a, b) == a[1] < b[1] \/ (a[1] = b[1] /\ a[2] < b[2])

\* Whatever the reconnects, goroutines left behind and crashes, a bridge
\* receives each instruction at most once and in the order of publication
\* (redisPubSub's single loop, unbuffered channels, one writer per socket).
BridgeOrder ==
  \A m \in Mac : \A i, j \in DOMAIN got[m] : i < j => Precedes(got[m][i], got[m][j])

\* A bridge only receives commands published for its MAC: the channel found
\* at macMap[s], whichever connection made it, never carries another's.
OwnCommandsOnly ==
  \A m \in Mac : \A i \in DOMAIN got[m] : Script[got[m][i][1]].mac = m

\* No two goroutines are between Lock and Unlock of cmdMutex, so macMap is
\* never written twice at once and never written during a dispatch.
InCriticalSection(c) == hpc[c] \in {"close", "make", "end"} \/ wpc[c] = "delete"
MutualExclusion ==
  /\ \A c, d \in Conn : InCriticalSection(c) /\ InCriticalSection(d) => c = d
  /\ \A c \in Conn : InCriticalSection(c) => ppc # "select"
  /\ \A c \in Conn : ~(hpc[c] \in {"close", "make", "end"} /\ wpc[c] = "delete")

\* The handler of c has read the MAC, in this run of the process.
Identified(c) == hpc[c] \notin {"none", "identify", "gone"}
\* No other connection has identified itself with the MAC of c.
Sole(c) == \A d \in Conn : d # c /\ Bridge[d] = Bridge[c] => ~Identified(d)

\* The first connection of a bridge, while the server can still write to it,
\* is reachable: its channel is the registered one and open, and its worker
\* is in its loop, whatever connections of other bridges come, go or die.
StableBridgeServed ==
  \A c \in Conn :
    Sole(c) /\ hpc[c] = "serve" /\ link[c] \in {"up", "stale"} =>
      /\ macMap[Bridge[c]] = c /\ c \notin closed
      /\ wpc[c] \in {"fetch", "recv", "probe", "write", "update"}
      /\ wpc[c] = "recv" => chan[c] = c

\* Unless calls to Redis fail, it is also in the set currentlyConnected, from
\* the moment it has identified itself (main.go:262-264, 363-364).
StableBridgeListed ==
  \A c \in Conn :
    /\ "redis" \notin Unreliable
    /\ Sole(c) /\ Identified(c) /\ hpc[c] \notin {"lockEnd", "end", "done"}
    /\ link[c] \in {"up", "stale"}
    => Bridge[c] \in connected

\* A command is in one place at a time: waiting, in the dispatcher's hand, in
\* one worker's hand, or marked processed; it is never handed out again.
OneHolder ==
  /\ \A c, d \in Conn : job[c] # 0 /\ job[c] = job[d] => c = d
  /\ \A i, j \in DOMAIN queue : i < j => queue[i] < queue[j]
  /\ \A c \in Conn : job[c] \notin processed
  /\ \A k \in processed \cup {msg} \cup {job[c] : c \in Conn} :
       \A i \in DOMAIN queue : k < queue[i]
  /\ msg # 0 => msg \notin processed \cup {job[c] : c \in Conn}

-----------------------------------------------------------------------------
(* Action properties.                                                      *)

ChannelFaults == {"sendOnClosed", "closeOfNil", "closeOfClosed"}

\* Some connection was cut, or a second one identified itself with the same
\* MAC, since the process started.
Churn ==
  \E c \in Conn :
    /\ Identified(c)
    /\ ~Sole(c) \/ hpc[c] \in {"lockEnd", "end", "done"} \/ link[c] \in {"broken", "closed"}

\* As long as every bridge keeps its first connection, no operation on a
\* channel panics.
NoChannelFaultWithoutChurn ==
  [][fault = "none" /\ fault' \in ChannelFaults => Churn]_vars

\* An action_logs row is marked processed, in a step whose connection is up,
\* only after the bridge received every instruction of the command.
ProcessedMeansReceived ==
  [][\A c \in Conn : \A k \in processed' \ processed :
       job[c] = k /\ link[c] = "up" =>
         \A i \in 1..Script[k].len :
           \E j \in DOMAIN got[Bridge[c]] : got[Bridge[c]][j] = <<k, i>>]_vars

-----------------------------------------------------------------------------
(* What the backend promises to the API and to the bridges: see the module *)
(* CommandDelivery.                                                        *)

\* Where command k is, as the abstract specification sees it.
Fate(k) ==
  IF k > sent THEN "unsent"
  ELSE IF k = msg \/ \E i \in DOMAIN queue : queue[i] = k THEN "pending"
  ELSE IF \E c \in Conn : job[c] = k THEN "held"
  ELSE IF k \in processed THEN "done" ELSE "lost"

Delivery == INSTANCE CommandDelivery WITH fate <- [k \in CmdId |-> Fate(k)]

\* Goroutines, channels, stale sockets and crashes implement the delivery of
\* each command at most once, in order, to its own bridge (main.go:187-366).
ImplementsDelivery == Delivery!Spec

-----------------------------------------------------------------------------
(* Liveness, under FairSpec.                                               *)

\* The dispatcher never wedges: a published command leaves the queue and the
\* dispatcher's hand, for a worker or for nobody, unless the process dies.
DispatcherDrains == (queue # <<>> \/ msg # 0) ~> (queue = <<>> /\ msg = 0)

\* A worker that took a command gets rid of it: marks it processed or drops it.
CommandsFinish == \A c \in Conn : (job[c] # 0) ~> (job[c] = 0)

\* A handler whose read failed cleans up and returns, or the process dies.
HandlersFinish == \A c \in Conn : (hpc[c] = "lockEnd") ~> (hpc[c] \in {"done", "gone"})

-----------------------------------------------------------------------------
(* What comments of main.go say of the program.                            *)

\* main.go:210-211 "if nobody is listening, it means no lights are connected":
\* a command is discarded only when its bridge has no live, served connection.
DiscardedOnlyWhenDisconnected ==
  [][ppc = "select" /\ ppc' = "receive" /\ UNCHANGED wpc =>
       ~\E c \in Conn : Bridge[c] = Script[msg].mac /\ hpc[c] = "serve" /\ link[c] = "up"]_vars

\* main.go:276 "let's close the channel, which will cause the go routine that
\* was launched prior to exit cleanly": the close of a reconnect never panics.
CleanReconnect ==
  [][fault = "none" /\ fault' \in ChannelFaults => \A c \in Conn : hpc[c] # "close"]_vars

=============================================================================
