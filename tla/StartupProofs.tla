--------------------------- MODULE StartupProofs ---------------------------
(***************************************************************************)
(* Proofs about Startup, for any number of processes: only one of them has *)
(* a node, and while it has a window its node is there.                    *)
(*                                                                         *)
(* WindowHasNode is not inductive: what main() finds after a wait depends  *)
(* on what the node thread did meanwhile, and this on which process the    *)
(* thread belongs to.  IInv says whose the node is (LockHeld, FreeNode)    *)
(* and how far it is at each place of its process (NodeAt).                *)
(***************************************************************************)
EXTENDS Startup, TLAPS

LockHeld == \A p \in Process : at[p] \in Locked <=> lock = p

FreeNode == lock = Nobody => m_node = "none" /\ thread = "off" /\ ~stopSent

Initialised ==
    \/ m_node = "rpc" /\ thread = "off"
    \/ m_node = "inprocess" /\ thread = "running" /\ ~stopSent

NodeAt(p) ==
    /\ at[p] \in {"rpcNode", "inProcess"} => m_node = "none" /\ thread = "off" /\ ~stopSent
    /\ at[p] \in {"rpcConnect", "rpcWait"} => m_node = "rpc" /\ thread = "off" /\ ~stopSent
    /\ at[p] \in {"nodeConnect", "nodeWait"} =>
           /\ thread # "off" /\ ~stopSent
           /\ initCompleted => thread = "running"
           /\ thread \in {"init", "running"} => m_node = "inprocess"
    /\ at[p] \in {"open"} \cup Running => Initialised

IInv == TypeOK /\ LockHeld /\ FreeNode /\ \A p \in Process : NodeAt(p)

\* The process starts without a node.
LEMMA InitInductive == Init => IInv
BY StartupAssumption
   DEF Init, IInv, TypeOK, LockHeld, FreeNode, NodeAt, Initialised, Loading, Locked, Starting,
       Running, Stopping

\* A process without the lock does nothing to the node.
LEMMA UnlockedSteps ==
    ASSUME IInv, NEW p \in Process,
           \/ Launch(p)
           \/ load(p)
           \/ Truncate(p)
           \/ Write(p)
           \/ SaveFails(p)
           \/ tryLock(p)
           \/ \E file \in WalletFiles : setWalletFile(p, file)
    PROVE  IInv'
<1> USE StartupAssumption DEF IInv, TypeOK, LockHeld, FreeNode, NodeAt, Initialised, Go, disk, node,
        history, Loading, Locked, Starting, Running, Stopping
<1>1. CASE Launch(p)
    BY <1>1 DEF Launch
<1>2. CASE load(p)
    BY <1>2 DEF load
<1>3. CASE Truncate(p)
    BY <1>3 DEF Truncate
<1>4. CASE Write(p)
    BY <1>4 DEF Write
<1>5. CASE SaveFails(p)
    BY <1>5 DEF SaveFails
<1>6. CASE tryLock(p)
    BY <1>6 DEF tryLock
<1>7. CASE \E file \in WalletFiles : setWalletFile(p, file)
    BY <1>7 DEF setWalletFile
<1> QED BY <1>1, <1>2, <1>3, <1>4, <1>5, <1>6, <1>7

\* The proxy of a daemon is there while it is waited for.
LEMMA RpcSteps ==
    ASSUME IInv, NEW p \in Process,
           \/ createRpcNode(p)
           \/ RpcConnect(p)
           \/ DaemonAnswers(p)
           \/ TimerFires(p)
           \/ RpcCancelled(p)
           \/ RpcReady(p)
           \/ RpcTimedOut(p)
    PROVE  IInv'
<1> USE StartupAssumption DEF IInv, TypeOK, LockHeld, FreeNode, NodeAt, Initialised, Go, disk, node,
        history, Loading, Locked, Starting, Running, Stopping
<1>1. CASE createRpcNode(p)
    BY <1>1 DEF createRpcNode
<1>2. CASE RpcConnect(p)
    BY <1>2 DEF RpcConnect
<1>3. CASE DaemonAnswers(p)
    BY <1>3 DEF DaemonAnswers
<1>4. CASE TimerFires(p)
    BY <1>4 DEF TimerFires
<1>5. CASE RpcCancelled(p)
    BY <1>5, ZenonT(40) DEF RpcCancelled, End, NoNode
<1>6. CASE RpcReady(p)
    BY <1>6 DEF RpcReady
<1>7. CASE RpcTimedOut(p)
    BY <1>7 DEF RpcTimedOut
<1> QED BY <1>1, <1>2, <1>3, <1>4, <1>5, <1>6, <1>7

\* main() goes on to the window only when the node thread runs its node.
LEMMA InProcessSteps ==
    ASSUME IInv, NEW p \in Process,
           \/ StartNodeThread(p)
           \/ NodeConnect(p)
           \/ NodeReady(p)
           \/ NodeFailed(p)
           \/ openWallet(p)
    PROVE  IInv'
<1> USE StartupAssumption DEF IInv, TypeOK, LockHeld, FreeNode, NodeAt, Initialised, Go, disk, node,
        history, Loading, Locked, Starting, Running, Stopping
<1>1. CASE StartNodeThread(p)
    BY <1>1, ZenonT(40) DEF StartNodeThread
<1>2. CASE NodeConnect(p)
    BY <1>2 DEF NodeConnect
<1>3. CASE NodeReady(p)
    BY <1>3 DEF NodeReady
<1>4. CASE NodeFailed(p)
    BY <1>4 DEF NodeFailed, End, NoNode
<1>5. CASE openWallet(p)
    BY <1>5 DEF openWallet
<1> QED BY <1>1, <1>2, <1>3, <1>4, <1>5

\* A process that ends takes its node with it.
LEMMA StopSteps ==
    ASSUME IInv, NEW p \in Process,
           \/ Quit(p)
           \/ DeleteRpcNode(p)
           \/ sendStopSignal(p)
           \/ DeinitConnect(p)
           \/ DeinitReturns(p)
           \/ Join(p)
           \/ Kill(p)
    PROVE  IInv'
<1> USE StartupAssumption DEF IInv, TypeOK, LockHeld, FreeNode, NodeAt, Initialised, Go, disk, node,
        history, Loading, Locked, Starting, Running, Stopping
<1>1. CASE Quit(p)
    BY <1>1 DEF Quit
<1>2. CASE DeleteRpcNode(p)
    BY <1>2 DEF DeleteRpcNode, End, NoNode
<1>3. CASE sendStopSignal(p)
    BY <1>3 DEF sendStopSignal
<1>4. CASE DeinitConnect(p)
    BY <1>4 DEF DeinitConnect
<1>5. CASE DeinitReturns(p)
    BY <1>5 DEF DeinitReturns
<1>6. CASE Join(p)
    BY <1>6 DEF Join, NoNode
<1>7. CASE Kill(p)
  <2>1. CASE at[p] \in Locked
    BY <1>7, <2>1, ZenonT(40) DEF Kill, NoNode
  <2>2. CASE at[p] \notin Locked
    BY <1>7, <2>2 DEF Kill
  <2> QED BY <2>1, <2>2
<1> QED BY <1>1, <1>2, <1>3, <1>4, <1>5, <1>6, <1>7

\* The node thread is the one of the process that waits for it, or is told to stop.
LEMMA NodeThreadSteps ==
    ASSUME IInv, NodeThread
    PROVE  IInv'
<1> USE StartupAssumption DEF IInv, TypeOK, LockHeld, FreeNode, NodeAt, Initialised,
        disk, history, Loading, Locked, Starting, Running, Stopping
<1>1. CASE createInprocessNode
    BY <1>1 DEF createInprocessNode
<1>2. CASE NodeInitCompleted
  <2>1. CASE \E q \in Process : at[q] = "nodeWait"
    BY <1>2, <2>1, ZenonT(40) DEF NodeInitCompleted, Tell
  <2>2. CASE ~\E q \in Process : at[q] = "nodeWait"
    BY <1>2, <2>2 DEF NodeInitCompleted, Tell
  <2> QED BY <2>1, <2>2
<1>3. CASE NodeInitFailed
  <2>1. CASE \E q \in Process : at[q] = "nodeWait"
    <3>1. thread = "init" /\ thread' \in {"failed", "running", "idle"} /\ initCompleted' = FALSE
        BY <1>3, <2>1 DEF NodeInitFailed, Tell
    <3>2. /\ loop' \in {"none", "quit", "error"}
          /\ UNCHANGED <<disk, at, settings, m_node, initTimer, stopSent, missed, history>>
        BY <1>3, <2>1 DEF NodeInitFailed, Tell
    <3> QED BY <3>1, <3>2, ZenonT(40)
  <2>2. CASE ~\E q \in Process : at[q] = "nodeWait"
    BY <1>3, <2>2 DEF NodeInitFailed, Tell
  <2> QED BY <2>1, <2>2
<1>4. CASE NodeEnds
    BY <1>4, ZenonT(40) DEF NodeEnds, Tell
<1> QED BY <1>1, <1>2, <1>3, <1>4 DEF NodeThread

\* No step of any process, or of the node thread, breaks the invariant.
LEMMA Inductive == IInv /\ [Next]_vars => IInv'
<1> SUFFICES ASSUME IInv, [Next]_vars PROVE IInv'
    OBVIOUS
<1>1. ASSUME NEW p \in Process, Main(p) PROVE IInv'
    BY <1>1, UnlockedSteps, RpcSteps, InProcessSteps, StopSteps DEF Main
<1>2. ASSUME NEW p \in Process, Launch(p) \/ DaemonAnswers(p) \/ Quit(p) \/ Kill(p)
      PROVE  IInv'
    BY <1>2, UnlockedSteps, RpcSteps, StopSteps
<1>3. ASSUME NEW p \in Process, NEW file \in WalletFiles, setWalletFile(p, file)
      PROVE  IInv'
    BY <1>3, UnlockedSteps
<1>4. CASE UNCHANGED vars
    BY <1>4 DEF vars, disk, node, history, IInv, TypeOK, LockHeld, FreeNode, NodeAt, Initialised
<1> QED BY <1>1, <1>2, <1>3, <1>4, NodeThreadSteps DEF Next

(* At every place of main() the node is as far as that place needs it, and *)
(* it belongs to the process with the lock.                                *)
THEOREM StartupInductive == Spec => []IInv
BY InitInductive, Inductive, PTL DEF Spec

(* Every variable of Startup has its type, and there is a node only while  *)
(* a process has the lock, for any number of processes and wallet files.   *)
THEOREM StartupTyped == Spec => []TypeOK
<1>1. IInv => TypeOK
    BY DEF IInv
<1> QED BY <1>1, StartupInductive, PTL

(* tryLock() in main() lets one process have a node at a time.             *)
THEOREM StartupOneRuns == Spec => []OneRuns
<1>1. IInv => OneRuns
    BY DEF IInv, LockHeld, OneRuns
<1> QED BY <1>1, StartupInductive, PTL

(* While the window is there so is a node that was initialised, whatever   *)
(* order the daemon's answer, the timer, a quit and the node thread come.  *)
THEOREM StartupWindowHasNode == Spec => []WindowHasNode
<1>1. IInv => WindowHasNode
    BY DEF IInv, NodeAt, Initialised, WindowHasNode
<1> QED BY <1>1, StartupInductive, PTL

-----------------------------------------------------------------------------
(***************************************************************************)
(* The settings file.  Until a save is cut off or a second process starts, *)
(* one process at most is anywhere, and what it holds is what the user     *)
(* chose from the moment it has read the file.                             *)
(***************************************************************************)
Saving == {"rewrite", "save", "write"}

Alone == \A p, q \in Process : at[p] # "off" /\ at[q] # "off" => p = q
HoldsChoice == \A p \in Process : at[p] \notin {"off", "read"} => settings[p] = chosen
FileHasChoice == (\E p \in Process : at[p] \in Saving) \/ cfg = chosen

ChoiceInv == disturbed \/ (Alone /\ HoldsChoice /\ FileHasChoice)

\* Nothing is chosen yet, and nothing runs.
LEMMA ChoiceStart == Init => ChoiceInv
BY DEF Init, ChoiceInv, Alone, HoldsChoice, FileHasChoice, Saving

\* The steps of one process that read or write the file, or choose, or end it.
LEMMA ChoiceFileSteps ==
    ASSUME TypeOK, ChoiceInv, NEW p \in Process,
           \/ Launch(p)
           \/ load(p)
           \/ Truncate(p)
           \/ Write(p)
           \/ SaveFails(p)
           \/ Kill(p)
           \/ \E file \in WalletFiles : setWalletFile(p, file)
    PROVE  ChoiceInv'
<1> USE DEF TypeOK, ChoiceInv, Alone, HoldsChoice, FileHasChoice, Saving, Go, disk, node, history
<1>1. CASE Launch(p)
    BY <1>1 DEF Launch
<1>2. CASE load(p)
    BY <1>2 DEF load
<1>3. CASE Truncate(p)
    BY <1>3 DEF Truncate
<1>4. CASE Write(p)
    BY <1>4 DEF Write
<1>5. CASE SaveFails(p)
    BY <1>5 DEF SaveFails
<1>6. CASE Kill(p)
    BY <1>6 DEF Kill
<1>7. CASE \E file \in WalletFiles : setWalletFile(p, file)
    BY <1>7 DEF setWalletFile
<1> QED BY <1>1, <1>2, <1>3, <1>4, <1>5, <1>6, <1>7

\* The other steps of a process leave the file and the settings alone: they end it, or take it from one
\* place to another where neither is saved.
LEMMA ChoiceOtherSteps ==
    ASSUME TypeOK, ChoiceInv, NEW p \in Process,
           UNCHANGED <<cfg, settings, chosen, disturbed>>,
           at[p] \notin {"off", "read"} \cup Saving,
           \/ at' = at
           \/ \E to : to \notin Saving /\ at' = [at EXCEPT ![p] = to]
    PROVE  ChoiceInv'
<1> USE DEF TypeOK, ChoiceInv, Alone, HoldsChoice, FileHasChoice, Saving
<1>1. CASE at' = at
    BY <1>1
<1>2. ASSUME NEW to, to \notin Saving, at' = [at EXCEPT ![p] = to] PROVE ChoiceInv'
    BY <1>2
<1> QED BY <1>1, <1>2

LEMMA ChoiceInductive == TypeOK /\ ChoiceInv /\ [Next]_vars => ChoiceInv'
<1> SUFFICES ASSUME TypeOK, ChoiceInv, [Next]_vars PROVE ChoiceInv'
    OBVIOUS
<1> DEFINE Still(p) == /\ UNCHANGED <<cfg, settings, chosen, disturbed>>
                       /\ at[p] \notin {"off", "read"} \cup Saving
                       /\ \/ at' = at
                          \/ \E to : to \notin Saving /\ at' = [at EXCEPT ![p] = to]
<1>1. ASSUME NEW p \in Process, tryLock(p) PROVE Still(p)
    BY <1>1 DEF tryLock, Saving, node, history
<1>2. ASSUME NEW p \in Process,
             \/ createRpcNode(p) \/ RpcConnect(p) \/ DaemonAnswers(p) \/ TimerFires(p)
             \/ RpcCancelled(p) \/ RpcReady(p) \/ RpcTimedOut(p)
      PROVE  Still(p)
    BY <1>2 DEF createRpcNode, RpcConnect, DaemonAnswers, TimerFires, RpcCancelled, RpcReady,
                RpcTimedOut, End, Go, Saving, disk, node, history
<1>3. ASSUME NEW p \in Process,
             \/ StartNodeThread(p) \/ NodeConnect(p) \/ NodeReady(p) \/ NodeFailed(p) \/ openWallet(p)
      PROVE  Still(p)
    BY <1>3 DEF StartNodeThread, NodeConnect, NodeReady, NodeFailed, openWallet, End, Go, Saving,
                disk, node, history
<1>4. ASSUME NEW p \in Process,
             \/ Quit(p) \/ DeleteRpcNode(p) \/ sendStopSignal(p) \/ DeinitConnect(p)
             \/ DeinitReturns(p) \/ Join(p)
      PROVE  Still(p)
    BY <1>4 DEF Quit, DeleteRpcNode, sendStopSignal, DeinitConnect, DeinitReturns, Join, End, Go,
                Saving, disk, node, history
<1>5. ASSUME NEW p \in Process, Still(p) PROVE ChoiceInv'
    BY <1>5, ChoiceOtherSteps
<1>6. ASSUME NodeThread PROVE UNCHANGED <<cfg, at, settings, chosen, disturbed>>
    BY <1>6 DEF NodeThread, createInprocessNode, NodeInitCompleted, NodeInitFailed, NodeEnds, disk, history
<1>7. ASSUME UNCHANGED vars PROVE UNCHANGED <<cfg, at, settings, chosen, disturbed>>
    BY <1>7 DEF vars, disk, history
<1>8. ASSUME UNCHANGED <<cfg, at, settings, chosen, disturbed>> PROVE ChoiceInv'
    BY <1>8 DEF ChoiceInv, Alone, HoldsChoice, FileHasChoice
<1> HIDE DEF Still
<1>9. ASSUME NEW p \in Process, Main(p) PROVE ChoiceInv'
    BY <1>1, <1>2, <1>3, <1>4, <1>5, <1>9, ChoiceFileSteps DEF Main
<1>10. ASSUME NEW p \in Process, Launch(p) \/ DaemonAnswers(p) \/ Quit(p) \/ Kill(p) PROVE ChoiceInv'
    BY <1>2, <1>4, <1>5, <1>10, ChoiceFileSteps
<1>11. ASSUME NEW p \in Process, NEW file \in WalletFiles, setWalletFile(p, file) PROVE ChoiceInv'
    BY <1>11, ChoiceFileSteps
<1> QED BY <1>6, <1>7, <1>8, <1>9, <1>10, <1>11 DEF Next

(* The settings file keeps the wallet that was chosen last, for any number *)
(* of processes started and killed and any choices, until a save is cut    *)
(* off or fails, or a second process writes what it had read.              *)
THEOREM StartupChoiceIsKept == Spec => []ChoiceIsKept
<1>1. ChoiceInv => ChoiceIsKept
    BY DEF ChoiceInv, FileHasChoice, Saving, ChoiceIsKept
<1>2. Spec => []ChoiceInv
    <2>1. ChoiceInv /\ TypeOK /\ [Next]_vars => ChoiceInv'
        BY ChoiceInductive
    <2> QED BY <2>1, ChoiceStart, StartupTyped, PTL DEF Spec
<1> QED BY <1>1, <1>2, PTL

(* A process that had a window has no node thread when it ends, for any    *)
(* number of processes: End() meets a thread only in a start that fails.   *)
THEOREM StartupThreadEndsFirst == Spec => ThreadEndsFirst
<1> DEFINE Ends == \A p \in Process : (at[p] \in Running \cup Stopping /\ ~aborted) => ~aborted'
<1>1. IInv /\ [Next]_vars => [Ends]_vars
    <2> SUFFICES ASSUME IInv, Next, NEW p \in Process, at[p] \in Running \cup Stopping, ~aborted
                 PROVE  ~aborted'
        OBVIOUS
    <2>1. lock = p /\ \A q \in Process : at[q] \in Locked => q = p
        BY DEF IInv, LockHeld, Locked
    <2>2. ASSUME NEW q \in Process, RpcCancelled(q) \/ NodeFailed(q) PROVE ~aborted'
        BY <2>1, <2>2 DEF RpcCancelled, NodeFailed, Locked, Starting, Running, Stopping
    <2>3. ASSUME NEW q \in Process, DeleteRpcNode(q) \/ Join(q) PROVE ~aborted'
        BY <2>3 DEF DeleteRpcNode, Join, End
    <2>4. ASSUME NEW q \in Process,
                 \/ Launch(q) \/ load(q) \/ Truncate(q) \/ Write(q) \/ SaveFails(q)
                 \/ tryLock(q) \/ Kill(q) \/ Quit(q)
                 \/ \E file \in WalletFiles : setWalletFile(q, file)
          PROVE  ~aborted'
        BY <2>4 DEF Launch, load, Truncate, Write, SaveFails, tryLock, Kill, Quit, setWalletFile, history
    <2>5. ASSUME NEW q \in Process,
                 \/ createRpcNode(q) \/ RpcConnect(q) \/ DaemonAnswers(q) \/ TimerFires(q)
                 \/ RpcReady(q) \/ RpcTimedOut(q) \/ StartNodeThread(q) \/ NodeConnect(q)
                 \/ NodeReady(q) \/ openWallet(q) \/ sendStopSignal(q) \/ DeinitConnect(q)
                 \/ DeinitReturns(q)
          PROVE  ~aborted'
        BY <2>5 DEF createRpcNode, RpcConnect, DaemonAnswers, TimerFires, RpcReady, RpcTimedOut,
                    StartNodeThread, NodeConnect, NodeReady, openWallet, sendStopSignal,
                    DeinitConnect, DeinitReturns, history
    <2>6. ASSUME NodeThread PROVE ~aborted'
        BY <2>6 DEF NodeThread, createInprocessNode, NodeInitCompleted, NodeInitFailed, NodeEnds, history
    <2> QED BY <2>2, <2>3, <2>4, <2>5, <2>6 DEF Next, Main
<1> QED BY <1>1, StartupInductive, PTL DEF Spec, ThreadEndsFirst
=============================================================================
