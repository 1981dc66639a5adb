------------------------------ MODULE Startup ------------------------------
(***************************************************************************)
(* main(), from the settings to the end of the process, with NodeAdapter   *)
(* and the nodes of CryptoNoteWrapper.                                     *)
(*                                                                         *)
(* Several processes may be started.  Each of them reads the settings file *)
(* and writes it again before it tries the lock that lets only one go on,  *)
(* so what it wrote may be older than what the running one saved.  The     *)
(* process with the lock asks a daemon on this machine for its state, for  *)
(* three seconds, and starts a node of its own in a thread when there is   *)
(* no answer.  It waits in event loops whose connections are made after    *)
(* what they wait for has been started: an answer in between is lost.      *)
(***************************************************************************)
EXTENDS Naturals

CONSTANTS
    Process,      \* the processes a user may start
    WalletFiles,  \* the wallet files a user may choose
    Default,      \* the wallet file when the settings name none
    Nobody

ASSUME StartupAssumption == Default \notin WalletFiles /\ Nobody \notin Process

VARIABLES
    \* the disk
    cfg,            \* the wallet file named in the .cfg file, Default when it is empty
    lock,           \* the process with the .lock file
    \* each process
    at,             \* where main() is
    settings,       \* Settings::m_settings
    \* NodeAdapter of the process with the lock
    m_node,         \* which node it has
    thread,         \* what m_nodeInitializerThread does
    initTimer,      \* it is active
    initCompleted,  \* the local variable of init() and initInProcessNode()
    loop,           \* what the wait loop was told: nothing, quit or exit with an error
    stopSent,       \* the node was told to stop
    \* observation
    missed,         \* a signal came before it was connected
    chosen,         \* the wallet file the user chose last
    disturbed,      \* a save failed or was cut off, or another process started while one was running
    aborted         \* the process that ran last ended with its node thread running

disk == <<cfg, lock>>
node == <<m_node, thread, initTimer, initCompleted, loop, stopSent, missed>>
history == <<chosen, disturbed, aborted>>
vars == <<disk, at, settings, node, history>>

Loading == {"read", "truncate", "rewrite"}
Starting == {"rpcConnect", "rpcWait", "inProcess", "nodeConnect", "nodeWait", "open"}
Running == {"running", "save", "write"}
Stopping == {"stop", "deinitConnect", "deinitWait", "join"}
Locked == {"rpcNode"} \cup Starting \cup Running \cup Stopping

TypeOK ==
    /\ cfg \in WalletFiles \cup {Default}
    /\ lock \in Process \cup {Nobody}
    /\ at \in [Process -> {"off", "lock"} \cup Loading \cup Locked]
    /\ settings \in [Process -> WalletFiles \cup {Default}]
    /\ m_node \in {"none", "rpc", "inprocess"}
    /\ thread \in {"off", "start", "init", "failed", "running", "idle"}
    /\ initTimer \in BOOLEAN /\ initCompleted \in BOOLEAN
    /\ loop \in {"none", "quit", "error"}
    /\ stopSent \in BOOLEAN /\ missed \in BOOLEAN
    /\ (m_node # "none" \/ thread # "off") => lock # Nobody
    /\ chosen \in WalletFiles \cup {Default}
    /\ disturbed \in BOOLEAN /\ aborted \in BOOLEAN

NoNode ==
    /\ m_node' = "none" /\ thread' = "off" /\ initTimer' = FALSE /\ initCompleted' = FALSE
    /\ loop' = "none" /\ stopSent' = FALSE /\ missed' = FALSE

Init ==
    /\ cfg = Default /\ lock = Nobody
    /\ at = [p \in Process |-> "off"]
    /\ settings = [p \in Process |-> Default]
    /\ m_node = "none" /\ thread = "off" /\ initTimer = FALSE /\ initCompleted = FALSE
    /\ loop = "none" /\ stopSent = FALSE /\ missed = FALSE
    /\ chosen = Default /\ disturbed = FALSE /\ aborted = FALSE

Go(p, from, to) == at[p] = from /\ at' = [at EXCEPT ![p] = to]

\* Mutation of End: the node is left alone.
EndKeepsNode(p) ==
    /\ at' = [at EXCEPT ![p] = "off"]
    /\ lock' = Nobody
    /\ aborted' = (thread # "off")
    /\ UNCHANGED <<cfg, settings, node, chosen, disturbed>>

\* The process ends: its lock and its threads are gone.  A thread that still runs makes
\* the destructor of QThread abort.
End(p) ==
    /\ at' = [at EXCEPT ![p] = "off"]
    /\ lock' = Nobody
    /\ NoNode
    /\ aborted' = (thread # "off")
    /\ UNCHANGED <<cfg, settings, chosen, disturbed>>

(***************************************************************************)
(* Settings: the file is emptied when it is opened for writing.            *)
(***************************************************************************)
Launch(p) ==
    /\ Go(p, "off", "read")
    /\ disturbed' = (disturbed \/ \E q \in Process \ {p} : at[q] # "off")
    /\ UNCHANGED <<disk, settings, node, chosen, aborted>>

load(p) ==
    /\ Go(p, "read", "truncate")
    /\ settings' = [settings EXCEPT ![p] = cfg]
    /\ UNCHANGED <<disk, node, history>>

\* saveSettings(), from load() and from setWalletFile().
Truncate(p) ==
    /\ Go(p, "truncate", "rewrite") \/ Go(p, "save", "write")
    /\ cfg' = Default
    /\ UNCHANGED <<lock, settings, node, history>>

Write(p) ==
    /\ Go(p, "rewrite", "lock") \/ Go(p, "write", "running")
    /\ cfg' = settings[p]
    /\ UNCHANGED <<lock, settings, node, history>>

\* The file cannot be opened, or what was truncated cannot be written.
SaveFails(p) ==
    /\ Go(p, "truncate", "lock") \/ Go(p, "rewrite", "lock") \/ Go(p, "save", "running") \/ Go(p, "write", "running")
    /\ disturbed' = (disturbed \/ at[p] # "truncate")
    /\ UNCHANGED <<disk, settings, node, chosen, aborted>>

tryLock(p) ==
    /\ at[p] = "lock"
    /\ IF lock = Nobody THEN lock' = p /\ at' = [at EXCEPT ![p] = "rpcNode"]
       ELSE at' = [at EXCEPT ![p] = "off"] /\ UNCHANGED lock
    /\ UNCHANGED <<cfg, settings, node, history>>

\* Mutation of setWalletFile: the settings are not saved.
SetFileUnsaved(p, file) ==
    /\ at[p] = "running" /\ UNCHANGED at
    /\ settings' = [settings EXCEPT ![p] = file]
    /\ chosen' = file
    /\ UNCHANGED <<disk, node, disturbed, aborted>>

setWalletFile(p, file) ==
    /\ Go(p, "running", "save")
    /\ settings' = [settings EXCEPT ![p] = file]
    /\ chosen' = file
    /\ UNCHANGED <<disk, node, disturbed, aborted>>

(***************************************************************************)
(* NodeAdapter::init()                                                     *)
(***************************************************************************)
createRpcNode(p) ==
    /\ Go(p, "rpcNode", "rpcConnect")
    /\ m_node' = "rpc" /\ initTimer' = TRUE
    /\ UNCHANGED <<disk, settings, thread, initCompleted, loop, stopSent, missed, history>>

RpcConnect(p) ==
    /\ Go(p, "rpcConnect", "rpcWait")
    /\ UNCHANGED <<disk, settings, node, history>>

\* The daemon tells its peers or its height, to a signal that may have no slot yet.  The
\* lambda runs at once, in the thread of the proxy; quit() is queued.  An answer after the wait
\* changes nothing here while init() has not returned; the lambda stays connected after that,
\* and what it then writes to the stack is not modelled.
DaemonAnswers(p) ==
    /\ m_node = "rpc" /\ at[p] = "rpcWait"
    /\ initCompleted' = TRUE
    /\ loop' = "quit"
    /\ UNCHANGED <<disk, at, settings, m_node, thread, initTimer, stopSent, missed, history>>

\* Mutation of TimerFires: the loop is not left.
TimerForgetsLoop(p) ==
    /\ at[p] = "rpcWait" /\ initTimer
    /\ initTimer' = FALSE
    /\ UNCHANGED <<disk, at, settings, m_node, thread, initCompleted, loop, stopSent, missed,
                   history>>

TimerFires(p) ==
    /\ at[p] = "rpcWait" /\ initTimer
    /\ initTimer' = FALSE
    /\ loop' = "quit"
    /\ UNCHANGED <<disk, at, settings, m_node, thread, initCompleted, stopSent, missed, history>>

\* The loop was left by a quit of the application: init() fails, and main() returns.
RpcCancelled(p) ==
    /\ at[p] = "rpcWait" /\ loop # "none" /\ initTimer /\ ~initCompleted
    /\ End(p)

RpcReady(p) ==
    /\ loop # "none" /\ initTimer /\ initCompleted
    /\ Go(p, "rpcWait", "open")
    /\ initTimer' = FALSE /\ loop' = "none"
    /\ UNCHANGED <<disk, settings, m_node, thread, initCompleted, stopSent, missed, history>>

\* Mutation of RpcTimedOut: the window is opened without a node.
TimedOutIsReady(p) ==
    /\ loop # "none" /\ ~initTimer
    /\ Go(p, "rpcWait", "open")
    /\ m_node' = "none" /\ loop' = "none"
    /\ UNCHANGED <<disk, settings, thread, initTimer, initCompleted, stopSent, missed, history>>

RpcTimedOut(p) ==
    /\ loop # "none" /\ ~initTimer
    /\ Go(p, "rpcWait", "inProcess")
    /\ m_node' = "none" /\ loop' = "none"
    /\ UNCHANGED <<disk, settings, thread, initTimer, initCompleted, stopSent, missed, history>>

(***************************************************************************)
(* initInProcessNode()                                                     *)
(***************************************************************************)
StartNodeThread(p) ==
    /\ Go(p, "inProcess", "nodeConnect")
    /\ thread' = "start"
    /\ initCompleted' = FALSE
    /\ UNCHANGED <<disk, settings, m_node, initTimer, loop, stopSent, missed, history>>

NodeConnect(p) ==
    /\ Go(p, "nodeConnect", "nodeWait")
    /\ UNCHANGED <<disk, settings, node, history>>

NodeReady(p) ==
    /\ loop = "quit" /\ initCompleted
    /\ Go(p, "nodeWait", "open")
    /\ loop' = "none"
    /\ UNCHANGED <<disk, settings, m_node, thread, initTimer, initCompleted, stopSent, missed,
                   history>>

NodeFailed(p) ==
    /\ at[p] = "nodeWait" /\ loop # "none" /\ (loop = "error" \/ ~initCompleted)
    /\ End(p)

openWallet(p) ==
    /\ Go(p, "open", "running")
    /\ UNCHANGED <<disk, settings, node, history>>

(***************************************************************************)
(* The node thread: InProcessNodeInitializer::start().                     *)
(***************************************************************************)
createInprocessNode ==
    /\ thread = "start"
    /\ thread' = "init" /\ m_node' = "inprocess"
    /\ UNCHANGED <<disk, at, settings, initTimer, initCompleted, loop, stopSent, missed, history>>

\* What a signal of the initializer does: nothing while the loop is not connected.
Tell(place, completed, told) ==
    IF \E p \in Process : at[p] = place
    THEN /\ initCompleted' = completed
         /\ loop' = IF loop = "none" THEN told ELSE loop
         /\ UNCHANGED missed
    ELSE missed' = TRUE /\ UNCHANGED <<initCompleted, loop>>

NodeInitCompleted ==
    /\ thread = "init"
    /\ thread' = "running"
    /\ Tell("nodeWait", TRUE, "quit")
    /\ UNCHANGED <<disk, at, settings, m_node, initTimer, stopSent, history>>

\* The core or the server does not start and init() returns; or it is the node itself that
\* reports an error, and the server is run nevertheless; or an exception ends start().
NodeInitFailed ==
    /\ thread = "init"
    /\ thread' \in {"failed", "running", "idle"}
    /\ Tell("nodeWait", FALSE, "error")
    /\ UNCHANGED <<disk, at, settings, m_node, initTimer, stopSent, history>>

\* run() returns, and the node is deleted.
NodeEnds ==
    /\ thread = "failed" \/ (thread = "running" /\ stopSent)
    /\ thread' = "idle" /\ m_node' = "none"
    /\ Tell("deinitWait", initCompleted, "quit")
    /\ UNCHANGED <<disk, at, settings, initTimer, stopSent, history>>

(***************************************************************************)
(* quit() of the application ends the innermost event loop; before exec()  *)
(* there is none, and it is forgotten.                                     *)
(***************************************************************************)
Quit(p) ==
    \/ /\ at[p] \in {"rpcWait", "nodeWait", "deinitWait"} /\ loop = "none"
       /\ loop' = "quit"
       /\ UNCHANGED <<disk, at, settings, m_node, thread, initTimer, initCompleted, stopSent,
                      missed, history>>
    \/ /\ Go(p, "running", "stop")
       /\ UNCHANGED <<disk, settings, node, history>>

\* Mutation of DeleteRpcNode: a node in a thread is deleted like the proxy.
DeleteAnyNode(p) ==
    /\ at[p] = "stop"
    /\ End(p)

(* NodeAdapter::deinit()                                                   *)
DeleteRpcNode(p) ==
    /\ at[p] = "stop" /\ thread = "off"
    /\ End(p)

\* Mutation of sendStopSignal: the node is waited for without being told.
NoStopSignal(p) ==
    /\ thread # "off"
    /\ Go(p, "stop", "deinitConnect")
    /\ UNCHANGED <<disk, settings, node, history>>

sendStopSignal(p) ==
    /\ thread # "off"
    /\ Go(p, "stop", "deinitConnect")
    /\ stopSent' = TRUE
    /\ UNCHANGED <<disk, settings, m_node, thread, initTimer, initCompleted, loop, missed, history>>

DeinitConnect(p) ==
    /\ Go(p, "deinitConnect", "deinitWait")
    /\ UNCHANGED <<disk, settings, node, history>>

DeinitReturns(p) ==
    /\ loop # "none"
    /\ Go(p, "deinitWait", "join")
    /\ UNCHANGED <<disk, settings, node, history>>

\* quit() and wait(): the thread has to come back to its event loop first.
Join(p) ==
    /\ at[p] = "join" /\ thread = "idle"
    /\ at' = [at EXCEPT ![p] = "off"]
    /\ lock' = Nobody
    /\ NoNode
    /\ aborted' = FALSE
    /\ UNCHANGED <<cfg, settings, chosen, disturbed>>

\* The process is killed.
Kill(p) ==
    /\ at[p] # "off"
    /\ disturbed' = (disturbed \/ at[p] \in {"rewrite", "save", "write"})
    /\ at' = [at EXCEPT ![p] = "off"]
    /\ IF at[p] \in Locked THEN lock' = Nobody /\ NoNode ELSE UNCHANGED <<lock, node>>
    /\ UNCHANGED <<cfg, settings, chosen, aborted>>

Main(p) ==
    \/ load(p) \/ Truncate(p) \/ Write(p) \/ SaveFails(p) \/ tryLock(p)
    \/ createRpcNode(p) \/ RpcConnect(p) \/ TimerFires(p)
    \/ RpcCancelled(p) \/ RpcReady(p) \/ RpcTimedOut(p)
    \/ StartNodeThread(p) \/ NodeConnect(p) \/ NodeReady(p) \/ NodeFailed(p) \/ openWallet(p)
    \/ DeleteRpcNode(p) \/ sendStopSignal(p) \/ DeinitConnect(p) \/ DeinitReturns(p) \/ Join(p)

NodeThread == createInprocessNode \/ NodeInitCompleted \/ NodeInitFailed \/ NodeEnds

Next ==
    \/ \E p \in Process :
           \/ Main(p) \/ Launch(p) \/ DaemonAnswers(p) \/ Quit(p) \/ Kill(p)
           \/ \E file \in WalletFiles : setWalletFile(p, file)
    \/ NodeThread

Spec == Init /\ [][Next]_vars

\* main() and the node thread go on.
FairSpec == Spec /\ WF_vars(NodeThread) /\ \A p \in Process : WF_vars(Main(p))

-----------------------------------------------------------------------------
(***************************************************************************)
(* Properties.                                                             *)
(***************************************************************************)

(* Two processes never have a node or a wallet at the same time, though    *)
(* both may be in the middle of their settings.                            *)
OneRuns == \A p, q \in Process : (at[p] \in Locked /\ at[q] \in Locked) => p = q

(* While the window is there so is a node that was initialised: whichever  *)
(* node was tried, and in whatever order its answer, the timer and a quit  *)
(* came.  createWallet() and the models call it unconditionally.           *)
WindowHasNode ==
    \A p \in Process :
        at[p] \in {"open"} \cup Running =>
            \/ m_node = "rpc" /\ thread = "off"
            \/ m_node = "inprocess" /\ thread = "running" /\ ~stopSent

(* The settings file names the wallet the user chose last, but for the     *)
(* save that is under way, a save that failed, a process killed in the     *)
(* middle of one, or another process that was started meanwhile and wrote  *)
(* what it had read.  A start that cannot open the file to write it loses  *)
(* nothing.                                                                *)
ChoiceIsKept ==
    \/ disturbed
    \/ \E p \in Process : at[p] \in {"rewrite", "save", "write"}
    \/ cfg = chosen

(* The process that had a window does not end before its node thread has:  *)
(* only a start that failed aborts.                                        *)
ThreadEndsFirst ==
    [][\A p \in Process :
           (at[p] \in Running \cup Stopping /\ ~aborted) => ~aborted']_vars

(* Every start ends: in a window, or with the process.  It waits for ever  *)
(* only when the node thread told its result before the wait loop was      *)
(* connected to it.                                                        *)
StartEnds ==
    \A p \in Process : (at[p] \in Loading \cup Starting) ~> (at[p] \in {"off"} \cup Running \/ missed)

(* Every quit of a running wallet ends the process, unless the node        *)
(* stopped before deinit() was connected to it.                            *)
QuitEnds == \A p \in Process : (at[p] = "stop") ~> (at[p] = "off" \/ missed)
=============================================================================
