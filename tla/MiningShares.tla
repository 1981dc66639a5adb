---------------------------- MODULE MiningShares ----------------------------
(***************************************************************************)
(* The work of one Miner: the job and the nonce counter that StratumClient *)
(* and the Worker threads share, and the shares the workers post to it.    *)
(*                                                                         *)
(* m_jobLock guards m_currentJob.  A worker reads the job under it and     *)
(* takes its nonce after the unlock; updateJob() writes the job and resets *)
(* the nonce under it.  Shares reach submitShare() as queued signals, so   *)
(* the job may have changed by the time one is handled.                    *)
(*                                                                         *)
(* The pool never gives a job id a second time.                            *)
(***************************************************************************)
EXTENDS Naturals, Sequences

CONSTANTS
    Workers,     \* Worker threads
    Jobs,        \* job ids the pool hands out
    NoJob,       \* the empty job
    MaxNonce     \* bound on the nonces taken of one job

ASSUME JobsAssumption == NoJob \notin Jobs
ASSUME NonceAssumption == MaxNonce \in Nat

VARIABLES
    gui,         \* where the GUI thread stands
    m_currentJob,
    locked,      \* updateJob() holds m_jobLock for writing
    m_nonce,
    offered,     \* job ids the pool has handed out
    posted,      \* queued submitShareSignals
    sent,        \* how often each share was written to the socket
    thread,      \* where each worker thread stands
    localJob, localNonce,
    m_isStopped,
    told,        \* workers whose stop() was called
    quit         \* workers whose QThread::quit() was called

client == <<m_currentJob, locked, m_nonce, offered>>
ending == <<m_isStopped, told, quit>>
worker == <<thread, localJob, localNonce>>
vars == <<gui, m_currentJob, locked, m_nonce, offered, posted, sent, thread, localJob,
          localNonce, m_isStopped, told, quit>>

Nonces == 1..MaxNonce
Shares == Jobs \X Nonces

TypeOK ==
    /\ gui \in {"loop", "update", "stop", "wait", "done"}
    /\ m_currentJob \in Jobs \cup {NoJob}
    /\ locked \in BOOLEAN
    /\ m_nonce \in 0..MaxNonce
    /\ offered \in SUBSET Jobs
    /\ posted \in Seq(Shares)
    /\ sent \in [Shares -> Nat]
    /\ thread \in [Workers -> {"starting", "queued", "check", "read", "take", "hash", "exec",
                               "finished"}]
    /\ localJob \in [Workers -> Jobs \cup {NoJob}]
    /\ localNonce \in [Workers -> 0..MaxNonce]
    /\ m_isStopped \in [Workers -> BOOLEAN]
    /\ told \in SUBSET Workers
    /\ quit \in SUBSET told

\* Miner::start() has created and started the threads.
Init ==
    /\ gui = "loop"
    /\ m_currentJob = NoJob /\ locked = FALSE /\ m_nonce = 0
    /\ offered = {}
    /\ posted = <<>> /\ sent = [s \in Shares |-> 0]
    /\ thread = [w \in Workers |-> "starting"]
    /\ localJob = [w \in Workers |-> NoJob]
    /\ localNonce = [w \in Workers |-> 0]
    /\ m_isStopped = [w \in Workers |-> TRUE]
    /\ told = {} /\ quit = {}

-----------------------------------------------------------------------------
(* The GUI thread: StratumClient and Miner. *)

\* Mutation of SetJob: the job is written without the lock.
SetJobUnlocked(j) ==
    /\ gui = "loop"
    /\ j \notin offered
    /\ m_currentJob' = j
    /\ offered' = offered \cup {j}
    /\ gui' = "update"
    /\ UNCHANGED <<locked, m_nonce, posted, sent, worker, ending>>

\* updateJob(): under the write lock the job is set ...
SetJob(j) ==
    /\ gui = "loop"
    /\ j \notin offered
    /\ locked' = TRUE
    /\ m_currentJob' = j
    /\ offered' = offered \cup {j}
    /\ gui' = "update"
    /\ UNCHANGED <<m_nonce, posted, sent, worker, ending>>

\* ... and then the nonce is reset.
ResetNonce ==
    /\ gui = "update"
    /\ m_nonce' = 0
    /\ locked' = FALSE
    /\ gui' = "loop"
    /\ UNCHANGED <<m_currentJob, offered, posted, sent, worker, ending>>

\* Mutation of SubmitShare: the share is submitted whatever its job is.
SubmitShareOfAnyJob ==
    /\ gui = "loop"
    /\ posted # <<>>
    /\ posted' = Tail(posted)
    /\ sent' = [sent EXCEPT ![Head(posted)] = @ + 1]
    /\ UNCHANGED <<gui, client, worker, ending>>

\* submitShare(): a share of another job is dropped.
SubmitShare ==
    /\ gui = "loop"
    /\ posted # <<>>
    /\ posted' = Tail(posted)
    /\ sent' = IF Head(posted)[1] = m_currentJob
               THEN [sent EXCEPT ![Head(posted)] = @ + 1]
               ELSE sent
    /\ UNCHANGED <<gui, client, worker, ending>>

\* The end of StratumClient::stop(), called by reconnect().  The nonce is not reset.
ClearJob ==
    /\ gui = "loop"
    /\ m_currentJob' = NoJob
    /\ UNCHANGED <<gui, locked, m_nonce, offered, posted, sent, worker, ending>>

\* Miner::stop(): StratumClient::stop(), then every worker is told to stop and its thread to
\* quit, then the threads are waited for.
StopMiner ==
    /\ gui = "loop"
    /\ m_currentJob' = NoJob
    /\ gui' = "stop"
    /\ UNCHANGED <<locked, m_nonce, offered, posted, sent, worker, ending>>

\* Mutation of StopWorker: the worker is not told to stop.
StopWorkerForgotten(w) ==
    /\ gui = "stop"
    /\ told = quit
    /\ w \notin told
    /\ told' = told \cup {w}
    /\ UNCHANGED <<gui, client, posted, sent, worker, m_isStopped, quit>>

StopWorker(w) ==
    /\ gui = "stop"
    /\ told = quit
    /\ w \notin told
    /\ m_isStopped' = [m_isStopped EXCEPT ![w] = TRUE]
    /\ told' = told \cup {w}
    /\ UNCHANGED <<gui, client, posted, sent, worker, quit>>

QuitThread(w) ==
    /\ gui = "stop"
    /\ w \in told \ quit
    /\ quit' = quit \cup {w}
    /\ gui' = IF quit' = Workers THEN "wait" ELSE "stop"
    /\ UNCHANGED <<client, posted, sent, worker, m_isStopped, told>>

Wait ==
    /\ gui = "wait"
    /\ \A w \in Workers : thread[w] = "finished"
    /\ gui' = "done"
    /\ UNCHANGED <<client, posted, sent, worker, ending>>

-----------------------------------------------------------------------------
(* The worker threads. *)

Stand(w, from, to) ==
    /\ thread[w] = from
    /\ thread' = [thread EXCEPT ![w] = to]

\* QThread::started runs start() in the new thread, before its event loop.
Start(w) ==
    /\ Stand(w, "starting", "queued")
    /\ m_isStopped' = [m_isStopped EXCEPT ![w] = FALSE]
    /\ UNCHANGED <<gui, client, posted, sent, localJob, localNonce, told, quit>>

\* The event loop delivers runSignal, unless the thread was told to quit.
Run(w) ==
    /\ w \notin quit
    /\ Stand(w, "queued", "check")
    /\ UNCHANGED <<gui, client, posted, sent, localJob, localNonce, ending>>

Finish(w) ==
    /\ w \in quit
    /\ Stand(w, "queued", "finished") \/ Stand(w, "exec", "finished")
    /\ UNCHANGED <<gui, client, posted, sent, localJob, localNonce, ending>>

CheckStopped(w) ==
    /\ Stand(w, "check", IF m_isStopped[w] THEN "exec" ELSE "read")
    /\ UNCHANGED <<gui, client, posted, sent, localJob, localNonce, ending>>

\* Mutation of ReadJob: the empty job is not noticed.
ReadJobEvenEmpty(w) ==
    /\ ~locked
    /\ Stand(w, "read", "take")
    /\ localJob' = [localJob EXCEPT ![w] = m_currentJob]
    /\ UNCHANGED <<gui, client, posted, sent, localNonce, ending>>

\* Mutation of ReadJob: without a job the worker leaves its loop.
ReadJobReturns(w) ==
    /\ ~locked
    /\ Stand(w, "read", IF m_currentJob = NoJob THEN "exec" ELSE "take")
    /\ localJob' = [localJob EXCEPT ![w] = IF m_currentJob = NoJob THEN @ ELSE m_currentJob]
    /\ UNCHANGED <<gui, client, posted, sent, localNonce, ending>>

\* Under the read lock: without a job the worker sleeps and starts over.
ReadJob(w) ==
    /\ ~locked
    /\ Stand(w, "read", IF m_currentJob = NoJob THEN "check" ELSE "take")
    /\ localJob' = [localJob EXCEPT ![w] = IF m_currentJob = NoJob THEN @ ELSE m_currentJob]
    /\ UNCHANGED <<gui, client, posted, sent, localNonce, ending>>

\* ++m_nonce, which is atomic, outside the lock.
TakeNonce(w) ==
    /\ m_nonce < MaxNonce
    /\ Stand(w, "take", "hash")
    /\ m_nonce' = m_nonce + 1
    /\ localNonce' = [localNonce EXCEPT ![w] = m_nonce']
    /\ UNCHANGED <<gui, m_currentJob, locked, offered, posted, sent, localJob, ending>>

\* A hash below the target is a share.
Hash(w) ==
    /\ Stand(w, "hash", "check")
    /\ posted' \in {posted, Append(posted, <<localJob[w], localNonce[w]>>)}
    /\ UNCHANGED <<gui, client, sent, localJob, localNonce, ending>>

-----------------------------------------------------------------------------
GuiNext ==
    \/ \E j \in Jobs : SetJob(j)
    \/ ResetNonce
    \/ SubmitShare
    \/ ClearJob
    \/ StopMiner
    \/ \E w \in Workers : StopWorker(w) \/ QuitThread(w)
    \/ Wait

WorkerNext(w) ==
    \/ Start(w)
    \/ Run(w)
    \/ Finish(w)
    \/ CheckStopped(w)
    \/ ReadJob(w)
    \/ TakeNonce(w)
    \/ Hash(w)

Next == GuiNext \/ \E w \in Workers : WorkerNext(w)

Spec == Init /\ [][Next]_vars

\* Every thread runs: the GUI thread ends what it has begun, and a worker takes its next step.
Fairness ==
    /\ WF_vars(ResetNonce)
    /\ WF_vars(Wait)
    /\ \A w \in Workers :
        /\ WF_vars(StopWorker(w) \/ QuitThread(w))
        /\ WF_vars(WorkerNext(w))

FairSpec == Spec /\ Fairness

-----------------------------------------------------------------------------
\* A worker, a queued signal or the socket has the share.
Holds(w, share) == thread[w] = "hash" /\ <<localJob[w], localNonce[w]>> = share
Queued(share) == {i \in DOMAIN posted : posted[i] = share}

\* Every nonce of the current job is tried by one worker only, and its share is queued or
\* submitted once: it is never with two of the workers, the queue and the socket.
TriedOnce ==
    \A n \in Nonces :
        LET share == <<m_currentJob, n>> IN
        m_currentJob \in Jobs =>
            /\ \A v, w \in Workers : Holds(v, share) /\ Holds(w, share) => v = w
            /\ \A i, k \in Queued(share) : i = k
            /\ (\E w \in Workers : Holds(w, share)) => Queued(share) = {} /\ sent[share] = 0
            /\ Queued(share) # {} => sent[share] = 0
            /\ sent[share] <= 1

\* The pool gets a share at most once, and only of the current job: the shares that workers
\* post for an older job are dropped.
Ledger == INSTANCE ShareLedger WITH job <- m_currentJob, Nonces <- Nonces
ImplementsLedger == Ledger!LedgerSpec

\* A worker that sleeps, or hashes an old job, comes to the new one by itself.
Working(w) == w \notin told /\ m_nonce < MaxNonce
NewJobReached ==
    \A w \in Workers, j \in Jobs :
        m_currentJob = j /\ Working(w) ~> localJob[w] = j \/ m_currentJob # j \/ ~Working(w)

\* Miner::stop() returns, when every thread had run Worker::start() before stop() was called.
\* (A worker that starts between its stop() and its quit() is never stopped.)
StopEnds ==
    gui = "stop" /\ told = {} /\ (\A w \in Workers : thread[w] # "starting") ~>
        gui = "done" \/ m_nonce = MaxNonce
=============================================================================
