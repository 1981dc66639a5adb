--------------------------- MODULE StratumClient ---------------------------
(***************************************************************************)
(* The connection of StratumClient to its pool, started and stopped by     *)
(* Miner and MiningFrame.  Everything here runs on the GUI thread.         *)
(*                                                                         *)
(* stop() waits for the socket in an event loop of its own, so the events  *)
(* it lets through run inside it, and may call stop() again: `stack` holds *)
(* the nested waits, and the readyRead() calls they interrupt.             *)
(*                                                                         *)
(* Qt's socket is modelled as far as the code uses it.  Disconnecting ends *)
(* at once unless there are unsent bytes, a host that is still being       *)
(* connected to is left when the connection is made, and only a socket     *)
(* that was connected emits disconnected().                                *)
(***************************************************************************)
EXTENDS Naturals, Sequences

CONSTANTS
    MaxRequests,   \* bound on the requests of a client
    MaxLines,      \* bound on the lines that arrive together
    MaxDepth,      \* bound on the nesting of event loops and readyRead() calls
    Impatient,     \* the user does not wait for stopMining()
    BadPools       \* a pool of the list may have no valid URL

ASSUME BoundsAssumption ==
    /\ MaxRequests \in Nat
    /\ MaxLines \in Nat
    /\ MaxDepth \in Nat
    /\ Impatient \in BOOLEAN
    /\ BadPools \in BOOLEAN

VARIABLES
    sock,          \* m_socket->state()
    unsent,        \* the socket has bytes to write
    pendingClose,  \* disconnectFromHost() was called while connecting
    m_miner,       \* of MiningFrame: "none", "running", or "stopped" until deleteLater() acts
    startChecked,  \* MiningFrame's start button is checked, not its stop button
    stack,
    reconnectTimer, responseTimer,   \* m_reconnectTimerId, m_responseTimerId are set
    m_activeRequestMap,
    m_requestCounter,
    m_currentSessionId, m_currentJob,   \* they are set
    posted         \* a submitShareSignal for the current job is queued

socket == <<sock, unsent, pendingClose>>
timers == <<reconnectTimer, responseTimer>>
session == <<m_activeRequestMap, m_requestCounter, m_currentSessionId, m_currentJob, posted>>
vars == <<socket, m_miner, startChecked, stack, timers, session>>

Requests == [id : 1..MaxRequests, method : {"login", "submit"}]

\* What a line from the pool is: a job, or an answer to some request, with or without a job.
Job == [type |-> "job", id |-> 0]
Lines == {Job} \cup [type : {"accepted", "acceptedWithJob", "refused"}, id : 1..MaxRequests]
Frames ==
    [kind : {"read"}, lines : Seq(Lines)]
    \cup [kind : {"wait"}, then : {"reconnect", "miner"}, quit : BOOLEAN, timeout : BOOLEAN]

TypeOK ==
    /\ sock \in {"unconnected", "connecting", "connected", "closing"}
    /\ unsent \in BOOLEAN
    /\ pendingClose \in BOOLEAN
    /\ m_miner \in {"none", "running", "stopped"}
    /\ startChecked \in BOOLEAN
    /\ stack \in Seq(Frames)
    /\ reconnectTimer \in BOOLEAN
    /\ responseTimer \in BOOLEAN
    /\ m_activeRequestMap \in SUBSET Requests
    /\ m_requestCounter \in 0..MaxRequests
    /\ m_currentSessionId \in BOOLEAN
    /\ m_currentJob \in BOOLEAN
    /\ posted \in BOOLEAN

Init ==
    /\ sock = "unconnected" /\ unsent = FALSE /\ pendingClose = FALSE
    /\ m_miner = "none" /\ startChecked = FALSE
    /\ stack = <<>>
    /\ reconnectTimer = FALSE /\ responseTimer = FALSE
    /\ m_activeRequestMap = {} /\ m_requestCounter = 0
    /\ m_currentSessionId = FALSE /\ m_currentJob = FALSE /\ posted = FALSE

-----------------------------------------------------------------------------
(* The nested calls. *)

Waits(call) == call.kind = "wait"
top == stack[Len(stack)]
callers == SubSeq(stack, 1, Len(stack) - 1)

\* An event loop runs: the innermost stop()'s, or the main one.  deleteLater() acts before
\* the next event: in the main loop by DeleteMiner, while a wait of stop() inside it would
\* be left with a dead client, where the model ends.
InLoop == m_miner # "stopped" /\ (stack # <<>> => Waits(top) /\ ~top.quit)

\* stopMining() waits.  A patient user starts, stops and closes nothing before it returns.
Stopping == \E i \in DOMAIN stack : Waits(stack[i]) /\ stack[i].then = "miner"
UserActs == InLoop /\ (Stopping => Impatient)

\* disconnected() ends every wait on the stack.
Disconnected(calls) ==
    [i \in DOMAIN calls |-> IF Waits(calls[i]) THEN [calls[i] EXCEPT !.quit = TRUE] ELSE calls[i]]

\* Mutation of FinishStop: reconnect() starts no timer.
FinishStopForGood(then) ==
    /\ reconnectTimer' = FALSE
    /\ responseTimer' = FALSE
    /\ m_activeRequestMap' = {}
    /\ m_currentSessionId' = FALSE /\ m_currentJob' = FALSE /\ posted' = FALSE
    /\ m_miner' = IF then = "miner" THEN "stopped" ELSE m_miner
    /\ UNCHANGED m_requestCounter

\* The end of stop() and of its caller: reconnect() starts its timer, stopMining() leaves the
\* miner to deleteLater().
FinishStop(then) ==
    /\ reconnectTimer' = (then = "reconnect")
    /\ responseTimer' = FALSE
    /\ m_activeRequestMap' = {}
    /\ m_currentSessionId' = FALSE /\ m_currentJob' = FALSE /\ posted' = FALSE
    /\ m_miner' = IF then = "miner" THEN "stopped" ELSE m_miner
    /\ UNCHANGED m_requestCounter

\* stop() called by calls: disconnectFromHost() leaves the socket unconnected and stop()
\* ends, or stop() waits, with the response timer set or not and these requests unanswered.
Stop(then, calls, response, requests) ==
    \/ /\ sock = "unconnected" \/ (sock = "connected" /\ ~unsent)
       /\ sock' = "unconnected"
       /\ stack' = IF sock = "connected" THEN Disconnected(calls) ELSE calls
       /\ FinishStop(then)
       /\ UNCHANGED <<unsent, pendingClose>>
    \/ /\ sock \in {"connecting", "closing"} \/ (sock = "connected" /\ unsent)
       /\ Len(calls) < MaxDepth
       /\ sock' = IF sock = "connected" THEN "closing" ELSE sock
       /\ pendingClose' = (pendingClose \/ sock = "connecting")
       /\ stack' = Append(calls, [kind |-> "wait", then |-> then, quit |-> FALSE, timeout |-> FALSE])
       /\ responseTimer' = response
       /\ m_activeRequestMap' = requests
       /\ UNCHANGED <<unsent, m_miner, reconnectTimer, m_requestCounter, m_currentSessionId,
                      m_currentJob, posted>>

\* Mutation of SendRequest: the request is kept under the number of the one before.
SendRequestEarlyId(method) ==
    /\ m_requestCounter < MaxRequests
    /\ m_requestCounter' = m_requestCounter + 1
    /\ m_activeRequestMap' = m_activeRequestMap \cup {[id |-> m_requestCounter, method |-> method]}
    /\ responseTimer' = TRUE

\* sendRequest().
SendRequest(method) ==
    /\ m_requestCounter < MaxRequests
    /\ m_requestCounter' = m_requestCounter + 1
    /\ m_activeRequestMap' = m_activeRequestMap \cup {[id |-> m_requestCounter', method |-> method]}
    /\ responseTimer' = TRUE

\* start(): connectToHost() does nothing to a socket that is in use.
ConnectToHost == sock' = IF sock = "unconnected" THEN "connecting" ELSE sock

-----------------------------------------------------------------------------
(* MiningFrame.  The button that is checked is disabled. *)

\* startMining(): a new miner is started.  With a miner its assertion fails.  A pool without a
\* valid URL checks the stop button, which starts the miner all the same and stops nothing.
ClickStart ==
    /\ UserActs
    /\ ~startChecked
    /\ startChecked' = TRUE \/ (BadPools /\ UNCHANGED startChecked)
    /\ IF m_miner = "none"
       THEN m_miner' = "running" /\ m_requestCounter' = 0 /\ ConnectToHost
       ELSE UNCHANGED <<m_miner, m_requestCounter, sock>>
    /\ UNCHANGED <<unsent, pendingClose, stack, timers, m_activeRequestMap, m_currentSessionId,
                   m_currentJob, posted>>

\* stopMining(), if there is a miner.
ClickStop ==
    /\ UserActs
    /\ startChecked
    /\ startChecked' = FALSE
    /\ IF m_miner = "running"
       THEN Stop("miner", stack, responseTimer, m_activeRequestMap)
       ELSE UNCHANGED <<socket, m_miner, stack, timers, session>>

\* walletClosed() stops mining too, and leaves the buttons as they are.
WalletClosed ==
    /\ UserActs
    /\ m_miner = "running"
    /\ Stop("miner", stack, responseTimer, m_activeRequestMap)
    /\ UNCHANGED startChecked

\* ~Miner() calls stop() again, with no connection to wait for.
DeleteMiner ==
    /\ stack = <<>>
    /\ m_miner = "stopped"
    /\ m_miner' = "none"
    /\ reconnectTimer' = FALSE /\ responseTimer' = FALSE
    /\ m_activeRequestMap' = {}
    /\ m_currentSessionId' = FALSE /\ m_currentJob' = FALSE /\ posted' = FALSE
    /\ UNCHANGED <<socket, startChecked, stack, m_requestCounter>>

-----------------------------------------------------------------------------
(* Socket events. *)

\* connectedToHost() logs in; a socket that was to be closed then closes.
Connected ==
    /\ InLoop
    /\ sock = "connecting"
    /\ SendRequest("login")
    /\ sock' = IF pendingClose THEN "closing" ELSE "connected"
    /\ unsent' = TRUE /\ pendingClose' = FALSE
    /\ UNCHANGED <<m_miner, startChecked, stack, reconnectTimer, m_currentSessionId,
                   m_currentJob, posted>>

\* socketError() reconnects.  The socket of a failed attempt is unconnected already.
ConnectFails ==
    /\ InLoop
    /\ sock = "connecting"
    /\ sock' = "unconnected" /\ pendingClose' = FALSE
    /\ FinishStop("reconnect")
    /\ UNCHANGED <<unsent, startChecked, stack>>

\* The connection is lost, or the bytes that closing waits for cannot be written.
SocketError ==
    /\ InLoop
    /\ sock \in {"connected", "closing"}
    /\ Stop("reconnect", stack, responseTimer, m_activeRequestMap)
    /\ UNCHANGED startChecked

\* All bytes are written, and a closing socket is disconnected.
Written ==
    /\ InLoop
    /\ unsent
    /\ unsent' = FALSE
    /\ sock' = IF sock = "closing" THEN "unconnected" ELSE sock
    /\ stack' = IF sock = "closing" THEN Disconnected(stack) ELSE stack
    /\ UNCHANGED <<pendingClose, m_miner, startChecked, timers, session>>

\* readyRead() stops the response timer.  The socket does not emit it again inside it.
ReadyRead(lines) ==
    /\ InLoop
    /\ sock \in {"connected", "closing"}
    /\ \A i \in DOMAIN stack : Waits(stack[i])
    /\ Len(stack) + 1 < MaxDepth
    /\ responseTimer' = FALSE
    /\ stack' = Append(stack, [kind |-> "read", lines |-> lines])
    /\ UNCHANGED <<socket, m_miner, startChecked, reconnectTimer, session>>

-----------------------------------------------------------------------------
(* readyRead(), line by line. *)

\* The next line is of this type, and is taken.
Line(type) ==
    /\ stack # <<>> /\ ~Waits(top) /\ top.lines # <<>>
    /\ Head(top.lines).type = type
line == Head(top.lines)
afterLine == Append(callers, [top EXCEPT !.lines = Tail(@)])

\* The request that the line answers.
Answered == {r \in m_activeRequestMap : r.id = line.id}
Login == \E r \in Answered : r.method = "login"

\* processNotification(): updateJob().
ReadJob ==
    /\ Line("job")
    /\ stack' = afterLine
    /\ m_currentJob' = TRUE /\ posted' = FALSE
    /\ UNCHANGED <<socket, m_miner, startChecked, timers, m_activeRequestMap, m_requestCounter,
                   m_currentSessionId>>

\* processData(), processLoginResponce(): an accepted login gives a session and maybe a job.
\* What answers no request is ignored.
ReadAccepted ==
    /\ Line("accepted") \/ Line("acceptedWithJob") \/ (Line("refused") /\ ~Login)
    /\ stack' = afterLine
    /\ m_activeRequestMap' = m_activeRequestMap \ Answered
    /\ m_currentSessionId' = (m_currentSessionId \/ Login)
    /\ IF Login /\ line.type = "acceptedWithJob"
       THEN m_currentJob' = TRUE /\ posted' = FALSE
       ELSE UNCHANGED <<m_currentJob, posted>>
    /\ UNCHANGED <<socket, m_miner, startChecked, timers, m_requestCounter>>

\* A refused login reconnects; the lines after it are read when stop() has returned.
ReadRefused ==
    /\ Line("refused") /\ Login
    /\ Stop("reconnect", afterLine, responseTimer, m_activeRequestMap \ Answered)
    /\ UNCHANGED startChecked

EndOfLines ==
    /\ stack # <<>> /\ ~Waits(top) /\ top.lines = <<>>
    /\ stack' = callers
    /\ UNCHANGED <<socket, m_miner, startChecked, timers, session>>

ReadLine == ReadJob \/ ReadAccepted \/ ReadRefused \/ EndOfLines

-----------------------------------------------------------------------------
(* Timers and posted shares. *)

\* Mutation of ReconnectTimer: the timer goes on.
ReconnectTimerGoesOn ==
    /\ InLoop
    /\ reconnectTimer
    /\ ConnectToHost
    /\ UNCHANGED <<unsent, pendingClose, m_miner, startChecked, stack, timers, session>>

ReconnectTimer ==
    /\ InLoop
    /\ reconnectTimer
    /\ reconnectTimer' = FALSE
    /\ ConnectToHost
    /\ UNCHANGED <<unsent, pendingClose, m_miner, startChecked, stack, responseTimer, session>>

\* The response timer is reset, then reconnect().
ResponseTimer ==
    /\ InLoop
    /\ responseTimer
    /\ Stop("reconnect", stack, FALSE, m_activeRequestMap)
    /\ UNCHANGED startChecked

\* Mutation of StopTimer: the timer is not connected to the event loop.
StopTimerQuitsNothing(i) ==
    /\ InLoop
    /\ i \in DOMAIN stack
    /\ Waits(stack[i]) /\ ~stack[i].timeout
    /\ stack' = [stack EXCEPT ![i].timeout = TRUE]
    /\ UNCHANGED <<socket, m_miner, startChecked, timers, session>>

\* disconnectTimer of the stop() at place i ends its wait.
StopTimer(i) ==
    /\ InLoop
    /\ i \in DOMAIN stack
    /\ Waits(stack[i]) /\ ~stack[i].timeout
    /\ stack' = [stack EXCEPT ![i].timeout = TRUE, ![i].quit = TRUE]
    /\ UNCHANGED <<socket, m_miner, startChecked, timers, session>>

\* Mutation of EndWait: a connection that did not end in time is left alone.
EndWaitLeavesSocket ==
    /\ stack # <<>> /\ Waits(top) /\ top.quit
    /\ stack' = callers
    /\ FinishStop(top.then)
    /\ UNCHANGED <<socket, startChecked>>

\* stop() after its wait: abort() when the time was up.  Whether the abort of an attempt to
\* connect emits disconnected() is left open.
EndWait ==
    /\ stack # <<>> /\ Waits(top) /\ top.quit
    /\ IF top.timeout /\ sock # "unconnected"
       THEN /\ sock' = "unconnected" /\ unsent' = FALSE /\ pendingClose' = FALSE
            /\ \/ stack' = Disconnected(callers)
               \/ sock = "connecting" /\ stack' = callers
       ELSE /\ stack' = callers
            /\ UNCHANGED socket
    /\ FinishStop(top.then)
    /\ UNCHANGED startChecked

\* A worker found a share of the current job.
PostShare ==
    /\ m_currentJob /\ ~posted
    /\ posted' = TRUE
    /\ UNCHANGED <<socket, m_miner, startChecked, stack, timers, m_activeRequestMap,
                   m_requestCounter, m_currentSessionId, m_currentJob>>

\* submitShare(); QAbstractSocket takes bytes while it is connected or closing.
SubmitShare ==
    /\ InLoop
    /\ posted
    /\ posted' = FALSE
    /\ SendRequest("submit")
    /\ unsent' = (unsent \/ sock \in {"connected", "closing"})
    /\ UNCHANGED <<sock, pendingClose, m_miner, startChecked, stack, reconnectTimer,
                   m_currentSessionId, m_currentJob>>

-----------------------------------------------------------------------------
Next ==
    \/ ClickStart \/ ClickStop \/ WalletClosed \/ DeleteMiner
    \/ Connected \/ ConnectFails \/ SocketError \/ Written
    \/ \E n \in 0..MaxLines : \E lines \in [1..n -> Lines] : ReadyRead(lines)
    \/ ReadLine
    \/ ReconnectTimer \/ ResponseTimer
    \/ \E i \in 1..MaxDepth : StopTimer(i)
    \/ EndWait
    \/ PostShare \/ SubmitShare

Spec == Init /\ [][Next]_vars

\* The GUI thread goes on with what it does, and the main loop deletes what deleteLater()
\* was called for.  A timer that is due, or an attempt to connect that has ended, is handled
\* when an event loop comes round to it, whatever was called in between.  Nothing is asked
\* of the pool.
FairSpec ==
    /\ Spec
    /\ WF_vars(ReadLine) /\ WF_vars(EndWait) /\ WF_vars(DeleteMiner)
    /\ SF_vars(ReconnectTimer)
    /\ \A i \in 1..MaxDepth : SF_vars(StopTimer(i))
    /\ SF_vars(Connected \/ ConnectFails)

-----------------------------------------------------------------------------
\* The assertion of start(), that the socket is not connected: however stop() calls nest, a
\* reconnect timer never runs beside a connection.
NoTimerWhenConnected == reconnectTimer => sock # "connected"

\* When stopMining() has returned to the main loop, its connection is closed and no request
\* waits for an answer, however the waits of stop() ended and whatever ran inside them.
StoppedForGood ==
    m_miner # "running" /\ stack = <<>> =>
        sock = "unconnected" /\ ~responseTimer /\ m_activeRequestMap = {}

\* Whatever goes wrong, a miner that has lost its pool tries again.
Retries == (m_miner = "running" /\ sock = "unconnected") ~> (m_miner # "running" \/ sock = "connecting")

\* Stopping ends, whatever the pool does.
StopReturns == Stopping ~> m_miner # "running"

\* The assertion of sendRequest(), that the socket is connected, when it sends a share.
Submits == \E r \in m_activeRequestMap' \ m_activeRequestMap : r.method = "submit"
SubmitsConnected == [][Submits => sock = "connected"]_vars

\* The assertion of startMining(), that there is no miner.
StartFindsNoMiner == [][~startChecked /\ startChecked' => m_miner = "none"]_vars
=============================================================================
