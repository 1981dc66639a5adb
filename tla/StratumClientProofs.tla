------------------------ MODULE StratumClientProofs ------------------------
(***************************************************************************)
(* Proofs about StratumClient, for any number of requests, of lines and of *)
(* nested calls, and for a patient and an impatient user: the connection   *)
(* is closed when a miner has been stopped, and no reconnect timer runs    *)
(* beside a connection.                                                    *)
(*                                                                         *)
(* Neither is inductive.  When a wait of stop() ends without a timeout, it *)
(* is because disconnected() came, which ends the waits it is nested in,   *)
(* too: nothing connects the socket before they have all returned          *)
(* (EndedWaits).  That is why a stop() that returns leaves a closed        *)
(* connection, and why no timer or request is left when the miner is not   *)
(* running (NotRunning).                                                   *)
(***************************************************************************)
EXTENDS StratumClient, SequenceTheorems, TLAPS

\* A wait that has ended before its time has ended with all others, and with the connection.
EndedWaits(calls) ==
    (\E i \in DOMAIN calls : Waits(calls[i]) /\ calls[i].quit /\ ~calls[i].timeout) =>
        /\ sock = "unconnected"
        /\ \A i \in DOMAIN calls : Waits(calls[i]) => calls[i].quit

TimerWaits == reconnectTimer => sock = "unconnected"

NotRunning ==
    m_miner # "running" => sock = "unconnected" /\ ~responseTimer /\ m_activeRequestMap = {}

NoMiner == m_miner = "none" => stack = <<>> /\ ~reconnectTimer /\ ~m_currentJob /\ ~posted

IInv == TypeOK /\ EndedWaits(stack) /\ TimerWaits /\ NotRunning /\ NoMiner

-----------------------------------------------------------------------------
(* The calls on the stack. *)

\* disconnected() changes no more than quit, and that of every wait.
LEMMA DisconnectedCalls ==
    ASSUME NEW calls \in Seq(Frames)
    PROVE  /\ Disconnected(calls) \in Seq(Frames)
           /\ DOMAIN Disconnected(calls) = DOMAIN calls
           /\ Disconnected(calls) = <<>> <=> calls = <<>>
           /\ \A i \in DOMAIN calls :
                  Waits(Disconnected(calls)[i]) => Disconnected(calls)[i].quit
<1> DEFINE D == Disconnected(calls)
<1>1. ASSUME NEW i \in DOMAIN calls
      PROVE  D[i] \in Frames /\ (Waits(D[i]) => D[i].quit)
    <2>1. calls[i] \in Frames
        OBVIOUS
    <2>2. CASE Waits(calls[i])
        <3>1. calls[i] \in [kind : {"wait"}, then : {"reconnect", "miner"}, quit : BOOLEAN,
                            timeout : BOOLEAN]
            BY <2>1, <2>2 DEF Frames, Waits
        <3>2. D[i] = [calls[i] EXCEPT !.quit = TRUE]
            BY <2>2 DEF Disconnected
        <3> QED BY <3>1, <3>2 DEF Frames
    <2>3. CASE ~Waits(calls[i])
        BY <2>1, <2>3 DEF Disconnected
    <2> QED BY <2>2, <2>3
<1>2. D = [i \in 1..Len(calls) |-> D[i]] /\ DOMAIN calls = 1..Len(calls) /\ Len(calls) \in Nat
    BY DEF Disconnected
<1>3. D \in Seq(Frames)
    BY <1>1, <1>2, IsASeq
<1> QED BY <1>1, <1>2, <1>3, EmptySeq DEF Disconnected

\* What is left when the innermost call returns.
LEMMA CallersOf ==
    ASSUME stack \in Seq(Frames), stack # <<>>
    PROVE  /\ top \in Frames
           /\ callers \in Seq(Frames)
           /\ Len(stack) \in DOMAIN stack
           /\ \A i \in DOMAIN callers : i \in DOMAIN stack /\ callers[i] = stack[i]
<1>1. Len(stack) \in Nat \ {0}
    BY EmptySeq
<1> QED BY <1>1, SubSeqProperties DEF callers, top

\* The wait of stop(), and the rest of the lines, are calls.
LEMMA CallAppended ==
    ASSUME NEW calls \in Seq(Frames), NEW call \in Frames
    PROVE  /\ Append(calls, call) \in Seq(Frames)
           /\ Append(calls, call) # <<>>
           /\ DOMAIN Append(calls, call) = DOMAIN calls \cup {Len(calls) + 1}
           /\ \A i \in DOMAIN calls : Append(calls, call)[i] = calls[i]
           /\ Append(calls, call)[Len(calls) + 1] = call
BY AppendProperties

\* The rest of the lines replaces the lines: no wait is changed.
LEMMA AfterLine ==
    ASSUME TypeOK, EndedWaits(stack), stack # <<>>, ~Waits(top), top.lines # <<>>
    PROVE  /\ afterLine \in Seq(Frames)
           /\ afterLine # <<>>
           /\ EndedWaits(afterLine)
           /\ line \in Lines
<1> DEFINE read == [top EXCEPT !.lines = Tail(@)]
<1>1. top \in Frames /\ callers \in Seq(Frames) /\ Len(stack) \in DOMAIN stack
      /\ \A i \in DOMAIN callers : i \in DOMAIN stack /\ callers[i] = stack[i]
    BY CallersOf DEF TypeOK
<1>2. top \in [kind : {"read"}, lines : Seq(Lines)]
    BY <1>1 DEF Frames, Waits
<1>3. Tail(top.lines) \in Seq(Lines) /\ Head(top.lines) \in Lines
    BY <1>2, HeadTailProperties
<1>4. read \in Frames /\ ~Waits(read)
    BY <1>2, <1>3 DEF Frames, Waits
<1>5. /\ afterLine \in Seq(Frames) /\ afterLine # <<>>
      /\ DOMAIN afterLine = DOMAIN callers \cup {Len(callers) + 1}
      /\ \A i \in DOMAIN callers : afterLine[i] = callers[i]
      /\ afterLine[Len(callers) + 1] = read
    BY <1>1, <1>4, CallAppended DEF afterLine
<1>6. \A i \in DOMAIN afterLine :
          Waits(afterLine[i]) => i \in DOMAIN stack /\ afterLine[i] = stack[i]
    BY <1>1, <1>4, <1>5
<1>7. EndedWaits(afterLine)
    BY <1>6 DEF EndedWaits
<1> QED BY <1>3, <1>5, <1>7 DEF line

-----------------------------------------------------------------------------
(* What the actions have in common. *)

\* stop() keeps the invariant, whatever it is called from.
LEMMA StopKeeps ==
    ASSUME IInv, m_miner = "running", startChecked' \in BOOLEAN,
           NEW then \in {"reconnect", "miner"}, NEW calls \in Seq(Frames), EndedWaits(calls),
           NEW response \in BOOLEAN, NEW requests \in SUBSET Requests,
           Stop(then, calls, response, requests)
    PROVE  IInv'
<1> USE DEF IInv, TypeOK, TimerWaits, NotRunning, NoMiner
<1>1. CASE /\ sock = "unconnected" \/ (sock = "connected" /\ ~unsent)
           /\ sock' = "unconnected"
           /\ stack' = IF sock = "connected" THEN Disconnected(calls) ELSE calls
           /\ FinishStop(then)
           /\ UNCHANGED <<unsent, pendingClose>>
    <2>1. stack' \in Seq(Frames) /\ EndedWaits(stack)'
        BY <1>1, DisconnectedCalls DEF EndedWaits
    <2> QED BY <1>1, <2>1 DEF FinishStop
<1>2. CASE /\ sock \in {"connecting", "closing"} \/ (sock = "connected" /\ unsent)
           /\ sock' = IF sock = "connected" THEN "closing" ELSE sock
           /\ pendingClose' = (pendingClose \/ sock = "connecting")
           /\ stack' = Append(calls, [kind |-> "wait", then |-> then, quit |-> FALSE, timeout |-> FALSE])
           /\ responseTimer' = response
           /\ m_activeRequestMap' = requests
           /\ UNCHANGED <<unsent, m_miner, reconnectTimer, m_requestCounter, m_currentSessionId,
                          m_currentJob, posted>>
    <2> DEFINE wait == [kind |-> "wait", then |-> then, quit |-> FALSE, timeout |-> FALSE]
    <2>1. wait \in Frames
        BY DEF Frames
    <2>2. /\ stack' \in Seq(Frames)
          /\ DOMAIN stack' = DOMAIN calls \cup {Len(calls) + 1}
          /\ \A i \in DOMAIN calls : stack'[i] = calls[i]
          /\ stack'[Len(calls) + 1] = wait
        BY <1>2, <2>1, CallAppended
    <2>3. ~wait.quit
        OBVIOUS
    <2>4. \A i \in DOMAIN calls : ~(Waits(calls[i]) /\ calls[i].quit /\ ~calls[i].timeout)
        BY <1>2 DEF EndedWaits
    <2>5. EndedWaits(stack)'
        BY <2>2, <2>3, <2>4 DEF EndedWaits
    <2> QED BY <1>2, <2>2, <2>5
<1> QED BY <1>1, <1>2 DEF Stop

\* A request has the next number.
LEMMA RequestKept ==
    ASSUME TypeOK, NEW method \in {"login", "submit"}, SendRequest(method)
    PROVE  /\ m_activeRequestMap' \in SUBSET Requests
           /\ m_requestCounter' \in 0..MaxRequests
           /\ responseTimer' \in BOOLEAN
BY BoundsAssumption DEF TypeOK, SendRequest, Requests

\* Where an event loop runs, no wait has ended without its timeout.
LEMMA NoneEnded ==
    ASSUME IInv, InLoop
    PROVE  \A i \in DOMAIN stack : ~(Waits(stack[i]) /\ stack[i].quit /\ ~stack[i].timeout)
<1>1. CASE stack = <<>>
    BY <1>1
<1>2. CASE stack # <<>>
    <2>1. Len(stack) \in DOMAIN stack
        BY <1>2, CallersOf DEF IInv, TypeOK
    <2> QED BY <1>2, <2>1 DEF IInv, EndedWaits, InLoop, top
<1> QED BY <1>1, <1>2

-----------------------------------------------------------------------------
(* The actions, one by one. *)

LEMMA InitInductive == Init => IInv
<1> SUFFICES ASSUME Init PROVE IInv
    OBVIOUS
<1>1. stack \in Seq(Frames) /\ DOMAIN stack = {}
    BY DEF Init
<1>2. TypeOK
    <2>1. m_activeRequestMap \in SUBSET Requests /\ m_requestCounter \in 0..MaxRequests
        BY BoundsAssumption DEF Init
    <2> QED BY <1>1, <2>1 DEF Init, TypeOK
<1>3. EndedWaits(stack)
    BY <1>1 DEF EndedWaits
<1> QED BY <1>2, <1>3 DEF Init, IInv, TimerWaits, NotRunning, NoMiner

\* MiningFrame: mining starts with a new miner, and ends in stop().
LEMMA FrameSteps ==
    ASSUME IInv, ClickStart \/ ClickStop \/ WalletClosed \/ DeleteMiner
    PROVE  IInv'
<1> USE DEF IInv
<1>1. CASE ClickStart
    <2>1. startChecked' \in BOOLEAN
        BY <1>1 DEF ClickStart, TypeOK
    <2>2. /\ InLoop
          /\ IF m_miner = "none"
             THEN m_miner' = "running" /\ m_requestCounter' = 0 /\ ConnectToHost
             ELSE UNCHANGED <<m_miner, m_requestCounter, sock>>
          /\ UNCHANGED <<unsent, pendingClose, stack, timers, m_activeRequestMap, m_currentSessionId,
                         m_currentJob, posted>>
        BY <1>1 DEF ClickStart, UserActs
    <2> QED BY <2>1, <2>2, NoneEnded, BoundsAssumption
           DEF TypeOK, EndedWaits, TimerWaits, NotRunning, NoMiner, ConnectToHost, timers
<1>2. CASE ClickStop
    <2>1. CASE m_miner = "running"
        BY <1>2, <2>1, StopKeeps DEF ClickStop, TypeOK
    <2>2. CASE m_miner # "running"
        BY <1>2, <2>2
           DEF ClickStop, TypeOK, EndedWaits, TimerWaits, NotRunning, NoMiner, socket, timers, session
    <2> QED BY <2>1, <2>2
<1>3. CASE WalletClosed
    BY <1>3, StopKeeps DEF WalletClosed, TypeOK
<1>4. CASE DeleteMiner
    BY <1>4 DEF DeleteMiner, TypeOK, EndedWaits, TimerWaits, NotRunning, NoMiner, socket
<1> QED BY <1>1, <1>2, <1>3, <1>4

\* The socket: it connects while no timer runs and no wait has ended.
LEMMA SocketSteps ==
    ASSUME IInv, Connected \/ ConnectFails \/ SocketError \/ Written
    PROVE  IInv'
<1> USE DEF IInv
<1>1. CASE Connected
    BY <1>1, NoneEnded, RequestKept
       DEF Connected, TypeOK, EndedWaits, TimerWaits, NotRunning, NoMiner
<1>2. CASE ConnectFails
    BY <1>2, NoneEnded
       DEF ConnectFails, FinishStop, TypeOK, EndedWaits, TimerWaits, NotRunning, NoMiner
<1>3. CASE SocketError
    BY <1>3, StopKeeps DEF SocketError, TypeOK, NotRunning
<1>4. CASE Written
    <2>1. stack' \in Seq(Frames) /\ EndedWaits(stack)' /\ (stack' = <<>> <=> stack = <<>>)
        BY <1>4, NoneEnded, DisconnectedCalls DEF Written, TypeOK, EndedWaits
    <2> QED BY <1>4, <2>1 DEF Written, TypeOK, TimerWaits, NotRunning, NoMiner, timers, session
<1> QED BY <1>1, <1>2, <1>3, <1>4

\* readyRead() is no wait, and what it reads stops only a miner that runs.
LEMMA ReadSteps ==
    ASSUME IInv,
           \/ \E n \in 0..MaxLines : \E lines \in [1..n -> Lines] : ReadyRead(lines)
           \/ ReadLine
    PROVE  IInv'
<1> USE DEF IInv
<1>1. ASSUME NEW n \in 0..MaxLines, NEW lines \in [1..n -> Lines], ReadyRead(lines)
      PROVE  IInv'
    <2> DEFINE read == [kind |-> "read", lines |-> lines]
    <2>1. lines \in Seq(Lines)
        BY DEF BoundsAssumption
    <2>2. read \in Frames /\ ~Waits(read)
        BY <2>1 DEF Frames, Waits
    <2>3. /\ stack' \in Seq(Frames) /\ stack' # <<>>
          /\ DOMAIN stack' = DOMAIN stack \cup {Len(stack) + 1}
          /\ \A i \in DOMAIN stack : stack'[i] = stack[i]
          /\ stack'[Len(stack) + 1] = read
        BY <1>1, <2>2, CallAppended DEF ReadyRead, TypeOK
    <2>4. EndedWaits(stack)'
        BY <1>1, <2>2, <2>3, NoneEnded DEF ReadyRead, EndedWaits
    <2> QED BY <1>1, <2>3, <2>4
           DEF ReadyRead, TypeOK, TimerWaits, NotRunning, NoMiner, socket, session
<1>2. CASE ReadJob
    BY <1>2, AfterLine
       DEF ReadJob, Line, TypeOK, EndedWaits, TimerWaits, NotRunning, NoMiner, socket, timers
<1>3. CASE ReadAccepted
    <2>1. stack # <<>> /\ ~Waits(top) /\ top.lines # <<>>
        BY <1>3 DEF ReadAccepted, Line
    <2>2. m_activeRequestMap' \in SUBSET Requests /\ m_currentSessionId' \in BOOLEAN
        BY <1>3 DEF ReadAccepted, TypeOK, Login, Answered
    <2> QED BY <1>3, <2>1, <2>2, AfterLine, ZenonT(40)
           DEF ReadAccepted, TypeOK, EndedWaits, TimerWaits, NotRunning, NoMiner, socket, timers
<1>4. CASE ReadRefused
    <2>1. stack # <<>> /\ ~Waits(top) /\ top.lines # <<>>
        BY <1>4 DEF ReadRefused, Line
    <2>2. m_miner = "running"
        BY <1>4 DEF ReadRefused, Login, Answered, NotRunning, TypeOK
    <2>3. m_activeRequestMap \ Answered \in SUBSET Requests
        BY DEF TypeOK
    <2> QED BY <1>4, <2>1, <2>2, <2>3, AfterLine, StopKeeps DEF ReadRefused, TypeOK
<1>5. CASE EndOfLines
    <2>1. callers \in Seq(Frames) /\ EndedWaits(callers)
        BY <1>5, CallersOf DEF EndOfLines, TypeOK, EndedWaits
    <2> QED BY <1>5, <2>1
           DEF EndOfLines, TypeOK, EndedWaits, TimerWaits, NotRunning, NoMiner, socket, timers, session
<1> QED BY <1>1, <1>2, <1>3, <1>4, <1>5 DEF ReadLine

\* Timers fire in an event loop; the wait of a stop() ends before its stop().
LEMMA TimerSteps ==
    ASSUME IInv, ReconnectTimer \/ ResponseTimer \/ \E i \in 1..MaxDepth : StopTimer(i)
    PROVE  IInv'
<1> USE DEF IInv
<1>1. CASE ReconnectTimer
    BY <1>1, NoneEnded
       DEF ReconnectTimer, ConnectToHost, TypeOK, EndedWaits, TimerWaits, NotRunning, NoMiner,
           session, InLoop
<1>2. CASE ResponseTimer
    <2>1. m_miner = "running"
        BY <1>2 DEF ResponseTimer, NotRunning
    <2> QED BY <1>2, <2>1, StopKeeps DEF ResponseTimer, TypeOK
<1>3. ASSUME NEW i \in 1..MaxDepth, StopTimer(i)
      PROVE  IInv'
    <2> DEFINE wait == [stack[i] EXCEPT !.timeout = TRUE, !.quit = TRUE]
    <2>1. i \in DOMAIN stack /\ Waits(stack[i]) /\ stack' = [stack EXCEPT ![i] = wait]
        BY <1>3 DEF StopTimer, TypeOK
    <2>2. stack[i] \in [kind : {"wait"}, then : {"reconnect", "miner"}, quit : BOOLEAN,
                        timeout : BOOLEAN]
        BY <2>1 DEF TypeOK, Frames, Waits
    <2>3. wait \in Frames /\ wait.timeout
        BY <2>2 DEF Frames
    <2>4. /\ stack' \in Seq(Frames) /\ DOMAIN stack' = DOMAIN stack
          /\ stack'[i] = wait
          /\ \A j \in DOMAIN stack : j # i => stack'[j] = stack[j]
        BY <2>1, <2>3, ExceptSeq DEF TypeOK
    <2>5. EndedWaits(stack)'
        BY <1>3, <2>3, <2>4, NoneEnded DEF StopTimer, EndedWaits
    <2> QED BY <1>3, <2>1, <2>4, <2>5
           DEF StopTimer, TypeOK, TimerWaits, NotRunning, NoMiner, socket, timers, session
<1> QED BY <1>1, <1>2, <1>3

\* stop() after its wait: the connection is closed, by disconnected() or by abort().
LEMMA EndWaitStep ==
    ASSUME IInv, EndWait
    PROVE  IInv'
<1>1. stack \in Seq(Frames) /\ stack # <<>> /\ Waits(top) /\ top.quit
    BY DEF IInv, TypeOK, EndWait
<1>2. /\ top \in Frames /\ callers \in Seq(Frames) /\ Len(stack) \in DOMAIN stack
      /\ \A i \in DOMAIN callers : i \in DOMAIN stack /\ callers[i] = stack[i]
    BY <1>1, CallersOf
<1>3. top.then \in {"reconnect", "miner"} /\ top.timeout \in BOOLEAN
    BY <1>1, <1>2 DEF Frames, Waits
<1>4. sock' = "unconnected"
    BY <1>1, <1>2 DEF IInv, EndedWaits, EndWait, socket, top
<1>5. stack' \in Seq(Frames) /\ EndedWaits(stack)'
    <2>1. CASE top.timeout /\ sock # "unconnected" /\ stack' = Disconnected(callers)
        BY <1>2, <1>4, <2>1, DisconnectedCalls DEF EndedWaits
    <2>3. CASE sock # "unconnected" /\ stack' = callers
        BY <1>2, <1>4, <2>3 DEF EndedWaits, IInv
    <2>2. CASE ~(top.timeout /\ sock # "unconnected")
        BY <1>2, <1>4, <2>2 DEF EndWait, EndedWaits, IInv
    <2> QED BY <2>1, <2>2, <2>3 DEF EndWait
<1>6. m_miner # "none"
    BY <1>1 DEF IInv, NoMiner
<1> QED BY <1>3, <1>4, <1>5, <1>6
       DEF EndWait, FinishStop, IInv, TypeOK, TimerWaits, NotRunning, NoMiner, socket

LEMMA ShareSteps ==
    ASSUME IInv, PostShare \/ SubmitShare
    PROVE  IInv'
<1> USE DEF IInv
<1>1. CASE PostShare
    BY <1>1 DEF PostShare, TypeOK, EndedWaits, TimerWaits, NotRunning, NoMiner, socket, timers
<1>2. CASE SubmitShare
    <2>1. TypeOK'
        BY <1>2, RequestKept DEF SubmitShare, TypeOK
    <2>2. m_miner = "running"
        BY <1>2 DEF SubmitShare, InLoop, TypeOK, NoMiner
    <2> QED BY <1>2, <2>1, <2>2
           DEF SubmitShare, EndedWaits, TimerWaits, NotRunning, NoMiner
<1> QED BY <1>1, <1>2

LEMMA Inductive == Spec => []IInv
<1>1. IInv /\ [Next]_vars => IInv'
    <2> SUFFICES ASSUME IInv, [Next]_vars PROVE IInv'
        OBVIOUS
    <2>1. CASE UNCHANGED vars
        BY <2>1 DEF vars, socket, timers, session, IInv, TypeOK, EndedWaits, TimerWaits, NotRunning, NoMiner
    <2> QED BY <2>1, FrameSteps, SocketSteps, ReadSteps, TimerSteps, EndWaitStep, ShareSteps DEF Next
<1> QED BY <1>1, InitInductive, PTL DEF Spec

-----------------------------------------------------------------------------
\* The calls on the stack are waits and reads with lines of the pool, and requests are numbered
\* within the bound.
THEOREM StratumTypes == Spec => []TypeOK
BY Inductive, PTL DEF IInv

\* NoTimerWhenConnected: the assertion of start() that the socket is not connected, whatever
\* stops, errors and refusals nest, and however their waits end.
THEOREM StratumNoTimerWhenConnected == Spec => []NoTimerWhenConnected
<1>1. IInv => NoTimerWhenConnected
    BY DEF IInv, TimerWaits, NoTimerWhenConnected
<1> QED BY <1>1, Inductive, PTL

\* StoppedForGood: when stopMining() has returned to the main loop there is no connection and
\* no request, even for a user who goes on clicking while it waits.
THEOREM StratumStoppedForGood == Spec => []StoppedForGood
<1>1. IInv => StoppedForGood
    BY DEF IInv, NotRunning, StoppedForGood
<1> QED BY <1>1, Inductive, PTL
=============================================================================
