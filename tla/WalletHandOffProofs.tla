-------------------------- MODULE WalletHandOffProofs --------------------------
(***************************************************************************)
(* Three results on the wallet life cycle, for every number of threads,    *)
(* transactions and keys and every environment:                            *)
(*  - the hand-off of m_mutex and m_file between the GUI thread and the    *)
(*    library threads, whatever the user does;                             *)
(*  - the assertions of the code, for a user who waits (Waits);            *)
(*  - the keys on disk, for a user who waits.                              *)
(***************************************************************************)
EXTENDS WalletAdapterProofs

FileCalls == {"save.call", "load.call", "import.call"}
Calls == FileCalls \cup {"send.call"}

\* processEvents() runs inside close() and reset() alone, and no handler it dispatches gets
\* into a locked section, since the rest of close() holds the mutex.
PumpOK ==
    /\ pump => pc \notin Calls
    /\ pc \in {"close.pump", "close.delete"} => pump

\* The inductive invariant.  HandOff alone is not: it does not tell that a library call is
\* never made from inside processEvents(), where the mutex would get a second holder.
IInv == HandOff /\ FileInUse /\ PumpOK

\* No one holds the mutex.
Free ==
    /\ ~GuiHolds
    /\ ~LoaderHolds
    /\ \A s \in Savers : ~SaverHolds(s)
    /\ \A i \in TxIds : ~SenderHolds(i)

\* Steps of the GUI thread outside the locked sections.
LEMMA GuiOnly ==
    ASSUME IInv, pc \notin Calls, pc' \notin Calls,
           UNCHANGED <<pump, m_mutex, m_file, loader, saver, sender>>,
           pc' \in {"close.pump", "close.delete"} => pump
    PROVE  IInv'
BY DEF IInv, HandOff, FileInUse, PumpOK, GuiHolds, LoaderHolds, SaverHolds, SenderHolds, Calls,
       FileCalls

\* Steps of the library threads that leave the mutex with its holder.
LEMMA ThreadOnly ==
    ASSUME IInv,
           UNCHANGED <<pc, pump, m_mutex>>,
           m_file' = "closed" <=> m_file = "closed",
           LoaderHolds' <=> LoaderHolds,
           \A s \in Savers : SaverHolds(s)' <=> SaverHolds(s),
           \A i \in TxIds : SenderHolds(i)' <=> SenderHolds(i)
    PROVE  IInv'
BY DEF IInv, HandOff, FileInUse, PumpOK, GuiHolds

\* Steps that leave the mutex free and the file closed.
LEMMA Released ==
    ASSUME Free', m_mutex' = FALSE, m_file' = "closed",
           pc' \notin {"close.pump", "close.delete"} \/ pump'
    PROVE  IInv'
BY DEF IInv, HandOff, FileInUse, PumpOK, Free, GuiHolds, LoaderHolds, SaverHolds, SenderHolds,
       Calls, FileCalls

\* Who locks a free mutex is its only holder.
LEMMA FreeMutex == ASSUME IInv, ~m_mutex PROVE Free /\ m_file = "closed"
BY DEF IInv, HandOff, FileInUse, Free, GuiHolds

\* In a locked section of the GUI thread no one else holds the mutex.
LEMMA InSection ==
    ASSUME IInv, pc \in Calls \/ pump
    PROVE  /\ m_mutex
           /\ ~LoaderHolds
           /\ \A s \in Savers : ~SaverHolds(s)
           /\ \A i \in TxIds : ~SenderHolds(i)
           /\ pc \in Calls => ~pump
           /\ pc \notin FileCalls => m_file = "closed"
BY DEF IInv, HandOff, FileInUse, PumpOK, GuiHolds, Calls, FileCalls

\* The GUI thread locks the mutex.
LEMMA GuiLocks ==
    ASSUME IInv, ~m_mutex, m_mutex' = TRUE,
           UNCHANGED <<loader, saver, sender>>,
           \/ pc' \in FileCalls /\ m_file' # "closed" /\ pump' = pump
           \/ pc' = "send.call" /\ m_file' = m_file /\ pump' = pump
           \/ pc' = "close.pump" /\ m_file' = m_file /\ pump' = TRUE
    PROVE  IInv'
<1>1. Free /\ m_file = "closed"
  BY FreeMutex
<1>2. /\ ~LoaderHolds'
      /\ \A s \in Savers : ~SaverHolds(s)'
      /\ \A i \in TxIds : ~SenderHolds(i)'
  BY <1>1 DEF Free, LoaderHolds, SaverHolds, SenderHolds
<1>3. GuiHolds' /\ PumpOK'
  BY <1>1 DEF Free, GuiHolds, PumpOK, Calls, FileCalls
<1>4. HandOff'
  BY <1>2, <1>3 DEF HandOff
<1>5. FileInUse'
  BY <1>1, <1>2 DEF FileInUse, FileCalls
<1>6. QED
  BY <1>3, <1>4, <1>5 DEF IInv

\* The end of the process frees the mutex.
LEMMA DieInv == ASSUME Die PROVE IInv'
<1>1. Free' /\ m_mutex' = FALSE /\ m_file' = "closed" /\ pc' = "exited"
  BY DEF Die, Free, GuiHolds, LoaderHolds, SaverHolds, SenderHolds
<1>2. QED
  BY <1>1, Released

\* The steps of the GUI thread that lock, hand on or release the mutex.
LEMMA GuiHandsOn ==
    ASSUME TypeOK, IInv,
           \/ OpenForSave \/ CallSave \/ CloseLock \/ CloseDelete \/ OpenForImport
           \/ CallImport \/ OpenForLoad \/ CallLoad \/ SendLock \/ CallSend
    PROVE  IInv'
<1>1. CASE OpenForSave
  <2>1. ~m_mutex
    BY <1>1 DEF OpenForSave
  <2>2. Free /\ m_file = "closed"
    BY <2>1, FreeMutex
  <2>3. CASE m_mutex' = TRUE
    <3>1. pc' = "save.call" /\ m_file' # "closed"
      BY <1>1, <2>1, <2>3 DEF OpenForSave, file
    <3>2. UNCHANGED <<pump, loader, saver, sender>>
      BY <1>1 DEF OpenForSave, threads
    <3>3. QED
      BY <2>1, <2>3, <3>1, <3>2, GuiLocks DEF FileCalls
  <2>4. CASE m_mutex' # TRUE
    <3>1. pc \notin Calls /\ pc' \notin Calls /\ UNCHANGED <<pump, m_mutex, m_file>>
      BY <1>1, <2>4 DEF OpenForSave, SaveReturn, Return, file, Calls, FileCalls
    <3>2. UNCHANGED <<loader, saver, sender>>
      BY <1>1 DEF OpenForSave, threads
    <3>3. pc' \in {"close.pump", "close.delete"} => pump
      BY <1>1, <2>4 DEF OpenForSave, SaveReturn, Return
    <3>4. QED
      BY <3>1, <3>2, <3>3, GuiOnly
  <2>5. QED
    BY <2>3, <2>4
<1>2. CASE CallSave
  <2>1. pc \in FileCalls /\ pc' \notin Calls /\ pc' \notin {"close.pump", "close.delete"}
    <3>1. pc = "save.call" /\ ~pump
      BY <1>2, InSection DEF CallSave, Calls, FileCalls
    <3>2. pc' = SaveReturn(TRUE) \/ pc' = SaveReturn(FALSE)
      BY <1>2 DEF CallSave
    <3>3. QED
      BY <3>1, <3>2 DEF SaveReturn, Return, Calls, FileCalls
  <2>2. /\ m_mutex /\ ~pump /\ ~LoaderHolds
        /\ \A s \in Savers : ~SaverHolds(s)
        /\ \A i \in TxIds : ~SenderHolds(i)
        /\ m_file # "closed"
    BY <2>1, InSection DEF Calls, FileCalls, IInv, FileInUse
  <2>3. UNCHANGED <<pump, loader, sender>>
    BY <1>2 DEF CallSave
  <2>4. CASE UNCHANGED file
    <3>1. PICK s \in Savers : saver' = [saver EXCEPT ![s] = "writing"]
      BY <1>2, <2>2, <2>4 DEF CallSave, file
    <3>2. \A t \in Savers : SaverHolds(t)' <=> t = s
      <4>1. saver \in [Savers -> {"idle", "writing", "written", "failed", "remove", "rename"}]
        BY DEF TypeOK
      <4>2. QED
        BY <2>2, <3>1, <4>1 DEF SaverHolds
    <3>3. ~GuiHolds' /\ ~LoaderHolds' /\ \A i \in TxIds : ~SenderHolds(i)'
      BY <2>1, <2>2, <2>3 DEF GuiHolds, LoaderHolds, SenderHolds, Calls, FileCalls
    <3>4. m_mutex' /\ m_file' # "closed"
      BY <2>2, <2>4 DEF file
    <3>5. HandOff'
      BY <3>2, <3>3, <3>4 DEF HandOff
    <3>6. FileInUse'
      BY <2>1, <3>2, <3>4 DEF FileInUse
    <3>7. PumpOK'
      BY <2>1, <2>2, <2>3 DEF PumpOK
    <3>8. QED
      BY <3>5, <3>6, <3>7 DEF IInv
  <2>5. CASE ~UNCHANGED file
    <3>1. m_mutex' = FALSE /\ m_file' = "closed" /\ saver' = saver
      BY <1>2, <2>5 DEF CallSave
    <3>2. Free'
      BY <2>1, <2>2, <2>3, <3>1 DEF Free, GuiHolds, LoaderHolds, SaverHolds, SenderHolds, Calls,
         FileCalls
    <3>3. QED
      BY <2>1, <3>1, <3>2, Released
  <2>6. QED
    BY <2>4, <2>5
<1>3. CASE CloseLock
  <2>1. /\ ~m_mutex /\ m_mutex' = TRUE
        /\ pc' = "close.pump" /\ pump' = TRUE /\ m_file' = m_file
        /\ UNCHANGED <<loader, saver, sender>>
    BY <1>3 DEF CloseLock, threads
  <2>2. QED
    BY <2>1, GuiLocks
<1>4. CASE CloseDelete
  <2>1. pump /\ pc \notin FileCalls
    BY <1>4 DEF CloseDelete, IInv, PumpOK, FileCalls
  <2>2. /\ ~LoaderHolds /\ m_file = "closed"
        /\ \A s \in Savers : ~SaverHolds(s)
        /\ \A i \in TxIds : ~SenderHolds(i)
    BY <2>1, InSection
  <2>3. m_mutex' = FALSE /\ pump' = FALSE /\ pc' = after /\ m_file' = m_file
    BY <1>4 DEF CloseDelete
  <2>4. after \in {"open", "create", "legacy", "import", "exit"}
    BY DEF TypeOK
  <2>5. UNCHANGED <<loader, saver, sender>>
    BY <1>4 DEF CloseDelete, threads
  <2>6. Free'
    BY <2>2, <2>3, <2>4, <2>5 DEF Free, GuiHolds, LoaderHolds, SaverHolds, SenderHolds
  <2>7. QED
    BY <2>2, <2>3, <2>4, <2>6, Released
<1>5. CASE OpenForImport
  <2>1. ~m_mutex /\ pc = "import.open" /\ UNCHANGED <<pump, loader, saver, sender>>
    BY <1>5 DEF OpenForImport, threads
  <2>2. \/ m_mutex' = TRUE /\ m_file' # "closed" /\ pc' = "import.call"
        \/ pc' = Return /\ UNCHANGED <<m_mutex, m_file>>
    BY <1>5 DEF OpenForImport, file
  <2>3. CASE m_mutex' = TRUE /\ m_file' # "closed" /\ pc' = "import.call"
    BY <2>1, <2>3, GuiLocks DEF FileCalls
  <2>4. CASE pc' = Return /\ UNCHANGED <<m_mutex, m_file>>
    BY <2>1, <2>4, GuiOnly DEF Return, Calls, FileCalls
  <2>5. QED
    BY <2>2, <2>3, <2>4
<1>6. CASE CallImport
  <2>1. pc \in Calls /\ pump' = pump /\ UNCHANGED <<loader, saver, sender>>
    BY <1>6 DEF CallImport, Calls, FileCalls, threads
  <2>2. /\ ~LoaderHolds /\ ~pump
        /\ \A s \in Savers : ~SaverHolds(s)
        /\ \A i \in TxIds : ~SenderHolds(i)
    BY <2>1, InSection
  <2>3. m_mutex' = FALSE /\ m_file' = "closed" /\ pc' \in {"load.open", "idle"}
    BY <1>6, <2>2 DEF CallImport, Return
  <2>4. Free'
    BY <2>1, <2>2, <2>3 DEF Free, GuiHolds, LoaderHolds, SaverHolds, SenderHolds
  <2>5. QED
    BY <2>3, <2>4, Released
<1>7. CASE OpenForLoad
  <2>1. ~m_mutex /\ pc = "load.open" /\ UNCHANGED <<pump, loader, saver, sender>>
    BY <1>7 DEF OpenForLoad, threads
  <2>2. \/ m_mutex' = TRUE /\ m_file' # "closed" /\ pc' = "load.call"
        \/ pc' = Return /\ UNCHANGED <<m_mutex, m_file>>
    BY <1>7 DEF OpenForLoad, file
  <2>3. CASE m_mutex' = TRUE /\ m_file' # "closed" /\ pc' = "load.call"
    BY <2>1, <2>3, GuiLocks DEF FileCalls
  <2>4. CASE pc' = Return /\ UNCHANGED <<m_mutex, m_file>>
    BY <2>1, <2>4, GuiOnly DEF Return, Calls, FileCalls
  <2>5. QED
    BY <2>2, <2>3, <2>4
<1>8. CASE CallLoad
  <2>1. pc \in FileCalls /\ pump' = pump /\ UNCHANGED <<saver, sender>>
    BY <1>8 DEF CallLoad, FileCalls
  <2>2. /\ m_mutex /\ ~LoaderHolds /\ ~pump /\ m_file # "closed"
        /\ \A s \in Savers : ~SaverHolds(s)
        /\ \A i \in TxIds : ~SenderHolds(i)
    BY <2>1, InSection DEF Calls, IInv, FileInUse, FileCalls
  <2>3. pc' = "idle"
    BY <1>8, <2>2 DEF CallLoad, Return
  <2>4. \/ loader' = "loading" /\ UNCHANGED <<m_mutex, m_file>>
        \/ loader' = loader /\ m_mutex' = FALSE /\ m_file' = "closed"
    BY <1>8 DEF CallLoad, file
  <2>5. ~GuiHolds' /\ (\A s \in Savers : ~SaverHolds(s)') /\ (\A i \in TxIds : ~SenderHolds(i)')
    BY <2>1, <2>2, <2>3 DEF GuiHolds, SaverHolds, SenderHolds
  <2>6. CASE loader' = "loading" /\ UNCHANGED <<m_mutex, m_file>>
    <3>1. HandOff'
      BY <2>2, <2>5, <2>6 DEF HandOff, LoaderHolds
    <3>2. FileInUse'
      BY <2>2, <2>6 DEF FileInUse, LoaderHolds
    <3>3. PumpOK'
      BY <2>1, <2>2, <2>3 DEF PumpOK
    <3>4. QED
      BY <3>1, <3>2, <3>3 DEF IInv
  <2>7. CASE loader' = loader /\ m_mutex' = FALSE /\ m_file' = "closed"
    <3>1. Free'
      BY <2>2, <2>5, <2>7 DEF Free, LoaderHolds
    <3>2. QED
      BY <2>3, <2>7, <3>1, Released
  <2>8. QED
    BY <2>4, <2>6, <2>7
<1>9. CASE SendLock
  <2>1. /\ ~m_mutex /\ m_mutex' = TRUE /\ pc' = "send.call"
        /\ UNCHANGED <<pump, m_file, loader, saver, sender>>
    BY <1>9 DEF SendLock, threads
  <2>2. QED
    BY <2>1, GuiLocks
<1>10. CASE CallSend
  <2>1. pc = "send.call" /\ UNCHANGED <<pump, m_file, loader, saver>>
    BY <1>10 DEF CallSend
  <2>2. /\ m_mutex /\ ~LoaderHolds /\ ~pump /\ m_file = "closed"
        /\ \A s \in Savers : ~SaverHolds(s)
        /\ \A i \in TxIds : ~SenderHolds(i)
    BY <2>1, InSection DEF Calls, FileCalls
  <2>3. \/ /\ pc' = "send.store" /\ m_mutex' = m_mutex
           /\ \E i \in TxIds : sender' = [sender EXCEPT ![i] = "sending"]
        \/ pc' = "idle" /\ m_mutex' = FALSE /\ sender' = sender
    BY <1>10, <2>2 DEF CallSend, Return
  <2>4. /\ ~GuiHolds' /\ ~LoaderHolds'
        /\ \A s \in Savers : ~SaverHolds(s)'
    BY <2>1, <2>2, <2>3 DEF GuiHolds, LoaderHolds, SaverHolds
  <2>5. PumpOK' /\ FileInUse'
    BY <2>1, <2>2, <2>3, <2>4 DEF PumpOK, FileInUse, Calls, FileCalls
  <2>6. CASE /\ pc' = "send.store" /\ m_mutex' = m_mutex
             /\ \E i \in TxIds : sender' = [sender EXCEPT ![i] = "sending"]
    <3>1. PICK i \in TxIds : sender' = [sender EXCEPT ![i] = "sending"]
      BY <2>6
    <3>2. \A j \in TxIds : SenderHolds(j)' <=> j = i
      <4>1. sender \in [TxIds -> {"idle", "sending", "emit", "done"} \cup Kinds]
        BY DEF TypeOK
      <4>2. QED
        BY <2>2, <3>1, <4>1 DEF SenderHolds
    <3>3. HandOff'
      BY <2>2, <2>4, <2>6, <3>2 DEF HandOff
    <3>4. QED
      BY <2>5, <3>3 DEF IInv
  <2>7. CASE pc' = "idle" /\ m_mutex' = FALSE /\ sender' = sender
    <3>1. HandOff'
      BY <2>2, <2>4, <2>7 DEF HandOff, SenderHolds
    <3>2. QED
      BY <2>5, <3>1 DEF IInv
  <2>8. QED
    BY <2>3, <2>6, <2>7
<1>11. QED
  BY <1>1, <1>2, <1>3, <1>4, <1>5, <1>6, <1>7, <1>8, <1>9, <1>10

\* The steps of the library threads.
LEMMA ThreadSteps ==
    ASSUME TypeOK, IInv,
           Loader \/ (\E s \in Savers : Saver(s)) \/ (\E i \in TxIds : Sender(i))
    PROVE  IInv'
<1>1. CASE LoadEnd
  <2>1. LoaderHolds /\ loader' # "loading" /\ UNCHANGED <<pc, pump, saver, sender>>
    BY <1>1 DEF LoadEnd, LoaderHolds, gui
  <2>2. m_mutex' = FALSE /\ m_file' = "closed"
    BY <1>1 DEF LoadEnd
  <2>3. Free'
    BY <2>1 DEF IInv, HandOff, Free, GuiHolds, LoaderHolds, SaverHolds, SenderHolds
  <2>4. pc \in {"close.pump", "close.delete"} => pump
    BY DEF IInv, PumpOK
  <2>5. QED
    BY <2>1, <2>2, <2>3, <2>4, Released
<1>2. CASE LoadEmit
  <2>1. ~LoaderHolds /\ ~LoaderHolds' /\ UNCHANGED <<pc, pump, m_mutex, m_file, saver, sender>>
    BY <1>2 DEF LoadEmit, LoaderHolds, gui, file
  <2>2. QED
    BY <2>1, ThreadOnly DEF SaverHolds, SenderHolds
<1>3. ASSUME NEW s \in Savers, SaveWrite(s) \/ SaveRemove(s) \/ SaveRename(s)
      PROVE  IInv'
  <2>1. UNCHANGED <<pc, pump, m_mutex, loader, sender>> /\ (m_file' = "closed" <=> m_file = "closed")
    BY <1>3 DEF SaveWrite, SaveRemove, SaveRename, gui, file
  <2>2. \E v \in {"written", "failed", "rename", "idle"} :
          /\ saver' = [saver EXCEPT ![s] = v]
          /\ saver[s] = "writing" <=> v \in {"written", "failed"}
          /\ saver[s] \in {"writing", "remove", "rename"}
    BY <1>3 DEF SaveWrite, SaveRemove, SaveRename
  <2>3. saver \in [Savers -> {"idle", "writing", "written", "failed", "remove", "rename"}]
    BY DEF TypeOK
  <2>4. \A t \in Savers : SaverHolds(t)' <=> SaverHolds(t)
    BY <2>2, <2>3 DEF SaverHolds
  <2>5. QED
    BY <2>1, <2>4, ThreadOnly DEF LoaderHolds, SenderHolds
<1>4. ASSUME NEW s \in Savers, SaveClose(s)
      PROVE  IInv'
  <2>1. /\ SaverHolds(s) /\ m_mutex' = FALSE /\ m_file' = "closed"
        /\ UNCHANGED <<pc, pump, loader, sender>>
    BY <1>4 DEF SaveClose, SaverHolds, gui
  <2>2. \E v \in {"remove", "idle"} : saver' = [saver EXCEPT ![s] = v]
    BY <1>4 DEF SaveClose
  <2>3. saver \in [Savers -> {"idle", "writing", "written", "failed", "remove", "rename"}]
    BY DEF TypeOK
  <2>4. /\ ~GuiHolds /\ ~LoaderHolds /\ \A i \in TxIds : ~SenderHolds(i)
        /\ \A t \in Savers : t # s => ~SaverHolds(t)
    BY <2>1 DEF IInv, HandOff
  <2>5. \A t \in Savers : ~SaverHolds(t)'
    BY <2>2, <2>3, <2>4 DEF SaverHolds
  <2>6. Free'
    BY <2>1, <2>4, <2>5 DEF Free, GuiHolds, LoaderHolds, SenderHolds
  <2>7. pc \in {"close.pump", "close.delete"} => pump
    BY DEF IInv, PumpOK
  <2>8. QED
    BY <2>1, <2>6, <2>7, Released
<1>5. ASSUME NEW i \in TxIds, SendUnlock(i)
      PROVE  IInv'
  <2>1. /\ SenderHolds(i) /\ m_mutex' = FALSE /\ sender' = [sender EXCEPT ![i] = "emit"]
        /\ UNCHANGED <<pc, pump, m_file, loader, saver>>
    BY <1>5 DEF SendUnlock, SenderHolds, gui
  <2>2. /\ ~GuiHolds /\ ~LoaderHolds /\ \A s \in Savers : ~SaverHolds(s)
        /\ \A j \in TxIds : j # i => ~SenderHolds(j)
    BY <2>1 DEF IInv, HandOff
  <2>3. m_file = "closed"
    BY <2>2 DEF IInv, FileInUse, GuiHolds
  <2>4. sender \in [TxIds -> {"idle", "sending", "emit", "done"} \cup Kinds]
    BY DEF TypeOK
  <2>5. \A j \in TxIds : ~SenderHolds(j)'
    BY <2>1, <2>2, <2>4 DEF SenderHolds
  <2>6. Free'
    BY <2>1, <2>2, <2>5 DEF Free, GuiHolds, LoaderHolds, SaverHolds
  <2>7. pc \in {"close.pump", "close.delete"} => pump
    BY DEF IInv, PumpOK
  <2>8. QED
    BY <2>1, <2>3, <2>6, <2>7, Released
<1>6. ASSUME NEW i \in TxIds, SendEmit(i) \/ SendReset(i)
      PROVE  IInv'
  <2>1. UNCHANGED <<pc, pump, m_mutex, m_file, loader, saver>>
    BY <1>6 DEF SendEmit, SendReset, gui, file
  <2>2. \E v \in {"done"} \cup Kinds : sender' = [sender EXCEPT ![i] = v]
    BY <1>6 DEF SendEmit, SendReset
  <2>3. sender[i] \in {"emit"} \cup Kinds
    BY <1>6 DEF SendEmit, SendReset
  <2>4. sender \in [TxIds -> {"idle", "sending", "emit", "done"} \cup Kinds]
    BY DEF TypeOK
  <2>5. \A j \in TxIds : SenderHolds(j)' <=> SenderHolds(j)
    BY <2>2, <2>3, <2>4 DEF SenderHolds, Kinds
  <2>6. QED
    BY <2>1, <2>5, ThreadOnly DEF LoaderHolds, SaverHolds
<1>7. QED
  BY <1>1, <1>2, <1>3, <1>4, <1>5, <1>6 DEF Loader, Saver, Sender

\* The steps of the GUI thread that leave the mutex and its holder alone.
LEMMA GuiSteps ==
    ASSUME IInv,
           \/ Relaunch \/ User \/ SetBackupFlag \/ PumpEnd \/ Exit \/ NewPath \/ LegacyPath
           \/ CreateWithKeys \/ Open \/ StoreId \/ HandleInitOk \/ HandleInitWrong
           \/ HandleInitOther \/ HandleAskPassword \/ HandleSendDone
    PROVE  IInv'
<1> USE DEF PumpOK
<1>0. pc \in {"close.pump", "close.delete"} => pump
  BY DEF IInv
<1>1. CASE Die
  BY <1>1, DieInv
<1>2. CASE Relaunch
  <2>1. UNCHANGED <<pump, m_mutex, m_file, loader, saver, sender>>
    BY <1>2 DEF Relaunch, file, object, threads
  <2>2. pc \notin Calls /\ pc' \notin Calls /\ (pc' \in {"close.pump", "close.delete"} => pump)
    BY <1>2, <1>0 DEF Relaunch, Calls, FileCalls
  <2>3. QED
    BY <2>1, <2>2, GuiOnly
<1>3. ASSUME NEW op \in {"open", "create", "legacy", "import"}, SwitchWallet(op)
      PROVE  IInv'
  <2>1. UNCHANGED <<pump, m_mutex, m_file, loader, saver, sender>>
    BY <1>3 DEF SwitchWallet, file, object, threads
  <2>2. pc \notin Calls /\ pc' \notin Calls /\ (pc' \in {"close.pump", "close.delete"} => pump)
    BY <1>3, <1>0 DEF SwitchWallet, Calls, FileCalls
  <2>3. QED
    BY <2>1, <2>2, GuiOnly
<1>4. CASE Quit
  <2>1. UNCHANGED <<pump, m_mutex, m_file, loader, saver, sender>>
    BY <1>4 DEF Quit, file, object, threads
  <2>2. pc \notin Calls /\ pc' \notin Calls /\ (pc' \in {"close.pump", "close.delete"} => pump)
    BY <1>4, <1>0 DEF Quit, Calls, FileCalls
  <2>3. QED
    BY <2>1, <2>2, GuiOnly
<1>5. CASE Reset /\ ~Die
  <2>1. UNCHANGED <<pump, m_mutex, m_file, loader, saver, sender>>
    BY <1>5 DEF Reset, file, object, threads
  <2>2. pc \notin Calls /\ pc' \notin Calls /\ (pc' \in {"close.pump", "close.delete"} => pump)
    BY <1>5, <1>0 DEF Reset, Calls, FileCalls
  <2>3. QED
    BY <2>1, <2>2, GuiOnly
<1>6. ASSUME NEW op, NEW next, SaveNow(op, next), ~Die
      PROVE  IInv'
  <2>1. UNCHANGED <<pump, m_mutex, m_file, loader, saver, sender>>
    BY <1>6 DEF SaveNow, file, object, threads
  <2>2. pc \notin Calls /\ pc' \notin Calls /\ (pc' \in {"close.pump", "close.delete"} => pump)
    BY <1>6, <1>0 DEF SaveNow, Calls, FileCalls
  <2>3. QED
    BY <2>1, <2>2, GuiOnly
<1>7. ASSUME NEW kind \in Kinds, StartSend(kind)
      PROVE  IInv'
  <2>1. UNCHANGED <<pump, m_mutex, m_file, loader, saver, sender>>
    BY <1>7 DEF StartSend, file, object, threads
  <2>2. pc \notin Calls /\ pc' \notin Calls /\ (pc' \in {"close.pump", "close.delete"} => pump)
    BY <1>7, <1>0 DEF StartSend, Calls, FileCalls
  <2>3. QED
    BY <2>1, <2>2, GuiOnly
<1>8. CASE SetBackupFlag
  <2>1. UNCHANGED <<pump, m_mutex, m_file, loader, saver, sender>>
    BY <1>8 DEF SetBackupFlag, file, object, threads
  <2>2. pc \notin Calls /\ pc' \notin Calls /\ (pc' \in {"close.pump", "close.delete"} => pump)
    BY <1>8, <1>0 DEF SetBackupFlag, Return, Calls, FileCalls
  <2>3. QED
    BY <2>1, <2>2, GuiOnly
<1>9. CASE PumpEnd
  <2>1. UNCHANGED <<pump, m_mutex, m_file, loader, saver, sender>>
    BY <1>9 DEF PumpEnd, file, object, threads
  <2>2. pc \notin Calls /\ pc' \notin Calls /\ (pc' \in {"close.pump", "close.delete"} => pump)
    BY <1>9, <1>0 DEF PumpEnd, Calls, FileCalls
  <2>3. QED
    BY <2>1, <2>2, GuiOnly
<1>10. CASE NewPath
  <2>1. UNCHANGED <<pump, m_mutex, m_file, loader, saver, sender>>
    BY <1>10 DEF NewPath, file, object, threads
  <2>2. pc \notin Calls /\ pc' \notin Calls /\ (pc' \in {"close.pump", "close.delete"} => pump)
    BY <1>10, <1>0 DEF NewPath, Calls, FileCalls
  <2>3. QED
    BY <2>1, <2>2, GuiOnly
<1>11. CASE LegacyPath
  <2>1. UNCHANGED <<pump, m_mutex, m_file, loader, saver, sender>>
    BY <1>11 DEF LegacyPath, file, object, threads
  <2>2. pc \notin Calls /\ pc' \notin Calls /\ (pc' \in {"close.pump", "close.delete"} => pump)
    BY <1>11, <1>0 DEF LegacyPath, Calls, FileCalls
  <2>3. QED
    BY <2>1, <2>2, GuiOnly
<1>12. CASE CreateWithKeys
  <2>1. UNCHANGED <<pump, m_mutex, m_file, loader, saver, sender>>
    BY <1>12 DEF CreateWithKeys, file, threads
  <2>2. pc \notin Calls /\ pc' \notin Calls /\ (pc' \in {"close.pump", "close.delete"} => pump)
    BY <1>12, <1>0 DEF CreateWithKeys, Return, Calls, FileCalls
  <2>3. QED
    BY <2>1, <2>2, GuiOnly
<1>13. CASE Open
  <2>1. UNCHANGED <<pump, m_mutex, m_file, loader, saver, sender>>
    BY <1>13 DEF Open, file, threads
  <2>2. pc \notin Calls /\ pc' \notin Calls /\ (pc' \in {"close.pump", "close.delete"} => pump)
    BY <1>13, <1>0 DEF Open, Return, Calls, FileCalls
  <2>3. QED
    BY <2>1, <2>2, GuiOnly
<1>14. CASE StoreId
  <2>1. UNCHANGED <<pump, m_mutex, m_file, loader, saver, sender>>
    BY <1>14 DEF StoreId, file, object, threads
  <2>2. pc \notin Calls /\ pc' \notin Calls /\ (pc' \in {"close.pump", "close.delete"} => pump)
    BY <1>14, <1>0 DEF StoreId, Return, Calls, FileCalls
  <2>3. QED
    BY <2>1, <2>2, GuiOnly
<1>15. CASE HandleInitOk /\ ~Die
  <2>1. UNCHANGED <<pump, m_mutex, m_file, loader, saver, sender>>
    BY <1>15 DEF HandleInitOk, file, object, threads
  <2>2. pc \notin Calls /\ pc' \notin Calls /\ (pc' \in {"close.pump", "close.delete"} => pump)
    BY <1>15, <1>0 DEF HandleInitOk, Take, Calls, FileCalls
  <2>3. QED
    BY <2>1, <2>2, GuiOnly
<1>16. CASE HandleInitWrong
  <2>1. UNCHANGED <<pump, m_mutex, m_file, loader, saver, sender>>
    BY <1>16 DEF HandleInitWrong, gui, file, threads
  <2>2. pc \notin Calls /\ pc' \notin Calls /\ (pc' \in {"close.pump", "close.delete"} => pump)
    BY <1>16, <1>0 DEF HandleInitWrong, Take, gui, Calls, FileCalls
  <2>3. QED
    BY <2>1, <2>2, GuiOnly
<1>17. CASE HandleInitOther
  <2>1. UNCHANGED <<pump, m_mutex, m_file, loader, saver, sender>>
    BY <1>17 DEF HandleInitOther, gui, file, threads
  <2>2. pc \notin Calls /\ pc' \notin Calls /\ (pc' \in {"close.pump", "close.delete"} => pump)
    BY <1>17, <1>0 DEF HandleInitOther, Take, gui, Calls, FileCalls
  <2>3. QED
    BY <2>1, <2>2, GuiOnly
<1>18. CASE HandleAskPassword
  <2>1. UNCHANGED <<pump, m_mutex, m_file, loader, saver, sender>>
    BY <1>18 DEF HandleAskPassword, file, object, threads
  <2>2. pc \notin Calls /\ pc' \notin Calls /\ (pc' \in {"close.pump", "close.delete"} => pump)
    BY <1>18, <1>0 DEF HandleAskPassword, Take, Calls, FileCalls
  <2>3. QED
    BY <2>1, <2>2, GuiOnly
<1>19. CASE HandleSendDone /\ ~Die
  <2>1. UNCHANGED <<pump, m_mutex, m_file, loader, saver, sender>>
    BY <1>19 DEF HandleSendDone, file, object, threads
  <2>2. pc \notin Calls /\ pc' \notin Calls /\ (pc' \in {"close.pump", "close.delete"} => pump)
    BY <1>19, <1>0 DEF HandleSendDone, Take, Calls, FileCalls
  <2>3. QED
    BY <2>1, <2>2, GuiOnly
<1>20. QED
  BY <1>1, <1>2, <1>3, <1>4, <1>5, <1>6, <1>7, <1>8, <1>9, <1>10, <1>11, <1>12, <1>13, <1>14, <1>15, <1>16, <1>17, <1>18, <1>19 DEF User, Exit

\* The program starts with a free mutex.
LEMMA InitInv == ASSUME Init PROVE IInv
<1>1. /\ Free /\ m_mutex = FALSE /\ m_file = "closed" /\ pc = "open" /\ pump = FALSE
  BY DEF Init, Free, GuiHolds, LoaderHolds, SaverHolds, SenderHolds
<1>2. QED
  BY <1>1 DEF IInv, HandOff, FileInUse, PumpOK, Free, Calls, FileCalls

\* Every step keeps the inductive invariant.
LEMMA IInvCorrect == Spec => []IInv
<1>1. TypeOK /\ IInv /\ [Next]_vars => IInv'
  <2> SUFFICES ASSUME TypeOK, IInv, [Next]_vars PROVE IInv'
    OBVIOUS
  <2>1. CASE UNCHANGED vars
    BY <2>1 DEF vars, IInv, HandOff, FileInUse, PumpOK, GuiHolds, LoaderHolds, SaverHolds,
       SenderHolds
  <2>2. CASE Next
    <3>1. CASE Crash
      BY <3>1, DieInv DEF Crash
    <3>2. QED
      BY <2>1, <2>2, <3>1, GuiSteps, GuiHandsOn, ThreadSteps DEF Next, Gui, Stopped
  <2>3. QED
    BY <2>1, <2>2
<1>2. Init => IInv
  BY InitInv
<1>3. QED
  BY <1>1, <1>2, TypeCorrect, PTL DEF Spec

\* HandOff: m_mutex is locked exactly while the GUI thread or one library operation holds it,
\* and never two of them, however lock() and unlock() are spread over the threads.
THEOREM HandOffCorrect == Spec => []HandOff
<1>1. IInv => HandOff
  BY DEF IInv
<1>2. QED
  BY <1>1, IInvCorrect, PTL

\* FileInUse: m_file is open exactly while a load, save or import uses it, so openFile() never
\* meets an open stream and no operation finds its stream closed.
THEOREM FileInUseCorrect == Spec => []FileInUse
<1>1. IInv => FileInUse
  BY DEF IInv
<1>2. QED
  BY <1>1, IInvCorrect, PTL

-----------------------------------------------------------------------------
(***************************************************************************)
(* The assertions of the code, for a user who waits.                       *)
(***************************************************************************)
\* The user waits, sends no messages, each of which completes twice, and makes no backup, whose save
\* may end before it is known to be one.
Waits == Paced /\ "message" \notin Ops /\ "backup" \notin Ops

NoSave == \A s \in Savers : saver[s] = "idle"
NoSendOn == \A i \in TxIds : sender[i] \notin {"sending", "emit"}
Quiet == queue = <<>> /\ loader = "idle" /\ NoSave /\ NoSendOn

Closing == {"close.lock", "close.pump", "close.delete"}
Opening == {"open", "create", "legacy", "import"}
Loadings == {"import.open", "import.call", "load.open", "load.call"}

\* One thing at a time: what the GUI thread does, an event, a load, a send or a save.  A wallet is
\* closed while the save before it ends.
OneActs ==
    /\ pc \notin {"idle", "send.store"} \cup Closing => Quiet
    /\ pc \in Closing => queue = <<>> /\ loader = "idle" /\ NoSendOn
    /\ pc = "send.store" => loader = "idle" /\ NoSave
    /\ queue # <<>> => Len(queue) = 1 /\ loader = "idle" /\ NoSave /\ NoSendOn
    /\ loader # "idle" => NoSave /\ NoSendOn
    /\ NoSave \/ NoSendOn
    /\ \A s, t \in Savers : saver[s] # "idle" /\ saver[t] # "idle" => s = t
    /\ \A i, j \in TxIds : sender[i] \in {"sending", "emit"} /\ sender[j] \in {"sending", "emit"} => i = j
    /\ pump => pc \in {"close.pump", "close.delete"}

\* What the user does not do leaves no trace.
NotAsked ==
    /\ cont # "backup" /\ pc # "backup.flag"
    /\ sending.kind # "message" /\ slot["message"] = NoTx

\* A save writes the keys of the wallet to ".temp", which is there until it is renamed.
TempThere ==
    /\ m_wallet = "ready" => key \in Keys
    /\ pc = "save.call" => m_file = "temp" /\ disk["temp"] # NoFile
    /\ \A s \in Savers :
           /\ saver[s] = "writing" => m_file = "temp" /\ key \in Keys
           /\ saver[s] \in {"writing", "written", "remove"} => disk["temp"] # NoFile

\* No wallet is there when one is opened, or a password is asked for; the actions are enabled only
\* with a wallet.
WalletThere ==
    /\ pc \in Opening \cup {"exited"} => m_wallet = "none"
    /\ queue # <<>> /\ Head(queue).type = "askPassword" => m_wallet = "none"
    /\ enabled => m_wallet # "none"
    /\ pc \in {"close.pump", "close.delete", "exited"} \cup Opening \cup Loadings => ~enabled

WaitInv == Waits /\ OneActs /\ NotAsked /\ TempThere /\ WalletThere

\* One event posted to an empty queue is the only one there.
LEMMA OneEvent ==
    ASSUME NEW e PROVE Append(<<>>, e) # <<>> /\ Len(Append(<<>>, e)) = 1 /\ Head(Append(<<>>, e)) = e
OBVIOUS

\* Taking the only element of a sequence leaves none.
LEMMA NoneLeft == ASSUME NEW S, NEW q \in Seq(S), q # <<>>, Len(q) = 1 PROVE Tail(q) = <<>>
<1>1. Tail(q) \in Seq(S) /\ Len(Tail(q)) = 0
    OBVIOUS
<1>2. \A t \in Seq(S) : Len(t) = 0 => t = <<>>
    OBVIOUS
<1> QED BY <1>1, <1>2

\* The user waits until nothing is under way.
LEMMA UserWaits == ASSUME Waits, NEW op, UserMay(op) PROVE Quiet /\ op # "message" /\ op # "backup"
BY DEF Waits, UserMay, LibraryIdle, Quiet, NoSave, NoSendOn

\* At the start nothing is under way.
LEMMA WaitStart == Init /\ Waits => WaitInv
<1> SUFFICES ASSUME Init, Waits PROVE WaitInv
    OBVIOUS
<1> USE DEF Init
<1>1. OneActs
    BY DEF OneActs, Quiet, NoSave, NoSendOn, Closing
<1>2. NotAsked
    BY DEF NotAsked, NoSend, Kinds
<1>3. TempThere
    BY DEF TempThere
<1>4. WalletThere
    BY DEF WalletThere, Opening, Loadings
<1> QED BY <1>1, <1>2, <1>3, <1>4 DEF WaitInv

\* The process ends, and nothing is under way.
LEMMA WaitDies == ASSUME TypeOK, WaitInv, Die PROVE WaitInv'
<1> USE DEF Die
<1>1. OneActs'
    BY DEF OneActs, Quiet, NoSave, NoSendOn, Closing
<1>2. NotAsked'
    BY DEF NotAsked, NoSend, Kinds
<1>3. TempThere'
    BY DEF TempThere
<1>4. WalletThere'
    BY DEF WalletThere, Opening, Loadings
<1> QED BY <1>1, <1>2, <1>3, <1>4 DEF WaitInv, Waits

\* The save of the GUI thread.
LEMMA WaitSaves ==
    ASSUME TypeOK, WaitInv,
           \/ OpenForSave
           \/ CallSave
           \/ SetBackupFlag
    PROVE  WaitInv'
<1>0. Waits /\ OneActs /\ NotAsked /\ TempThere /\ WalletThere
    BY DEF WaitInv
<1>1. CASE OpenForSave
    <2>1. Quiet /\ ~pump /\ cont # "backup" /\ disk \in [Names -> Contents]
        BY <1>0, <1>1 DEF OpenForSave, OneActs, NotAsked, Closing, TypeOK
    <2>2. \/ pc' = "save.call" /\ m_file' = "temp" /\ disk' = [disk EXCEPT !["temp"] = Torn]
          \/ pc' # "save.call" /\ disk' = disk /\ m_file' = m_file
        BY <1>0, <1>1, <2>1 DEF OpenForSave, SaveReturn, Return, file
    <2>3. pc' = "save.call" => disk'["temp"] # NoFile
        BY <1>0, <1>1, <2>1, <2>2, ContentsAssumption DEF Names
    <2>4. OneActs'
        BY <1>0, <1>1, <2>1, <2>2, <2>3 DEF OpenForSave, SaveReturn, Return, file, threads, object, TypeOK, OneActs, Quiet, NoSave, NoSendOn, Closing
    <2>5. NotAsked'
        BY <1>0, <1>1, <2>1, <2>2, <2>3 DEF OpenForSave, SaveReturn, Return, file, threads, object, TypeOK, NotAsked
    <2>6. TempThere'
        BY <1>0, <1>1, <2>1, <2>2, <2>3 DEF OpenForSave, SaveReturn, Return, file, threads, object, TypeOK, TempThere, NoSave, OneActs, Quiet, Closing
    <2>7. WalletThere'
        BY <1>0, <1>1, <2>1, <2>2, <2>3 DEF OpenForSave, SaveReturn, Return, file, threads, object, TypeOK, WalletThere, Opening, Loadings, OneActs, Closing, Quiet
    <2> QED BY <1>0, <2>4, <2>5, <2>6, <2>7 DEF WaitInv, Waits
<1>2. CASE CallSave
    <2>1. Quiet /\ ~pump /\ pc' \in {"close.lock", "idle"}
        BY <1>0, <1>2 DEF CallSave, OneActs, NotAsked, Closing, SaveReturn, Return, TypeOK
    <2>2. \/ saver' = saver
          \/ m_wallet = "ready" /\ m_file' = m_file /\ \E s \in Savers : saver' = [saver EXCEPT ![s] = "writing"]
        BY <1>0, <1>2, <2>1 DEF CallSave, file
    <2>3. \A s, t \in Savers : saver'[s] # "idle" /\ saver'[t] # "idle" => s = t
        BY <1>0, <1>2, <2>1, <2>2 DEF Quiet, NoSave, TypeOK
    <2>4. OneActs'
        BY <1>0, <1>2, <2>1, <2>2, <2>3 DEF CallSave, SaveReturn, Return, file, object, TypeOK, OneActs, Quiet, NoSave, NoSendOn, Closing
    <2>5. NotAsked'
        BY <1>0, <1>2, <2>1, <2>2, <2>3 DEF CallSave, SaveReturn, Return, file, object, TypeOK, NotAsked
    <2>6. TempThere'
        BY <1>0, <1>2, <2>1, <2>2, <2>3 DEF CallSave, SaveReturn, Return, file, object, TypeOK, TempThere, NoSave, OneActs, Quiet, Closing
    <2>7. WalletThere'
        BY <1>0, <1>2, <2>1, <2>2, <2>3 DEF CallSave, SaveReturn, Return, file, object, TypeOK, WalletThere, Opening, Loadings, OneActs, Closing, Quiet
    <2> QED BY <1>0, <2>4, <2>5, <2>6, <2>7 DEF WaitInv, Waits
<1>3. CASE SetBackupFlag
    <2>1. FALSE
        BY <1>0, <1>3 DEF SetBackupFlag, NotAsked
    <2>2. OneActs'
        BY <1>0, <1>3, <2>1 DEF SetBackupFlag, OneActs, Quiet, NoSave, NoSendOn, Closing
    <2>3. NotAsked'
        BY <1>0, <1>3, <2>1 DEF SetBackupFlag, NotAsked
    <2>4. TempThere'
        BY <1>0, <1>3, <2>1 DEF SetBackupFlag, TempThere, NoSave, OneActs, Quiet, Closing
    <2>5. WalletThere'
        BY <1>0, <1>3, <2>1 DEF SetBackupFlag, WalletThere, Opening, Loadings, OneActs, Closing, Quiet
    <2> QED BY <1>0, <2>2, <2>3, <2>4, <2>5 DEF WaitInv, Waits
<1> QED BY <1>1, <1>2, <1>3

\* close() after its save.
LEMMA WaitCloses ==
    ASSUME TypeOK, WaitInv,
           \/ CloseLock
           \/ PumpEnd
           \/ CloseDelete
    PROVE  WaitInv'
<1>0. Waits /\ OneActs /\ NotAsked /\ TempThere /\ WalletThere
    BY DEF WaitInv
<1>1. CASE CloseLock
    <2>1. OneActs'
        BY <1>0, <1>1 DEF CloseLock, object, threads, OneActs, Quiet, NoSave, NoSendOn, Closing
    <2>2. NotAsked'
        BY <1>0, <1>1 DEF CloseLock, object, threads, NotAsked
    <2>3. TempThere'
        BY <1>0, <1>1 DEF CloseLock, object, threads, TempThere, NoSave, OneActs, Quiet, Closing
    <2>4. WalletThere'
        BY <1>0, <1>1 DEF CloseLock, object, threads, WalletThere, Opening, Loadings, OneActs, Closing, Quiet
    <2> QED BY <1>0, <2>1, <2>2, <2>3, <2>4 DEF WaitInv, Waits
<1>2. CASE PumpEnd
    <2>1. OneActs'
        BY <1>0, <1>2 DEF PumpEnd, file, object, threads, OneActs, Quiet, NoSave, NoSendOn, Closing
    <2>2. NotAsked'
        BY <1>0, <1>2 DEF PumpEnd, file, object, threads, NotAsked
    <2>3. TempThere'
        BY <1>0, <1>2 DEF PumpEnd, file, object, threads, TempThere, NoSave, OneActs, Quiet, Closing
    <2>4. WalletThere'
        BY <1>0, <1>2 DEF PumpEnd, file, object, threads, WalletThere, Opening, Loadings, OneActs, Closing, Quiet
    <2> QED BY <1>0, <2>1, <2>2, <2>3, <2>4 DEF WaitInv, Waits
<1>3. CASE CloseDelete
    <2>1. OneActs'
        BY <1>0, <1>3 DEF CloseDelete, LibraryIdle, threads, TypeOK, OneActs, Quiet, NoSave, NoSendOn, Closing
    <2>2. NotAsked'
        BY <1>0, <1>3 DEF CloseDelete, LibraryIdle, threads, TypeOK, NotAsked
    <2>3. TempThere'
        BY <1>0, <1>3 DEF CloseDelete, LibraryIdle, threads, TypeOK, TempThere, NoSave, OneActs, Quiet, Closing
    <2>4. WalletThere'
        BY <1>0, <1>3 DEF CloseDelete, LibraryIdle, threads, TypeOK, WalletThere, Opening, Loadings, OneActs, Closing, Quiet
    <2> QED BY <1>0, <2>1, <2>2, <2>3, <2>4 DEF WaitInv, Waits
<1> QED BY <1>1, <1>2, <1>3

\* The wallet is opened.
LEMMA WaitOpens ==
    ASSUME TypeOK, WaitInv,
           \/ NewPath
           \/ LegacyPath
           \/ CreateWithKeys
           \/ Open
           \/ OpenForImport
           \/ CallImport
           \/ OpenForLoad
           \/ CallLoad
    PROVE  WaitInv'
<1>0. Waits /\ OneActs /\ NotAsked /\ TempThere /\ WalletThere
    BY DEF WaitInv
<1>1. CASE NewPath
    <2>1. OneActs'
        BY <1>0, <1>1 DEF NewPath, file, object, threads, OneActs, Quiet, NoSave, NoSendOn, Closing
    <2>2. NotAsked'
        BY <1>0, <1>1 DEF NewPath, file, object, threads, NotAsked
    <2>3. TempThere'
        BY <1>0, <1>1 DEF NewPath, file, object, threads, TempThere, NoSave, OneActs, Quiet, Closing
    <2>4. WalletThere'
        BY <1>0, <1>1 DEF NewPath, file, object, threads, WalletThere, Opening, Loadings, OneActs, Closing, Quiet
    <2> QED BY <1>0, <2>1, <2>2, <2>3, <2>4 DEF WaitInv, Waits
<1>2. CASE LegacyPath
    <2>1. OneActs'
        BY <1>0, <1>2 DEF LegacyPath, file, object, threads, OneActs, Quiet, NoSave, NoSendOn, Closing
    <2>2. NotAsked'
        BY <1>0, <1>2 DEF LegacyPath, file, object, threads, NotAsked
    <2>3. TempThere'
        BY <1>0, <1>2 DEF LegacyPath, file, object, threads, TempThere, NoSave, OneActs, Quiet, Closing
    <2>4. WalletThere'
        BY <1>0, <1>2 DEF LegacyPath, file, object, threads, WalletThere, Opening, Loadings, OneActs, Closing, Quiet
    <2> QED BY <1>0, <2>1, <2>2, <2>3, <2>4 DEF WaitInv, Waits
<1>3. CASE CreateWithKeys
    <2>1. queue' = Append(<<>>, Event("initNew"))
        BY <1>0, <1>3 DEF CreateWithKeys, OneActs, Quiet, Closing
    <2>2. queue' # <<>> /\ Len(queue') = 1 /\ Head(queue').type # "askPassword"
        BY <1>0, <1>3, <2>1, OneEvent DEF Event
    <2>3. OneActs'
        BY <1>0, <1>3, <2>1, <2>2 DEF CreateWithKeys, Return, Event, file, threads, OneActs, Quiet, NoSave, NoSendOn, Closing
    <2>4. NotAsked'
        BY <1>0, <1>3, <2>1, <2>2 DEF CreateWithKeys, Return, Event, file, threads, NotAsked
    <2>5. TempThere'
        BY <1>0, <1>3, <2>1, <2>2 DEF CreateWithKeys, Return, Event, file, threads, TempThere, NoSave, OneActs, Quiet, Closing
    <2>6. WalletThere'
        BY <1>0, <1>3, <2>1, <2>2 DEF CreateWithKeys, Return, Event, file, threads, WalletThere, Opening, Loadings, OneActs, Closing, Quiet
    <2> QED BY <1>0, <2>3, <2>4, <2>5, <2>6 DEF WaitInv, Waits
<1>4. CASE Open
    <2>1. queue' = <<>> \/ (queue' # <<>> /\ Len(queue') = 1 /\ Head(queue').type # "askPassword" /\ m_wallet' = "ready")
        BY <1>0, <1>4, OneEvent DEF Open, Event, OneActs, Quiet, Closing
    <2>2. OneActs'
        BY <1>0, <1>4, <2>1 DEF Open, Return, file, threads, OneActs, Quiet, NoSave, NoSendOn, Closing
    <2>3. NotAsked'
        BY <1>0, <1>4, <2>1 DEF Open, Return, file, threads, NotAsked
    <2>4. TempThere'
        BY <1>0, <1>4, <2>1 DEF Open, Return, file, threads, TempThere, NoSave, OneActs, Quiet, Closing
    <2>5. WalletThere'
        BY <1>0, <1>4, <2>1 DEF Open, Return, file, threads, WalletThere, Opening, Loadings, OneActs, Closing, Quiet
    <2> QED BY <1>0, <2>2, <2>3, <2>4, <2>5 DEF WaitInv, Waits
<1>5. CASE OpenForImport
    <2>1. OneActs'
        BY <1>0, <1>5 DEF OpenForImport, Return, file, threads, OneActs, Quiet, NoSave, NoSendOn, Closing
    <2>2. NotAsked'
        BY <1>0, <1>5 DEF OpenForImport, Return, file, threads, NotAsked
    <2>3. TempThere'
        BY <1>0, <1>5 DEF OpenForImport, Return, file, threads, TempThere, NoSave, OneActs, Quiet, Closing
    <2>4. WalletThere'
        BY <1>0, <1>5 DEF OpenForImport, Return, file, threads, WalletThere, Opening, Loadings, OneActs, Closing, Quiet
    <2> QED BY <1>0, <2>1, <2>2, <2>3, <2>4 DEF WaitInv, Waits
<1>6. CASE CallImport
    <2>1. queue' = <<>> \/ (queue' # <<>> /\ Len(queue') = 1 /\ m_wallet' = "none" /\ pc' = Return)
        BY <1>0, <1>6, OneEvent DEF CallImport, Event, OneActs, Quiet, Closing
    <2>2. OneActs'
        BY <1>0, <1>6, <2>1 DEF CallImport, Return, threads, OneActs, Quiet, NoSave, NoSendOn, Closing
    <2>3. NotAsked'
        BY <1>0, <1>6, <2>1 DEF CallImport, Return, threads, NotAsked
    <2>4. TempThere'
        BY <1>0, <1>6, <2>1 DEF CallImport, Return, threads, TempThere, NoSave, OneActs, Quiet, Closing
    <2>5. WalletThere'
        BY <1>0, <1>6, <2>1 DEF CallImport, Return, threads, WalletThere, Opening, Loadings, OneActs, Closing, Quiet
    <2> QED BY <1>0, <2>2, <2>3, <2>4, <2>5 DEF WaitInv, Waits
<1>7. CASE OpenForLoad
    <2>1. OneActs'
        BY <1>0, <1>7 DEF OpenForLoad, Return, file, object, threads, OneActs, Quiet, NoSave, NoSendOn, Closing
    <2>2. NotAsked'
        BY <1>0, <1>7 DEF OpenForLoad, Return, file, object, threads, NotAsked
    <2>3. TempThere'
        BY <1>0, <1>7 DEF OpenForLoad, Return, file, object, threads, TempThere, NoSave, OneActs, Quiet, Closing
    <2>4. WalletThere'
        BY <1>0, <1>7 DEF OpenForLoad, Return, file, object, threads, WalletThere, Opening, Loadings, OneActs, Closing, Quiet
    <2> QED BY <1>0, <2>1, <2>2, <2>3, <2>4 DEF WaitInv, Waits
<1>8. CASE CallLoad
    <2>1. OneActs'
        BY <1>0, <1>8 DEF CallLoad, Return, file, OneActs, Quiet, NoSave, NoSendOn, Closing
    <2>2. NotAsked'
        BY <1>0, <1>8 DEF CallLoad, Return, file, NotAsked
    <2>3. TempThere'
        BY <1>0, <1>8 DEF CallLoad, Return, file, TempThere, NoSave, OneActs, Quiet, Closing
    <2>4. WalletThere'
        BY <1>0, <1>8 DEF CallLoad, Return, file, WalletThere, Opening, Loadings, OneActs, Closing, Quiet
    <2> QED BY <1>0, <2>1, <2>2, <2>3, <2>4 DEF WaitInv, Waits
<1> QED BY <1>1, <1>2, <1>3, <1>4, <1>5, <1>6, <1>7, <1>8

\* The wallet sends.
LEMMA WaitSends ==
    ASSUME TypeOK, WaitInv,
           \/ SendLock
           \/ CallSend
           \/ StoreId
    PROVE  WaitInv'
<1>0. Waits /\ OneActs /\ NotAsked /\ TempThere /\ WalletThere
    BY DEF WaitInv
<1>1. CASE SendLock
    <2>1. OneActs'
        BY <1>0, <1>1 DEF SendLock, file, object, threads, OneActs, Quiet, NoSave, NoSendOn, Closing
    <2>2. NotAsked'
        BY <1>0, <1>1 DEF SendLock, file, object, threads, NotAsked
    <2>3. TempThere'
        BY <1>0, <1>1 DEF SendLock, file, object, threads, TempThere, NoSave, OneActs, Quiet, Closing
    <2>4. WalletThere'
        BY <1>0, <1>1 DEF SendLock, file, object, threads, WalletThere, Opening, Loadings, OneActs, Closing, Quiet
    <2> QED BY <1>0, <2>1, <2>2, <2>3, <2>4 DEF WaitInv, Waits
<1>2. CASE CallSend
    <2>1. Quiet /\ ~pump
        BY <1>0, <1>2 DEF CallSend, OneActs, Closing
    <2>2. \/ sender' = sender /\ pc' = "idle" /\ sending' = NoSend
          \/ \E i \in TxIds : sender' = [sender EXCEPT ![i] = "sending"] /\ pc' = "send.store" /\ sending' = [sending EXCEPT !.id = i]
        BY <1>0, <1>2, <2>1 DEF CallSend, Return
    <2>3. sending'.kind # "message"
        BY <1>0, <1>2, <2>1, <2>2 DEF NotAsked, NoSend, TypeOK
    <2>4. \A i, j \in TxIds : sender'[i] \in {"sending", "emit"} /\ sender'[j] \in {"sending", "emit"} => i = j
        BY <1>0, <1>2, <2>1, <2>2, <2>3 DEF Quiet, NoSendOn, TypeOK
    <2>5. OneActs'
        BY <1>0, <1>2, <2>1, <2>2, <2>3, <2>4 DEF CallSend, Return, OneActs, Quiet, NoSave, NoSendOn, Closing
    <2>6. NotAsked'
        BY <1>0, <1>2, <2>1, <2>2, <2>3, <2>4 DEF CallSend, Return, NotAsked
    <2>7. TempThere'
        BY <1>0, <1>2, <2>1, <2>2, <2>3, <2>4 DEF CallSend, Return, TempThere, NoSave, OneActs, Quiet, Closing
    <2>8. WalletThere'
        BY <1>0, <1>2, <2>1, <2>2, <2>3, <2>4 DEF CallSend, Return, WalletThere, Opening, Loadings, OneActs, Closing, Quiet
    <2> QED BY <1>0, <2>5, <2>6, <2>7, <2>8 DEF WaitInv, Waits
<1>3. CASE StoreId
    <2>1. slot'["message"] = NoTx
        BY <1>0, <1>3 DEF StoreId, NotAsked, TypeOK, Kinds
    <2>2. OneActs'
        BY <1>0, <1>3, <2>1 DEF StoreId, Return, file, object, threads, NoSend, TypeOK, OneActs, Quiet, NoSave, NoSendOn, Closing
    <2>3. NotAsked'
        BY <1>0, <1>3, <2>1 DEF StoreId, Return, file, object, threads, NoSend, TypeOK, NotAsked
    <2>4. TempThere'
        BY <1>0, <1>3, <2>1 DEF StoreId, Return, file, object, threads, NoSend, TypeOK, TempThere, NoSave, OneActs, Quiet, Closing
    <2>5. WalletThere'
        BY <1>0, <1>3, <2>1 DEF StoreId, Return, file, object, threads, NoSend, TypeOK, WalletThere, Opening, Loadings, OneActs, Closing, Quiet
    <2> QED BY <1>0, <2>2, <2>3, <2>4, <2>5 DEF WaitInv, Waits
<1> QED BY <1>1, <1>2, <1>3

\* The GUI thread takes the event that is there.
LEMMA WaitHandles ==
    ASSUME TypeOK, WaitInv,
           \/ HandleInitOk /\ ~Die
           \/ HandleInitWrong
           \/ HandleInitOther
           \/ HandleAskPassword
           \/ HandleSendDone /\ ~Die
    PROVE  WaitInv'
<1>0. Waits /\ OneActs /\ NotAsked /\ TempThere /\ WalletThere
    BY DEF WaitInv
<1>1. CASE HandleInitOk /\ ~Die
    <2>1. pc = "idle" /\ queue # <<>> /\ Len(queue) = 1 /\ ~pump
        BY <1>0, <1>1 DEF HandleInitOk, Take, OneActs, Closing
    <2>2. queue \in Seq(Events)
        BY <1>0, <1>1, <2>1 DEF TypeOK
    <2>3. Tail(queue) = <<>>
        BY <1>0, <1>1, <2>1, <2>2, NoneLeft
    <2>4. loader = "idle" /\ NoSave /\ NoSendOn
        BY <1>0, <1>1, <2>1, <2>2, <2>3 DEF OneActs
    <2>5. queue' = <<>>
        BY <1>0, <1>1, <2>1, <2>2, <2>3, <2>4 DEF HandleInitOk
    <2>6. OneActs'
        BY <1>0, <1>1, <2>1, <2>2, <2>3, <2>4, <2>5 DEF HandleInitOk, file, object, threads, OneActs, Quiet, NoSave, NoSendOn, Closing
    <2>7. NotAsked'
        BY <1>0, <1>1, <2>1, <2>2, <2>3, <2>4, <2>5 DEF HandleInitOk, file, object, threads, NotAsked
    <2>8. TempThere'
        BY <1>0, <1>1, <2>1, <2>2, <2>3, <2>4, <2>5 DEF HandleInitOk, file, object, threads, TempThere, NoSave, OneActs, Quiet, Closing
    <2>9. WalletThere'
        BY <1>0, <1>1, <2>1, <2>2, <2>3, <2>4, <2>5 DEF HandleInitOk, file, object, threads, WalletThere, Opening, Loadings, OneActs, Closing, Quiet
    <2> QED BY <1>0, <2>6, <2>7, <2>8, <2>9 DEF WaitInv, Waits
<1>2. CASE HandleInitWrong
    <2>1. pc = "idle" /\ queue # <<>> /\ Len(queue) = 1 /\ ~pump
        BY <1>0, <1>2 DEF HandleInitWrong, Take, OneActs, Closing
    <2>2. queue \in Seq(Events)
        BY <1>0, <1>2, <2>1 DEF TypeOK
    <2>3. Tail(queue) = <<>>
        BY <1>0, <1>2, <2>1, <2>2, NoneLeft
    <2>4. loader = "idle" /\ NoSave /\ NoSendOn
        BY <1>0, <1>2, <2>1, <2>2, <2>3 DEF OneActs
    <2>5. queue' = Append(<<>>, Event("askPassword"))
        BY <1>0, <1>2, <2>1, <2>2, <2>3, <2>4 DEF HandleInitWrong
    <2>6. queue' # <<>> /\ Len(queue') = 1
        BY <1>0, <1>2, <2>1, <2>2, <2>3, <2>4, <2>5, OneEvent
    <2>7. OneActs'
        BY <1>0, <1>2, <2>1, <2>2, <2>3, <2>4, <2>5, <2>6 DEF HandleInitWrong, gui, file, threads, OneActs, Quiet, NoSave, NoSendOn, Closing
    <2>8. NotAsked'
        BY <1>0, <1>2, <2>1, <2>2, <2>3, <2>4, <2>5, <2>6 DEF HandleInitWrong, gui, file, threads, NotAsked
    <2>9. TempThere'
        BY <1>0, <1>2, <2>1, <2>2, <2>3, <2>4, <2>5, <2>6 DEF HandleInitWrong, gui, file, threads, TempThere, NoSave, OneActs, Quiet, Closing
    <2>10. WalletThere'
        BY <1>0, <1>2, <2>1, <2>2, <2>3, <2>4, <2>5, <2>6 DEF HandleInitWrong, gui, file, threads, WalletThere, Opening, Loadings, OneActs, Closing, Quiet
    <2> QED BY <1>0, <2>7, <2>8, <2>9, <2>10 DEF WaitInv, Waits
<1>3. CASE HandleInitOther
    <2>1. pc = "idle" /\ queue # <<>> /\ Len(queue) = 1 /\ ~pump
        BY <1>0, <1>3 DEF HandleInitOther, Take, OneActs, Closing
    <2>2. queue \in Seq(Events)
        BY <1>0, <1>3, <2>1 DEF TypeOK
    <2>3. Tail(queue) = <<>>
        BY <1>0, <1>3, <2>1, <2>2, NoneLeft
    <2>4. loader = "idle" /\ NoSave /\ NoSendOn
        BY <1>0, <1>3, <2>1, <2>2, <2>3 DEF OneActs
    <2>5. queue' = <<>>
        BY <1>0, <1>3, <2>1, <2>2, <2>3, <2>4 DEF HandleInitOther
    <2>6. OneActs'
        BY <1>0, <1>3, <2>1, <2>2, <2>3, <2>4, <2>5 DEF HandleInitOther, gui, file, threads, OneActs, Quiet, NoSave, NoSendOn, Closing
    <2>7. NotAsked'
        BY <1>0, <1>3, <2>1, <2>2, <2>3, <2>4, <2>5 DEF HandleInitOther, gui, file, threads, NotAsked
    <2>8. TempThere'
        BY <1>0, <1>3, <2>1, <2>2, <2>3, <2>4, <2>5 DEF HandleInitOther, gui, file, threads, TempThere, NoSave, OneActs, Quiet, Closing
    <2>9. WalletThere'
        BY <1>0, <1>3, <2>1, <2>2, <2>3, <2>4, <2>5 DEF HandleInitOther, gui, file, threads, WalletThere, Opening, Loadings, OneActs, Closing, Quiet
    <2> QED BY <1>0, <2>6, <2>7, <2>8, <2>9 DEF WaitInv, Waits
<1>4. CASE HandleAskPassword
    <2>1. pc = "idle" /\ queue # <<>> /\ Len(queue) = 1 /\ ~pump
        BY <1>0, <1>4 DEF HandleAskPassword, Take, OneActs, Closing
    <2>2. queue \in Seq(Events)
        BY <1>0, <1>4, <2>1 DEF TypeOK
    <2>3. Tail(queue) = <<>>
        BY <1>0, <1>4, <2>1, <2>2, NoneLeft
    <2>4. loader = "idle" /\ NoSave /\ NoSendOn
        BY <1>0, <1>4, <2>1, <2>2, <2>3 DEF OneActs
    <2>5. queue' = <<>>
        BY <1>0, <1>4, <2>1, <2>2, <2>3, <2>4 DEF HandleAskPassword
    <2>6. OneActs'
        BY <1>0, <1>4, <2>1, <2>2, <2>3, <2>4, <2>5 DEF HandleAskPassword, Take, file, object, threads, OneActs, Quiet, NoSave, NoSendOn, Closing
    <2>7. NotAsked'
        BY <1>0, <1>4, <2>1, <2>2, <2>3, <2>4, <2>5 DEF HandleAskPassword, Take, file, object, threads, NotAsked
    <2>8. TempThere'
        BY <1>0, <1>4, <2>1, <2>2, <2>3, <2>4, <2>5 DEF HandleAskPassword, Take, file, object, threads, TempThere, NoSave, OneActs, Quiet, Closing
    <2>9. WalletThere'
        BY <1>0, <1>4, <2>1, <2>2, <2>3, <2>4, <2>5 DEF HandleAskPassword, Take, file, object, threads, WalletThere, Opening, Loadings, OneActs, Closing, Quiet
    <2> QED BY <1>0, <2>6, <2>7, <2>8, <2>9 DEF WaitInv, Waits
<1>5. CASE HandleSendDone /\ ~Die
    <2>1. pc = "idle" /\ queue # <<>> /\ Len(queue) = 1 /\ ~pump
        BY <1>0, <1>5 DEF HandleSendDone, Take, OneActs, Closing
    <2>2. queue \in Seq(Events)
        BY <1>0, <1>5, <2>1 DEF TypeOK
    <2>3. Tail(queue) = <<>>
        BY <1>0, <1>5, <2>1, <2>2, NoneLeft
    <2>4. loader = "idle" /\ NoSave /\ NoSendOn
        BY <1>0, <1>5, <2>1, <2>2, <2>3 DEF OneActs
    <2>5. queue' = <<>>
        BY <1>0, <1>5, <2>1, <2>2, <2>3, <2>4 DEF HandleSendDone
    <2>6. OneActs'
        BY <1>0, <1>5, <2>1, <2>2, <2>3, <2>4, <2>5 DEF HandleSendDone, file, object, threads, OneActs, Quiet, NoSave, NoSendOn, Closing
    <2>7. NotAsked'
        BY <1>0, <1>5, <2>1, <2>2, <2>3, <2>4, <2>5 DEF HandleSendDone, file, object, threads, NotAsked
    <2>8. TempThere'
        BY <1>0, <1>5, <2>1, <2>2, <2>3, <2>4, <2>5 DEF HandleSendDone, file, object, threads, TempThere, NoSave, OneActs, Quiet, Closing
    <2>9. WalletThere'
        BY <1>0, <1>5, <2>1, <2>2, <2>3, <2>4, <2>5 DEF HandleSendDone, file, object, threads, WalletThere, Opening, Loadings, OneActs, Closing, Quiet
    <2> QED BY <1>0, <2>6, <2>7, <2>8, <2>9 DEF WaitInv, Waits
<1> QED BY <1>1, <1>2, <1>3, <1>4, <1>5

\* What the user does leaves the rest as it is; a send has one of the kinds that are asked for.
LEMMA WaitUser == ASSUME TypeOK, WaitInv, User, ~Die PROVE WaitInv'
<1>0. Waits /\ OneActs /\ NotAsked /\ TempThere /\ WalletThere
    BY DEF WaitInv
<1> DEFINE Acts ==
        /\ Quiet /\ pc = "idle" /\ ~pump
        /\ pc' \in {"save.open", "send.lock", "exit"} \/ (pc' \in Opening /\ m_wallet = "none")
        /\ cont' \in {cont, "close", "return"}
        /\ sending' = sending \/ (\E kind \in Kinds : kind # "message" /\ sending' = [kind |-> kind, id |-> NoTx])
        /\ UNCHANGED <<pump, queue, m_mutex, m_file, m_isBackupInProgress, m_wallet, slot, key, sent,
                       loader, saver, sender, disk, legacy, enabled, run>>
<1>1. Acts
    <2>0. Paced /\ "message" \notin Ops /\ "backup" \notin Ops
        BY <1>0 DEF Waits
    <2>1. ASSUME NEW op, UserMay(op), pc = "idle" PROVE Quiet /\ pc = "idle" /\ ~pump /\ op # "message" /\ op # "backup"
        BY <1>0, <2>1, UserWaits DEF OneActs
    <2>2. ASSUME NEW op \in {"open", "create", "legacy", "import"}, SwitchWallet(op) PROVE Acts
        BY <2>0, <2>1, <2>2 DEF SwitchWallet, Opening, file, object, threads
    <2>3. CASE Quit
        BY <2>1, <2>3 DEF Quit, file, object, threads
    <2>4. CASE Reset
        BY <2>1, <2>4 DEF Reset, file, object, threads
    <2>5. CASE SaveNow("backup", "backup")
        BY <2>1, <2>5 DEF SaveNow
    <2>6. CASE SaveNow("changePassword", "return")
        BY <2>1, <2>6 DEF SaveNow, file, object, threads
    <2>7. ASSUME NEW kind \in Kinds, StartSend(kind) PROVE Acts
        BY <2>1, <2>7 DEF StartSend, file, object, threads
    <2> QED BY <2>2, <2>3, <2>4, <2>5, <2>6, <2>7 DEF User
<1>2. OneActs'
    BY <1>0, <1>1 DEF OneActs, Quiet, NoSave, NoSendOn, Closing, Opening
<1>3. NotAsked'
    BY <1>0, <1>1 DEF NotAsked, Opening
<1>4. TempThere'
    BY <1>0, <1>1 DEF TempThere, Opening
<1>5. WalletThere'
    BY <1>0, <1>1 DEF WalletThere, Opening, Loadings
<1> QED BY <1>0, <1>2, <1>3, <1>4, <1>5 DEF WaitInv, Waits

\* The library loads the wallet.
LEMMA WaitLoads ==
    ASSUME TypeOK, WaitInv,
           \/ LoadEnd
           \/ LoadEmit
    PROVE  WaitInv'
<1>0. Waits /\ OneActs /\ NotAsked /\ TempThere /\ WalletThere
    BY DEF WaitInv
<1>1. CASE LoadEnd
    <2>1. NoSave /\ NoSendOn /\ queue = <<>>
        BY <1>0, <1>1 DEF LoadEnd, OneActs
    <2>2. loader' # "idle" /\ UNCHANGED <<pc, pump, cont, sending, queue, saver, sender, slot, disk, enabled>>
        BY <1>0, <1>1, <2>1 DEF LoadEnd, gui
    <2>3. pc \in {"idle", "send.store"}
        BY <1>0, <1>1, <2>1, <2>2 DEF LoadEnd, OneActs, Quiet, Closing, TypeOK
    <2>4. OneActs'
        BY <1>0, <1>1, <2>1, <2>2, <2>3 DEF LoadEnd, gui, OneActs, Quiet, NoSave, NoSendOn, Closing
    <2>5. NotAsked'
        BY <1>0, <1>1, <2>1, <2>2, <2>3 DEF LoadEnd, gui, NotAsked
    <2>6. TempThere'
        BY <1>0, <1>1, <2>1, <2>2, <2>3 DEF LoadEnd, gui, TempThere, NoSave, OneActs, Quiet, Closing
    <2>7. WalletThere'
        BY <1>0, <1>1, <2>1, <2>2, <2>3 DEF LoadEnd, gui, WalletThere, Opening, Loadings, OneActs, Closing, Quiet
    <2> QED BY <1>0, <2>4, <2>5, <2>6, <2>7 DEF WaitInv, Waits
<1>2. CASE LoadEmit
    <2>1. NoSave /\ NoSendOn /\ queue = <<>> /\ loader # "idle"
        BY <1>0, <1>2 DEF LoadEmit, OneActs
    <2>2. queue' = Append(<<>>, Event(loader))
        BY <1>0, <1>2, <2>1 DEF LoadEmit
    <2>3. queue' # <<>> /\ Len(queue') = 1 /\ Head(queue').type # "askPassword"
        BY <1>0, <1>2, <2>1, <2>2, OneEvent DEF Event, LoadEmit
    <2>4. OneActs'
        BY <1>0, <1>2, <2>1, <2>2, <2>3 DEF LoadEmit, gui, file, object, OneActs, Quiet, NoSave, NoSendOn, Closing
    <2>5. NotAsked'
        BY <1>0, <1>2, <2>1, <2>2, <2>3 DEF LoadEmit, gui, file, object, NotAsked
    <2>6. TempThere'
        BY <1>0, <1>2, <2>1, <2>2, <2>3 DEF LoadEmit, gui, file, object, TempThere, NoSave, OneActs, Quiet, Closing
    <2>7. WalletThere'
        BY <1>0, <1>2, <2>1, <2>2, <2>3 DEF LoadEmit, gui, file, object, WalletThere, Opening, Loadings, OneActs, Closing, Quiet
    <2> QED BY <1>0, <2>4, <2>5, <2>6, <2>7 DEF WaitInv, Waits
<1> QED BY <1>1, <1>2

\* A save of the library.
LEMMA WaitSaver ==
    ASSUME TypeOK, WaitInv, NEW s \in Savers,
           \/ SaveWrite(s)
           \/ SaveClose(s)
           \/ SaveRemove(s)
           \/ SaveRename(s)
    PROVE  WaitInv'
<1>0. Waits /\ OneActs /\ NotAsked /\ TempThere /\ WalletThere
    BY DEF WaitInv
<1>1. CASE SaveWrite(s)
    <2>1. NoSendOn /\ pc \in {"idle"} \cup Closing /\ saver[s] # "idle" /\ queue = <<>> /\ loader = "idle"
        BY <1>0, <1>1 DEF SaveWrite, OneActs, Closing, NoSave, Quiet, TypeOK
    <2>2. \A t \in Savers : t # s => saver[t] = "idle"
        BY <1>0, <1>1, <2>1 DEF OneActs
    <2>3. \E to \in {"written", "failed"} : saver' = [saver EXCEPT ![s] = to]
        BY <1>0, <1>1, <2>1, <2>2 DEF SaveWrite
    <2>4. saver'[s] \in {"written", "failed"} /\ \A t \in Savers : t # s => saver'[t] = "idle"
        BY <1>0, <1>1, <2>1, <2>2, <2>3 DEF TypeOK
    <2>5. disk'["temp"] # NoFile
        BY <1>0, <1>1, <2>1, <2>2, <2>3, <2>4, ContentsAssumption DEF SaveWrite, TempThere, TypeOK, Names
    <2>6. OneActs'
        BY <1>0, <1>1, <2>1, <2>2, <2>3, <2>4, <2>5 DEF SaveWrite, gui, file, object, TypeOK, OneActs, Quiet, NoSave, NoSendOn, Closing
    <2>7. NotAsked'
        BY <1>0, <1>1, <2>1, <2>2, <2>3, <2>4, <2>5 DEF SaveWrite, gui, file, object, TypeOK, NotAsked
    <2>8. TempThere'
        BY <1>0, <1>1, <2>1, <2>2, <2>3, <2>4, <2>5 DEF SaveWrite, gui, file, object, TypeOK, TempThere, NoSave, OneActs, Quiet, Closing
    <2>9. WalletThere'
        BY <1>0, <1>1, <2>1, <2>2, <2>3, <2>4, <2>5 DEF SaveWrite, gui, file, object, TypeOK, WalletThere, Opening, Loadings, OneActs, Closing, Quiet
    <2> QED BY <1>0, <2>6, <2>7, <2>8, <2>9 DEF WaitInv, Waits
<1>2. CASE SaveClose(s)
    <2>1. NoSendOn /\ pc \in {"idle"} \cup Closing /\ saver[s] # "idle" /\ queue = <<>> /\ loader = "idle"
        BY <1>0, <1>2 DEF SaveClose, OneActs, Closing, NoSave, Quiet, TypeOK
    <2>2. \A t \in Savers : t # s => saver[t] = "idle"
        BY <1>0, <1>2, <2>1 DEF OneActs
    <2>3. \E to \in {"remove", "idle"} : saver' = [saver EXCEPT ![s] = to] /\ (to = "remove" => saver[s] = "written")
        BY <1>0, <1>2, <2>1, <2>2 DEF SaveClose
    <2>4. saver'[s] \in {"remove", "idle"} /\ (saver'[s] = "remove" => saver[s] = "written") /\ \A t \in Savers : t # s => saver'[t] = "idle"
        BY <1>0, <1>2, <2>1, <2>2, <2>3 DEF TypeOK
    <2>5. OneActs'
        BY <1>0, <1>2, <2>1, <2>2, <2>3, <2>4 DEF SaveClose, gui, object, TypeOK, OneActs, Quiet, NoSave, NoSendOn, Closing
    <2>6. NotAsked'
        BY <1>0, <1>2, <2>1, <2>2, <2>3, <2>4 DEF SaveClose, gui, object, TypeOK, NotAsked
    <2>7. TempThere'
        BY <1>0, <1>2, <2>1, <2>2, <2>3, <2>4 DEF SaveClose, gui, object, TypeOK, TempThere, NoSave, OneActs, Quiet, Closing
    <2>8. WalletThere'
        BY <1>0, <1>2, <2>1, <2>2, <2>3, <2>4 DEF SaveClose, gui, object, TypeOK, WalletThere, Opening, Loadings, OneActs, Closing, Quiet
    <2> QED BY <1>0, <2>5, <2>6, <2>7, <2>8 DEF WaitInv, Waits
<1>3. CASE SaveRemove(s)
    <2>1. NoSendOn /\ pc \in {"idle"} \cup Closing /\ saver[s] # "idle" /\ queue = <<>> /\ loader = "idle"
        BY <1>0, <1>3 DEF SaveRemove, OneActs, Closing, NoSave, Quiet, TypeOK
    <2>2. \A t \in Savers : t # s => saver[t] = "idle"
        BY <1>0, <1>3, <2>1 DEF OneActs
    <2>3. saver'[s] = "rename" /\ \A t \in Savers : t # s => saver'[t] = "idle"
        BY <1>0, <1>3, <2>1, <2>2 DEF SaveRemove, TypeOK
    <2>4. OneActs'
        BY <1>0, <1>3, <2>1, <2>2, <2>3 DEF SaveRemove, gui, object, TypeOK, OneActs, Quiet, NoSave, NoSendOn, Closing
    <2>5. NotAsked'
        BY <1>0, <1>3, <2>1, <2>2, <2>3 DEF SaveRemove, gui, object, TypeOK, NotAsked
    <2>6. TempThere'
        BY <1>0, <1>3, <2>1, <2>2, <2>3 DEF SaveRemove, gui, object, TypeOK, TempThere, NoSave, OneActs, Quiet, Closing
    <2>7. WalletThere'
        BY <1>0, <1>3, <2>1, <2>2, <2>3 DEF SaveRemove, gui, object, TypeOK, WalletThere, Opening, Loadings, OneActs, Closing, Quiet
    <2> QED BY <1>0, <2>4, <2>5, <2>6, <2>7 DEF WaitInv, Waits
<1>4. CASE SaveRename(s)
    <2>1. NoSendOn /\ pc \in {"idle"} \cup Closing /\ saver[s] # "idle" /\ queue = <<>> /\ loader = "idle"
        BY <1>0, <1>4 DEF SaveRename, OneActs, Closing, NoSave, Quiet, TypeOK
    <2>2. \A t \in Savers : t # s => saver[t] = "idle"
        BY <1>0, <1>4, <2>1 DEF OneActs
    <2>3. \A t \in Savers : saver'[t] = "idle"
        BY <1>0, <1>4, <2>1, <2>2 DEF SaveRename, TypeOK
    <2>4. OneActs'
        BY <1>0, <1>4, <2>1, <2>2, <2>3 DEF SaveRename, gui, object, TypeOK, OneActs, Quiet, NoSave, NoSendOn, Closing
    <2>5. NotAsked'
        BY <1>0, <1>4, <2>1, <2>2, <2>3 DEF SaveRename, gui, object, TypeOK, NotAsked
    <2>6. TempThere'
        BY <1>0, <1>4, <2>1, <2>2, <2>3 DEF SaveRename, gui, object, TypeOK, TempThere, NoSave, OneActs, Quiet, Closing
    <2>7. WalletThere'
        BY <1>0, <1>4, <2>1, <2>2, <2>3 DEF SaveRename, gui, object, TypeOK, WalletThere, Opening, Loadings, OneActs, Closing, Quiet
    <2> QED BY <1>0, <2>4, <2>5, <2>6, <2>7 DEF WaitInv, Waits
<1> QED BY <1>1, <1>2, <1>3, <1>4

\* A send of the library.
LEMMA WaitSender ==
    ASSUME TypeOK, WaitInv, NEW i \in TxIds,
           \/ SendUnlock(i)
           \/ SendEmit(i)
           \/ SendReset(i)
    PROVE  WaitInv'
<1>0. Waits /\ OneActs /\ NotAsked /\ TempThere /\ WalletThere
    BY DEF WaitInv
<1>1. CASE SendUnlock(i)
    <2>1. NoSave /\ pc \in {"idle", "send.store"} /\ queue = <<>> /\ loader = "idle" /\ ~pump
        BY <1>0, <1>1 DEF SendUnlock, OneActs, Closing, NoSendOn, Quiet, TypeOK
    <2>2. \A j \in TxIds : j # i => sender[j] \notin {"sending", "emit"}
        BY <1>0, <1>1, <2>1 DEF SendUnlock, OneActs
    <2>3. sender'[i] = "emit" /\ \A j \in TxIds : j # i => sender'[j] \notin {"sending", "emit"}
        BY <1>0, <1>1, <2>1, <2>2 DEF SendUnlock, TypeOK
    <2>4. OneActs'
        BY <1>0, <1>1, <2>1, <2>2, <2>3 DEF SendUnlock, gui, file, object, TypeOK, OneActs, Quiet, NoSave, NoSendOn, Closing
    <2>5. NotAsked'
        BY <1>0, <1>1, <2>1, <2>2, <2>3 DEF SendUnlock, gui, file, object, TypeOK, NotAsked
    <2>6. TempThere'
        BY <1>0, <1>1, <2>1, <2>2, <2>3 DEF SendUnlock, gui, file, object, TypeOK, TempThere, NoSave, OneActs, Quiet, Closing
    <2>7. WalletThere'
        BY <1>0, <1>1, <2>1, <2>2, <2>3 DEF SendUnlock, gui, file, object, TypeOK, WalletThere, Opening, Loadings, OneActs, Closing, Quiet
    <2> QED BY <1>0, <2>4, <2>5, <2>6, <2>7 DEF WaitInv, Waits
<1>2. CASE SendEmit(i)
    <2>1. NoSave /\ pc \in {"idle", "send.store"} /\ queue = <<>> /\ loader = "idle" /\ ~pump
        BY <1>0, <1>2 DEF SendEmit, OneActs, Closing, NoSendOn, Quiet, TypeOK
    <2>2. \A j \in TxIds : j # i => sender[j] \notin {"sending", "emit"}
        BY <1>0, <1>2, <2>1 DEF SendEmit, OneActs
    <2>3. \E to \in {"done"} \cup Kinds : sender' = [sender EXCEPT ![i] = to] /\ to # "message"
        BY <1>0, <1>2, <2>1, <2>2, IdsAssumption DEF SendEmit, NotAsked
    <2>4. NoSendOn'
        BY <1>0, <1>2, <2>1, <2>2, <2>3 DEF NoSendOn, TypeOK, Kinds
    <2>5. queue' = Append(<<>>, [type |-> "sendDone", id |-> i])
        BY <1>0, <1>2, <2>1, <2>2, <2>3, <2>4, IdsAssumption DEF SendEmit, NotAsked
    <2>6. queue' # <<>> /\ Len(queue') = 1 /\ Head(queue').type # "askPassword"
        BY <1>0, <1>2, <2>1, <2>2, <2>3, <2>4, <2>5, OneEvent
    <2>7. OneActs'
        BY <1>0, <1>2, <2>1, <2>2, <2>3, <2>4, <2>5, <2>6 DEF SendEmit, gui, file, object, OneActs, Quiet, NoSave, NoSendOn, Closing
    <2>8. NotAsked'
        BY <1>0, <1>2, <2>1, <2>2, <2>3, <2>4, <2>5, <2>6 DEF SendEmit, gui, file, object, NotAsked
    <2>9. TempThere'
        BY <1>0, <1>2, <2>1, <2>2, <2>3, <2>4, <2>5, <2>6 DEF SendEmit, gui, file, object, TempThere, NoSave, OneActs, Quiet, Closing
    <2>10. WalletThere'
        BY <1>0, <1>2, <2>1, <2>2, <2>3, <2>4, <2>5, <2>6 DEF SendEmit, gui, file, object, WalletThere, Opening, Loadings, OneActs, Closing, Quiet
    <2> QED BY <1>0, <2>7, <2>8, <2>9, <2>10 DEF WaitInv, Waits
<1>3. CASE SendReset(i)
    <2>1. slot'["message"] = NoTx
        BY <1>0, <1>3 DEF SendReset, NotAsked, TypeOK, Kinds
    <2>2. \A j \in TxIds : sender'[j] \in {"sending", "emit"} => sender[j] = sender'[j]
        BY <1>0, <1>3, <2>1 DEF SendReset, TypeOK
    <2>3. OneActs'
        BY <1>0, <1>3, <2>1, <2>2 DEF SendReset, gui, file, object, OneActs, Quiet, NoSave, NoSendOn, Closing
    <2>4. NotAsked'
        BY <1>0, <1>3, <2>1, <2>2 DEF SendReset, gui, file, object, NotAsked
    <2>5. TempThere'
        BY <1>0, <1>3, <2>1, <2>2 DEF SendReset, gui, file, object, TempThere, NoSave, OneActs, Quiet, Closing
    <2>6. WalletThere'
        BY <1>0, <1>3, <2>1, <2>2 DEF SendReset, gui, file, object, WalletThere, Opening, Loadings, OneActs, Closing, Quiet
    <2> QED BY <1>0, <2>3, <2>4, <2>5, <2>6 DEF WaitInv, Waits
<1> QED BY <1>1, <1>2, <1>3

\* No step of a user who waits, of the GUI thread or of the library breaks the invariant.
LEMMA WaitKept == TypeOK /\ WaitInv /\ [Next]_vars => WaitInv'
<1> SUFFICES ASSUME TypeOK, WaitInv, [Next]_vars PROVE WaitInv'
    OBVIOUS
<1>1. CASE UNCHANGED vars
    <2>1. WaitInv
        OBVIOUS
    <2> QED BY <1>1, <2>1 DEF vars, WaitInv, Waits, OneActs, NotAsked, TempThere, WalletThere, Quiet, NoSave, NoSendOn
<1>2. CASE Relaunch
    <2>1. OneActs /\ NotAsked /\ TempThere /\ WalletThere
        BY DEF WaitInv
    <2>2. /\ pc = "exited" /\ pc' = "open"
          /\ UNCHANGED <<pump, cont, sending, queue, m_file, m_wallet, key, slot, loader, saver, sender, disk, enabled>>
        BY <1>2 DEF Relaunch, file, object, threads
    <2>3. OneActs'
        BY <2>1, <2>2 DEF OneActs, Quiet, NoSave, NoSendOn, Closing
    <2>4. NotAsked'
        BY <2>1, <2>2 DEF NotAsked
    <2>5. TempThere'
        BY <2>1, <2>2 DEF TempThere
    <2>6. WalletThere'
        BY <2>1, <2>2 DEF WalletThere, Opening, Loadings
    <2> QED BY <2>3, <2>4, <2>5, <2>6 DEF WaitInv, Waits
<1>3. CASE Die
    BY <1>3, WaitDies
<1>4. CASE User /\ ~Die
    BY <1>4, WaitUser
<1>5. CASE Gui /\ ~Die
    BY <1>5, WaitSaves, WaitCloses, WaitOpens, WaitSends, WaitHandles DEF Gui, Exit
<1>6. CASE Loader
    BY <1>6, WaitLoads DEF Loader
<1>7. ASSUME NEW s \in Savers, Saver(s) PROVE WaitInv'
    BY <1>7, WaitSaver DEF Saver
<1>8. ASSUME NEW i \in TxIds, Sender(i) PROVE WaitInv'
    BY <1>8, WaitSender DEF Sender
<1> QED BY <1>1, <1>2, <1>3, <1>4, <1>5, <1>6, <1>7, <1>8 DEF Next, Crash, Stopped

\* AssertionsHold, for any threads, transactions, keys, failures and crashes: a user who waits meets none
\* of the assertions.  The user sends no messages and makes no backup: with either of them a save may
\* find no ".temp".
THEOREM WaitingMeetsNoAssertion == Waits => (Spec => []AssertionsHold)
<1>1. Init /\ Waits => WaitInv
    BY WaitStart
<1>2. TypeOK /\ WaitInv /\ [Next]_vars => WaitInv'
    BY WaitKept
<1>3. WaitInv => AssertionsHold
    BY DEF WaitInv, WalletThere, TempThere, Opening, AssertionsHold, RenameFindsTemp
<1> QED BY <1>1, <1>2, <1>3, TypeCorrect, PTL DEF Spec

-----------------------------------------------------------------------------
(***************************************************************************)
(* The keys on disk, for a user who waits.                                 *)
(***************************************************************************)
\* What ".temp" holds while it is written, and until it is renamed.
TempHolds ==
    /\ ~m_isBackupInProgress
    /\ pc \in {"save.open", "save.call"} => m_wallet # "none"
    /\ pc = "save.call" => disk["temp"] = Torn
    /\ \A s \in Savers :
           /\ saver[s] # "idle" => key \in Keys
           /\ saver[s] \in {"writing", "failed"} => disk["temp"] = Torn
           /\ saver[s] \in {"written", "remove", "rename"} => disk["temp"] = key
           /\ saver[s] = "rename" => disk["wallet"] = NoFile

\* A wallet whose file is not there yet has keys that ".temp" does not hold: no save has ended.
NotSavedYet ==
    m_wallet # "none" /\ NoSave /\ pc # "import.open" /\ disk["wallet"] = NoFile
        => key \in Keys /\ disk["temp"] # key

\* Nothing is saved while the path is that of a legacy file, which is not written; the wallet file
\* it is imported into was truncated when it was opened.
LegacyStays ==
    /\ legacy => /\ disk["keys"] \in Keys
                 /\ NoSave /\ loader = "idle"
                 /\ m_wallet # "none" => pc \in {"import.open", "import.call"} /\ key = NoFile
    /\ pc \in {"load.open", "load.call"} => ~legacy
    /\ pc \in {"import.open", "import.call"} => legacy
    /\ pc = "import.call" => disk["wallet"] = Torn

KeysInv == TempHolds /\ NotSavedYet /\ LegacyStays

\* Where the GUI thread stands while a file is only partly written or an import is under way.
Pending == {"save.call", "import.open", "import.call"}

\* What a step needs that leaves the files, their path and the saves as they are.
LEMMA KeysCalm ==
    ASSUME KeysInv,
           UNCHANGED <<disk, legacy, m_isBackupInProgress, saver>>,
           key' = key \/ (key' = NoFile /\ NoSave /\ m_wallet' = "none"),
           m_wallet' \in {m_wallet, "none"},
           loader' = loader \/ ~legacy \/ loader' = "idle",
           \/ pc' = pc /\ m_wallet' = m_wallet
           \/ pc' \notin Pending /\ (pc \notin {"import.open", "import.call"} \/ m_wallet' = "none"),
           pc' \in {"load.open", "load.call"} => ~legacy,
           pc' = "save.open" => m_wallet' # "none"
    PROVE  KeysInv'
<1>1. TempHolds /\ NotSavedYet /\ LegacyStays
    BY DEF KeysInv
<1>2. TempHolds'
    BY <1>1 DEF TempHolds, NoSave, Pending
<1>3. NotSavedYet'
    BY <1>1 DEF NotSavedYet, NoSave, Pending, LegacyStays
<1>4. LegacyStays'
    BY <1>1 DEF LegacyStays, NoSave, Pending
<1> QED BY <1>2, <1>3, <1>4 DEF KeysInv

\* At the start no save is under way and the path is a wallet's own.
LEMMA KeysStart == Init => KeysInv
BY DEF Init, KeysInv, TempHolds, NotSavedYet, LegacyStays, NoSave

\* The process ends, and the files stay.
LEMMA KeysDie == ASSUME KeysInv, Die PROVE KeysInv'
BY DEF Die, KeysInv, TempHolds, NotSavedYet, LegacyStays, NoSave

\* What the user does.
LEMMA KeysUser == ASSUME WaitInv, KeysInv, User, ~Die PROVE KeysInv'
<1>1. UNCHANGED <<disk, legacy, m_isBackupInProgress, saver, key, m_wallet, loader>>
    BY DEF User, SwitchWallet, Quit, Reset, SaveNow, StartSend, threads, object
<1> DEFINE Moves ==
          /\ pc = "idle" /\ pc' \in {"open", "create", "legacy", "import", "save.open", "send.lock", "exit"}
          /\ pc' = "save.open" => m_wallet' # "none"
<1>2. Moves
    <2>1. Paced
        BY DEF WaitInv, Waits
    <2>2. ASSUME NEW op \in {"open", "create", "legacy", "import"}, SwitchWallet(op) PROVE Moves
        BY <2>1, <2>2 DEF SwitchWallet, object
    <2> QED BY <2>2 DEF User, Quit, Reset, SaveNow, StartSend, object
<1> QED BY <1>1, <1>2, KeysCalm DEF Pending

\* The steps that leave the files, their path and the saves as they are.
LEMMA KeysCalmSteps ==
    ASSUME TypeOK, WaitInv, KeysInv,
           \/ CloseLock
           \/ PumpEnd
           \/ SendLock
           \/ CallSend
           \/ StoreId
           \/ HandleInitOk /\ ~Die
           \/ HandleAskPassword
           \/ HandleInitOther
           \/ HandleInitWrong
           \/ HandleSendDone /\ ~Die
           \/ CloseDelete
           \/ OpenForLoad
           \/ CallLoad
           \/ SetBackupFlag
           \/ LoadEmit
           \/ \E i \in TxIds : Sender(i)
           \/ Relaunch
    PROVE  KeysInv'
<1>1. CASE CloseLock
    BY <1>1, KeysCalm DEF CloseLock, object, threads, Pending
<1>2. CASE PumpEnd
    BY <1>2, KeysCalm DEF PumpEnd, object, threads, Pending
<1>3. CASE SendLock
    BY <1>3, KeysCalm DEF SendLock, object, threads, Pending
<1>4. CASE CallSend
    BY <1>4, KeysCalm DEF CallSend, Return, Pending
<1>5. CASE StoreId
    BY <1>5, KeysCalm DEF StoreId, Return, object, threads, Pending
<1>6. CASE HandleInitOk /\ ~Die
    BY <1>6, KeysCalm DEF HandleInitOk, object, threads, Take, Pending
<1>7. CASE HandleAskPassword
    BY <1>7, KeysCalm DEF HandleAskPassword, object, threads, Take, Pending
<1>8. CASE HandleInitOther
    BY <1>8, KeysCalm DEF HandleInitOther, Take, gui, threads, LibraryIdle, NoSave, Pending
<1>9. CASE HandleInitWrong
    BY <1>9, KeysCalm DEF HandleInitWrong, Take, gui, threads, LibraryIdle, NoSave, Pending
<1>10. CASE HandleSendDone /\ ~Die
    BY <1>10, KeysCalm DEF HandleSendDone, object, threads, Take, Pending
<1>11. CASE CloseDelete
    BY <1>11, KeysCalm DEF CloseDelete, threads, LibraryIdle, NoSave, TypeOK, Pending
<1>12. CASE OpenForLoad
    BY <1>12, KeysCalm DEF OpenForLoad, Return, object, threads, KeysInv, LegacyStays, Pending
<1>13. CASE CallLoad
    BY <1>13, KeysCalm DEF CallLoad, Return, KeysInv, LegacyStays, Pending
<1>14. CASE SetBackupFlag
    BY <1>14, KeysCalm DEF SetBackupFlag, WaitInv, NotAsked, Pending
<1>15. CASE LoadEmit
    <2>1. UNCHANGED <<pc, key, m_wallet, disk, legacy, m_isBackupInProgress, saver>> /\ loader' = "idle"
        BY <1>15 DEF LoadEmit, gui, object
    <2> QED BY <2>1, KeysCalm DEF KeysInv, LegacyStays, TempHolds
<1>16. CASE \E i \in TxIds : Sender(i)
    <2>1. UNCHANGED <<pc, key, m_wallet, disk, legacy, m_isBackupInProgress, saver, loader>>
        BY <1>16 DEF Sender, SendUnlock, SendEmit, SendReset, gui, object
    <2> QED BY <2>1, KeysCalm DEF KeysInv, LegacyStays, TempHolds
<1>17. CASE Relaunch
    BY <1>17, KeysCalm DEF Relaunch, object, threads, Pending
<1> QED BY <1>1, <1>2, <1>3, <1>4, <1>5, <1>6, <1>7, <1>8, <1>9, <1>10, <1>11, <1>12, <1>13, <1>14, <1>15, <1>16, <1>17

\* The GUI thread begins a save.
LEMMA KeysSave ==
    ASSUME TypeOK, WaitInv, KeysInv,
           \/ OpenForSave
           \/ CallSave
    PROVE  KeysInv' /\ KeepsKeys
<1>0. /\ OneActs /\ NotAsked /\ TempThere /\ WalletThere
      /\ TempHolds /\ NotSavedYet /\ LegacyStays
    BY DEF WaitInv, KeysInv
<1>1. CASE OpenForSave
    <2>1. NoSave /\ m_wallet # "none" /\ ~legacy /\ cont # "backup" /\ disk \in [Names -> Contents]
        BY <1>0, <1>1 DEF OpenForSave, OneActs, Quiet, Closing, TempHolds, LegacyStays, NotAsked, TypeOK
    <2>2. \/ pc' = "save.call" /\ disk' = [disk EXCEPT !["temp"] = Torn]
          \/ pc' \in {"close.lock", "close.pump", "idle"} /\ disk' = disk
        BY <1>0, <1>1, <2>1 DEF OpenForSave, SaveReturn, Return
    <2>3. UNCHANGED <<m_isBackupInProgress, saver, key, m_wallet, legacy, loader>>
        BY <1>0, <1>1, <2>1, <2>2 DEF OpenForSave, threads, object
    <2>4. disk["wallet"] = NoFile => key \in Keys /\ disk["temp"] # key
        BY <1>0, <1>1, <2>1, <2>2, <2>3 DEF NotSavedYet, OpenForSave
    <2>5. /\ disk'["wallet"] = disk["wallet"] /\ disk'["keys"] = disk["keys"]
          /\ disk'["temp"] = Torn \/ disk'["temp"] = disk["temp"]
          /\ pc' = "save.call" => disk'["temp"] = Torn
        BY <1>0, <1>1, <2>1, <2>2, <2>3, <2>4 DEF Names
    <2>6. TempHolds'
        BY <1>0, <1>1, <2>1, <2>2, <2>3, <2>4, <2>5, ContentsAssumption DEF OpenForSave, SaveReturn, Return, threads, object, TempHolds, NoSave
    <2>7. NotSavedYet'
        BY <1>0, <1>1, <2>1, <2>2, <2>3, <2>4, <2>5, ContentsAssumption DEF OpenForSave, SaveReturn, Return, threads, object, NotSavedYet, NoSave, TempHolds
    <2>8. LegacyStays'
        BY <1>0, <1>1, <2>1, <2>2, <2>3, <2>4, <2>5, ContentsAssumption DEF OpenForSave, SaveReturn, Return, threads, object, LegacyStays, NoSave
    <2>9. KeepsKeys
        BY <1>0, <1>1, <2>1, <2>2, <2>3, <2>4, <2>5, ContentsAssumption DEF OpenForSave, SaveReturn, Return, threads, object, KeepsKeys, OnDisk, TempHolds, NotSavedYet, LegacyStays
    <2> QED BY <2>6, <2>7, <2>8, <2>9 DEF KeysInv
<1>2. CASE CallSave
    <2>1. NoSave /\ m_wallet # "none" /\ ~legacy /\ cont # "backup"
        BY <1>0, <1>2 DEF CallSave, OneActs, Quiet, Closing, TempHolds, LegacyStays, NotAsked
    <2>2. pc' \in {"close.lock", "close.pump", "idle"}
        BY <1>0, <1>2, <2>1 DEF CallSave, SaveReturn, Return
    <2>3. UNCHANGED <<m_isBackupInProgress, disk, key, m_wallet, legacy, loader>>
        BY <1>0, <1>2, <2>1, <2>2 DEF CallSave, object
    <2>4. saver' = saver \/ (key \in Keys /\ \A s \in Savers : saver'[s] \in {"idle", "writing"})
        BY <1>0, <1>2, <2>1, <2>2, <2>3 DEF CallSave, NoSave, TypeOK, TempThere
    <2>5. \/ saver' = saver
          \/ m_wallet = "ready" /\ disk["temp"] = Torn /\ ~NoSave'
        BY <1>0, <1>2, <2>1, <2>2, <2>3, <2>4 DEF CallSave, NoSave, TypeOK, TempHolds
    <2>6. TempHolds'
        BY <1>0, <1>2, <2>1, <2>2, <2>3, <2>4, <2>5, ContentsAssumption DEF CallSave, TempHolds, NoSave
    <2>7. NotSavedYet'
        BY <1>0, <1>2, <2>1, <2>2, <2>3, <2>4, <2>5, ContentsAssumption DEF CallSave, NotSavedYet, NoSave, TempHolds
    <2>8. LegacyStays'
        BY <1>0, <1>2, <2>1, <2>2, <2>3, <2>4, <2>5, ContentsAssumption DEF CallSave, LegacyStays, NoSave
    <2>9. KeepsKeys
        BY <1>0, <1>2, <2>1, <2>2, <2>3, <2>4, <2>5, ContentsAssumption DEF CallSave, KeepsKeys, OnDisk, TempHolds, NotSavedYet, LegacyStays
    <2> QED BY <2>6, <2>7, <2>8, <2>9 DEF KeysInv
<1> QED BY <1>1, <1>2

\* A wallet is opened, on the path in use or on another.
LEMMA KeysOpen ==
    ASSUME TypeOK, WaitInv, KeysInv,
           \/ NewPath
           \/ LegacyPath
           \/ CreateWithKeys
           \/ Open
    PROVE  KeysInv' /\ KeepsKeys
<1>0. /\ OneActs /\ NotAsked /\ TempThere /\ WalletThere
      /\ TempHolds /\ NotSavedYet /\ LegacyStays
    BY DEF WaitInv, KeysInv
<1>1. CASE NewPath
    <2>1. NoSave /\ m_wallet = "none" /\ UNCHANGED <<m_isBackupInProgress, saver, key, m_wallet, loader>>
        BY <1>0, <1>1 DEF NewPath, OneActs, Quiet, Closing, WalletThere, Opening, threads, object
    <2>2. TempHolds'
        BY <1>0, <1>1, <2>1, ContentsAssumption DEF NewPath, threads, object, KeysInv, TempHolds, NoSave
    <2>3. NotSavedYet'
        BY <1>0, <1>1, <2>1, ContentsAssumption DEF NewPath, threads, object, KeysInv, NotSavedYet, NoSave, TempHolds
    <2>4. LegacyStays'
        BY <1>0, <1>1, <2>1, ContentsAssumption DEF NewPath, threads, object, KeysInv, LegacyStays, NoSave
    <2>5. KeepsKeys
        BY <1>0, <1>1, <2>1, ContentsAssumption DEF NewPath, threads, object, KeysInv, KeepsKeys, OnDisk, TempHolds, NotSavedYet, LegacyStays
    <2> QED BY <2>2, <2>3, <2>4, <2>5 DEF KeysInv
<1>2. CASE LegacyPath
    <2>1. /\ NoSave /\ m_wallet = "none" /\ loader = "idle"
          /\ UNCHANGED <<m_isBackupInProgress, saver, key, m_wallet, loader>>
        BY <1>0, <1>2 DEF LegacyPath, OneActs, Quiet, Closing, WalletThere, Opening, threads, object
    <2>2. disk'["keys"] \in Keys
        BY <1>0, <1>2, <2>1 DEF LegacyPath
    <2>3. TempHolds'
        BY <1>0, <1>2, <2>1, <2>2, ContentsAssumption DEF LegacyPath, TempHolds, NoSave
    <2>4. NotSavedYet'
        BY <1>0, <1>2, <2>1, <2>2, ContentsAssumption DEF LegacyPath, NotSavedYet, NoSave, TempHolds
    <2>5. LegacyStays'
        BY <1>0, <1>2, <2>1, <2>2, ContentsAssumption DEF LegacyPath, LegacyStays, NoSave
    <2>6. KeepsKeys
        BY <1>0, <1>2, <2>1, <2>2, ContentsAssumption DEF LegacyPath, KeepsKeys, OnDisk, TempHolds, NotSavedYet, LegacyStays
    <2> QED BY <2>3, <2>4, <2>5, <2>6 DEF KeysInv
<1>3. CASE CreateWithKeys
    <2>1. NoSave /\ loader = "idle" /\ ~pump /\ UNCHANGED <<m_isBackupInProgress, saver>>
        BY <1>0, <1>3 DEF CreateWithKeys, OneActs, Quiet, Closing, threads
    <2>2. disk'["temp"] = NoFile /\ key' \in Keys
        BY <1>0, <1>3, <2>1 DEF CreateWithKeys, Names
    <2>3. TempHolds'
        BY <1>0, <1>3, <2>1, <2>2, ContentsAssumption DEF CreateWithKeys, Return, TempHolds, NoSave
    <2>4. NotSavedYet'
        BY <1>0, <1>3, <2>1, <2>2, ContentsAssumption DEF CreateWithKeys, Return, NotSavedYet, NoSave, TempHolds
    <2>5. LegacyStays'
        BY <1>0, <1>3, <2>1, <2>2, ContentsAssumption DEF CreateWithKeys, Return, LegacyStays, NoSave
    <2>6. KeepsKeys
        BY <1>0, <1>3, <2>1, <2>2, ContentsAssumption DEF CreateWithKeys, Return, KeepsKeys, OnDisk, TempHolds, NotSavedYet, LegacyStays
    <2> QED BY <2>3, <2>4, <2>5, <2>6 DEF KeysInv
<1>4. CASE Open
    <2>1. NoSave /\ loader = "idle" /\ m_wallet = "none" /\ UNCHANGED <<m_isBackupInProgress, saver, loader, disk, legacy>>
        BY <1>0, <1>4 DEF Open, OneActs, Quiet, Closing, threads, WalletThere, Opening
    <2>2. legacy => disk["keys"] # NoFile
        BY <1>0, <1>4, <2>1, ContentsAssumption DEF LegacyStays
    <2>3. \/ /\ m_wallet' = "created" /\ key' = NoFile
             /\ (legacy /\ pc' = "import.open") \/ (~legacy /\ pc' = "load.open" /\ disk["wallet"] # NoFile)
          \/ /\ ~legacy /\ m_wallet' = "ready" /\ key' \in Keys /\ disk["temp"] # key' /\ pc' = Return
          \/ /\ ~legacy /\ m_wallet' = "none" /\ pc' = Return
        BY <1>0, <1>4, <2>1, <2>2 DEF Open, Names
    <2>4. TempHolds'
        BY <1>0, <1>4, <2>1, <2>2, <2>3, ContentsAssumption DEF Return, TempHolds, NoSave
    <2>5. NotSavedYet'
        BY <1>0, <1>4, <2>1, <2>2, <2>3, ContentsAssumption DEF Return, NotSavedYet, NoSave, TempHolds
    <2>6. LegacyStays'
        BY <1>0, <1>4, <2>1, <2>2, <2>3, ContentsAssumption DEF Return, LegacyStays, NoSave
    <2>7. KeepsKeys
        BY <1>0, <1>4, <2>1, <2>2, <2>3, ContentsAssumption DEF Return, KeepsKeys, OnDisk, TempHolds, NotSavedYet, LegacyStays
    <2> QED BY <2>4, <2>5, <2>6, <2>7 DEF KeysInv
<1> QED BY <1>1, <1>2, <1>3, <1>4

\* A legacy file is imported.
LEMMA KeysImport ==
    ASSUME TypeOK, WaitInv, KeysInv,
           \/ OpenForImport
           \/ CallImport
    PROVE  KeysInv' /\ KeepsKeys
<1>0. /\ OneActs /\ NotAsked /\ TempThere /\ WalletThere
      /\ TempHolds /\ NotSavedYet /\ LegacyStays
    BY DEF WaitInv, KeysInv
<1>1. CASE OpenForImport
    <2>1. /\ legacy /\ NoSave /\ pc = "import.open" /\ disk \in [Names -> Contents]
          /\ UNCHANGED <<m_isBackupInProgress, saver, key, legacy, loader>>
        BY <1>0, <1>1 DEF OpenForImport, LegacyStays, threads, TypeOK
    <2>2. /\ disk["keys"] \in Keys
          /\ m_wallet # "none" => key = NoFile
        BY <1>0, <1>1, <2>1 DEF LegacyStays
    <2>3. \/ disk' = [disk EXCEPT !["wallet"] = Torn] /\ pc' = "import.call" /\ m_wallet' = m_wallet
          \/ disk' = disk /\ pc' = Return /\ m_wallet' = "none"
        BY <1>0, <1>1, <2>1, <2>2 DEF OpenForImport
    <2>4. /\ disk'["temp"] = disk["temp"] /\ disk'["keys"] = disk["keys"]
          /\ \/ disk'["wallet"] = Torn /\ pc' = "import.call"
             \/ /\ disk'["wallet"] = disk["wallet"] /\ m_wallet' = "none"
                /\ pc' \in {"idle", "close.pump"}
        BY <1>0, <1>1, <2>1, <2>2, <2>3 DEF Names, Return
    <2>5. TempHolds'
        BY <1>0, <1>1, <2>1, <2>2, <2>3, <2>4, ContentsAssumption DEF Return, TempHolds, NoSave
    <2>6. NotSavedYet'
        BY <1>0, <1>1, <2>1, <2>2, <2>3, <2>4, ContentsAssumption DEF Return, NotSavedYet, NoSave, TempHolds
    <2>7. LegacyStays'
        BY <1>0, <1>1, <2>1, <2>2, <2>3, <2>4, ContentsAssumption DEF Return, LegacyStays, NoSave
    <2>8. KeepsKeys
        BY <1>0, <1>1, <2>1, <2>2, <2>3, <2>4, ContentsAssumption DEF Return, KeepsKeys, OnDisk, TempHolds, NotSavedYet, LegacyStays
    <2> QED BY <2>5, <2>6, <2>7, <2>8 DEF KeysInv
<1>2. CASE CallImport
    <2>1. /\ legacy /\ NoSave /\ pc = "import.call" /\ disk \in [Names -> Contents] /\ disk["keys"] \in Keys
          /\ UNCHANGED <<m_isBackupInProgress, saver, key, loader>>
        BY <1>0, <1>2 DEF CallImport, LegacyStays, threads, TypeOK
    <2>2. \/ disk' = [disk EXCEPT !["wallet"] = disk["keys"]] /\ pc' = "load.open" /\ legacy' = FALSE
          \/ disk' = disk /\ pc' = Return /\ m_wallet' = "none" /\ legacy' = legacy
        BY <1>0, <1>2, <2>1 DEF CallImport
    <2>3. /\ disk'["temp"] = disk["temp"] /\ disk'["keys"] = disk["keys"]
          /\ disk'["wallet"] = disk["keys"] \/ disk'["wallet"] = disk["wallet"]
          /\ pc' = "load.open" => disk'["wallet"] = disk["keys"]
        BY <1>0, <1>2, <2>1, <2>2 DEF Names, Return
    <2>4. TempHolds'
        BY <1>0, <1>2, <2>1, <2>2, <2>3, ContentsAssumption DEF Return, TempHolds, NoSave
    <2>5. NotSavedYet'
        BY <1>0, <1>2, <2>1, <2>2, <2>3, ContentsAssumption DEF Return, NotSavedYet, NoSave, TempHolds
    <2>6. LegacyStays'
        BY <1>0, <1>2, <2>1, <2>2, <2>3, ContentsAssumption DEF Return, LegacyStays, NoSave
    <2>7. KeepsKeys
        BY <1>0, <1>2, <2>1, <2>2, <2>3, ContentsAssumption DEF Return, KeepsKeys, OnDisk, TempHolds, NotSavedYet, LegacyStays
    <2> QED BY <2>4, <2>5, <2>6, <2>7 DEF KeysInv
<1> QED BY <1>1, <1>2

\* A load of the library ends.
LEMMA KeysLoad ==
    ASSUME TypeOK, WaitInv, KeysInv,
           \/ LoadEnd
    PROVE  KeysInv' /\ KeepsKeys
<1>0. /\ OneActs /\ NotAsked /\ TempThere /\ WalletThere
      /\ TempHolds /\ NotSavedYet /\ LegacyStays
    BY DEF WaitInv, KeysInv
<1>1. CASE LoadEnd
    <2>1. /\ ~legacy /\ NoSave /\ pc \notin {"save.call", "import.open", "import.call"}
          /\ UNCHANGED <<pc, disk, legacy, saver, m_isBackupInProgress>>
        BY <1>0, <1>1 DEF LoadEnd, gui, OneActs, LegacyStays, Quiet, Closing
    <2>2. m_wallet' = m_wallet \/ (m_wallet' = "ready" /\ disk["wallet"] \in Keys)
        BY <1>0, <1>1, <2>1 DEF LoadEnd
    <2>3. key' = key \/ disk["wallet"] \in Keys
        BY <1>0, <1>1, <2>1, <2>2 DEF LoadEnd
    <2>4. pc = "save.open" => FALSE
        BY <1>0, <1>1, <2>1, <2>2, <2>3 DEF OneActs, LoadEnd, Quiet, Closing
    <2>5. TempHolds'
        BY <1>0, <1>1, <2>1, <2>2, <2>3, <2>4, ContentsAssumption DEF LoadEnd, gui, TempHolds, NoSave
    <2>6. NotSavedYet'
        BY <1>0, <1>1, <2>1, <2>2, <2>3, <2>4, ContentsAssumption DEF LoadEnd, gui, NotSavedYet, NoSave, TempHolds
    <2>7. LegacyStays'
        BY <1>0, <1>1, <2>1, <2>2, <2>3, <2>4, ContentsAssumption DEF LoadEnd, gui, LegacyStays, NoSave
    <2>8. KeepsKeys
        BY <1>0, <1>1, <2>1, <2>2, <2>3, <2>4, ContentsAssumption DEF LoadEnd, gui, KeepsKeys, OnDisk, TempHolds, NotSavedYet, LegacyStays
    <2> QED BY <2>5, <2>6, <2>7, <2>8 DEF KeysInv
<1> QED BY <1>1

\* A save of the library: its keys go to ".temp", which takes the place of the wallet.
LEMMA KeysSaver ==
    ASSUME TypeOK, WaitInv, KeysInv, NEW s \in Savers,
           \/ SaveWrite(s)
           \/ SaveClose(s)
           \/ SaveRemove(s)
           \/ SaveRename(s)
    PROVE  KeysInv' /\ KeepsKeys
<1>0. /\ OneActs /\ NotAsked /\ TempThere /\ WalletThere
      /\ TempHolds /\ NotSavedYet /\ LegacyStays
    BY DEF WaitInv, KeysInv
<1>1. CASE SaveWrite(s)
    <2>1. pc # "save.call" /\ ~legacy /\ saver[s] # "idle" /\ key \in Keys /\ disk \in [Names -> Contents]
        BY <1>0, <1>1 DEF SaveWrite, OneActs, Closing, NoSave, Quiet, LegacyStays, TempHolds, TypeOK
    <2>2. \A t \in Savers : t # s => saver[t] = "idle"
        BY <1>0, <1>1, <2>1 DEF OneActs
    <2>3. saver[s] = "writing" /\ disk["temp"] = Torn /\ UNCHANGED <<pc, key, m_wallet, legacy, loader, m_isBackupInProgress>>
        BY <1>0, <1>1, <2>1, <2>2 DEF SaveWrite, gui, object, TempHolds
    <2>4. \/ saver' = [saver EXCEPT ![s] = "written"] /\ disk' = [disk EXCEPT !["temp"] = key]
          \/ saver' = [saver EXCEPT ![s] = "failed"] /\ disk' = disk
        BY <1>0, <1>1, <2>1, <2>2, <2>3, ContentsAssumption DEF SaveWrite, TempThere, TempHolds, Names
    <2>5. /\ \A n \in Names \ {"temp"} : disk'[n] = disk[n]
          /\ (saver'[s] = "written" /\ disk'["temp"] = key) \/ (saver'[s] = "failed" /\ disk'["temp"] = Torn)
        BY <1>0, <1>1, <2>1, <2>2, <2>3, <2>4 DEF Names, TypeOK, TempHolds
    <2>6. \A t \in Savers : t # s => saver'[t] = "idle"
        BY <1>0, <1>1, <2>1, <2>2, <2>3, <2>4, <2>5 DEF TypeOK
    <2>7. TempHolds'
        BY <1>0, <1>1, <2>1, <2>2, <2>3, <2>4, <2>5, <2>6, ContentsAssumption DEF Names, TempHolds, NoSave
    <2>8. NotSavedYet'
        BY <1>0, <1>1, <2>1, <2>2, <2>3, <2>4, <2>5, <2>6, ContentsAssumption DEF Names, NotSavedYet, NoSave, TempHolds
    <2>9. LegacyStays'
        BY <1>0, <1>1, <2>1, <2>2, <2>3, <2>4, <2>5, <2>6, ContentsAssumption DEF Names, LegacyStays, NoSave
    <2>10. KeepsKeys
        BY <1>0, <1>1, <2>1, <2>2, <2>3, <2>4, <2>5, <2>6, ContentsAssumption DEF Names, KeepsKeys, OnDisk, TempHolds, NotSavedYet, LegacyStays
    <2> QED BY <2>7, <2>8, <2>9, <2>10 DEF KeysInv
<1>2. CASE SaveClose(s)
    <2>1. pc # "save.call" /\ ~legacy /\ saver[s] # "idle" /\ key \in Keys /\ disk \in [Names -> Contents]
        BY <1>0, <1>2 DEF SaveClose, OneActs, Closing, NoSave, Quiet, LegacyStays, TempHolds, TypeOK
    <2>2. \A t \in Savers : t # s => saver[t] = "idle"
        BY <1>0, <1>2, <2>1 DEF OneActs
    <2>3. UNCHANGED <<pc, key, m_wallet, legacy, loader, disk>> /\ m_isBackupInProgress' = FALSE
        BY <1>0, <1>2, <2>1, <2>2 DEF SaveClose, gui, object, TempHolds
    <2>4. \/ saver' = [saver EXCEPT ![s] = "remove"] /\ saver[s] = "written"
          \/ saver' = [saver EXCEPT ![s] = "idle"] /\ saver[s] = "failed"
        BY <1>0, <1>2, <2>1, <2>2, <2>3, ContentsAssumption DEF SaveClose, TempThere, TempHolds, Names
    <2>5. \/ saver'[s] = "remove" /\ disk["temp"] = key
          \/ saver'[s] = "idle" /\ disk["temp"] = Torn
        BY <1>0, <1>2, <2>1, <2>2, <2>3, <2>4 DEF Names, TypeOK, TempHolds
    <2>6. \A t \in Savers : t # s => saver'[t] = "idle"
        BY <1>0, <1>2, <2>1, <2>2, <2>3, <2>4, <2>5 DEF TypeOK
    <2>7. TempHolds'
        BY <1>0, <1>2, <2>1, <2>2, <2>3, <2>4, <2>5, <2>6, ContentsAssumption DEF Names, TempHolds, NoSave
    <2>8. NotSavedYet'
        BY <1>0, <1>2, <2>1, <2>2, <2>3, <2>4, <2>5, <2>6, ContentsAssumption DEF Names, NotSavedYet, NoSave, TempHolds
    <2>9. LegacyStays'
        BY <1>0, <1>2, <2>1, <2>2, <2>3, <2>4, <2>5, <2>6, ContentsAssumption DEF Names, LegacyStays, NoSave
    <2>10. KeepsKeys
        BY <1>0, <1>2, <2>1, <2>2, <2>3, <2>4, <2>5, <2>6, ContentsAssumption DEF Names, KeepsKeys, OnDisk, TempHolds, NotSavedYet, LegacyStays
    <2> QED BY <2>7, <2>8, <2>9, <2>10 DEF KeysInv
<1>3. CASE SaveRemove(s)
    <2>1. pc # "save.call" /\ ~legacy /\ saver[s] # "idle" /\ key \in Keys /\ disk \in [Names -> Contents]
        BY <1>0, <1>3 DEF SaveRemove, OneActs, Closing, NoSave, Quiet, LegacyStays, TempHolds, TypeOK
    <2>2. \A t \in Savers : t # s => saver[t] = "idle"
        BY <1>0, <1>3, <2>1 DEF OneActs
    <2>3. saver[s] = "remove" /\ disk["temp"] = key /\ UNCHANGED <<pc, key, m_wallet, legacy, loader, m_isBackupInProgress>>
        BY <1>0, <1>3, <2>1, <2>2 DEF SaveRemove, gui, object, TempHolds
    <2>4. saver' = [saver EXCEPT ![s] = "rename"] /\ disk' = [disk EXCEPT !["wallet"] = NoFile]
        BY <1>0, <1>3, <2>1, <2>2, <2>3, ContentsAssumption DEF SaveRemove, TempThere, TempHolds, Names
    <2>5. /\ \A n \in Names \ {"wallet"} : disk'[n] = disk[n]
          /\ saver'[s] = "rename" /\ disk'["wallet"] = NoFile
        BY <1>0, <1>3, <2>1, <2>2, <2>3, <2>4 DEF Names, TypeOK, TempHolds
    <2>6. \A t \in Savers : t # s => saver'[t] = "idle"
        BY <1>0, <1>3, <2>1, <2>2, <2>3, <2>4, <2>5 DEF TypeOK
    <2>7. TempHolds'
        BY <1>0, <1>3, <2>1, <2>2, <2>3, <2>4, <2>5, <2>6, ContentsAssumption DEF Names, TempHolds, NoSave
    <2>8. NotSavedYet'
        BY <1>0, <1>3, <2>1, <2>2, <2>3, <2>4, <2>5, <2>6, ContentsAssumption DEF Names, NotSavedYet, NoSave, TempHolds
    <2>9. LegacyStays'
        BY <1>0, <1>3, <2>1, <2>2, <2>3, <2>4, <2>5, <2>6, ContentsAssumption DEF Names, LegacyStays, NoSave
    <2>10. KeepsKeys
        BY <1>0, <1>3, <2>1, <2>2, <2>3, <2>4, <2>5, <2>6, ContentsAssumption DEF Names, KeepsKeys, OnDisk, TempHolds, NotSavedYet, LegacyStays
    <2> QED BY <2>7, <2>8, <2>9, <2>10 DEF KeysInv
<1>4. CASE SaveRename(s)
    <2>1. pc # "save.call" /\ ~legacy /\ saver[s] # "idle" /\ key \in Keys /\ disk \in [Names -> Contents]
        BY <1>0, <1>4 DEF SaveRename, OneActs, Closing, NoSave, Quiet, LegacyStays, TempHolds, TypeOK
    <2>2. \A t \in Savers : t # s => saver[t] = "idle"
        BY <1>0, <1>4, <2>1 DEF OneActs
    <2>3. /\ saver[s] = "rename" /\ disk["temp"] = key /\ disk["wallet"] = NoFile
          /\ UNCHANGED <<pc, key, m_wallet, legacy, loader, m_isBackupInProgress>>
        BY <1>0, <1>4, <2>1, <2>2 DEF SaveRename, gui, object, TempHolds
    <2>4. saver' = [saver EXCEPT ![s] = "idle"] /\ disk' = [disk EXCEPT !["wallet"] = disk["temp"], !["temp"] = NoFile]
        BY <1>0, <1>4, <2>1, <2>2, <2>3, ContentsAssumption DEF SaveRename, TempThere, TempHolds, Names
    <2>5. saver'[s] = "idle" /\ disk'["wallet"] = key /\ disk'["temp"] = NoFile /\ disk'["keys"] = disk["keys"]
        BY <1>0, <1>4, <2>1, <2>2, <2>3, <2>4 DEF Names, TypeOK, TempHolds
    <2>6. \A t \in Savers : t # s => saver'[t] = "idle"
        BY <1>0, <1>4, <2>1, <2>2, <2>3, <2>4, <2>5 DEF TypeOK
    <2>7. TempHolds'
        BY <1>0, <1>4, <2>1, <2>2, <2>3, <2>4, <2>5, <2>6, ContentsAssumption DEF Names, TempHolds, NoSave
    <2>8. NotSavedYet'
        BY <1>0, <1>4, <2>1, <2>2, <2>3, <2>4, <2>5, <2>6, ContentsAssumption DEF Names, NotSavedYet, NoSave, TempHolds
    <2>9. LegacyStays'
        BY <1>0, <1>4, <2>1, <2>2, <2>3, <2>4, <2>5, <2>6, ContentsAssumption DEF Names, LegacyStays, NoSave
    <2>10. KeepsKeys
        BY <1>0, <1>4, <2>1, <2>2, <2>3, <2>4, <2>5, <2>6, ContentsAssumption DEF Names, KeepsKeys, OnDisk, TempHolds, NotSavedYet, LegacyStays
    <2> QED BY <2>7, <2>8, <2>9, <2>10 DEF KeysInv
<1> QED BY <1>1, <1>2, <1>3, <1>4

\* No step of a user who waits, of the GUI thread or of the library breaks the invariant or takes keys off
\* the disk.
LEMMA KeysSteps == TypeOK /\ WaitInv /\ KeysInv /\ [Next]_vars => KeysInv' /\ [KeepsKeys]_vars
<1> SUFFICES ASSUME TypeOK, WaitInv, KeysInv, [Next]_vars PROVE KeysInv' /\ [KeepsKeys]_vars
    OBVIOUS
<1>1. ASSUME disk' = disk PROVE KeepsKeys
    BY <1>1 DEF KeepsKeys, OnDisk
<1>2. CASE UNCHANGED vars
    BY <1>2, KeysCalm DEF vars, KeysInv, LegacyStays, TempHolds
<1>3. CASE Die
    BY <1>1, <1>3, KeysDie DEF Die
<1>4. CASE User /\ ~Die
    <2>1. disk' = disk
        BY <1>4 DEF User, SwitchWallet, Quit, Reset, SaveNow, StartSend
    <2> QED BY <1>1, <1>4, <2>1, KeysUser
<1> DEFINE Calm == \/ CloseLock \/ PumpEnd \/ CloseDelete \/ OpenForLoad \/ CallLoad \/ SendLock \/ CallSend
                   \/ StoreId \/ SetBackupFlag \/ (HandleInitOk /\ ~Die) \/ HandleInitWrong
                   \/ HandleInitOther \/ HandleAskPassword \/ (HandleSendDone /\ ~Die) \/ LoadEmit
                   \/ (\E i \in TxIds : Sender(i)) \/ Relaunch
<1>5. CASE Calm
    <2>1. disk' = disk
        BY <1>5 DEF CloseLock, PumpEnd, CloseDelete, OpenForLoad, CallLoad, SendLock, CallSend, StoreId,
           SetBackupFlag, HandleInitOk, HandleInitWrong, HandleInitOther, HandleAskPassword,
           HandleSendDone, LoadEmit, Sender, SendUnlock, SendEmit, SendReset, Relaunch
    <2> QED BY <1>1, <1>5, <2>1, KeysCalmSteps
<1>6. CASE OpenForSave \/ CallSave
    BY <1>6, KeysSave
<1>7. CASE NewPath \/ LegacyPath \/ CreateWithKeys \/ Open
    BY <1>7, KeysOpen
<1>8. CASE OpenForImport \/ CallImport
    BY <1>8, KeysImport
<1>9. CASE LoadEnd
    BY <1>9, KeysLoad
<1>10. ASSUME NEW s \in Savers, Saver(s) PROVE KeysInv' /\ KeepsKeys
    BY <1>10, KeysSaver DEF Saver
<1> QED BY <1>2, <1>3, <1>4, <1>5, <1>6, <1>7, <1>8, <1>9, <1>10 DEF Next, Gui, Loader, Exit, Crash, Stopped

\* KeysKept, for any threads, transactions, keys, failures and crashes: while a user who waits sends no
\* messages and makes no backup, the keys on disk stay there in every step that does not turn to
\* another path or save other keys, whatever lies beside a legacy file that is opened; of the step
\* that truncates the wallet file for an import, the keys of the legacy file.
THEOREM WaitingKeepsKeys == Waits => (Spec => KeysKept)
<1>1. Init /\ Waits => WaitInv
    BY WaitStart
<1>2. TypeOK /\ WaitInv /\ [Next]_vars => WaitInv'
    BY WaitKept
<1>3. Init => KeysInv
    BY KeysStart
<1>4. TypeOK /\ WaitInv /\ KeysInv /\ [Next]_vars => KeysInv' /\ [KeepsKeys]_vars
    BY KeysSteps
<1> QED BY <1>1, <1>2, <1>3, <1>4, TypeCorrect, PTL DEF Spec, KeysKept
=============================================================================
