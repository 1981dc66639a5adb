------------------------- MODULE WalletAdapterProofs -------------------------
(***************************************************************************)
(* Type correctness of WalletAdapter, for every set of keys, any number of *)
(* library threads, transactions and runs, and every environment.          *)
(***************************************************************************)
EXTENDS WalletAdapter, SequenceTheorems, TLAPS

\* Posting and taking events keeps the queue a sequence of events.
LEMMA QueueTypes ==
    ASSUME NEW q \in Seq(Events)
    PROVE  /\ \A e \in Events : Append(q, e) \in Seq(Events)
           /\ \A e \in Events : q \o <<e, e>> \in Seq(Events)
           /\ q # <<>> => Tail(q) \in Seq(Events) /\ Head(q) \in Events
<1>1. \A e \in Events : Append(q, e) \in Seq(Events)
  OBVIOUS
<1>2. \A e \in Events : q \o <<e, e>> \in Seq(Events)
  <2>1. TAKE e \in Events
  <2>2. <<e, e>> \in Seq(Events)
    OBVIOUS
  <2>3. QED
    BY <2>2, ConcatProperties
<1>3. q # <<>> => Tail(q) \in Seq(Events) /\ Head(q) \in Events
  BY HeadTailProperties
<1>4. QED
  BY <1>1, <1>2, <1>3

\* What the handlers post are events.
LEMMA EventTypes ==
    /\ \A t \in {"initNew", "initOk", "initWrong", "initOther", "askPassword"} :
          Event(t) \in Events
    /\ \A i \in TxIds : [type |-> "sendDone", id |-> i] \in Events
BY DEF Event, Events

\* The end of the process puts every variable back into its type.
LEMMA DieType == ASSUME TypeOK, Die PROVE TypeOK'
<1>1. /\ pc' \in Pcs /\ pump' \in BOOLEAN /\ cont' \in {"return", "backup", "close"}
      /\ after' \in {"open", "create", "legacy", "import", "exit"}
      /\ m_mutex' \in BOOLEAN /\ m_file' \in {"closed", "gone"} \cup Names
      /\ m_isBackupInProgress' \in BOOLEAN /\ m_wallet' \in {"none", "created", "ready"}
      /\ key' \in Keys \cup {NoFile} /\ sent' \in SUBSET TxIds
      /\ loader' \in {"idle", "loading", "initOk", "initWrong", "initOther"}
      /\ enabled' \in BOOLEAN
  BY DEF Die, Pcs
<1>2. sending' \in [kind : Kinds, id : TxIds \cup {NoTx}]
  BY DEF Die, NoSend, Kinds
<1>3. /\ slot' \in [Kinds -> TxIds \cup {NoTx}]
      /\ saver' \in [Savers -> {"idle", "writing", "written", "failed", "remove", "rename"}]
      /\ sender' \in [TxIds -> {"idle", "sending", "emit", "done"} \cup Kinds]
  BY DEF Die
<1>4. queue' \in Seq(Events)
  BY DEF Die
<1>5. UNCHANGED <<disk, legacy, run>>
  BY DEF Die
<1>6. QED
  BY <1>1, <1>2, <1>3, <1>4, <1>5 DEF TypeOK

\* TypeOK: every variable keeps its type.
THEOREM TypeCorrect == Spec => []TypeOK
<1> USE ContentsAssumption, IdsAssumption, RunsAssumption
<1>1. Init => TypeOK
  <2> SUFFICES ASSUME Init PROVE TypeOK
    OBVIOUS
  <2>1. /\ pc \in Pcs /\ pump \in BOOLEAN /\ cont \in {"return", "backup", "close"}
        /\ after \in {"open", "create", "legacy", "import", "exit"}
        /\ m_mutex \in BOOLEAN /\ m_file \in {"closed", "gone"} \cup Names
        /\ m_isBackupInProgress \in BOOLEAN /\ m_wallet \in {"none", "created", "ready"}
        /\ key \in Keys \cup {NoFile} /\ sent \in SUBSET TxIds
        /\ loader \in {"idle", "loading", "initOk", "initWrong", "initOther"}
        /\ legacy \in BOOLEAN /\ enabled \in BOOLEAN
    BY DEF Init, Pcs
  <2>2. run \in 1..MaxRuns
    BY DEF Init
  <2>3. sending \in [kind : Kinds, id : TxIds \cup {NoTx}]
    BY DEF Init, NoSend, Kinds
  <2>4. /\ slot \in [Kinds -> TxIds \cup {NoTx}]
        /\ saver \in [Savers -> {"idle", "writing", "written", "failed", "remove", "rename"}]
        /\ sender \in [TxIds -> {"idle", "sending", "emit", "done"} \cup Kinds]
    BY DEF Init
  <2>5. queue \in Seq(Events)
    BY DEF Init
  <2>6. disk \in [Names -> Contents]
    BY DEF Init, Contents
  <2>7. QED
    BY <2>1, <2>2, <2>3, <2>4, <2>5, <2>6 DEF TypeOK
<1>2. TypeOK /\ [Next]_vars => TypeOK'
  <2> SUFFICES ASSUME TypeOK, [Next]_vars PROVE TypeOK'
    OBVIOUS
  <2>0. /\ queue \in Seq(Events)
        /\ \A e \in Events : Append(queue, e) \in Seq(Events)
        /\ \A e \in Events : queue \o <<e, e>> \in Seq(Events)
        /\ queue # <<>> => Tail(queue) \in Seq(Events) /\ Head(queue) \in Events
        /\ queue # <<>> => \A e \in Events : Append(Tail(queue), e) \in Seq(Events)
    <3>1. queue \in Seq(Events)
      BY DEF TypeOK
    <3>2. QED
      BY <3>1, QueueTypes
  <2>1. CASE UNCHANGED vars
    BY <2>1 DEF TypeOK, vars
  <2>2. CASE Crash
    BY <2>2, DieType DEF Crash
  <2>3. CASE Exit
    BY <2>3, DieType DEF Exit
  <2>4. CASE Relaunch
    <3>1. /\ pc' \in Pcs
          /\ run' \in 1..MaxRuns
      BY <2>4 DEF TypeOK, Relaunch, Pcs, file, object, threads
    <3>2. UNCHANGED <<pump, cont, after, sending, queue, m_mutex, m_file,
                      m_isBackupInProgress, m_wallet, slot, key, sent, loader, saver,
                      sender, disk, legacy, enabled>>
      BY <2>4 DEF Relaunch, file, object, threads
    <3>3. QED
      BY <3>1, <3>2 DEF TypeOK
  <2>5. ASSUME NEW op \in {"open", "create", "legacy", "import"}, SwitchWallet(op)
        PROVE  TypeOK'
    <3>1. /\ pc' \in Pcs
          /\ cont' \in {"return", "backup", "close"}
          /\ after' \in {"open", "create", "legacy", "import", "exit"}
      BY <2>5 DEF TypeOK, SwitchWallet, Pcs, LockWaits, file, object, threads
    <3>2. UNCHANGED <<pump, sending, queue, m_mutex, m_file, m_isBackupInProgress,
                      m_wallet, slot, key, sent, loader, saver, sender, disk, legacy,
                      enabled, run>>
      BY <2>5 DEF SwitchWallet, file, object, threads
    <3>3. QED
      BY <3>1, <3>2 DEF TypeOK
  <2>6. CASE Quit
    <3>1. /\ pc' \in Pcs
          /\ cont' \in {"return", "backup", "close"}
          /\ after' \in {"open", "create", "legacy", "import", "exit"}
      BY <2>6 DEF TypeOK, Quit, Pcs, LockWaits, file, object, threads
    <3>2. UNCHANGED <<pump, sending, queue, m_mutex, m_file, m_isBackupInProgress,
                      m_wallet, slot, key, sent, loader, saver, sender, disk, legacy,
                      enabled, run>>
      BY <2>6 DEF Quit, file, object, threads
    <3>3. QED
      BY <3>1, <3>2 DEF TypeOK
  <2>7. CASE Reset
    <3>1. CASE Die
      BY <3>1, DieType
    <3>2. CASE ~Die
      <4>1. /\ pc' \in Pcs
            /\ cont' \in {"return", "backup", "close"}
            /\ after' \in {"open", "create", "legacy", "import", "exit"}
        BY <2>7, <3>2 DEF TypeOK, Reset, Pcs, LockWaits, file, object, threads
      <4>2. UNCHANGED <<pump, sending, queue, m_mutex, m_file, m_isBackupInProgress,
                        m_wallet, slot, key, sent, loader, saver, sender, disk,
                        legacy, enabled, run>>
        BY <2>7, <3>2 DEF Reset, file, object, threads
      <4>3. QED
        BY <4>1, <4>2 DEF TypeOK
    <3>3. QED
      BY <3>1, <3>2
  <2>8. ASSUME NEW op, NEW next \in {"return", "backup"}, SaveNow(op, next)
        PROVE  TypeOK'
    <3>1. CASE Die
      BY <3>1, DieType
    <3>2. CASE ~Die
      <4>1. /\ pc' \in Pcs
            /\ cont' \in {"return", "backup", "close"}
        BY <2>8, <3>2 DEF TypeOK, SaveNow, Pcs, LockWaits, file, object, threads
      <4>2. UNCHANGED <<pump, after, sending, queue, m_mutex, m_file,
                        m_isBackupInProgress, m_wallet, slot, key, sent, loader,
                        saver, sender, disk, legacy, enabled, run>>
        BY <2>8, <3>2 DEF SaveNow, file, object, threads
      <4>3. QED
        BY <4>1, <4>2 DEF TypeOK
    <3>3. QED
      BY <3>1, <3>2
  <2>9. ASSUME NEW kind \in Kinds, StartSend(kind)
        PROVE  TypeOK'
    <3>1. /\ pc' \in Pcs
          /\ sending' \in [kind : Kinds, id : TxIds \cup {NoTx}]
      BY <2>9 DEF TypeOK, StartSend, Pcs, LockWaits, file, object, threads
    <3>2. UNCHANGED <<pump, cont, after, queue, m_mutex, m_file, m_isBackupInProgress,
                      m_wallet, slot, key, sent, loader, saver, sender, disk, legacy,
                      enabled, run>>
      BY <2>9 DEF StartSend, file, object, threads
    <3>3. QED
      BY <3>1, <3>2 DEF TypeOK
  <2>10. CASE OpenForSave
    <3>1. /\ pc' \in Pcs
          /\ cont' \in {"return", "backup", "close"}
          /\ m_mutex' \in BOOLEAN
          /\ m_file' \in {"closed", "gone"} \cup Names
      BY <2>10 DEF TypeOK, OpenForSave, SaveReturn, Return, Pcs, LockWaits, Names, Contents,
              file, object, threads
    <3>2. disk' \in [Names -> Contents]
      BY <2>10 DEF TypeOK, OpenForSave, SaveReturn, Return, Pcs, LockWaits, Names, Contents,
              file, object, threads
    <3>3. UNCHANGED <<pump, after, sending, queue, m_isBackupInProgress, m_wallet, slot,
                      key, sent, loader, saver, sender, legacy, enabled, run>>
      BY <2>10 DEF OpenForSave, file, object, threads
    <3>4. QED
      BY <3>1, <3>2, <3>3 DEF TypeOK
  <2>11. CASE CallSave
    <3>1. /\ pc' \in Pcs
          /\ cont' \in {"return", "backup", "close"}
          /\ m_mutex' \in BOOLEAN
          /\ m_file' \in {"closed", "gone"} \cup Names
      BY <2>11, ZenonT(40) DEF TypeOK, CallSave, SaveReturn, Return, Pcs, LockWaits, file, object
    <3>2. saver' \in [Savers -> {"idle", "writing", "written", "failed", "remove", "rename"}]
      BY <2>11, ZenonT(40) DEF TypeOK, CallSave, SaveReturn, Return, Pcs, LockWaits, file, object
    <3>3. UNCHANGED <<pump, after, sending, queue, m_isBackupInProgress, m_wallet, slot,
                      key, sent, loader, sender, disk, legacy, enabled, run>>
      BY <2>11 DEF CallSave, file, object
    <3>4. QED
      BY <3>1, <3>2, <3>3 DEF TypeOK
  <2>12. CASE SetBackupFlag
    <3>1. /\ pc' \in Pcs
          /\ m_isBackupInProgress' \in BOOLEAN
      BY <2>12 DEF TypeOK, SetBackupFlag, Return, Pcs, file, object, threads
    <3>2. UNCHANGED <<pump, cont, after, sending, queue, m_mutex, m_file, m_wallet, slot,
                      key, sent, loader, saver, sender, disk, legacy, enabled, run>>
      BY <2>12 DEF SetBackupFlag, file, object, threads
    <3>3. QED
      BY <3>1, <3>2 DEF TypeOK
  <2>13. CASE CloseLock
    <3>1. /\ pc' \in Pcs
          /\ pump' \in BOOLEAN
          /\ m_mutex' \in BOOLEAN
          /\ enabled' \in BOOLEAN
      BY <2>13 DEF TypeOK, CloseLock, Pcs, object, threads
    <3>2. UNCHANGED <<cont, after, sending, queue, m_file, m_isBackupInProgress, m_wallet,
                      slot, key, sent, loader, saver, sender, disk, legacy, run>>
      BY <2>13 DEF CloseLock, object, threads
    <3>3. QED
      BY <3>1, <3>2 DEF TypeOK
  <2>14. CASE PumpEnd
    <3>1. pc' \in Pcs
      BY <2>14 DEF TypeOK, PumpEnd, Pcs, file, object, threads
    <3>2. UNCHANGED <<pump, cont, after, sending, queue, m_mutex, m_file,
                      m_isBackupInProgress, m_wallet, slot, key, sent, loader, saver,
                      sender, disk, legacy, enabled, run>>
      BY <2>14 DEF PumpEnd, file, object, threads
    <3>3. QED
      BY <3>1, <3>2 DEF TypeOK
  <2>15. CASE CloseDelete
    <3>1. /\ pc' \in Pcs
          /\ pump' \in BOOLEAN
          /\ after' \in {"open", "create", "legacy", "import", "exit"}
          /\ m_mutex' \in BOOLEAN
          /\ m_wallet' \in {"none", "created", "ready"}
          /\ key' \in Keys \cup {NoFile}
          /\ sent' \in SUBSET TxIds
      BY <2>15 DEF TypeOK, CloseDelete, Pcs, threads
    <3>2. UNCHANGED <<cont, sending, queue, m_file, m_isBackupInProgress, slot, loader,
                      saver, sender, disk, legacy, enabled, run>>
      BY <2>15 DEF CloseDelete, threads
    <3>3. QED
      BY <3>1, <3>2 DEF TypeOK
  <2>16. CASE NewPath
    <3>1. /\ pc' \in Pcs
          /\ legacy' \in BOOLEAN
      BY <2>16 DEF TypeOK, NewPath, Pcs, Contents, file, object, threads
    <3>2. disk' \in [Names -> Contents]
      BY <2>16 DEF TypeOK, NewPath, Pcs, Contents, file, object, threads
    <3>3. UNCHANGED <<pump, cont, after, sending, queue, m_mutex, m_file,
                      m_isBackupInProgress, m_wallet, slot, key, sent, loader, saver,
                      sender, enabled, run>>
      BY <2>16 DEF NewPath, file, object, threads
    <3>4. QED
      BY <3>1, <3>2, <3>3 DEF TypeOK
  <2>17. CASE LegacyPath
    <3>1. /\ pc' \in Pcs
          /\ legacy' \in BOOLEAN
      BY <2>17 DEF TypeOK, LegacyPath, Pcs, Contents, Names, file, object, threads
    <3>2. disk' \in [Names -> Contents]
      BY <2>17 DEF TypeOK, LegacyPath, Pcs, Contents, Names, file, object, threads
    <3>3. UNCHANGED <<pump, cont, after, sending, queue, m_mutex, m_file,
                      m_isBackupInProgress, m_wallet, slot, key, sent, loader, saver,
                      sender, enabled, run>>
      BY <2>17 DEF LegacyPath, file, object, threads
    <3>4. QED
      BY <3>1, <3>2, <3>3 DEF TypeOK
  <2>18. CASE CreateWithKeys
    <3>1. /\ pc' \in Pcs
          /\ m_wallet' \in {"none", "created", "ready"}
          /\ key' \in Keys \cup {NoFile}
          /\ sent' \in SUBSET TxIds
          /\ legacy' \in BOOLEAN
          /\ enabled' \in BOOLEAN
      BY <2>18 DEF TypeOK, CreateWithKeys, Return, Pcs, Contents, file, threads
    <3>2. queue' \in Seq(Events)
      BY <2>18, <2>0, EventTypes DEF CreateWithKeys
    <3>3. disk' \in [Names -> Contents]
      BY <2>18 DEF TypeOK, CreateWithKeys, Return, Pcs, Contents, file, threads
    <3>4. UNCHANGED <<pump, cont, after, sending, m_mutex, m_file, m_isBackupInProgress,
                      slot, loader, saver, sender, run>>
      BY <2>18 DEF CreateWithKeys, file, threads
    <3>5. QED
      BY <3>1, <3>2, <3>3, <3>4 DEF TypeOK
  <2>19. CASE Open
    <3>1. /\ pc' \in Pcs
          /\ m_wallet' \in {"none", "created", "ready"}
          /\ key' \in Keys \cup {NoFile}
          /\ sent' \in SUBSET TxIds
          /\ enabled' \in BOOLEAN
      BY <2>19 DEF TypeOK, Open, Return, Pcs, LockWaits, file, threads
    <3>2. queue' \in Seq(Events)
      BY <2>19, <2>0, EventTypes DEF Open
    <3>3. UNCHANGED <<pump, cont, after, sending, m_mutex, m_file, m_isBackupInProgress,
                      slot, loader, saver, sender, disk, legacy, run>>
      BY <2>19 DEF Open, file, threads
    <3>4. QED
      BY <3>1, <3>2, <3>3 DEF TypeOK
  <2>20. CASE OpenForImport
    <3>1. /\ pc' \in Pcs
          /\ m_mutex' \in BOOLEAN
          /\ m_file' \in {"closed", "gone"} \cup Names
          /\ m_wallet' \in {"none", "created", "ready"}
      BY <2>20 DEF TypeOK, OpenForImport, Return, Pcs, LockWaits, Names, Contents, file,
              threads
    <3>2. disk' \in [Names -> Contents]
      BY <2>20 DEF TypeOK, OpenForImport, Return, Pcs, LockWaits, Names, Contents, file,
              threads
    <3>3. UNCHANGED <<pump, cont, after, sending, queue, m_isBackupInProgress, slot, key,
                      sent, loader, saver, sender, legacy, enabled, run>>
      BY <2>20 DEF OpenForImport, file, threads
    <3>4. QED
      BY <3>1, <3>2, <3>3 DEF TypeOK
  <2>21. CASE CallImport
    <3>1. /\ pc' \in Pcs
          /\ m_mutex' \in BOOLEAN
          /\ m_file' \in {"closed", "gone"} \cup Names
          /\ m_wallet' \in {"none", "created", "ready"}
          /\ legacy' \in BOOLEAN
      BY <2>21 DEF TypeOK, CallImport, Return, Pcs, LockWaits, Names, threads
    <3>2. queue' \in Seq(Events)
      BY <2>21, <2>0, EventTypes DEF CallImport
    <3>3. disk' \in [Names -> Contents]
      BY <2>21 DEF TypeOK, CallImport, Return, Pcs, LockWaits, Names, threads
    <3>4. UNCHANGED <<pump, cont, after, sending, m_isBackupInProgress, slot, key, sent,
                      loader, saver, sender, enabled, run>>
      BY <2>21 DEF CallImport, threads
    <3>5. QED
      BY <3>1, <3>2, <3>3, <3>4 DEF TypeOK
  <2>22. CASE OpenForLoad
    <3>1. /\ pc' \in Pcs
          /\ m_mutex' \in BOOLEAN
          /\ m_file' \in {"closed", "gone"} \cup Names
      BY <2>22 DEF TypeOK, OpenForLoad, Return, Pcs, LockWaits, Names, file, object, threads
    <3>2. UNCHANGED <<pump, cont, after, sending, queue, m_isBackupInProgress, m_wallet,
                      slot, key, sent, loader, saver, sender, disk, legacy, enabled,
                      run>>
      BY <2>22 DEF OpenForLoad, file, object, threads
    <3>3. QED
      BY <3>1, <3>2 DEF TypeOK
  <2>23. CASE CallLoad
    <3>1. /\ pc' \in Pcs
          /\ m_mutex' \in BOOLEAN
          /\ m_file' \in {"closed", "gone"} \cup Names
          /\ m_wallet' \in {"none", "created", "ready"}
          /\ loader' \in {"idle", "loading", "initOk", "initWrong", "initOther"}
      BY <2>23 DEF TypeOK, CallLoad, Return, Pcs, file
    <3>2. UNCHANGED <<pump, cont, after, sending, queue, m_isBackupInProgress, slot, key,
                      sent, saver, sender, disk, legacy, enabled, run>>
      BY <2>23 DEF CallLoad, file
    <3>3. QED
      BY <3>1, <3>2 DEF TypeOK
  <2>24. CASE SendLock
    <3>1. /\ pc' \in Pcs
          /\ m_mutex' \in BOOLEAN
      BY <2>24 DEF TypeOK, SendLock, Pcs, object, threads
    <3>2. UNCHANGED <<pump, cont, after, sending, queue, m_file, m_isBackupInProgress,
                      m_wallet, slot, key, sent, loader, saver, sender, disk, legacy,
                      enabled, run>>
      BY <2>24 DEF SendLock, object, threads
    <3>3. QED
      BY <3>1, <3>2 DEF TypeOK
  <2>25. CASE CallSend
    <3>1. /\ pc' \in Pcs
          /\ m_mutex' \in BOOLEAN
          /\ sent' \in SUBSET TxIds
      BY <2>25 DEF TypeOK, CallSend, NoSend, Kinds, Return, Pcs
    <3>2. sending' \in [kind : Kinds, id : TxIds \cup {NoTx}]
      BY <2>25 DEF TypeOK, CallSend, NoSend, Kinds, Return, Pcs
    <3>3. sender' \in [TxIds -> {"idle", "sending", "emit", "done"} \cup Kinds]
      <4>1. \/ sender' = sender
            \/ \E i \in TxIds : sender' = [sender EXCEPT ![i] = "sending"]
        BY <2>25 DEF CallSend
      <4>2. sender \in [TxIds -> {"idle", "sending", "emit", "done"} \cup Kinds]
        BY DEF TypeOK
      <4>3. QED
        BY <4>1, <4>2
    <3>4. UNCHANGED <<pump, cont, after, queue, m_file, m_isBackupInProgress, m_wallet,
                      slot, key, loader, saver, disk, legacy, enabled, run>>
      BY <2>25 DEF CallSend
    <3>5. QED
      BY <3>1, <3>2, <3>3, <3>4 DEF TypeOK
  <2>26. CASE StoreId
    <3>1. pc' \in Pcs
      BY <2>26 DEF TypeOK, StoreId, NoSend, Kinds, Return, Pcs, file, object, threads
    <3>2. sending' \in [kind : Kinds, id : TxIds \cup {NoTx}]
      BY <2>26 DEF TypeOK, StoreId, NoSend, Kinds, Return, Pcs, file, object, threads
    <3>3. slot' \in [Kinds -> TxIds \cup {NoTx}]
      BY <2>26 DEF TypeOK, StoreId, NoSend, Kinds, Return, Pcs, file, object, threads
    <3>4. UNCHANGED <<pump, cont, after, queue, m_mutex, m_file, m_isBackupInProgress,
                      m_wallet, key, sent, loader, saver, sender, disk, legacy,
                      enabled, run>>
      BY <2>26 DEF StoreId, file, object, threads
    <3>5. QED
      BY <3>1, <3>2, <3>3, <3>4 DEF TypeOK
  <2>27. CASE HandleInitOk
    <3>1. CASE Die
      BY <3>1, DieType
    <3>2. CASE ~Die
      <4>1. /\ pc' \in Pcs
            /\ cont' \in {"return", "backup", "close"}
            /\ enabled' \in BOOLEAN
        BY <2>27, <3>2 DEF TypeOK, HandleInitOk, Take, Pcs, LockWaits, file, object, threads
      <4>2. queue' \in Seq(Events)
        BY <2>27, <3>2, <2>0, EventTypes DEF HandleInitOk, Take
      <4>3. UNCHANGED <<pump, after, sending, m_mutex, m_file, m_isBackupInProgress,
                        m_wallet, slot, key, sent, loader, saver, sender, disk,
                        legacy, run>>
        BY <2>27, <3>2 DEF HandleInitOk, file, object, threads
      <4>4. QED
        BY <4>1, <4>2, <4>3 DEF TypeOK
    <3>3. QED
      BY <3>1, <3>2
  <2>28. CASE HandleInitWrong
    <3>1. /\ m_wallet' \in {"none", "created", "ready"}
          /\ key' \in Keys \cup {NoFile}
          /\ sent' \in SUBSET TxIds
          /\ enabled' \in BOOLEAN
      BY <2>28 DEF TypeOK, HandleInitWrong, Take, gui, file, threads
    <3>2. queue' \in Seq(Events)
      BY <2>28, <2>0, EventTypes DEF HandleInitWrong, Take
    <3>3. UNCHANGED <<pc, pump, cont, after, sending, m_mutex, m_file,
                      m_isBackupInProgress, slot, loader, saver, sender, disk, legacy,
                      run>>
      BY <2>28 DEF HandleInitWrong, gui, file, threads
    <3>4. QED
      BY <3>1, <3>2, <3>3 DEF TypeOK
  <2>29. CASE HandleInitOther
    <3>1. /\ m_wallet' \in {"none", "created", "ready"}
          /\ key' \in Keys \cup {NoFile}
          /\ sent' \in SUBSET TxIds
          /\ enabled' \in BOOLEAN
      BY <2>29 DEF TypeOK, HandleInitOther, Take, gui, file, threads
    <3>2. queue' \in Seq(Events)
      BY <2>29, <2>0, EventTypes DEF HandleInitOther, Take
    <3>3. UNCHANGED <<pc, pump, cont, after, sending, m_mutex, m_file,
                      m_isBackupInProgress, slot, loader, saver, sender, disk, legacy,
                      run>>
      BY <2>29 DEF HandleInitOther, gui, file, threads
    <3>4. QED
      BY <3>1, <3>2, <3>3 DEF TypeOK
  <2>30. CASE HandleAskPassword
    <3>1. pc' \in Pcs
      BY <2>30 DEF TypeOK, HandleAskPassword, Take, Pcs, file, object, threads
    <3>2. queue' \in Seq(Events)
      BY <2>30, <2>0, EventTypes DEF HandleAskPassword, Take
    <3>3. UNCHANGED <<pump, cont, after, sending, m_mutex, m_file, m_isBackupInProgress,
                      m_wallet, slot, key, sent, loader, saver, sender, disk, legacy,
                      enabled, run>>
      BY <2>30 DEF HandleAskPassword, file, object, threads
    <3>4. QED
      BY <3>1, <3>2, <3>3 DEF TypeOK
  <2>31. CASE HandleSendDone
    <3>1. CASE Die
      BY <3>1, DieType
    <3>2. CASE ~Die
      <4>1. /\ pc' \in Pcs
            /\ cont' \in {"return", "backup", "close"}
        BY <2>31, <3>2 DEF TypeOK, HandleSendDone, Take, Pcs, LockWaits, file, object,
                threads
      <4>2. queue' \in Seq(Events)
        BY <2>31, <3>2, <2>0, EventTypes DEF HandleSendDone, Take
      <4>3. UNCHANGED <<pump, after, sending, m_mutex, m_file, m_isBackupInProgress,
                        m_wallet, slot, key, sent, loader, saver, sender, disk,
                        legacy, enabled, run>>
        BY <2>31, <3>2 DEF HandleSendDone, file, object, threads
      <4>4. QED
        BY <4>1, <4>2, <4>3 DEF TypeOK
    <3>3. QED
      BY <3>1, <3>2
  <2>32. CASE LoadEnd
    <3>1. /\ m_mutex' \in BOOLEAN
          /\ m_file' \in {"closed", "gone"} \cup Names
          /\ m_wallet' \in {"none", "created", "ready"}
          /\ key' \in Keys \cup {NoFile}
          /\ loader' \in {"idle", "loading", "initOk", "initWrong", "initOther"}
      BY <2>32, ZenonT(40) DEF TypeOK, LoadEnd, gui
    <3>2. UNCHANGED <<pc, pump, cont, after, sending, queue, m_isBackupInProgress, slot,
                      sent, saver, sender, disk, legacy, enabled, run>>
      BY <2>32 DEF LoadEnd, gui
    <3>3. QED
      BY <3>1, <3>2 DEF TypeOK
  <2>33. CASE LoadEmit
    <3>1. loader' \in {"idle", "loading", "initOk", "initWrong", "initOther"}
      BY <2>33 DEF TypeOK, LoadEmit, gui, file, object
    <3>2. queue' \in Seq(Events)
      BY <2>33, <2>0, EventTypes DEF LoadEmit
    <3>3. UNCHANGED <<pc, pump, cont, after, sending, m_mutex, m_file,
                      m_isBackupInProgress, m_wallet, slot, key, sent, saver, sender,
                      disk, legacy, enabled, run>>
      BY <2>33 DEF LoadEmit, gui, file, object
    <3>4. QED
      BY <3>1, <3>2, <3>3 DEF TypeOK
  <2>34. ASSUME NEW s \in Savers, SaveWrite(s)
        PROVE  TypeOK'
    <3>1. /\ saver' \in [Savers -> {"idle", "writing", "written", "failed", "remove", "rename"}]
          /\ disk' \in [Names -> Contents]
      BY <2>34 DEF TypeOK, SaveWrite, Names, Contents, gui, file, object
    <3>2. UNCHANGED <<pc, pump, cont, after, sending, queue, m_mutex, m_file,
                      m_isBackupInProgress, m_wallet, slot, key, sent, loader, sender,
                      legacy, enabled, run>>
      BY <2>34 DEF SaveWrite, gui, file, object
    <3>3. QED
      BY <3>1, <3>2 DEF TypeOK
  <2>35. ASSUME NEW s \in Savers, SaveClose(s)
        PROVE  TypeOK'
    <3>1. /\ m_mutex' \in BOOLEAN
          /\ m_file' \in {"closed", "gone"} \cup Names
          /\ m_isBackupInProgress' \in BOOLEAN
      BY <2>35 DEF TypeOK, SaveClose, gui, object
    <3>2. saver' \in [Savers -> {"idle", "writing", "written", "failed", "remove", "rename"}]
      BY <2>35 DEF TypeOK, SaveClose, gui, object
    <3>3. UNCHANGED <<pc, pump, cont, after, sending, queue, m_wallet, slot, key, sent,
                      loader, sender, disk, legacy, enabled, run>>
      BY <2>35 DEF SaveClose, gui, object
    <3>4. QED
      BY <3>1, <3>2, <3>3 DEF TypeOK
  <2>36. ASSUME NEW s \in Savers, SaveRemove(s)
        PROVE  TypeOK'
    <3>1. m_file' \in {"closed", "gone"} \cup Names
      BY <2>36 DEF TypeOK, SaveRemove, Names, Contents, gui, object
    <3>2. saver' \in [Savers -> {"idle", "writing", "written", "failed", "remove", "rename"}]
      BY <2>36 DEF TypeOK, SaveRemove, Names, Contents, gui, object
    <3>3. disk' \in [Names -> Contents]
      BY <2>36 DEF TypeOK, SaveRemove, Names, Contents, gui, object
    <3>4. UNCHANGED <<pc, pump, cont, after, sending, queue, m_mutex,
                      m_isBackupInProgress, m_wallet, slot, key, sent, loader, sender,
                      legacy, enabled, run>>
      BY <2>36 DEF SaveRemove, gui, object
    <3>5. QED
      BY <3>1, <3>2, <3>3, <3>4 DEF TypeOK
  <2>37. ASSUME NEW s \in Savers, SaveRename(s)
        PROVE  TypeOK'
    <3>1. m_file' \in {"closed", "gone"} \cup Names
      BY <2>37 DEF TypeOK, SaveRename, Names, Contents, gui, object
    <3>2. saver' \in [Savers -> {"idle", "writing", "written", "failed", "remove", "rename"}]
      BY <2>37 DEF TypeOK, SaveRename, Names, Contents, gui, object
    <3>3. disk' \in [Names -> Contents]
      BY <2>37 DEF TypeOK, SaveRename, Names, Contents, gui, object
    <3>4. UNCHANGED <<pc, pump, cont, after, sending, queue, m_mutex,
                      m_isBackupInProgress, m_wallet, slot, key, sent, loader, sender,
                      legacy, enabled, run>>
      BY <2>37 DEF SaveRename, gui, object
    <3>5. QED
      BY <3>1, <3>2, <3>3, <3>4 DEF TypeOK
  <2>38. ASSUME NEW i \in TxIds, SendUnlock(i)
        PROVE  TypeOK'
    <3>1. /\ m_mutex' \in BOOLEAN
          /\ sender' \in [TxIds -> {"idle", "sending", "emit", "done"} \cup Kinds]
      BY <2>38 DEF TypeOK, SendUnlock, gui, object
    <3>2. UNCHANGED <<pc, pump, cont, after, sending, queue, m_file, m_isBackupInProgress,
                      m_wallet, slot, key, sent, loader, saver, disk, legacy, enabled,
                      run>>
      BY <2>38 DEF SendUnlock, gui, object
    <3>3. QED
      BY <3>1, <3>2 DEF TypeOK
  <2>39. ASSUME NEW i \in TxIds, SendEmit(i)
        PROVE  TypeOK'
    <3>1. sender' \in [TxIds -> {"idle", "sending", "emit", "done"} \cup Kinds]
      BY <2>39 DEF TypeOK, SendEmit, gui, file, object
    <3>2. queue' \in Seq(Events)
      BY <2>39, <2>0, EventTypes DEF SendEmit
    <3>3. UNCHANGED <<pc, pump, cont, after, sending, m_mutex, m_file,
                      m_isBackupInProgress, m_wallet, slot, key, sent, loader, saver,
                      disk, legacy, enabled, run>>
      BY <2>39 DEF SendEmit, gui, file, object
    <3>4. QED
      BY <3>1, <3>2, <3>3 DEF TypeOK
  <2>40. ASSUME NEW i \in TxIds, SendReset(i)
        PROVE  TypeOK'
    <3>1. /\ slot' \in [Kinds -> TxIds \cup {NoTx}]
          /\ sender' \in [TxIds -> {"idle", "sending", "emit", "done"} \cup Kinds]
      BY <2>40 DEF TypeOK, SendReset, gui, file, object
    <3>2. UNCHANGED <<pc, pump, cont, after, sending, queue, m_mutex, m_file,
                      m_isBackupInProgress, m_wallet, key, sent, loader, saver, disk,
                      legacy, enabled, run>>
      BY <2>40 DEF SendReset, gui, file, object
    <3>3. QED
      BY <3>1, <3>2 DEF TypeOK
  <2>41. QED
    BY <2>1, <2>2, <2>3, <2>4, <2>5, <2>6, <2>7, <2>8, <2>9, <2>10, <2>11, <2>12, <2>13,
       <2>14, <2>15, <2>16, <2>17, <2>18, <2>19, <2>20, <2>21, <2>22, <2>23, <2>24, <2>25,
       <2>26, <2>27, <2>28, <2>29, <2>30, <2>31, <2>32, <2>33, <2>34, <2>35, <2>36, <2>37,
       <2>38, <2>39, <2>40
    DEF Next, Stopped, User, Gui, Loader, Saver, Sender
<1>3. QED
  BY <1>1, <1>2, PTL DEF Spec
=============================================================================
