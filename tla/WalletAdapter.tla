--------------------------- MODULE WalletAdapter ---------------------------
(***************************************************************************)
(* The wallet life cycle of src/src/WalletAdapter.cpp, with the MainWindow *)
(* actions and main.cpp handlers that drive it.                            *)
(*                                                                         *)
(* Threads.  The GUI thread runs one call at a time from the Qt event      *)
(* loop; `pc` is where it stands.  The CryptoNote library runs each load,  *)
(* save and send on a thread of its own and calls WalletAdapter's observer *)
(* methods there.  All share m_file and m_mutex: the GUI thread locks the  *)
(* mutex, and the library thread that finishes the operation unlocks it.   *)
(*                                                                         *)
(* Files.  `disk` holds the files of the wallet path in use: the wallet,   *)
(* its ".temp", the last backup and, for a legacy path, the ".keys" file.  *)
(* m_file names the file its stream writes to; as on POSIX, a rename       *)
(* carries an open stream along and a removal leaves it writing to nothing.*)
(***************************************************************************)
EXTENDS Naturals, Sequences

CONSTANTS
    Keys,      \* key pairs a wallet can hold
    NoFile,    \* the file does not exist
    Torn,      \* the file exists but holds no complete wallet
    Savers,    \* library threads running a save, numbered (bound on overlapping saves)
    TxIds,     \* transaction ids the library hands out (bound on sends)
    NoTx,      \* WALLET_LEGACY_INVALID_TRANSACTION_ID
    Ops,       \* what the environment does: user operations, failures, crash
    Paced,     \* TRUE: the user acts only when nothing is in flight
    MaxRuns    \* bound on the number of times the program is started

Kinds == {"transaction", "message", "deposit", "withdraw"}
Names == {"wallet", "temp", "backup", "keys"}
Contents == Keys \cup {NoFile, Torn}

ASSUME ContentsAssumption ==
    /\ NoFile \notin Keys
    /\ Torn \notin Keys
    /\ NoFile # Torn
ASSUME IdsAssumption == Savers \subseteq Nat /\ TxIds \subseteq Nat /\ NoTx \notin TxIds
ASSUME RunsAssumption == MaxRuns \in Nat \ {0} /\ Paced \in BOOLEAN

VARIABLES
    pc,        \* where the GUI thread stands
    pump,      \* the GUI thread is inside the processEvents() of close()/reset()
    cont,      \* what the caller of save() does when it returns
    after,     \* what the caller of close()/reset() does when it returns
    sending,   \* [kind, id] of the send call the GUI thread is in
    queue,     \* posted events of the GUI thread
    m_mutex, m_file, m_isBackupInProgress, m_wallet,
    slot,      \* m_sentTransactionId, m_sentMessageId, m_depositId, m_depositWithdrawalId
    key,       \* keys of the wallet object
    sent,      \* ids its transaction list knows
    loader, saver, sender,    \* library threads
    disk,
    legacy,    \* the wallet path in Settings ends in ".keys"
    enabled,   \* the wallet actions and frames of MainWindow are enabled
    run        \* number of the current run of the program

gui == <<pc, pump, cont, after, sending>>
file == <<m_mutex, m_file>>
object == <<m_wallet, key, sent>>
threads == <<loader, saver, sender>>
vars == <<pc, pump, cont, after, sending, queue, m_mutex, m_file, m_isBackupInProgress,
          m_wallet, slot, key, sent, loader, saver, sender, disk, legacy, enabled, run>>

LockWaits == {"save.open", "close.lock", "load.open", "import.open", "send.lock"}
Pcs == LockWaits \cup
       {"idle", "save.call", "backup.flag", "close.pump", "close.delete", "open", "create",
        "legacy", "import", "load.call", "import.call", "send.call", "send.store", "exit",
        "exited"}
Events == [type : {"initNew", "initOk", "initWrong", "initOther", "askPassword"}, id : {NoTx}]
            \cup [type : {"sendDone"}, id : TxIds]
NoSend == [kind |-> "transaction", id |-> NoTx]
Event(type) == [type |-> type, id |-> NoTx]

TypeOK ==
    /\ pc \in Pcs
    /\ pump \in BOOLEAN
    /\ cont \in {"return", "backup", "close"}
    /\ after \in {"open", "create", "legacy", "import", "exit"}
    /\ sending \in [kind : Kinds, id : TxIds \cup {NoTx}]
    /\ queue \in Seq(Events)
    /\ m_mutex \in BOOLEAN
    /\ m_file \in {"closed", "gone"} \cup Names
    /\ m_isBackupInProgress \in BOOLEAN
    /\ m_wallet \in {"none", "created", "ready"}
    /\ slot \in [Kinds -> TxIds \cup {NoTx}]
    /\ key \in Keys \cup {NoFile}
    /\ sent \in SUBSET TxIds
    /\ loader \in {"idle", "loading", "initOk", "initWrong", "initOther"}
    /\ saver \in [Savers -> {"idle", "writing", "written", "failed", "remove", "rename"}]
    /\ sender \in [TxIds -> {"idle", "sending", "emit", "done"} \cup Kinds]
    /\ disk \in [Names -> Contents]
    /\ legacy \in BOOLEAN
    /\ enabled \in BOOLEAN
    /\ run \in 1..MaxRuns

-----------------------------------------------------------------------------
(* Process start and end. *)

\* First start: a saved wallet, or none yet.  main() calls open("").
Init ==
    /\ pc = "open" /\ pump = FALSE /\ cont = "return" /\ after = "exit"
    /\ sending = NoSend
    /\ queue = <<>>
    /\ m_mutex = FALSE /\ m_file = "closed" /\ m_isBackupInProgress = FALSE
    /\ m_wallet = "none" /\ key = NoFile /\ sent = {}
    /\ slot = [k \in Kinds |-> NoTx]
    /\ loader = "idle"
    /\ saver = [s \in Savers |-> "idle"]
    /\ sender = [i \in TxIds |-> "idle"]
    /\ enabled = FALSE
    /\ \E c \in Keys \cup {NoFile} :
          disk = [n \in Names |-> IF n = "wallet" THEN c ELSE NoFile]
    /\ legacy = FALSE
    /\ run = 1

\* The process ends: its memory is gone, the files stay as they are.
Die ==
    /\ pc' = "exited" /\ pump' = FALSE /\ cont' = "return" /\ after' = "exit"
    /\ sending' = NoSend
    /\ queue' = <<>>
    /\ m_mutex' = FALSE /\ m_file' = "closed" /\ m_isBackupInProgress' = FALSE
    /\ m_wallet' = "none" /\ key' = NoFile /\ sent' = {}
    /\ slot' = [k \in Kinds |-> NoTx]
    /\ loader' = "idle"
    /\ saver' = [s \in Savers |-> "idle"]
    /\ sender' = [i \in TxIds |-> "idle"]
    /\ enabled' = FALSE
    /\ UNCHANGED <<disk, legacy, run>>

\* It may be killed at any instant.
Crash == "crash" \in Ops /\ pc # "exited" /\ Die

Relaunch ==
    /\ pc = "exited"
    /\ run < MaxRuns
    /\ pc' = "open"
    /\ run' = run + 1
    /\ UNCHANGED <<pump, cont, after, sending, queue, file, m_isBackupInProgress, object,
                   slot, threads, disk, legacy, enabled>>

\* The last run is over.
Stopped == pc = "exited" /\ run = MaxRuns /\ UNCHANGED vars

-----------------------------------------------------------------------------
(* User operations (MainWindow, frames, aboutToQuit). *)

LibraryIdle ==
    /\ loader = "idle"
    /\ \A s \in Savers : saver[s] = "idle"
    /\ \A i \in TxIds : sender[i] \in {"idle", "done"}

\* Events the GUI thread posts itself are drained before the next user event.
UserMay(op) ==
    /\ op \in Ops
    /\ Paced => LibraryIdle /\ queue = <<>>
    /\ \A n \in DOMAIN queue : queue[n].type \notin {"initNew", "askPassword"}

\* Open, New, Import: always enabled, so a click that waits while the GUI thread is blocked
\* is dispatched by processEvents() too.  close() first when a wallet is open.
SwitchWallet(op) ==
    /\ UserMay(op)
    /\ pc = "idle" \/ (pc = "close.pump" /\ ~Paced)
    /\ IF m_wallet = "none"
       THEN pc' = op /\ UNCHANGED <<cont, after>>
       ELSE pc' = "save.open" /\ cont' = "close" /\ after' = op
    /\ UNCHANGED <<pump, sending, queue, file, m_isBackupInProgress, object, slot, threads,
                   disk, legacy, enabled, run>>

\* aboutToQuit: MainWindow::quit(), WalletAdapter::close(), NodeAdapter::deinit().
Quit ==
    /\ UserMay("quit")
    /\ pc = "idle"
    /\ IF m_wallet = "none"
       THEN pc' = "exit" /\ UNCHANGED <<cont, after>>
       ELSE pc' = "save.open" /\ cont' = "close" /\ after' = "exit"
    /\ UNCHANGED <<pump, sending, queue, file, m_isBackupInProgress, object, slot, threads,
                   disk, legacy, enabled, run>>

\* reset() has the same steps as close(); MainWindow then opens the wallet again.
\* Without a wallet Q_CHECK_PTR ends the process, here and in backup and changePassword.
Reset ==
    /\ UserMay("reset")
    /\ pc = "idle" /\ enabled
    /\ \/ m_wallet = "none" /\ Die
       \/ /\ m_wallet # "none"
          /\ pc' = "save.open" /\ cont' = "close" /\ after' = "open"
          /\ UNCHANGED <<pump, sending, queue, file, m_isBackupInProgress, object, slot,
                         threads, disk, legacy, enabled, run>>

\* backup(): save to the chosen file, then raise m_isBackupInProgress.
\* changePassword(): the library re-encrypts, then save(true, true).
SaveNow(op, next) ==
    /\ UserMay(op)
    /\ pc = "idle" /\ enabled
    /\ \/ m_wallet = "none" /\ Die
       \/ /\ m_wallet # "none"
          /\ pc' = "save.open" /\ cont' = next
          /\ UNCHANGED <<pump, after, sending, queue, file, m_isBackupInProgress, object,
                         slot, threads, disk, legacy, enabled, run>>

StartSend(kind) ==
    /\ UserMay(kind)
    /\ pc = "idle" /\ enabled /\ m_wallet # "none"
    /\ pc' = "send.lock" /\ sending' = [kind |-> kind, id |-> NoTx]
    /\ UNCHANGED <<pump, cont, after, queue, file, m_isBackupInProgress, object, slot,
                   threads, disk, legacy, enabled, run>>

User ==
    \/ \E op \in {"open", "create", "legacy", "import"} : SwitchWallet(op)
    \/ Quit
    \/ Reset
    \/ SaveNow("backup", "backup")
    \/ SaveNow("changePassword", "return")
    \/ \E kind \in Kinds : StartSend(kind)

-----------------------------------------------------------------------------
(* GUI thread: save, backup. *)

\* Where a finished handler returns to.
Return == IF pump THEN "close.pump" ELSE "idle"

\* Where save() returns to, given what it returned.
SaveReturn(ok) ==
    CASE cont = "close" -> "close.lock"
      [] cont = "backup" /\ ok -> "backup.flag"
      [] OTHER -> Return

\* openFile(_, false): lock, then open and truncate the target; unlock if that fails.
OpenForSave ==
    LET name == IF cont = "backup" THEN "backup" ELSE "temp" IN
    /\ pc = "save.open"
    /\ ~m_mutex
    /\ \/ /\ m_mutex' = TRUE
          /\ m_file' = name
          /\ disk' = [disk EXCEPT ![name] = Torn]
          /\ pc' = "save.call" /\ UNCHANGED cont
       \/ /\ "fail" \in Ops
          /\ pc' = SaveReturn(FALSE) /\ cont' = "return"
          /\ UNCHANGED <<file, disk>>
    /\ UNCHANGED <<pump, after, sending, queue, m_isBackupInProgress, object, slot,
                   threads, legacy, enabled, run>>

\* Mutation of CallSave: the exception path closes the file and forgets to unlock.
CallSaveKeepsMutex ==
    /\ pc = "save.call"
    /\ \/ /\ m_wallet = "ready"
          /\ \E s \in Savers :
                /\ saver[s] = "idle"
                /\ \A t \in Savers : t < s => saver[t] # "idle"
                /\ saver' = [saver EXCEPT ![s] = "writing"]
          /\ pc' = SaveReturn(TRUE)
          /\ UNCHANGED file
       \/ /\ m_wallet # "ready" \/ "fail" \in Ops
          /\ m_file' = "closed"
          /\ pc' = SaveReturn(FALSE)
          /\ UNCHANGED <<m_mutex, saver>>
    /\ cont' = "return"
    /\ UNCHANGED <<pump, after, sending, queue, m_isBackupInProgress, object, slot,
                   loader, sender, disk, legacy, enabled, run>>

\* m_wallet->save(m_file, ..): the library throws when the wallet is not initialized.
CallSave ==
    /\ pc = "save.call"
    /\ \/ /\ m_wallet = "ready"
          /\ \E s \in Savers :
                /\ saver[s] = "idle"
                /\ \A t \in Savers : t < s => saver[t] # "idle"
                /\ saver' = [saver EXCEPT ![s] = "writing"]
          /\ pc' = SaveReturn(TRUE)
          /\ UNCHANGED file
       \/ /\ m_wallet # "ready" \/ "fail" \in Ops
          /\ m_mutex' = FALSE /\ m_file' = "closed"
          /\ pc' = SaveReturn(FALSE)
          /\ UNCHANGED saver
    /\ cont' = "return"
    /\ UNCHANGED <<pump, after, sending, queue, m_isBackupInProgress, object, slot,
                   loader, sender, disk, legacy, enabled, run>>

SetBackupFlag ==
    /\ pc = "backup.flag"
    /\ m_isBackupInProgress' = TRUE
    /\ pc' = Return
    /\ UNCHANGED <<pump, cont, after, sending, queue, file, object, slot, threads, disk,
                   legacy, enabled, run>>

-----------------------------------------------------------------------------
(* GUI thread: close() and reset() after their save, then process exit. *)

\* lock(), removeObserver, walletCloseCompletedSignal (MainWindow::walletClosed).
CloseLock ==
    /\ pc = "close.lock"
    /\ ~m_mutex
    /\ m_mutex' = TRUE
    /\ enabled' = FALSE
    /\ pump' = TRUE
    /\ pc' = "close.pump"
    /\ UNCHANGED <<cont, after, sending, queue, m_file, m_isBackupInProgress, object, slot,
                   threads, disk, legacy, run>>

\* QCoreApplication::processEvents() returns once no posted event is left.
PumpEnd ==
    /\ pc = "close.pump"
    /\ queue = <<>>
    /\ pc' = "close.delete"
    /\ UNCHANGED <<pump, cont, after, sending, queue, file, m_isBackupInProgress, object,
                   slot, threads, disk, legacy, enabled, run>>

\* delete m_wallet (the library's destructor joins its threads), unlock().
CloseDelete ==
    /\ pc = "close.delete"
    /\ LibraryIdle
    /\ m_wallet' = "none" /\ key' = NoFile /\ sent' = {}
    /\ m_mutex' = FALSE
    /\ pump' = FALSE
    /\ pc' = after /\ after' = "exit"
    /\ UNCHANGED <<cont, sending, queue, m_file, m_isBackupInProgress, slot, threads,
                   disk, legacy, enabled, run>>

Exit == pc = "exit" /\ Die

-----------------------------------------------------------------------------
(* GUI thread: opening. *)

\* setWalletFile: createWallet() names a file that does not exist; openWallet() on a
\* legacy file names a ".keys" beside which any ".wallet" and any ".temp" may lie.
NewPath ==
    /\ pc = "create"
    /\ disk' = [n \in Names |-> NoFile]
    /\ legacy' = FALSE
    /\ pc' = "open"
    /\ UNCHANGED <<pump, cont, after, sending, queue, file, m_isBackupInProgress, object,
                   slot, threads, enabled, run>>

LegacyPath ==
    /\ pc = "legacy"
    /\ \E k \in Keys, w \in Contents, t \in Contents :
          disk' = [wallet |-> w, temp |-> t, backup |-> NoFile, keys |-> k]
    /\ legacy' = TRUE
    /\ pc' = "open"
    /\ UNCHANGED <<pump, cont, after, sending, queue, file, m_isBackupInProgress, object,
                   slot, threads, enabled, run>>

\* importKey(): setWalletFile, then createWithKeys(); initWithKeys calls initCompleted before
\* it returns, so MainWindow::walletOpened runs at once.  The chosen file may exist.
CreateWithKeys ==
    /\ pc = "import"
    /\ \E k \in Keys, w \in Keys \cup {NoFile} :
          /\ disk' = [n \in Names |-> IF n = "wallet" THEN w ELSE NoFile]
          /\ key' = k
    /\ legacy' = FALSE
    /\ m_wallet' = "ready" /\ sent' = {}
    /\ queue' = Append(queue, Event("initNew")) /\ enabled' = TRUE
    /\ pc' = Return
    /\ UNCHANGED <<pump, cont, after, sending, file, m_isBackupInProgress, slot, threads,
                   run>>

\* open(): load the file, import a legacy file first, or generate a wallet.
\* initAndGenerate calls initCompleted before it returns, as initWithKeys does.
Open ==
    LET exists == disk[IF legacy THEN "keys" ELSE "wallet"] # NoFile IN
    /\ pc = "open"
    /\ sent' = {}
    /\ \/ /\ exists
          /\ m_wallet' = "created" /\ key' = NoFile
          /\ pc' = IF legacy THEN "import.open" ELSE "load.open"
          /\ UNCHANGED <<queue, enabled>>
       \/ /\ ~exists
          /\ m_wallet' = "ready"
          /\ \E k \in Keys : (\A n \in Names : disk[n] # k) /\ key' = k
          /\ queue' = Append(queue, Event("initNew")) /\ enabled' = TRUE
          /\ pc' = Return
       \/ /\ ~exists /\ "fail" \in Ops
          /\ m_wallet' = "none" /\ key' = NoFile
          /\ pc' = Return
          /\ UNCHANGED <<queue, enabled>>
    /\ UNCHANGED <<pump, cont, after, sending, file, m_isBackupInProgress, slot, threads,
                   disk, legacy, run>>

\* importLegacyWallet(): openFile(".wallet" beside ".keys", false) truncates it.
OpenForImport ==
    /\ pc = "import.open"
    /\ ~m_mutex
    /\ \/ /\ m_mutex' = TRUE /\ m_file' = "wallet"
          /\ disk' = [disk EXCEPT !["wallet"] = Torn]
          /\ pc' = "import.call"
          /\ UNCHANGED m_wallet
       \/ /\ "fail" \in Ops
          /\ m_wallet' = "none"
          /\ pc' = Return
          /\ UNCHANGED <<file, disk>>
    /\ UNCHANGED <<pump, cont, after, sending, queue, m_isBackupInProgress, key, sent, slot,
                   threads, legacy, enabled, run>>

\* importLegacyKeys writes the wallet or throws; WRONG_PASSWORD asks for a password.
CallImport ==
    /\ pc = "import.call"
    /\ m_mutex' = FALSE /\ m_file' = "closed"
    /\ \/ /\ disk' = [disk EXCEPT !["wallet"] = disk["keys"]]
          /\ legacy' = FALSE
          /\ pc' = "load.open"
          /\ UNCHANGED <<m_wallet, queue>>
       \/ /\ m_wallet' = "none"
          /\ \/ "wrongPassword" \in Ops /\ queue' = Append(queue, Event("askPassword"))
             \/ "fail" \in Ops /\ queue' = queue
          /\ pc' = Return
          /\ UNCHANGED <<disk, legacy>>
    /\ UNCHANGED <<pump, cont, after, sending, m_isBackupInProgress, key, sent, slot, threads,
                   enabled, run>>

OpenForLoad ==
    /\ pc = "load.open"
    /\ ~m_mutex
    /\ \/ m_mutex' = TRUE /\ m_file' = "wallet" /\ pc' = "load.call"
       \/ "fail" \in Ops /\ pc' = Return /\ UNCHANGED file
    /\ UNCHANGED <<pump, cont, after, sending, queue, m_isBackupInProgress, object, slot,
                   threads, disk, legacy, enabled, run>>

CallLoad ==
    /\ pc = "load.call"
    /\ pc' = Return
    /\ \/ loader' = "loading" /\ UNCHANGED <<file, m_wallet>>
       \/ /\ "fail" \in Ops
          /\ m_mutex' = FALSE /\ m_file' = "closed" /\ m_wallet' = "none"
          /\ UNCHANGED loader
    /\ UNCHANGED <<pump, cont, after, sending, queue, m_isBackupInProgress, key, sent, slot,
                   saver, sender, disk, legacy, enabled, run>>

-----------------------------------------------------------------------------
(* GUI thread: sendTransaction, sendMessage, deposit, withdrawUnlockedDeposits. *)

SendLock ==
    /\ pc = "send.lock"
    /\ ~m_mutex
    /\ m_mutex' = TRUE
    /\ pc' = "send.call"
    /\ UNCHANGED <<pump, cont, after, sending, queue, m_file, m_isBackupInProgress, object,
                   slot, threads, disk, legacy, enabled, run>>

\* The library starts the send and returns its id, or throws (no money, no free id).
CallSend ==
    /\ pc = "send.call"
    /\ \/ /\ m_wallet = "ready"
          /\ \E i \in TxIds :
                /\ sender[i] = "idle"
                /\ \A j \in TxIds : j < i => sender[j] # "idle"
                /\ sender' = [sender EXCEPT ![i] = "sending"]
                /\ sending' = [sending EXCEPT !.id = i]
                /\ sent' = sent \cup {i}
          /\ pc' = "send.store"
          /\ UNCHANGED m_mutex
       \/ /\ m_mutex' = FALSE
          /\ pc' = Return
          /\ sending' = NoSend
          /\ UNCHANGED <<sender, sent>>
    /\ UNCHANGED <<pump, cont, after, queue, m_file, m_isBackupInProgress, m_wallet, key, slot,
                   loader, saver, disk, legacy, enabled, run>>

\* The returned id is assigned to the slot of its kind.
StoreId ==
    /\ pc = "send.store"
    /\ slot' = [slot EXCEPT ![sending.kind] = sending.id]
    /\ sending' = NoSend
    /\ pc' = Return
    /\ UNCHANGED <<pump, cont, after, queue, file, m_isBackupInProgress, object,
                   threads, disk, legacy, enabled, run>>

-----------------------------------------------------------------------------
(* GUI thread: posted events, in the event loop or in processEvents(). *)

Take(type) ==
    /\ pc \in {"idle", "close.pump"}
    /\ queue # <<>>
    /\ Head(queue).type = type

\* onWalletInitCompleted, case 0, then MainWindow::walletOpened when it was queued.  Reading the balances of
\* a wallet that is not initialized throws, and nothing catches it.
HandleInitOk ==
    /\ Take("initNew") \/ Take("initOk")
    /\ \/ m_wallet # "ready" /\ Die
       \/ /\ m_wallet = "ready"
          /\ queue' = Tail(queue)
          /\ enabled' = (enabled \/ Head(queue).type = "initOk")
          /\ IF disk["wallet"] = NoFile
             THEN pc' = "save.open" /\ cont' = "return"
             ELSE UNCHANGED <<pc, cont>>
          /\ UNCHANGED <<pump, after, sending, file, m_isBackupInProgress, object, slot,
                         threads, disk, legacy, run>>

\* Mutation of HandleInitWrong: the password is asked for again and the wallet stays.
HandleInitWrongKeepsWallet ==
    /\ Take("initWrong")
    /\ queue' = Append(Tail(queue), Event("askPassword"))
    /\ enabled' = FALSE
    /\ UNCHANGED <<gui, file, m_isBackupInProgress, object, slot, threads, disk, legacy, run>>

\* onWalletInitCompleted, WRONG_PASSWORD: delete the wallet (the destructor joins the
\* library's threads) and post the password dialog.
HandleInitWrong ==
    /\ Take("initWrong")
    /\ LibraryIdle
    /\ queue' = Append(Tail(queue), Event("askPassword"))
    /\ m_wallet' = "none" /\ key' = NoFile /\ sent' = {}
    /\ enabled' = FALSE
    /\ UNCHANGED <<gui, file, m_isBackupInProgress, slot, threads, disk, legacy, run>>

HandleInitOther ==
    /\ Take("initOther")
    /\ LibraryIdle
    /\ queue' = Tail(queue)
    /\ m_wallet' = "none" /\ key' = NoFile /\ sent' = {}
    /\ enabled' = FALSE
    /\ UNCHANGED <<gui, file, m_isBackupInProgress, slot, threads, disk, legacy, run>>

\* askForWalletPassword: cancel, or open(password).
HandleAskPassword ==
    /\ Take("askPassword")
    /\ queue' = Tail(queue)
    /\ pc' = "open" \/ UNCHANGED pc
    /\ UNCHANGED <<pump, cont, after, sending, file, m_isBackupInProgress, object, slot,
                   threads, disk, legacy, enabled, run>>

\* onWalletSendTransactionCompleted: save if the open wallet knows the id (another
\* wallet may know it too); without a wallet Q_CHECK_PTR ends the process.
HandleSendDone ==
    /\ Take("sendDone")
    /\ \/ m_wallet = "none" /\ Die
       \/ /\ m_wallet # "none"
          /\ queue' = Tail(queue)
          /\ \/ pc' = "save.open" /\ cont' = "return"
             \/ Head(queue).id \notin sent /\ UNCHANGED <<pc, cont>>
          /\ UNCHANGED <<pump, after, sending, file, m_isBackupInProgress, object, slot,
                         threads, disk, legacy, enabled, run>>

Gui ==
    \/ OpenForSave \/ CallSave \/ SetBackupFlag
    \/ CloseLock \/ PumpEnd \/ CloseDelete \/ Exit
    \/ NewPath \/ LegacyPath \/ CreateWithKeys \/ Open
    \/ OpenForImport \/ CallImport \/ OpenForLoad \/ CallLoad
    \/ SendLock \/ CallSend \/ StoreId
    \/ HandleInitOk \/ HandleInitWrong \/ HandleInitOther \/ HandleAskPassword
    \/ HandleSendDone

-----------------------------------------------------------------------------
(* Library threads: the loader. *)

\* Mutation of LoadEnd: initCompleted unlocks without closing the file.
LoadEndKeepsFile ==
    /\ loader = "loading"
    /\ \/ /\ disk["wallet"] \in Keys
          /\ loader' = "initOk" /\ m_wallet' = "ready" /\ key' = disk["wallet"]
       \/ /\ "wrongPassword" \in Ops /\ disk["wallet"] \in Keys
          /\ loader' = "initWrong" /\ UNCHANGED <<m_wallet, key>>
       \/ /\ "fail" \in Ops \/ disk["wallet"] \notin Keys
          /\ loader' = "initOther" /\ UNCHANGED <<m_wallet, key>>
    /\ m_mutex' = FALSE
    /\ UNCHANGED <<gui, queue, m_file, m_isBackupInProgress, slot, sent, saver, sender, disk,
                   legacy, enabled, run>>

\* The load ends and calls initCompleted, which closes the file.
LoadEnd ==
    /\ loader = "loading"
    /\ \/ /\ disk["wallet"] \in Keys
          /\ loader' = "initOk" /\ m_wallet' = "ready" /\ key' = disk["wallet"]
       \/ /\ "wrongPassword" \in Ops /\ disk["wallet"] \in Keys
          /\ loader' = "initWrong" /\ UNCHANGED <<m_wallet, key>>
       \/ /\ "fail" \in Ops \/ disk["wallet"] \notin Keys
          /\ loader' = "initOther" /\ UNCHANGED <<m_wallet, key>>
    /\ m_mutex' = FALSE /\ m_file' = "closed"
    /\ UNCHANGED <<gui, queue, m_isBackupInProgress, slot, sent, saver, sender, disk, legacy,
                   enabled, run>>

\* walletInitCompletedSignal.
LoadEmit ==
    /\ loader \in {"initOk", "initWrong", "initOther"}
    /\ queue' = Append(queue, Event(loader))
    /\ loader' = "idle"
    /\ UNCHANGED <<gui, file, m_isBackupInProgress, object, slot, saver, sender, disk, legacy,
                   enabled, run>>

Loader == LoadEnd \/ LoadEmit

-----------------------------------------------------------------------------
(* Library threads: a save and its saveCompleted callback. *)

SaveWrite(s) ==
    /\ saver[s] = "writing"
    /\ \/ /\ saver' = [saver EXCEPT ![s] = "written"]
          /\ disk' = IF m_file \in Names THEN [disk EXCEPT ![m_file] = key] ELSE disk
       \/ /\ "fail" \in Ops
          /\ saver' = [saver EXCEPT ![s] = "failed"]
          /\ UNCHANGED disk
    /\ UNCHANGED <<gui, queue, file, m_isBackupInProgress, object, slot, loader, sender,
                   legacy, enabled, run>>

\* Mutations of SaveClose: the error is not looked at before renaming; the error path leaves
\* the mutex locked.
SaveCloseRenamesAlways(s) ==
    /\ saver[s] \in {"written", "failed"}
    /\ saver' = [saver EXCEPT ![s] = IF m_isBackupInProgress THEN "idle" ELSE "remove"]
    /\ m_isBackupInProgress' = FALSE
    /\ m_mutex' = FALSE /\ m_file' = "closed"
    /\ UNCHANGED <<gui, queue, object, slot, loader, sender, disk, legacy, enabled, run>>
SaveCloseKeepsMutex(s) ==
    /\ saver[s] \in {"written", "failed"}
    /\ saver' = [saver EXCEPT ![s] =
                    IF saver[s] = "written" /\ ~m_isBackupInProgress THEN "remove" ELSE "idle"]
    /\ m_isBackupInProgress' = FALSE
    /\ m_mutex' = (saver[s] = "failed") /\ m_file' = "closed"
    /\ UNCHANGED <<gui, queue, object, slot, loader, sender, disk, legacy, enabled, run>>

\* saveCompleted up to closeFile(): rename unless it failed or a backup is in progress.
SaveClose(s) ==
    /\ saver[s] \in {"written", "failed"}
    /\ saver' = [saver EXCEPT ![s] =
                    IF saver[s] = "written" /\ ~m_isBackupInProgress THEN "remove" ELSE "idle"]
    /\ m_isBackupInProgress' = FALSE
    /\ m_mutex' = FALSE /\ m_file' = "closed"
    /\ UNCHANGED <<gui, queue, object, slot, loader, sender, disk, legacy, enabled, run>>

\* renameFile: QFile::remove(wallet) ...
SaveRemove(s) ==
    /\ saver[s] = "remove"
    /\ saver' = [saver EXCEPT ![s] = "rename"]
    /\ disk' = [disk EXCEPT !["wallet"] = NoFile]
    /\ m_file' = IF m_file = "wallet" THEN "gone" ELSE m_file
    /\ UNCHANGED <<gui, queue, m_mutex, m_isBackupInProgress, object, slot, loader, sender,
                   legacy, enabled, run>>

\* ... then QFile::rename(temp, wallet), which does nothing without a source or onto a
\* file that exists.
SaveRename(s) ==
    /\ saver[s] = "rename"
    /\ saver' = [saver EXCEPT ![s] = "idle"]
    /\ IF disk["temp"] # NoFile /\ disk["wallet"] = NoFile
       THEN /\ disk' = [disk EXCEPT !["wallet"] = disk["temp"], !["temp"] = NoFile]
            /\ m_file' = IF m_file = "temp" THEN "wallet" ELSE m_file
       ELSE UNCHANGED <<disk, m_file>>
    /\ UNCHANGED <<gui, queue, m_mutex, m_isBackupInProgress, object, slot, loader, sender,
                   legacy, enabled, run>>

Saver(s) == SaveWrite(s) \/ SaveClose(s) \/ SaveRemove(s) \/ SaveRename(s)

-----------------------------------------------------------------------------
(* Library threads: a send and its sendTransactionCompleted callback. *)

\* Mutation of SendUnlock: sendTransactionCompleted does not unlock.
SendUnlockForgotten(i) ==
    /\ sender[i] = "sending"
    /\ sender' = [sender EXCEPT ![i] = "emit"]
    /\ UNCHANGED <<gui, queue, file, m_isBackupInProgress, object, slot, loader, saver, disk,
                   legacy, enabled, run>>

\* m_mutex.unlock() when the library reports the send.
SendUnlock(i) ==
    /\ sender[i] = "sending"
    /\ sender' = [sender EXCEPT ![i] = "emit"]
    /\ m_mutex' = FALSE
    /\ UNCHANGED <<gui, queue, m_file, m_isBackupInProgress, object, slot, loader, saver, disk,
                   legacy, enabled, run>>

\* Mutation of SendEmit: the slot is set back before the signals read it.
SendEmitAfterReset(i) ==
    LET done == [type |-> "sendDone", id |-> NoTx] IN
    /\ sender[i] = "emit"
    /\ \E kind \in Kinds :
          /\ slot[kind] = i
          /\ slot' = [slot EXCEPT ![kind] = NoTx]
    /\ sender' = [sender EXCEPT ![i] = "done"]
    /\ queue' = Append(queue, done)
    /\ UNCHANGED <<gui, file, m_isBackupInProgress, object, loader, saver, disk, legacy,
                   enabled, run>>

\* walletSendTransactionCompletedSignal, then the signal of the kind whose slot holds the
\* id; walletSendMessageCompletedSignal is connected to the same handler as the first.
SendEmit(i) ==
    LET done == [type |-> "sendDone", id |-> i] IN
    /\ sender[i] = "emit"
    /\ \/ \E kind \in Kinds :
             /\ slot[kind] = i
             /\ sender' = [sender EXCEPT ![i] = kind]
             /\ queue' = IF kind = "message" THEN queue \o <<done, done>> ELSE Append(queue, done)
       \/ /\ \A kind \in Kinds : slot[kind] # i
          /\ sender' = [sender EXCEPT ![i] = "done"]
          /\ queue' = Append(queue, done)
    /\ UNCHANGED <<gui, file, m_isBackupInProgress, object, slot, loader, saver, disk, legacy,
                   enabled, run>>

\* The slot is set back to the invalid id.
SendReset(i) ==
    /\ sender[i] \in Kinds
    /\ slot' = [slot EXCEPT ![sender[i]] = NoTx]
    /\ sender' = [sender EXCEPT ![i] = "done"]
    /\ UNCHANGED <<gui, queue, file, m_isBackupInProgress, object, loader, saver, disk, legacy,
                   enabled, run>>

Sender(i) == SendUnlock(i) \/ SendEmit(i) \/ SendReset(i)

-----------------------------------------------------------------------------
Next ==
    \/ User
    \/ Gui
    \/ Loader
    \/ \E s \in Savers : Saver(s)
    \/ \E i \in TxIds : Sender(i)
    \/ Crash
    \/ Relaunch
    \/ Stopped

Spec == Init /\ [][Next]_vars

\* The GUI thread and the library threads are scheduled, and the library ends every load,
\* save and send it accepted; the user and crashes owe nothing.
FairSpec ==
    /\ Spec
    /\ WF_vars(Gui)
    /\ WF_vars(Loader)
    /\ \A s \in Savers : WF_vars(Saver(s))
    /\ \A i \in TxIds : WF_vars(Sender(i))

-----------------------------------------------------------------------------
(* Properties. *)

\* Who holds m_mutex: the GUI thread in a locked section or in the rest of close(), or the
\* library thread it handed a load, save or send to.
GuiHolds == pump \/ pc \in {"save.call", "load.call", "import.call", "send.call"}
LoaderHolds == loader = "loading"
SaverHolds(s) == saver[s] \in {"writing", "written", "failed"}
SenderHolds(i) == sender[i] = "sending"

\* m_mutex is handed from the GUI thread to exactly one library operation and back: it is
\* locked exactly while someone holds it, and never two at once.  So unlock() never meets a
\* free mutex, and m_file is never shared.
HandOff ==
    /\ m_mutex <=> \/ GuiHolds \/ LoaderHolds
                   \/ \E s \in Savers : SaverHolds(s)
                   \/ \E i \in TxIds : SenderHolds(i)
    /\ GuiHolds => ~LoaderHolds
    /\ \A s \in Savers : SaverHolds(s) => ~GuiHolds /\ ~LoaderHolds
    /\ \A i \in TxIds : SenderHolds(i) => ~GuiHolds /\ ~LoaderHolds
    /\ \A s \in Savers, i \in TxIds : ~(SaverHolds(s) /\ SenderHolds(i))
    /\ \A s, t \in Savers : SaverHolds(s) /\ SaverHolds(t) => s = t
    /\ \A i, j \in TxIds : SenderHolds(i) /\ SenderHolds(j) => i = j

\* m_file is open exactly while a load, save or import uses it: openFile() never meets an
\* open stream, and no operation finds its stream closed under it.
FileInUse ==
    m_file # "closed" <=> \/ pc \in {"save.call", "load.call", "import.call"}
                         \/ LoaderHolds
                         \/ \E s \in Savers : SaverHolds(s)

\* Q_ASSERT(QFile::exists(_oldName)) in renameFile: a finished save finds its ".temp".
RenameFindsTemp == \A s \in Savers : saver[s] = "remove" => disk["temp"] # NoFile

\* Q_ASSERT in sendTransactionCompleted: a send that completes is in one of the four slots.
KnowsCompletedId(i) ==
    sender[i] = "sending" /\ sender'[i] = "emit" => \E kind \in Kinds : slot[kind] = i
CompletedIdIsKnown == [][\A i \in TxIds : KnowsCompletedId(i)]_vars

\* The assertions that relate the wallet to what threads and windows do, for a user who
\* waits: open(), which a failed load may call again through the password dialog, finds no
\* other wallet, a finished save finds its ".temp" to rename, and the wallet actions, which
\* posted signals switch, are enabled only while there is a wallet (resetWallet).
AssertionsHold ==
    /\ pc = "open" => m_wallet = "none"
    /\ RenameFindsTemp
    /\ enabled /\ pc = "idle" => m_wallet # "none"

\* The keys in the wallet file, or in ".temp" where there is no wallet file, or in the
\* ".keys" file stay on disk, whatever fails and wherever the process dies, unless the user
\* turns to another path or the open wallet holds other keys: keys imported onto an existing
\* file, or keys that open() generated because a crash between QFile::remove and
\* QFile::rename left only the ".temp", which the next save then overwrites.  One step of the
\* code does take keys away: importLegacyWallet() truncates the ".wallet" beside the ".keys"
\* before the password is tried; there only the keys that the ".keys" file holds too stay.
OnDisk(k) ==
    \/ disk["wallet"] = k
    \/ disk["wallet"] = NoFile /\ disk["temp"] = k
    \/ disk["keys"] = k
KeepsKeys ==
    pc \notin {"create", "legacy", "import"}
        => \A k \in Keys :
              /\ OnDisk(k) /\ key \in {k, NoFile}
              /\ (pc = "import.open" /\ pc' = "import.call") => k = disk["keys"]
              => OnDisk(k)'
KeysKept == [][KeepsKeys]_vars

\* Outside processEvents(), a GUI thread that waits for m_mutex gets it: the operation in
\* flight ends and unlocks it.
LockGranted == (pc \in LockWaits /\ ~pump) ~> (pc \notin LockWaits)

\* "wallet is saving data. Please wait...": quitting ends.
QuitEnds == (cont = "close" /\ after = "exit" /\ pc = "save.open") ~> (pc = "exited")
=============================================================================
