-------------------------- MODULE TransactionFeed --------------------------
(***************************************************************************)
(* How the transactions of a wallet reach the lists of the GUI.            *)
(*                                                                         *)
(* The wallet library calls WalletAdapter on a thread of its own (`lib`),  *)
(* and ends a send on another one (`sending`).  WalletAdapter turns the    *)
(* calls into signals, which are queued for the GUI thread: `queue` holds  *)
(* a signal once for each slot it is connected to, in the order in which   *)
(* the slots were connected.  TransactionsModel, MessagesModel and         *)
(* DepositModel keep rows that follow the wallet.                          *)
(*                                                                         *)
(* During synchronization only the last new transaction is kept, and told  *)
(* to the models by a timer: the id is checked, emitted and forgotten in   *)
(* three steps, between which the library may write another one.           *)
(***************************************************************************)
EXTENDS FeedRows, FiniteSets

CONSTANTS
    Received,      \* the transactions the library may find
    Sent,          \* those the user may send
    Stored,        \* what a wallet file may hold when it is opened
    TxLimit,       \* bound on the transactions of a wallet
    QueueLimit     \* bound on the posted events while the library posts more

Kinds == Received \cup Sent

ASSUME FeedAssumption ==
    /\ Kinds \subseteq Transactions
    /\ Stored \subseteq Seq(Kinds) /\ \A stored \in Stored : Len(stored) <= TxLimit
    /\ TxLimit \in Nat /\ QueueLimit \in Nat

VARIABLES
    \* the library
    wallet,           \* m_wallet is not nullptr
    txs,              \* its transactions
    ready,            \* the library has called initCompleted()
    lib,              \* 0, or the transaction it has still to announce
    sending,          \* a send: at "none", "locked" or "unlocked"
    \* WalletAdapter
    isSynchronized,   \* m_isSynchronized
    lastId,           \* m_lastWalletTransactionId, 0 for none
    timer,            \* m_newTransactionsNotificationTimer is active
    queue,            \* events posted to the GUI thread
    gui,              \* what the GUI thread is in the middle of
    crashed,          \* Q_CHECK_PTR(m_wallet) failed
    \* the models
    transfers,        \* TransactionsModel::m_transfers
    transactionRow,   \* TransactionsModel::m_transactionRow
    messages,         \* MessagesModel::m_messages
    depositCount,     \* DepositModel::m_depositCount
    \* observation
    loaded,           \* TransactionsModel has been loaded from the open wallet
    lost              \* transactions notifyAboutLastTransaction() forgot untold

library == <<wallet, txs, ready, lib, sending>>
adapter == <<isSynchronized, lastId, timer, gui, crashed, lost>>
models == <<transfers, transactionRow, messages, depositCount, loaded>>
vars == <<library, adapter, queue, models>>

Models == {"transactions", "messages", "deposits"}
Event(to, ev, id) == [to |-> to, ev |-> ev, id |-> id]

\* A signal the three models are connected to.
ToModels(ev, id) ==
    <<Event("transactions", ev, id), Event("messages", ev, id), Event("deposits", ev, id)>>

NoSend == [at |-> "none", id |-> 0, message |-> FALSE]

TypeOK ==
    /\ wallet \in BOOLEAN
    /\ txs \in Seq(Kinds) /\ Len(txs) <= TxLimit
    /\ ready \in BOOLEAN
    /\ lib \in 0..TxLimit
    /\ sending \in [at : {"none", "locked", "unlocked"}, id : 0..TxLimit, message : BOOLEAN]
    /\ isSynchronized \in BOOLEAN /\ timer \in BOOLEAN /\ crashed \in BOOLEAN
    /\ lastId \in 0..TxLimit /\ lost \subseteq 1..TxLimit
    /\ gui \in {"idle", "emitting", "emitted", "closing"}
    /\ queue \in Seq([to : Models \cup {"adapter"},
                      ev : {"init", "sent", "progress", "completed", "created",
                            "reload", "closed"},
                      id : Nat])
    /\ transfers \in Seq([transaction : 1..TxLimit, transfer : Nat])
    /\ \A id \in DOMAIN transactionRow : id \in 1..TxLimit /\ transactionRow[id] \in Nat \X Nat
    /\ messages \in Seq([transaction : 1..TxLimit, transfer : Nat])
    /\ depositCount \in 0..TxLimit
    /\ loaded \in BOOLEAN

Init ==
    /\ wallet = FALSE /\ txs = <<>> /\ ready = FALSE /\ lib = 0
    /\ sending = NoSend
    /\ isSynchronized = FALSE /\ lastId = 0 /\ timer = FALSE /\ gui = "idle"
    /\ crashed = FALSE /\ lost = {}
    /\ queue = <<>>
    /\ transfers = <<>> /\ transactionRow = <<>> /\ messages = <<>> /\ depositCount = 0
    /\ loaded = FALSE

(***************************************************************************)
(* The library.                                                            *)
(***************************************************************************)
Observed == wallet /\ ready /\ gui # "closing" /\ ~crashed
MayPost == Len(queue) <= QueueLimit

initCompleted ==
    /\ wallet /\ ~ready /\ ~crashed
    /\ ready' = TRUE
    /\ queue' = Append(queue, Event("adapter", "init", 0))
    /\ UNCHANGED <<wallet, txs, lib, sending, adapter, models>>

\* The wallet finds a transaction of its own in a block or in the pool.
Receive(tx) ==
    /\ Observed /\ lib = 0 /\ Len(txs) < TxLimit
    /\ txs' = Append(txs, tx)
    /\ lib' = Len(txs')
    /\ UNCHANGED <<wallet, ready, sending, adapter, queue, models>>

\* Mutation of externalTransactionCreated: the first transaction is kept, not the last.
CreatedKeepsFirst ==
    /\ Observed /\ lib # 0 /\ (isSynchronized => MayPost)
    /\ IF isSynchronized
       THEN queue' = queue \o ToModels("created", lib) /\ UNCHANGED lastId
       ELSE lastId' = (IF lastId = 0 THEN lib ELSE lastId) /\ UNCHANGED queue
    /\ lib' = 0
    /\ UNCHANGED <<wallet, txs, ready, sending, isSynchronized, timer, gui, crashed,
                   lost, models>>

externalTransactionCreated ==
    /\ Observed /\ lib # 0 /\ (isSynchronized => MayPost)
    /\ IF isSynchronized
       THEN queue' = queue \o ToModels("created", lib) /\ UNCHANGED lastId
       ELSE lastId' = lib /\ UNCHANGED queue
    /\ lib' = 0
    /\ UNCHANGED <<wallet, txs, ready, sending, isSynchronized, timer, gui, crashed,
                   lost, models>>

synchronizationProgressUpdated ==
    /\ Observed /\ lib = 0 /\ MayPost
    /\ isSynchronized' = FALSE
    /\ queue' = Append(queue, Event("adapter", "progress", 0))
    /\ UNCHANGED <<library, lastId, timer, gui, crashed, lost, models>>

synchronizationCompleted ==
    /\ Observed /\ lib = 0 /\ MayPost
    /\ ~isSynchronized   \* again and again otherwise, to the same effect
    /\ isSynchronized' = TRUE
    /\ queue' = Append(queue, Event("adapter", "completed", 0))
    /\ UNCHANGED <<library, lastId, timer, gui, crashed, lost, models>>

\* sendTransactionCompleted() up to unlock(), and the signals it emits after it: a
\* message is told to two signals with the same slot.
UnlockSent ==
    /\ sending.at = "locked" /\ ~crashed
    /\ sending' = [sending EXCEPT !.at = "unlocked"]
    /\ UNCHANGED <<wallet, txs, ready, lib, adapter, queue, models>>

EmitSent ==
    /\ sending.at = "unlocked" /\ ~crashed
    /\ LET sent == Event("adapter", "sent", sending.id)
       IN queue' = queue \o (IF sending.message THEN <<sent, sent>> ELSE <<sent>>)
    /\ sending' = NoSend
    /\ UNCHANGED <<wallet, txs, ready, lib, adapter, models>>

(***************************************************************************)
(* What the user does.                                                     *)
(***************************************************************************)
UserActs == gui = "idle" /\ ~crashed

Open(stored) ==
    /\ UserActs /\ ~wallet
    /\ wallet' = TRUE
    /\ txs' = stored
    /\ UNCHANGED <<ready, lib, sending, adapter, queue, models>>

Send(tx) ==
    /\ UserActs /\ wallet /\ ready /\ loaded
    /\ sending.at = "none" /\ Len(txs) < TxLimit /\ MayPost
    /\ txs' = Append(txs, tx)
    /\ sending' = [at |-> "locked", id |-> Len(txs'), message |-> tx.messages]
    /\ UNCHANGED <<wallet, ready, lib, adapter, queue, models>>

\* close() and reset() once lock() has succeeded: a load or a send holds the lock.
CloseWallet ==
    /\ UserActs /\ wallet /\ ready /\ sending.at # "locked"
    /\ isSynchronized' = FALSE
    /\ timer' = FALSE
    /\ lastId' = 0
    /\ lib' = 0
    /\ queue' = queue \o ToModels("closed", 0)
    /\ gui' = "closing"
    /\ UNCHANGED <<wallet, txs, ready, sending, crashed, lost, models>>

\* processEvents() returns and the wallet is deleted.
DeleteWallet ==
    /\ gui = "closing" /\ queue = <<>>
    /\ wallet' = FALSE /\ ready' = FALSE /\ txs' = <<>>
    /\ gui' = "idle"
    /\ loaded' = FALSE /\ lost' = {}
    /\ UNCHANGED <<lib, sending, isSynchronized, lastId, timer, crashed, queue,
                   transfers, transactionRow, messages, depositCount>>

(***************************************************************************)
(* notifyAboutLastTransaction(), from the timer or when synchronized.      *)
(***************************************************************************)
CheckLast == gui' = IF lastId # 0 THEN "emitting" ELSE gui

Told == {queue[i].id : i \in {j \in DOMAIN queue : queue[j].ev = "created"}}

TimerFires ==
    /\ gui = "idle" /\ timer /\ lastId # 0 /\ ~crashed
    /\ CheckLast
    /\ UNCHANGED <<library, isSynchronized, lastId, timer, crashed, lost, queue, models>>

EmitLast ==
    /\ gui = "emitting"
    /\ queue' = queue \o ToModels("created", lastId)
    /\ gui' = "emitted"
    /\ UNCHANGED <<library, isSynchronized, lastId, timer, crashed, lost, models>>

ForgetLast ==
    /\ gui = "emitted"
    /\ lastId' = 0
    /\ lost' = lost \cup ({lastId} \ Told)
    /\ gui' = "idle"
    /\ UNCHANGED <<library, isSynchronized, timer, crashed, queue, models>>

(***************************************************************************)
(* The slots.                                                              *)
(***************************************************************************)
Takes(to, ev) ==
    /\ gui \in {"idle", "closing"} /\ ~crashed
    /\ queue # <<>> /\ Head(queue).to = to /\ Head(queue).ev = ev

\* The rest of the queue and what the slot posts.
Post(events) == queue' = Tail(queue) \o events

onProgress ==
    /\ Takes("adapter", "progress")
    /\ timer' = TRUE
    /\ Post(<<>>)
    /\ UNCHANGED <<library, isSynchronized, lastId, gui, crashed, lost, models>>

\* Mutation of onCompleted: the timer is stopped, and nothing is told.
CompletedTellsNothing ==
    /\ Takes("adapter", "completed")
    /\ timer' = FALSE
    /\ Post(<<>>)
    /\ UNCHANGED <<library, isSynchronized, lastId, gui, crashed, lost, models>>

onCompleted ==
    /\ Takes("adapter", "completed")
    /\ timer' = FALSE
    /\ CheckLast
    /\ Post(<<>>)
    /\ UNCHANGED <<library, isSynchronized, lastId, crashed, lost, models>>

onWalletInitCompleted ==
    /\ Takes("adapter", "init")
    /\ Post(ToModels("reload", 0))
    /\ UNCHANGED <<library, adapter, models>>

onWalletSendTransactionCompleted ==
    /\ Takes("adapter", "sent")
    /\ crashed' = ~wallet
    /\ LET id == Head(queue).id
       IN Post(IF wallet /\ id <= Len(txs) THEN ToModels("created", id) ELSE <<>>)
    /\ UNCHANGED <<library, isSynchronized, lastId, timer, gui, lost, models>>

With(index, id, row) == [i \in DOMAIN index \cup {id} |-> IF i = id THEN row ELSE index[i]]

\* Mutation of AppendRows: the index starts at the last row there was.
AppendRowsOffByOne(list, id) ==
    IF id > Len(txs) THEN list
    ELSE LET new == RowsOf(id, txs[id])
         IN [rows |-> list.rows \o new,
             index |-> With(list.index, id, <<Len(list.rows), Len(new)>>)]

(* TransactionsModel.                                                      *)
AppendRows(list, id) ==
    IF id > Len(txs) THEN list
    ELSE LET new == RowsOf(id, txs[id])
         IN [rows |-> list.rows \o new,
             index |-> With(list.index, id, <<Len(list.rows) + 1, Len(new)>>)]

\* For one transaction after the other.
AppendAllRows(list, from, to) ==
    LET upTo[id \in (from - 1)..to] == IF id < from THEN list ELSE AppendRows(upTo[id - 1], id)
    IN IF to < from THEN list ELSE upTo[to]

SetTransactions(list) == transfers' = list.rows /\ transactionRow' = list.index

\* Mutation of reloadWalletTransactions: rows of the wallet before are not cleared.
ReloadKeepsRows ==
    /\ Takes("transactions", "reload")
    /\ SetTransactions(AppendAllRows([rows |-> transfers, index |-> transactionRow], 1, Len(txs)))
    /\ loaded' = TRUE
    /\ Post(<<>>)
    /\ UNCHANGED <<library, adapter, messages, depositCount>>

reloadWalletTransactions ==
    /\ Takes("transactions", "reload")
    /\ SetTransactions(AppendAllRows([rows |-> <<>>, index |-> <<>>], 1, Len(txs)))
    /\ loaded' = TRUE
    /\ Post(<<>>)
    /\ UNCHANGED <<library, adapter, messages, depositCount>>

appendTransaction ==
    /\ Takes("transactions", "created")
    /\ LET id == Head(queue).id
           old == [rows |-> transfers, index |-> transactionRow]
       IN IF id \in DOMAIN transactionRow THEN UNCHANGED <<transfers, transactionRow>>
          ELSE SetTransactions(AppendAllRows(old, Cardinality(DOMAIN transactionRow) + 1, id))
    /\ Post(<<>>)
    /\ UNCHANGED <<library, adapter, messages, depositCount, loaded>>

resetTransactions ==
    /\ Takes("transactions", "closed")
    /\ transfers' = <<>> /\ transactionRow' = <<>>
    /\ loaded' = FALSE
    /\ Post(<<>>)
    /\ UNCHANGED <<library, adapter, messages, depositCount>>

\* The rows updateWalletTransaction() announces as changed; none of an unknown transaction.
ChangedRows(id) ==
    IF id \in DOMAIN transactionRow
    THEN LET row == transactionRow[id] IN row[1]..(row[1] + row[2] - 1)
    ELSE {}

(* MessagesModel.  It tells MainWindow how many rows there are, too; see   *)
(* WalletWindow.                                                           *)
HasRows(rows, id) == \E i \in DOMAIN rows : rows[i].transaction = id

\* Mutation of AppendMessages: a transaction that has rows gets them again.
AppendMessagesAgain(rows, id) ==
    IF id > Len(txs) \/ ~txs[id].messages THEN rows ELSE rows \o RowsOf(id, txs[id])

AppendMessages(rows, id) ==
    IF id > Len(txs) \/ HasRows(rows, id) \/ ~txs[id].messages THEN rows
    ELSE rows \o RowsOf(id, txs[id])

AppendAllMessages(rows, from, to) ==
    LET upTo[id \in (from - 1)..to] == IF id < from THEN rows ELSE AppendMessages(upTo[id - 1], id)
    IN IF to < from THEN rows ELSE upTo[to]

reloadMessages ==
    /\ Takes("messages", "reload")
    /\ messages' = AppendAllMessages(<<>>, 1, Len(txs))
    /\ Post(<<>>)
    /\ UNCHANGED <<library, adapter, transfers, transactionRow, depositCount, loaded>>

\* It starts from the number of rows, as if every transaction had one.
appendMessageTransaction ==
    /\ Takes("messages", "created")
    /\ LET id == Head(queue).id
       IN messages' = IF HasRows(messages, id) THEN messages
                      ELSE AppendAllMessages(messages, Len(messages) + 1, id)
    /\ Post(<<>>)
    /\ UNCHANGED <<library, adapter, transfers, transactionRow, depositCount, loaded>>

resetMessages ==
    /\ Takes("messages", "closed")
    /\ messages' = <<>>
    /\ Post(<<>>)
    /\ UNCHANGED <<library, adapter, transfers, transactionRow, depositCount, loaded>>

(* DepositModel.                                                           *)
reloadWalletDeposits ==
    /\ Takes("deposits", "reload")
    /\ depositCount' = Cardinality(Deposits(txs))
    /\ Post(<<>>)
    /\ UNCHANGED <<library, adapter, transfers, transactionRow, messages, loaded>>

\* Mutation of appendDeposit: all deposits are counted again.
AppendDepositAgain(count) == depositCount' = depositCount + count

appendDeposit(count) == depositCount' = IF count <= depositCount THEN depositCount ELSE count

transactionCreated ==
    /\ Takes("deposits", "created")
    /\ appendDeposit(Cardinality(Deposits(txs)))
    /\ Post(<<>>)
    /\ UNCHANGED <<library, adapter, transfers, transactionRow, messages, loaded>>

resetDeposits ==
    /\ Takes("deposits", "closed")
    /\ depositCount' = 0
    /\ Post(<<>>)
    /\ UNCHANGED <<library, adapter, transfers, transactionRow, messages, loaded>>

-----------------------------------------------------------------------------
Library ==
    \/ initCompleted
    \/ \E tx \in Received : Receive(tx)
    \/ externalTransactionCreated
    \/ synchronizationProgressUpdated
    \/ synchronizationCompleted
    \/ UnlockSent
    \/ EmitSent

User ==
    \/ \E stored \in Stored : Open(stored)
    \/ \E tx \in Sent : Send(tx)
    \/ CloseWallet

Adapter ==
    \/ DeleteWallet \/ TimerFires \/ EmitLast \/ ForgetLast
    \/ onProgress \/ onCompleted
    \/ onWalletInitCompleted \/ onWalletSendTransactionCompleted

Slots ==
    \/ reloadWalletTransactions \/ appendTransaction \/ resetTransactions
    \/ reloadMessages \/ appendMessageTransaction \/ resetMessages
    \/ reloadWalletDeposits \/ transactionCreated \/ resetDeposits

Next == Library \/ User \/ Adapter \/ Slots

Spec == Init /\ [][Next]_vars

\* The event loop of the GUI thread goes on, and the timer fires.
Fairness ==
    /\ WF_vars(Slots) /\ WF_vars(TimerFires) /\ WF_vars(EmitLast) /\ WF_vars(ForgetLast)
    /\ WF_vars(onProgress \/ onCompleted \/ onWalletInitCompleted
               \/ onWalletSendTransactionCompleted)

-----------------------------------------------------------------------------
(***************************************************************************)
(* Properties.                                                             *)
(***************************************************************************)

\* The models have been loaded from the open wallet, which stays open.
Serving ==
    /\ wallet /\ loaded /\ gui # "closing"
    /\ \A i \in DOMAIN queue : queue[i].ev # "reload"

(* TransactionsModel keeps what a list of transactions promises: from the  *)
(* reload on its rows are those of the first transactions of the wallet.   *)
(* Gaps that signals leave are filled by the next append.                  *)
Promise == INSTANCE TransactionList WITH store <- txs, rows <- transfers
KeepsPromise == Promise!Spec

(* updateWalletTransaction() tells the views exactly the rows of the       *)
(* transaction that was updated, whatever was appended around it.          *)
ChangedRowsAreItsRows ==
    \A id \in DOMAIN transactionRow :
        ChangedRows(id) = {i \in DOMAIN transfers : transfers[i].transaction = id}

(* A transaction of the loaded wallet is in the list, or on its way there  *)
(* (itself or a later one, which brings it along), unless the library      *)
(* announced it while notifyAboutLastTransaction() was between its emit    *)
(* and the reset of m_lastWalletTransactionId.                             *)
NoneForgotten ==
    Serving =>
        \A id \in DOMAIN txs :
            \/ id \in DOMAIN transactionRow
            \/ \E told \in Told \cup lost \cup {lastId, lib, sending.id}
                          \cup {queue[i].id : i \in {j \in DOMAIN queue : queue[j].ev = "sent"}} :
                   told >= id

\* Nothing for MessagesModel is on its way.
MessagesQuiet == \A i \in DOMAIN queue : queue[i].to # "messages"

(* Once it has been loaded, MessagesModel shows each transaction once and  *)
(* in order; and it leaves out a message only when the messages before it  *)
(* have more rows than there are transactions before it, because           *)
(* appendTransaction() takes the number of rows for the id of the next     *)
(* transaction.                                                            *)
MessagesInOrder ==
    /\ Serving =>
           \A i \in DOMAIN messages : \A j \in 1..(i - 1) :
               \/ messages[j].transaction < messages[i].transaction
               \/ /\ messages[j].transaction = messages[i].transaction
                  /\ messages[j].transfer < messages[i].transfer
    /\ (Serving /\ MessagesQuiet) =>
           \A id \in DOMAIN transactionRow :
               (txs[id].messages /\ ~HasRows(messages, id)) =>
                   Cardinality({i \in DOMAIN messages : messages[i].transaction < id}) >= id

(* What is kept back during synchronization is told in the end: the timer  *)
(* or the end of the synchronization tells the models, unless the wallet   *)
(* is closed first.                                                        *)
KeptBackIsTold ==
    (timer /\ lastId # 0 /\ loaded) ~> ((lastId = 0 /\ Told = {}) \/ ~loaded \/ crashed)
=============================================================================
