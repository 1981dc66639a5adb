# xDrop Wallet in TLA+

A verification project for the xDrop desktop wallet (C++ and Qt 5, `src/src`). The wallet is a GUI over
the CryptoNote library: the library keeps the keys, talks to the network and runs threads of its own; this
program owns the wallet file, the mutex that is handed to the library's threads, the actions of the
window, the lists and forms in it, and a pool miner with worker threads. The modules model that code; the
library, Qt and the pool are modelled only by what the code relies on, and are marked *external*.

Paths below are relative to `src/src`.

## 1. Inventory

**WalletAdapter** (`WalletAdapter.cpp`). State: `m_wallet`, `m_mutex` (a plain `std::mutex`), `m_file` (one
stream for loads, saves and imports), `m_isBackupInProgress`, the four slots for the ids of sends in
flight, the files on disk. Operations: `open`, `createWithKeys`, `importLegacyWallet`, `save`, `backup`,
`reset`, `close`, `changePassword`, the four kinds of send. The GUI thread locks the mutex and calls the
library; the library's thread calls `initCompleted`, `saveCompleted` or `sendTransactionCompleted`, which
unlocks it, and posts a signal to the GUI thread. Hard: a mutex locked in one thread and unlocked in
another, an event loop run inside `close()`, two renames after a save, crashes between any two file
operations, signals that arrive after the wallet they were for. Right when: the mutex and the stream have
one user at a time, every wait ends, a save never costs the keys that were on disk, actions fit the wallet
that is open, and the program's assertions hold.

**MainWindow, main, SendFrame and the other frames that send** (`gui/MainWindow.cpp`, `main.cpp`, `gui/SendFrame.cpp`, ...).
State: the wallet path and the enabled actions. They call WalletAdapter from menu handlers, from the
password dialog, which a posted signal opens, and from `aboutToQuit`. Right when: they call only what
WalletAdapter's state permits, and quitting ends.

**Worker and Miner** (`Worker.cpp`, `Miner.cpp`). State shared by the GUI thread and the workers: the job
under `m_jobLock`, the atomic `m_nonce`, the `m_isStopped` flags. Hard: the nonce is reset under the lock and
taken outside of it; shares travel through the event queue. Right when: a share is found and submitted
once, and only for the current job; workers reach a new job; `Miner::stop()` ends.

**StratumClient and MiningFrame** (`StratumClient.cpp`, `gui/MiningFrame.cpp`). State: the socket, two timers,
the requests that wait for answers, the session, `m_miner`. Hard: `stop()` waits in an event loop of its own,
so every other handler, `stop()` included, may run inside it. Right when: the client comes back from
every failure, a stopped one leaves nothing behind, and the assertions hold.

**main, NodeAdapter, CryptoNoteWrapper and the settings file** (`main.cpp`, `NodeAdapter.cpp`, `CryptoNoteWrapper.cpp`,
`Settings.cpp`). State: the `.cfg` file, the lock file, the node and its thread. `main()` loads and saves the settings,
takes the lock, and has `NodeAdapter::init()` look for a daemon for three seconds and then start a node of its own.
`init()` and `deinit()` wait in event loops. Hard: signals emitted before the loop that waits for them is connected,
a second process that reads and writes the settings before it meets the lock, a kill in the middle of a save. Right
when: a start ends in a window with a node or with the process, a quit ends, the wallet the user chose is
opened the next time.

**TransactionsModel, MessagesModel, DepositModel** (`gui/*Model.cpp`). State: rows and indices built from the wallet's
transactions. WalletAdapter tells them of new transactions, one by one or, during synchronization, the last one by a
timer; each model fills the gap by the count of what it has. Hard: ids written on library threads
and read on the GUI thread, events of an earlier wallet, three models that take the same signal at three times, ids
taken for row numbers. Right when: the rows are those of the wallet's transactions and tell the truth about them.

**The window** (`gui/MainWindow.cpp`, `gui/AddressBookModel.cpp`, `Settings.cpp`). State: the wallet file, the address
book file, the encrypted flag, contacts, menus, the unread badge, the tray icon and its switches. A wallet that is opened,
imported, refused or closed changes them at different events. Right when: contacts stay with their wallet,
menu and badge tell the truth, and the user can always get at the window.

**Send forms, messages, balances** (`gui/SendFrame.cpp`, `gui/SendMessageFrame.cpp`, `gui/TransferFrame.cpp`,
`gui/MessageAddressFrame.cpp`, `gui/DepositsFrame.cpp`, `CurrencyAdapter.cpp`, `gui/Message.cpp`, `gui/MessagesFrame.cpp`,
`gui/OverviewFrame.cpp`). State: rows of recipients that are closed in one event and destroyed in another, the fee and its
minimum, headers in the text of messages, labels. Right when: what is sent is what was shown, a message is
understood by its reader, and labels show the open wallet's balances.

The rest (command line, signal handler, log forwarding, alias lookup, filters, delegates) keeps no state worth a model.

`PROJECT.json` lists the hazards of each at its line and the properties that cover it.

## 2. Plan

| Step | Modules | Content | State |
|---|---|---|---|
| 1 | `WalletAdapter`, `WalletAdapterMC` | wallet life cycle, files, mutex, sends, crashes | done |
| 2 | `WalletAdapterProofs`, `WalletHandOffProofs` | types, hand-off of the mutex and of the stream | done |
| 3 | `ShareLedger`, `MiningShares`, `MiningSharesMC`, `MiningSharesProofs` | shares, with an abstract specification, and proofs | done |
| 4 | `StratumClient` | nested event loops of the pool connection, MiningFrame | done |
| 5 | `Startup`, `StartupMC`, `StartupProofs` | settings file, lock, daemon, node thread, quit; proofs that one process has the node and that a window has one | done |
| 6 | `FeedRows`, `TransactionList`, `TransactionFeed` | notifications and rows of the three models, with an abstract specification of the list | done |
| 7 | `RowDetails`, `TransactionFeedMC` | what the rows tell of transactions and deposits | done |
| 8 | `WalletWindow`, `SendForms`, `Mail`, `Tray`, `Balances`, `WalletWindowMC` | the window over several wallets, and its parts | done |
| 9 | `StratumClientProofs`, `TransactionFeedProofs`, `SendFormsProofs` | their safety properties and the refinement of `TransactionList` | done |
| 10 | `WindowProofs` | the safety properties of `WalletWindow`, `Tray` and `Balances`, one after the other in one module | done |
| 11 | `WalletHandOffProofs`, `StartupProofs` | more: assertions and keys for a user who waits, the user's choice of a wallet, the end of the node thread | done |
| 12 | `TransactionFeedProofs`, `SendFormsProofs` | more: what the rows tell, what becomes of the text of a message | done |

WalletAdapter meets TransactionFeed, Balances and WalletWindow in its signals: each of these has the part of WalletAdapter that
its question needs, at the steps in which WalletAdapter's own model has them. MiningShares meets StratumClient in
`submitShare()` and `stop()`. `FeedRows` (what a row is) is shared by the abstract `TransactionList`, by `TransactionFeed`, which
implements it, and by `RowDetails`. The parts of the window share no state but what `WalletWindow` has; `WalletWindowMC` puts
them side by side. No module uses a RECURSIVE operator.

## 3. Wallet: `WalletAdapter`

*Threads.* `pc` is where the GUI thread stands. It is `"idle"` in the event loop; the other values are the points
inside a handler between which a library thread may act, e.g. `"save.open"` (waiting in `lock()`), `"save.call"`
(mutex held, about to call the library), `"close.pump"` (inside `processEvents()`). `loader`, `saver[s]` and
`sender[i]` are the library threads; the values between their steps are the points where
the code can be interleaved: after `unlock()`, before `QFile::remove`, before `QFile::rename`, before the slot is
reset. `queue` holds the posted signals in order. `cont` and `after` say what follows `save()` and `close()`.

*Files.* `disk` maps the wallet, its `.temp`, the backup and the legacy `.keys` file to keys, `Torn` (truncated or half
written) or `NoFile`. Opening for writing makes a file `Torn`; the library's write makes it hold the keys; rename and
remove are as on POSIX, so a renamed file keeps its open stream (`m_file` follows) and a removed one loses it
(`"gone"`).

*Actions.* One per handler or per stretch of a handler without an interleaving point; the map in `PROJECT.json` gives the
lines. `Crash` may happen at any instant and keeps only `disk`; `Relaunch` opens again.

*External.* `initAndGenerate` and `initWithKeys` call `initCompleted` before they return; `load`, `save` and
`send` each use a thread of their own and end; `save` throws when the wallet is not initialised;
`delete m_wallet` joins the library's threads; unlocking a mutex from another thread works, as it does on the
supported platforms. One wallet path is followed at a time.

| Run | Expect | Question |
|---|---|---|
| `wallet_any_user` | pass | The user acts at any time, also while operations are in flight. `HandOff`: the mutex is locked exactly while one holder has it. `FileInUse`: the stream is open exactly while an operation uses it. `LockGranted`: outside `processEvents()`, a wait for the mutex ends. |
| `wallet_paced` | pass | The user waits for each operation; anything fails, wrong passwords are typed, the process dies anywhere and is started again. `AssertionsHold` (`open()` finds no other wallet, a finished save finds its `.temp`, the actions are enabled only with a wallet), `KeysKept` (keys stay on disk), `QuitEnds`. |
| `wallet_rename` | violation | `RenameFindsTemp` with a user who does not wait (finding 1). |
| `wallet_quit` | violation | `QuitEnds` with a user who quits while a send is in flight (finding 2). |
| `wallet_slots` | violation | `CompletedIdIsKnown` (finding 3). |

*Bounds.* `Savers = {1, 2}`: two saves can overlap only between one's `closeFile()` and its rename, so two
threads show every overlap of two saves, the smallest that breaks. `TxIds`: one or two sends; sends exclude each other by
the mutex, the second one is what meets the tail of the first. Two keys: the wallet's and another one's. `MaxRuns = 2`:
a crash and the restart that finds its files. `Ops` names which operations and failures a run takes, so
that each run has the ones its question is about; between them the passing runs take all but `"withdraw"`, which runs as
`"deposit"` does with a slot of its own. A `.keys` file is chosen with anything beside it: no `.wallet`, the same keys,
other keys, a torn file, and the same for `.temp` (`LegacyPath`).

*What the properties leave out, because the code does.* `KeysKept` exempts the keys that only an existing `.wallet` file held when
`importLegacyWallet()` empties it: at that step alone it asks just for the keys that the `.keys` file holds too. It exempts keys
that a crash left in `.temp` alone and `open()` replaces by generated ones. `AssertionsHold` and `KeysKept` are checked without
backups and messages (`PacedOps`). With a backup both are false of the code, also for a user who waits: when its save ends before
`m_isBackupInProgress` is set (`WalletAdapter.cpp:217-220`), `renameFile()` finds no `.temp` and removes the wallet file, which is
finding 1 by another way.

*Fairness.* Weak fairness for the GUI thread and for each library thread: threads are scheduled, and the library ends
what it accepted. The user and crashes owe nothing.

## 4. Mining: `ShareLedger`, `MiningShares`

`ShareLedger` is what the pool may rely on: one job at a time, each nonce of it submitted at most once, only while
the job is current. `MiningShares` is the code: `SetJob` and `ResetNonce` are the two halves of
`updateJob()` under the write lock, `ReadJob`, `TakeNonce`, `Hash` the stretches of `Worker::run()`, `SubmitShare` the
queued handler with its test of the job id, `StopMiner`, `StopWorker`, `QuitThread` and `Wait` the steps of
`Miner::stop()`. `ImplementsLedger` maps `m_currentJob` and `sent` to the ledger.

Run `mining_shares` (2 workers, 2 jobs, 2 nonces per job; all pass): `TriedOnce` (a share of the current
job is with one worker, or in the queue once, or sent once), `ImplementsLedger`, `NewJobReached` (each
worker comes to the last job or stops), `StopEnds`. Two workers are the least that
race for a nonce, two jobs the least where a share can be stale; the proofs of section 9 lift the safety part to any
number. Deadlock is not checked since a stopped miner really stops.

*Assumed.* The pool never gives a job id again (it would reset the count, a hazard listed in `PROJECT.json`). `MaxNonce` ends the
count before 2^32 would. `StopEnds` is about threads that have passed `Worker::start()`: a `stop()` before that
is undone by it and can hang `wait()`, also listed.

*Fairness.* Weak fairness for the GUI thread's own steps and for each worker; strong fairness nowhere. The pool and the
user owe nothing.

## 5. Pool connection: `StratumClient`

All of it runs on the GUI thread, but not as one call after another: `stop()` waits up to 3 s in a
`QEventLoop`. `stack` holds the calls that are open: waits of `stop()`, with what their caller does next
(`"reconnect"` starts the timer, `"miner"` is `stopMining()`), and a `readyRead()` with the lines it has still to
process. `disconnected()` ends every wait on the stack, a stop's own timer ends its own; only the top of the stack can
run. The socket is Qt's as the code uses it: `disconnectFromHost()` is immediate without unsent bytes, waits for them
otherwise, and is put off while connecting; a failed connect emits `error` and not `disconnected`. Whether the `abort()` of an
attempt to connect emits `disconnected()`, and so ends the waits below it, is left open: `EndWait` admits both.

`ClickStart` goes on with a URL that is not valid, as `startMining()` does after it has set the Stop button; the button then says
that mining is off while there is a miner, and the next click on Start meets it (finding 5 without a wait). `BadPools` says
whether the list has such a pool: it has one in `stratum_client`, not in the two runs that show findings.

| Run | Expect | Question |
|---|---|---|
| `stratum_client` | pass | `NoTimerWhenConnected` (the assertion of `start()`), `StoppedForGood` (after `stopMining()` no connection and no open request), `Retries` (a miner without a connection tries again), `StopReturns`. |
| `stratum_submit` | violation | `SubmitsConnected`, the assertion of `sendRequest()` (finding 4). |
| `mining_start` | violation | `StartFindsNoMiner`, the assertion of `startMining()` (finding 5). |

*Bounds.* `MaxRequests = 3` per client (a login, a share and the login after a reconnect); `MaxLines = 2` lines at a
time (one that makes the client reconnect and one after it); `MaxDepth = 3`: a wait of `stopMining()`, a
`readyRead()` or an error inside it, and the wait that this one starts. A depth of 4 with two requests passes too
(58,880 states).

*Fairness.* Weak fairness for the code that is running; strong fairness for timers and for the end of a connection
attempt, since a due event is handled when some event loop comes round to it, whatever has interrupted it. The
pool owes nothing.

*Time.* Timers are unordered. That admits some orders that the intervals make unlikely (the 3 s of a reconnect before the
3 s of a `stop()` that started earlier; Qt's coarse timers may deviate by 5 %), and loses none.

*Where the model ends.* With `Impatient = FALSE` the user does nothing to mining while `stopMining()` waits. If he closes the wallet
then, `stopMining()` runs inside itself and goes on with a null `m_miner`; and when a `reconnect()` waits, a
`stopMining()` inside it may have its `deleteLater()` handled by that nested loop, under the feet of the `stop()` on
the stack. Both are undefined behaviour. The first is left out, and the second stops the model, which is why the run does not
check for deadlock.

## 6. Start and quit: `Startup`

`at[p]` is where `main()` of a process stands: reading, truncating and writing the settings, `tryLock`, the steps of
`NodeAdapter::init()`, the window, and the steps of `deinit()`. The node and its thread belong to the process with the lock:
`m_node`, `thread`, the timer, and `loop`, which is what the wait loop was told. A signal that comes before the loop is
connected sets `missed` and is lost (`Tell`). `Kill` may end a process at any step and leaves the settings file as it is.
A node thread that is destroyed while it runs aborts the process (`aborted`).

A save of the settings takes two steps, since the file is emptied when it is opened, and `saveSettings()` tells nobody when it could
not open the file or not write it (`SaveFails`).

Run `startup` (two processes, two wallet files): `WindowHasNode` (a window has an initialised node), `ChoiceIsKept` (the file names
the wallet chosen last), `ThreadEndsFirst` (a process that had a window does not end under its node thread), `StartEnds`,
`QuitEnds`. Two processes are the least that race for the lock and the file; a third one can only do what the second
does, since without the lock it reads, writes and ends. Two wallet files besides the default make a stale one visible.

*Fairness.* Weak fairness for each `main()` and for the node thread: they are scheduled, the timer fires, the node ends when told. The
daemon, the user and kills owe nothing.

*What the properties leave out, because the code does.* `StartEnds` and `QuitEnds` exempt a start or quit whose answer was lost
before `connect()` (`NodeAdapter.cpp:203-213`, `227-229`): it waits for ever. `ChoiceIsKept` exempts a process killed inside
`saveSettings()`, or a save that fails there, after which the next start opens the default wallet or the one before; a start that
cannot open the file to save it loses nothing. It also exempts a second process that was started meanwhile:
`Settings::load()` saves before the lock is tried, and writes what it had read. `ThreadEndsFirst` exempts a start whose
own node failed: `init()` returns false while the thread may still run, and `QThread` aborts.

*Where the model ends.* The two lambdas with which `init()` waits for a daemon capture its local `initCompleted`
(`NodeAdapter.cpp:143-148`) and are never disconnected. While `init()` runs, also in `initInProcessNode()`, a late answer sets a
variable that nobody reads again. After that each new peer count or height writes to a stack frame that is gone; that is
undefined and left out.

## 7. Transactions and their rows: `TransactionFeed`, `RowDetails`

*Notifications.* `lib` and `sending` are the library's threads, `queue` the posted signals, once for each slot in the order of the
connects. `externalTransactionCreated` tells the models or, during synchronization, keeps the id in `lastId`; `CheckLast`,
`EmitLast` and `ForgetLast` are the three steps of `notifyAboutLastTransaction()`, between which a library thread may write
another id. `EmitSent` is the tail of `sendTransactionCompleted()` after `unlock()`: the wallet may be closed, or another one
opened, before its handler runs.

*Rows.* `TransactionList` says what a list promises: after a load its rows are those of a prefix of the wallet's transactions,
and grow by whole transactions or are cleared. `KeepsPromise` is the refinement. `RowDetails` has what the roles, columns, icons, the
CSV file and the two details dialogs read: confirmations from two heights, deposits from the row with the number of
their transaction's id, amounts from transfers. The loops over transactions (`AppendAllRows`, `AppendAllMessages`) are
recursive functions, and so are the sums of amounts in the loop of `withdrawClicked()` and over transfers (`SumOf`). That a payment
to others takes from the wallet what the others get and the fee is the library's, and an assumption (`RowDetailsAssumption`).

Run `transaction_feed` (a wallet of up to three transactions; `part` is `"feed"` or `"rows"`, which share no variables, so that the states
add up and do not multiply):

| Property | Says |
|---|---|
| `KeepsPromise` | TransactionsModel implements `TransactionList`, whatever signals are late, doubled or out of order. |
| `ChangedRowsAreItsRows` | An update announces exactly the rows of its transaction. |
| `NoneForgotten` | A transaction of the wallet is listed or on its way, but for the race between `EmitLast` and `ForgetLast`. |
| `MessagesInOrder` | Once they are loaded messages are shown once and in order; one is left out only when earlier messages have several rows. |
| `KeptBackIsTold` | An id kept back during synchronization reaches the models or the wallet closes. |
| `RowsTellTheirTransactions` | Amounts of a payment add up; deposits show their transactions and change with them; confirmations count blocks. |

`MessagesInOrder` speaks of a list that has been loaded. Before that it would be false: a send that completes while its
wallet closes leaves a row in the new list, and an event that comes before the reload appends below it. TLC finds this with
`QueueLimit = 2`, and the reload clears it.

*Bounds.* Three transactions (a stored wallet has no more than `TxLimit`): one before a transaction of two rows, itself, and one after it. `QueueLimit = 0` lets the library post only
onto an empty queue (what the GUI thread and a completed send post is not bounded, and each post is one event per model, so
that models differ); `QueueLimit = 1` passes as well (1.35 million states). `Clocks = 2` stands for the twelve clock icons and
`TopHeight = 2` for the height: one block before, at and behind the first clock. `Wrap64` stands for 2^64.

*Fairness.* Weak fairness for the GUI thread's slots and the timer. The run does not check for deadlock, because the process
ends when `Q_CHECK_PTR` fails.

## 8. The window: `WalletWindow`, `SendForms`, `Mail`, `Tray`, `Balances`

One run, `window`, of seven parts: `part` says which of them a behaviour is about, and the variables of the others rest.
Each component also has a specification of its own with all of its steps (`WindowSpec`, `FormsSpec`, `MailSpec`, `TraySpec`, `BalancesSpec`);
these are what the theorems of section 9 are about. The loops `AddMissing` (over default pools) and `AllSlots` (over the
posted balances) are recursive functions.

*`WalletWindow`* (parts `password`, `contacts`, `messages`). A load ends with one signal that three slots take in turn:
WalletAdapter, AddressBookModel, MainWindow. Its model has the wallet file, the address book file and the encrypted
flag of Settings, all set at different steps, and the read count that the button and the page both write.
`ContactsKept`: contacts stay in the file of the wallet they were added to, through imports, refused passwords, switches and restarts,
until they are deleted or a save of this very file fails or is cut off, and none are written over a `.keys` file. `EncryptionTold`: the menu offers the right one of encrypting and changing the password. `UnreadIsCounted`:
the badge is the number of messages since they were last looked at.

The address book is saved in place. A save may find the file closed to it and change nothing, leave it empty, or end with
the process in between (`saveAddressBook`, `Restart`). `loadAddressBook()` adds the contacts it has read to those of the wallet
before, one `addEntry()` and one save after the other: the file may be left with any of the lists in between (`PartlyLoaded`), and
when it does not open nothing is loaded and the next save replaces what it holds. `added` forgets exactly the contacts that such a failure takes from
the file of the open wallet, and no others. The parts `password` and `messages` have no contacts to lose and take the
saves that succeed (`BookIsSaved`); the part `contacts` takes them all.

*`SendForms`*. Rows, their destruction in a later event, the fee and its minimum, which passes through `formatAmount()` and
`parseAmount()` as a label does, and the three ways coins leave. `PaidIsShown`: whenever a send is taken, what leaves is what the fee field
showed and covers recipients and the characters typed, although amounts are subtracted from the fee without a check. `RowsKept`: a form always
has a row.

*`Mail`*. A text is a sequence of lines cut at the colons. `MailIsUnderstood`: header and text come apart as they were put together, for
the reader and in the writer's list, and answers go to the other side. `Write` takes no address that
`validateAddress()` refuses, and leaves out the writer's own, as `sendClicked()` does.

*`Tray`*. `WindowReachable`: there is always a way to the window. `MenuIsTrue`: check marks, pools and the entry that starts the program at
login are what the user set, after restarts too, unless the process was killed in a save.

*`Balances`*. The library changes and tells balances while `onWalletInitCompleted()` reads and tells them, and
labels add a posted value to a current one. `BalancesShown`: when all is quiet labels show the open wallet.

*Bounds.* Two wallets and one `.keys` file: the least with a switch, a switch back and an import onto a wallet that exists.
Two messages on a button that shows one, for 99. `RowLimit = 3` for 9 recipients: a first, a middle and a last row. Texts of up
to 2 characters, amounts in steps of one, `Coin = 10` for 10^7 (a fee then has digits on both sides of the point), `Wrap = 100` for 2^64. Bodies: nine
texts, with colons, blank lines and headers in every place where the parser turns. Two default pools and one of
the user's in a list of at most three, so that one is missing, present or doubled. Two posted balances at a time.
No liveness is claimed, and no fairness is needed. The user waits for what was posted before his next click, as the window's modal dialogs and
the order of Qt's events make him; the user who does not is in `WalletAdapter`.

*What the properties leave out, because the code does.* `ContactsKept`: a file also gets the contacts of wallets that were open before, as
nothing clears the model; the property says what a file keeps and not that it has no more. A failed or interrupted save loses what it
loses, there is no second copy. `PaidIsShown`: the header with the writer's address that `sendClicked()` may put before a message is sent
with it and not counted in its price (`gui/SendMessageFrame.cpp:184-188`). `EncryptionTold`: `changePassword()` reports a failure when the save fails after
the password has changed. `UnreadIsCounted`: the read count is one for all wallets. `WindowReachable`: on Windows,
`walletClosed()` hides the tray icon although the window is in the tray. `RowsKept`: `reset()` of a message with 9 rows adds none and
then all of them go. `MailIsUnderstood`: a text without a header whose first line has a colon is taken for one. `MenuIsTrue`: on Linux any file
in the place of the login entry counts as enabled. `BalancesShown`: a balance read before a change and told after it stays
on the labels until the next one.

## 9. Proofs

Checked by TLAPS for every value of the constants that meets the modules' named ASSUMEs. The bounds are natural numbers. Beyond that:

* `WalletAdapter`: ids and savers are numbers (any sets of them), contents are distinct, `MaxRuns` is positive.
* `MiningShares`, `Startup`: jobs differ from no job; the default wallet file is none that a user chooses, and nobody is no process.
* `TransactionFeed`: stored wallets hold at most `TxLimit` transactions of the given kinds.
* `SendForms`: amounts are natural numbers, prices positive, the largest fee is below `Wrap` (2^64), the own address is not another's.
* `RowDetails`: the transactions to be found are transactions, a payment to others takes from the wallet what they get and the
  fee, and `Wrap64` (2^64) is above the heights and the clock icons.
* `Mail`: bodies have lines and lines have parts; addresses are strings, and none of them is "Me", "-" or the empty one.
* `WalletWindow`: `.wallet` and `.keys` files differ, no file has the empty name, and no password is one of the marks for a
  file without one.
* `Tray`: the default pools, a sequence in which a pool may come twice, fit in the list and are not among the user's.
* `Balances`: some coin exists, and at least one event can be posted.

*Wallet.*

* `WalletAdapterProofs!TypeCorrect`: `Spec => []TypeOK`, action by action.
* `WalletHandOffProofs!HandOffCorrect`, `FileInUseCorrect`: from `IInv == HandOff /\ FileInUse /\ PumpOK`. `HandOff` alone is not
  inductive: the rest of `close()` holds the mutex while `processEvents()` runs handlers, so one has to know
  that no handler gets past `lock()` there (`PumpOK`). The lemmas sort the actions into those that lock, those that hand the mutex to a
  library thread, those that release it, and the rest. The theorems hold for a user who acts at any time, with
  failures and crashes, so they also cover the runs that end in findings: the mutex is never corrupted there, it
  is waited for by its own holder.
* `WalletHandOffProofs!WaitingMeetsNoAssertion`, `WaitingKeepsKeys`: `AssertionsHold` and `KeysKept` for every number of wallets' contents,
  savers, sends, crashes and restarts, given `Waits`: the user waits (`Paced`), sends no message and makes no backup. Messages
  complete twice and a backup's save may end before `m_isBackupInProgress` is set; after either, a save may find no `.temp`,
  which is finding 1 by another way. Run `wallet_paced` satisfies `Waits`. `WaitInv` says that one thing goes on at a time, an event, a load,
  a send or a save (`OneActs`), that messages and backups leave no trace (`NotAsked`), that a save has its `.temp` until it renames it
  (`TempThere`), and that no wallet is there when one is opened (`WalletThere`). `KeysInv` follows the keys through a save: `.temp`
  holds them from the end of the write to the rename, and the old file goes only then (`TempHolds`); a wallet without a file has not
  been saved (`NotSavedYet`); an import, which has emptied the `.wallet` file whatever was in it, leaves the `.keys` file as it is
  (`LegacyStays`), so that what the property keeps at that step, the keys of the `.keys` file, is there.

*Mining and the pool.*

* `MiningSharesProofs!MiningTypes`, `SharesTriedOnce`, `Implementation`: from `IInv`, which says that each share of the current job,
  wherever it is, has a nonce that `m_nonce` has passed (so the next nonce is new), and that while `updateJob()`
  holds the lock no worker has the new job (so the reset is harmless). The workers read the job and take the nonce in two
  steps; it is `JobHidden` that makes this safe. `Implementation` maps each step to a submission, a change of
  job or a stutter.
* `StratumClientProofs!StratumTypes`, `StratumNoTimerWhenConnected`, `StratumStoppedForGood`: for any nesting of event loops, any number
  of requests and lines, and also for the user who clicks on while `stopMining()` waits, whom the run leaves out. From
  `IInv == TypeOK /\ EndedWaits(stack) /\ TimerWaits /\ NotRunning /\ NoMiner`: what the socket, the timer and the miner are depends on
  the calls that are open, so the invariant is about every wait on the stack.

*Start and quit.*

* `StartupProofs!StartupTyped`, `StartupOneRuns`, `StartupWindowHasNode`: from `IInv == TypeOK /\ LockHeld /\ FreeNode /\ NodeAt`.
  `WindowHasNode` is not inductive: what `init()` finds when its loop ends depends on what the node thread did meanwhile, and
  that thread has no process of its own. `LockHeld` (whoever is past `tryLock` has the lock file) makes the process
  unique, `FreeNode` says that a lock nobody has leaves no node, and `NodeAt` says for each place of `main()` how far
  the node is. One lemma for each group of steps: without the lock, over RPC, in process, stopping, and the node thread.
* `StartupChoiceIsKept`: unless disturbed (a save that failed or was cut off, a second process), one process is alive (`Alone`), its settings hold the choice (`HoldsChoice`), and so does the
  file at the steps where no save is under way (`FileHasChoice`). `StartupThreadEndsFirst`: the action property, from `IInv`.

*Transactions.* `TransactionFeedProofs`, from `IInv == Basics /\ RowsInv /\ Covered /\ Announced /\ MsgInv`:

* `FeedTypes`, `FeedChangedRows`: `RowsInv`, the loaded list is the blocks of rows of the wallet's first transactions and the index
  names each block.
* `FeedNoneForgotten`: `Covered`, something is under way for each transaction that is not listed; `Announced`, what MessagesModel has still
  to hear of is listed or TransactionsModel has still to hear of it too. The second is needed because `ForgetLast` may drop an id
  only after both were told.
* `FeedMessagesInOrder`: `MsgInv`, a message of a listed transaction is shown, left out for the stated reason, or still on its way.
* `FeedKeepsPromise`: TransactionsModel implements `TransactionList`, each step a load, an extension by whole transactions, a clear or
  a stutter.

*What rows tell.* In the same module, of `DetailsSpec`, the steps of RowDetails alone.

* `DetailsTyped`, `RowsAreTold`: `RowsTellTheirTransactions` for any ledger, any transfers and amounts, any depth of the chain. From
  `DetailsInv == DetailsTypeOK /\ LedgerFound /\ OneDeposit`. `LedgerFound`: only a transaction that the wallet found has transfers.
  `OneDeposit`: a transaction makes at most one deposit; without it the row that DepositModel looks up by the id
  would be the row of another deposit too. The lemmas on the way say what a model cannot be tested for: the rows before the n-th
  transaction are counted by recursion, so that blocks do not overlap and fill the list (`BlocksHold`), by induction over
  transactions; sums over transfers split into what is paid and what comes back (`SumOfBoth`), so that the
  amounts of a payment's rows and its fee add up to what left the wallet (`AmountsShown`); and confirmations wrap only while the
  node is behind the wallet (`ConfirmationsShown`).

*Forms and window.*

* `SendFormsProofs!FormsTyped`, `FormsPaidIsShown`, `FormsRowsKept`: from `IInv == FormsTypeOK /\ MinimumPays /\ LastStays /\ TransferRows /\ MessageRows`.
  What is sent is subtracted from the fee without a check; that it never wraps rests on the minimum that every change of a row
  or of the text recomputes (`MinimumPays`). A row is gone only an event after it was closed, so the invariant says which rows may be on
  their way out (`TransferRows`, `MessageRows`), and that one row alone cannot be closed (`LastStays`).
* `SendFormsProofs!MailTyped`, `MailUnderstood`: `MailIsUnderstood` for every body, of any number of lines and colons, any users and contacts. From
  `MailInv`: the text sent is what `makeTextMessage()` makes of the body, the form of an answer belongs to a user, and it
  connects the two ends of the message. `NamedIsRead` and `UnnamedIsRead` say that `parseMessage()` gives back header and body of
  a text with the writer's address and of one without, where the latter needs a body that does not look like a
  header (`IsTold`). The provers do not know that a literal is a STRING, which is why the lemmas are about lines over a set `Parts`.
* `WindowProofs!WindowTyped`, `WindowContactsKept`, `WindowEncryptionTold`, `WindowUnreadIsCounted`: `WindowInv` says of the queue what each
  property needs: the steps that open a wallet come in one order (`OpeningInv`), and contacts, password, messages and badge are
  what they should be or the event that makes them so is queued. `BookInv`, for the contacts: once the address book
  of the wallet has been read, the contacts that its file still has of the user's are in the model, and before that nobody saves it. That is what a save of the whole
  list needs so as to lose none of them; `LoadedIs` and `LoadsIs` show it for a load of which any of the saves may fail.
* `TrayTyped`, `TrayWindowReachable`, `TrayMenuIsTrue`: `TrayInv` (the settings file has what the program has; menu and login entry agree with
  it) and `WayBack`, a way to the window that is not a dialog.
* `BalancesAreShown`: `BalancesInv`, of each kind of balance the last one posted is the newest, and the total is computed after both of
  its parts.

Loops that are recursive functions are proved about by induction, though no theorem of the library with an operator for a parameter
can be used: a set of numbers with 0 and the successor of each member is `Nat` (`SetInduction`, from the
well-foundedness of `<`), and a fact is proved of all iterations by proving it of the set of those that have it.

*Model-checked only.* Every liveness property (`LockGranted`, `NewJobReached`, `StopEnds`, `Retries`, `StopReturns`, `StartEnds`,
`KeptBackIsTold`, both `QuitEnds`), since fairness and ENABLED are out of the prover's reach; and `MCTypeOK` of `TransactionFeedMC` and
`WalletWindowMC`, which puts together the type invariants of their parts, each of which is proved.
`AssertionsHold` and `KeysKept` are theorems for the user of `Waits` only, and false beyond it: a user who does not wait meets
findings 1 and 3, and one who waits but sends messages or makes backups meets finding 1 by the other ways, as TLC shows.

## 10. Findings

1. `saveCompleted()` unlocks before it renames: the next save truncates and the rename takes the same `.temp`; the assertion in
   `renameFile()` fails (`WalletAdapter.cpp:547`), and without assertions the wallet file is removed.
2. `close()` handles events while it holds the mutex: a send that completes then starts a save that waits for
   it in the same thread, and the program never quits (`WalletAdapter.cpp:190`).
3. The id of a send is stored after the call that starts it; a send that completes first fails the assertion at
   `WalletAdapter.cpp:473`.
4. A share found while the socket is closing is submitted to it (`StratumClient.cpp:209`).
5. Start, clicked while `stopMining()` waits, meets the old miner (`gui/MiningFrame.cpp:73`).

Other behaviour a maintainer may want to know of, which no document of the repository speaks about, and which the models show or
were written around:

* A signal lost before `connect()` leaves start or quit waiting for ever (`NodeAdapter.cpp:203`, `227`).
* A send that completes after its wallet was closed dereferences a null `m_wallet` (`WalletAdapter.cpp:493`), and rows of an initialised
  wallet that is closed before its event is handled stay in the lists.
* Messages after a message to several recipients are skipped (`gui/MessagesModel.cpp:556`), and deposits after a payment with
  several rows show another transaction (`gui/DepositModel.cpp:216`).
* Confirmations wrap to nearly 2^64, with the icon of a confirmed transaction, while the node is behind the wallet.
* "Me" has an empty address in a new address book when the first password was wrong; contacts of a wallet without a file are
  those of the wallet before it.
* `importLegacyWallet()` empties the `.wallet` file beside the `.keys` file before it tries the password, whatever keys it holds
  (`WalletAdapter.cpp:156`).
* An address book that cannot be opened when it is loaded is written over by the next save, and a process that ends while one is
  loaded leaves a part of it (`gui/AddressBookModel.cpp:202-226`).
* A pool whose URL is not valid is mined at all the same, with the Stop button down (`gui/MiningFrame.cpp:75-77`); the next
  click on Start meets that miner.
* Lambdas that capture a local variable of `NodeAdapter::init()` outlive it (`NodeAdapter.cpp:143-148`).
* The header of a message on the chain is not paid for (`gui/SendMessageFrame.cpp:184-188`).
* A form survives a switch of wallets, any completed send clears the send form, and a second click on Send sends again.
* A message with `%n` in its text is mixed up in TransactionDetailsDialog; a pool can be added twice; nothing calls AliasProvider.
* The total of the deposits, and the balances on the send forms, stay when a wallet is closed.

## 11. Not modelled

Command line, console signals, log forwarding, alias lookup: single calls without state of their own. Sorting, filters, delegates,
styles, QR codes, the hash-rate plot, status texts with their timers and peer counts: display. Hashes, payment ids, JSON, dates
and wording: no property depends on them. What the library and the pool do inside is external. Undefined behaviour ends a
model where it begins: a miner deleted under its own `stop()`, a null wallet.

Also left open: the start of worker threads (`StopEnds` assumes that they run), the wrap of the 32-bit nonce and of the 16-bit
read count, a pool that repeats a job id, several wallet paths in the crash model of `WalletAdapter`, and a settings file that
is not JSON.
