---------------------------- MODULE WalletWindow ----------------------------
(***************************************************************************)
(* The window over the wallets a user opens one after another: the wallet  *)
(* file and the address book file of Settings, the address book, the       *)
(* password the menu offers to set or to change, and the number of unread  *)
(* messages on the Messages button.                                        *)
(*                                                                         *)
(* A wallet is loaded on a thread of the library; its end is posted to     *)
(* three slots in turn, WalletAdapter, AddressBookModel and MainWindow,    *)
(* and what they post comes after them.  The user acts through menus and   *)
(* modal dialogs, whose event loops take all that was posted before, and   *)
(* waits while a wallet is loaded: WalletAdapter has the other users.      *)
(* A wallet's address is named like its file, and each message has a row.  *)
(***************************************************************************)
EXTENDS Integers, Sequences, FiniteSetsExt

CONSTANTS
    Wallets,       \* .wallet files
    KeysFiles,     \* .keys files
    ImportedTo,    \* the .wallet file a .keys file is imported to
    First,         \* the wallet file of an empty settings file
    Passwords,     \* with "" for none
    Friends,       \* contacts the user may add
    MessageLimit,  \* bound on the messages of a wallet
    BadgeLimit     \* the largest number on the button: 99

Files == Wallets \cup KeysFiles

\* A file has one extension and a name, and no password is mistaken for what a file may lack.
ASSUME WindowAssumption ==
    /\ First \in Wallets /\ ImportedTo \in [KeysFiles -> Wallets]
    /\ Wallets \cap KeysFiles = {} /\ "" \notin Files
    /\ "" \in Passwords /\ Passwords \cap {"absent", "broken"} = {}
    /\ MessageLimit \in Nat /\ BadgeLimit \in Nat

VARIABLES
    \* the disk
    password,         \* of each file, "absent" without a file, "broken" without a wallet in it
    book,             \* the contacts in a wallet's .contacts file, or over a .keys file
    walletFile,       \* OPTION_WALLET_FILE
    readMessages,     \* "readMessages"
    received,         \* the messages in each wallet
    \* Settings and WalletAdapter
    addressBookFile,  \* the file with its contacts in m_addressBookFile
    encrypted,        \* OPTION_ENCRYPTED: set again by each open()
    wallet,           \* m_wallet: none, in initAndLoad(), in initAndGenerate(), or initialised
    pass,             \* the password it was given
    queue,            \* events posted to the GUI thread
    \* the window
    contacts,         \* AddressBookModel::contacts
    enabled,          \* the buttons and the actions on a wallet
    encryptShown,     \* "Change password" is offered, not "Encrypt wallet"
    page,             \* the frame that is visible
    messageRows,      \* MessagesModel::rowCount()
    readCount,        \* MESSAGES_READ_COUNT
    badge,            \* MessagesButton::unreadCount
    \* observation
    added,            \* the contacts added and not deleted while each wallet was open, without
                      \* those that were lost when its own file was not opened, saved or saved wholly
    saveFailed,       \* changePassword() changed it but could not save
    seen              \* the wallet whose messages were on the screen last, and how many

disk == <<password, book, walletFile, readMessages, received>>
adapter == <<addressBookFile, encrypted, wallet, pass, saveFailed>>
unread == <<page, messageRows, readCount, badge, seen>>
windowVars == <<disk, adapter, queue, contacts, enabled, encryptShown, unread, added>>

Contacts == Friends \cup {"Me", "xDrop Dev"}
NotSeen == <<"", 0>>

\* A posted signal, with the result of a load or with a number of messages.
Event(kind) == [kind |-> kind, result |-> "", count |-> 0]
Told(kind, result) == [Event(kind) EXCEPT !.result = result]
Counted(kind, count) == [Event(kind) EXCEPT !.count = count]
Takes(kind) == queue # <<>> /\ Head(queue).kind = kind
Result == Head(queue).result
Count == Head(queue).count

WindowTypeOK ==
    /\ password \in [Files -> Passwords \cup {"absent", "broken"}]
    /\ book \in [Files -> SUBSET Contacts]
    /\ walletFile \in Files /\ addressBookFile \in Files
    /\ readMessages \in 0..MessageLimit /\ readCount \in 0..MessageLimit
    /\ received \in [Wallets -> 0..MessageLimit] /\ messageRows \in 0..MessageLimit
    /\ encrypted \in BOOLEAN /\ encryptShown \in BOOLEAN /\ enabled \in BOOLEAN
    /\ wallet \in {"none", "loading", "generating", "open"}
    /\ pass \in Passwords
    /\ queue \in Seq([kind : {"open", "keys", "init", "book", "opened", "ask", "reload",
                              "created", "count"},
                      result : {"", "ok", "wrong", "failed"}, count : 0..MessageLimit])
    /\ contacts \subseteq Contacts
    /\ page \in {"none", "overview", "messages"}
    /\ badge \in 0..BadgeLimit
    /\ added \in [Wallets -> SUBSET Friends]
    /\ saveFailed \in BOOLEAN
    /\ seen \in {NotSeen} \cup (Wallets \X (0..MessageLimit))

\* The process starts, with the files as they are.
StartWith(file, read) ==
    /\ addressBookFile' = file
    /\ encrypted' = FALSE /\ wallet' = "none" /\ pass' = "" /\ saveFailed' = FALSE
    /\ queue' = <<Event("open")>>
    /\ contacts' = {} /\ enabled' = FALSE /\ encryptShown' = FALSE
    /\ page' = "none" /\ messageRows' = 0 /\ badge' = 0 /\ seen' = NotSeen
    /\ readCount' = read

WindowInit ==
    /\ password \in {p \in [Files -> Passwords \cup {"absent"}] : \A k \in KeysFiles : p[k] # "absent"}
    /\ book = [f \in Files |-> {}]
    /\ walletFile = First /\ addressBookFile = First
    /\ readMessages = 0 /\ readCount = 0
    /\ received = [w \in Wallets |-> 0]
    /\ encrypted = FALSE /\ wallet = "none" /\ pass = "" /\ saveFailed = FALSE
    /\ queue = <<Event("open")>>
    /\ contacts = {} /\ enabled = FALSE /\ encryptShown = FALSE
    /\ page = "none" /\ messageRows = 0 /\ badge = 0 /\ seen = NotSeen
    /\ added = [w \in Wallets |-> {}]

(***************************************************************************)
(* Settings.                                                               *)
(***************************************************************************)
setWalletFile(file) ==
    /\ walletFile' = file
    /\ addressBookFile' = file

setReadMessages(count) == readMessages' = count

(***************************************************************************)
(* WalletAdapter, as far as the window can tell.                           *)
(***************************************************************************)
\* importLegacyWallet(): the .wallet file is emptied before the password is tried.
importLegacyWallet(file, given) ==
    LET to == ImportedTo[file]
    IN IF password[file] = given
       THEN /\ setWalletFile(to)
            /\ password' = [password EXCEPT ![to] = given]
            /\ wallet' = "loading" /\ encrypted' = (given # "")
            /\ queue' = Tail(queue)
       ELSE /\ password' = [password EXCEPT ![to] = "broken"]
            /\ wallet' = "none" /\ encrypted' = TRUE
            /\ queue' = Append(Tail(queue), Event("ask"))
            /\ UNCHANGED <<walletFile, addressBookFile>>

open(given) ==
    /\ pass' = IF password[walletFile] = "absent" THEN "" ELSE given
    /\ saveFailed' = FALSE
    /\ IF walletFile \in KeysFiles THEN importLegacyWallet(walletFile, given)
       ELSE /\ wallet' = IF password[walletFile] = "absent" THEN "generating" ELSE "loading"
            /\ encrypted' = (given # "" /\ password[walletFile] # "absent")
            /\ queue' = Tail(queue)
            /\ UNCHANGED <<password, walletFile, addressBookFile>>
    /\ UNCHANGED <<book, readMessages, received, contacts, enabled, encryptShown, unread, added>>

\* From main() and MainWindow.
Open == Takes("open") /\ open("")

\* Mutation of createWithKeys: the wallet before decides whether this one is encrypted.
CreateKeepsEncrypted ==
    /\ Takes("keys")
    /\ pass' = "" /\ wallet' = "generating" /\ saveFailed' = FALSE
    /\ queue' = Tail(queue)
    /\ UNCHANGED <<disk, addressBookFile, encrypted, contacts, enabled, encryptShown, unread, added>>

createWithKeys ==
    /\ Takes("keys")
    /\ pass' = "" /\ wallet' = "generating" /\ encrypted' = FALSE /\ saveFailed' = FALSE
    /\ queue' = Tail(queue)
    /\ UNCHANGED <<disk, addressBookFile, contacts, enabled, encryptShown, unread, added>>

\* initCompleted(), to the slots in the order in which they were connected.
LoadEnds ==
    /\ wallet \in {"loading", "generating"}
    /\ wallet' = "open"
    /\ LET result ==
               IF wallet = "generating" \/ password[walletFile] = pass THEN "ok"
               ELSE IF password[walletFile] = "broken" THEN "failed" ELSE "wrong"
       IN queue' = queue \o <<Told("init", result), Event("book"), Told("opened", result)>>
    /\ UNCHANGED <<disk, addressBookFile, encrypted, pass, saveFailed, contacts, enabled,
                   encryptShown, unread, added>>

\* A save that may fail.
Save(with, saved) ==
    password' = IF saved THEN [password EXCEPT ![walletFile] = with] ELSE password

onWalletInitCompleted ==
    /\ Takes("init")
    /\ \/ /\ Result = "ok"
          /\ IF password[walletFile] = "absent" THEN \E saved \in BOOLEAN : Save(pass, saved)
             ELSE UNCHANGED password
          /\ queue' = Append(Tail(queue), Event("reload"))
          /\ UNCHANGED <<encrypted, wallet>>
       \/ /\ Result = "wrong"
          /\ encrypted' = TRUE /\ wallet' = "none"
          /\ queue' = Append(Tail(queue), Event("ask"))
          /\ UNCHANGED password
       \/ /\ Result = "failed"
          /\ wallet' = "none"
          /\ queue' = Tail(queue)
          /\ UNCHANGED <<password, encrypted>>
    /\ UNCHANGED <<book, walletFile, readMessages, received, addressBookFile, pass, saveFailed,
                   contacts, enabled, encryptShown, unread, added>>

(***************************************************************************)
(* AddressBookModel.                                                       *)
(***************************************************************************)
\* What a save leaves in the file, and what of it the user added to this wallet.
Leaves(left, mine) ==
    /\ book' = [book EXCEPT ![addressBookFile] = left]
    /\ added' = [added EXCEPT ![addressBookFile] = mine]

\* A save that fails leaves the file as it is when it cannot open it.  Opening truncates it, and
\* a list that is not written, or not all of it, is read as none.
Unsaved == {book[addressBookFile], {}}

saveAddressBook(list, mine) ==
    /\ contacts' = list
    /\ Leaves(list, mine) \/ \E left \in Unsaved : Leaves(left, mine \cap left)

Mine == added[addressBookFile]

\* The contacts that are read, or the two of a new book.
Loaded == IF book[addressBookFile] # {} THEN book[addressBookFile] ELSE {"Me", "xDrop Dev"}

\* loadAddressBook() adds what it has read one by one to the contacts of the wallet before, and
\* addEntry() saves after each: what the file holds in between, or when some of the saves fail.
PartlyLoaded == Unsaved \cup {contacts \cup some : some \in (SUBSET Loaded) \ {{}}}

\* Mutation of loadAddressBook: the contacts in the file are replaced.
LoadReplacesFile ==
    LET list == IF contacts # {} THEN contacts ELSE {"Me", "xDrop Dev"} IN
    /\ Takes("book")
    /\ contacts' = list
    /\ Leaves(list, Mine)
    /\ queue' = Tail(queue)
    /\ UNCHANGED <<password, walletFile, readMessages, received, adapter, enabled, encryptShown, unread>>

\* All is saved in the end, or not all; nothing is loaded of a file that does not open, and the
\* next save writes over it.
loadAddressBook ==
    /\ Takes("book")
    /\ \/ /\ contacts' = contacts \cup Loaded
          /\ \/ Leaves(contacts \cup Loaded, Mine)
             \/ \E left \in PartlyLoaded : Leaves(left, Mine \cap left)
       \/ UNCHANGED contacts /\ Leaves(book[addressBookFile], Mine \cap contacts)
    /\ queue' = Tail(queue)
    /\ UNCHANGED <<password, walletFile, readMessages, received, adapter, enabled, encryptShown, unread>>

\* The buttons of a wallet work, and nothing is on its way.
UserMayClick == queue = <<>> /\ enabled

addEntry(contact) ==
    /\ UserMayClick /\ contact \in Friends
    /\ saveAddressBook(contacts \cup {contact}, Mine \cup {contact})
    /\ UNCHANGED <<password, walletFile, readMessages, received, adapter, queue, enabled,
                   encryptShown, unread>>

removeRows(contact) ==
    /\ UserMayClick /\ contact \in contacts
    /\ saveAddressBook(contacts \ {contact}, Mine \ {contact})
    /\ UNCHANGED <<password, walletFile, readMessages, received, adapter, queue, enabled,
                   encryptShown, unread>>

(***************************************************************************)
(* Wallets come and go.                                                    *)
(***************************************************************************)
walletOpened ==
    /\ Takes("opened")
    /\ IF Result = "ok"
       THEN enabled' = TRUE /\ page' = "overview" /\ encryptShown' = encrypted
       ELSE enabled' = FALSE /\ page' = "none" /\ UNCHANGED encryptShown
    /\ queue' = Tail(queue)
    /\ UNCHANGED <<disk, adapter, contacts, messageRows, readCount, badge, seen, added>>

\* The dialog takes a password, or is closed.
askForWalletPassword(given) == Takes("ask") /\ open(given)

RefusePassword ==
    /\ Takes("ask")
    /\ queue' = Tail(queue)
    /\ UNCHANGED <<disk, adapter, contacts, enabled, encryptShown, unread, added>>

walletClosed == enabled' = FALSE /\ page' = "none" /\ messageRows' = 0

\* The wallet is closed, or reset(), and the save may fail; a wallet is opened next.
CloseThen(how, saved) ==
    /\ queue = <<>> /\ wallet \in {"none", "open"}
    /\ IF wallet = "open" THEN Save(pass, saved) ELSE ~saved /\ UNCHANGED password
    /\ wallet' = "none"
    /\ walletClosed
    /\ queue' = <<Event(how)>>
    /\ UNCHANGED <<book, readMessages, received, encrypted, pass, saveFailed, contacts,
                   encryptShown, readCount, badge, seen, added>>

createWallet(file, saved) ==
    file \in Wallets /\ password[file] = "absent" /\ setWalletFile(file) /\ CloseThen("open", saved)

openWallet(file, saved) ==
    password[file] # "absent" /\ setWalletFile(file) /\ CloseThen("open", saved)

importKey(file, saved) == file \in Wallets /\ setWalletFile(file) /\ CloseThen("keys", saved)

resetWallet(saved) ==
    /\ wallet = "open" /\ enabled
    /\ CloseThen("open", saved)
    /\ UNCHANGED <<walletFile, addressBookFile>>

\* The process ends at any step, and is started again.  It may end while the address book is
\* loaded, or in the middle of a save of it.
Restart ==
    /\ StartWith(walletFile, readMessages)
    /\ \/ UNCHANGED <<book, added>>
       \/ Takes("book") /\ \E left \in PartlyLoaded : Leaves(left, Mine \cap left)
       \/ UserMayClick /\ Leaves({}, {})
    /\ UNCHANGED <<password, walletFile, readMessages, received>>

(***************************************************************************)
(* The password.                                                           *)
(***************************************************************************)
\* changePassword() with the old password, and the save that ends it.
changePassword(new, saved) ==
    /\ pass' = new
    /\ encrypted' = (new # "")
    /\ Save(new, saved)

encryptWallet(new, saved) ==
    /\ UserMayClick /\ wallet = "open" /\ new # ""
    /\ changePassword(new, saved)
    /\ IF encrypted THEN UNCHANGED <<encryptShown, saveFailed>>
       ELSE encryptShown' = saved /\ saveFailed' = ~saved
    /\ UNCHANGED <<book, walletFile, readMessages, received, addressBookFile, wallet, queue,
                   contacts, enabled, unread, added>>

\* A send has ended, or an earlier save is tried again.
SaveNow ==
    /\ wallet = "open" /\ queue = <<>>
    /\ Save(pass, TRUE)
    /\ UNCHANGED <<book, walletFile, readMessages, received, adapter, queue, contacts, enabled,
                   encryptShown, unread, added>>

(***************************************************************************)
(* The unread messages.                                                    *)
(***************************************************************************)
showUnread(number) == badge' = Min({number, BadgeLimit})

\* What is on the screen is seen.
Look == seen' = IF page' = "messages" THEN <<walletFile, messageRows'>> ELSE seen

Receive ==
    /\ wallet = "open" /\ walletFile \in Wallets /\ received[walletFile] < MessageLimit
    /\ received' = [received EXCEPT ![walletFile] = @ + 1]
    /\ queue' = Append(queue, Counted("created", received'[walletFile]))
    /\ UNCHANGED <<password, book, walletFile, readMessages, adapter, contacts, enabled,
                   encryptShown, unread, added>>

\* MessagesModel tells its size once for each message it appends, and nothing of none.
AppendUpTo(first, last) ==
    /\ messageRows' = last
    /\ queue' = Tail(queue) \o [i \in 1..(last + 1 - first) |-> Counted("count", first + i - 1)]
    /\ UNCHANGED <<disk, adapter, contacts, enabled, encryptShown, page, readCount, badge, added>>
    /\ Look

reloadMessages == Takes("reload") /\ AppendUpTo(1, received[walletFile])

appendMessage ==
    /\ Takes("created")
    /\ AppendUpTo(messageRows + 1, Max({Count, messageRows}))

\* Mutation of messagesCountUpdated: messages that are on the screen are not counted as read.
CountForgetsVisible ==
    /\ Takes("count")
    /\ IF page = "messages" THEN showUnread(0)
       ELSE showUnread(Max({Count - readCount, 0}))
    /\ queue' = Tail(queue)
    /\ UNCHANGED <<disk, adapter, contacts, enabled, encryptShown, page, messageRows, readCount,
                   seen, added>>

messagesCountUpdated ==
    /\ Takes("count")
    /\ IF page = "messages" THEN readCount' = messageRows /\ showUnread(0)
       ELSE /\ showUnread(Max({Count - readCount, 0}))
            /\ UNCHANGED readCount
    /\ queue' = Tail(queue)
    /\ UNCHANGED <<disk, adapter, contacts, enabled, encryptShown, page, messageRows, seen, added>>

switchMenu(to) ==
    /\ UserMayClick
    /\ page' = to
    /\ IF to = "messages"
       THEN readCount' = messageRows /\ setReadMessages(messageRows) /\ showUnread(0)
       ELSE UNCHANGED <<readCount, readMessages, badge>>
    /\ UNCHANGED <<password, book, walletFile, received, adapter, queue, contacts, enabled,
                   encryptShown, messageRows, added>>
    /\ Look

-----------------------------------------------------------------------------
Slots ==
    \/ Open \/ createWithKeys \/ onWalletInitCompleted \/ loadAddressBook \/ walletOpened
    \/ reloadMessages \/ appendMessage \/ messagesCountUpdated

WalletUser ==
    \/ \E given \in Passwords : askForWalletPassword(given)
    \/ RefusePassword
    \/ \E file \in Files, saved \in BOOLEAN :
           createWallet(file, saved) \/ openWallet(file, saved) \/ importKey(file, saved)
    \/ \E saved \in BOOLEAN : resetWallet(saved)
    \/ Restart

Opening == LoadEnds \/ Slots \/ WalletUser

PasswordUser == SaveNow \/ \E new \in Passwords, saved \in BOOLEAN : encryptWallet(new, saved)

ContactsUser == \E contact \in Contacts : addEntry(contact) \/ removeRows(contact)

MessagesUser == Receive \/ \E to \in {"overview", "messages"} : switchMenu(to)

WindowNext == Opening \/ PasswordUser \/ ContactsUser \/ MessagesUser

WindowSpec == WindowInit /\ [][WindowNext]_windowVars

-----------------------------------------------------------------------------
(***************************************************************************)
(* Properties.                                                             *)
(***************************************************************************)

(* The contacts a user adds while a wallet is open stay in the file of     *)
(* that wallet until they are deleted with it open, or until the file      *)
(* loses them: a save of it that fails or in which the process ends leaves *)
(* it as it was, empty, or with those that were added to it so far, and    *)
(* contacts that a load could not read are written over by the next save.  *)
(* Nothing else takes contacts from it, whatever wallets are opened in     *)
(* between, with right or wrong passwords, whose saves of other files      *)
(* fail, and at whatever step the process ends; and those it still has,    *)
(* or the model, outlive a failure.  It says nothing of the contacts of    *)
(* other wallets that a file gets as well.                                 *)
(* m_addressBookFile is the .keys file itself while one is imported, since *)
(* the replacement finds no ".wallet" in its name: no contacts are written *)
(* over the keys, because importLegacyWallet() has moved on to the .wallet *)
(* file when the address book is loaded.                                   *)
ContactsKept ==
    /\ \A w \in Wallets : added[w] \subseteq book[w]
    /\ \A k \in KeysFiles : book[k] = {}

(* Settings say whether the open wallet has a password, and the menu       *)
(* offers the right one of "Encrypt wallet" and "Change password", unless  *)
(* the save after the first password failed: changePassword() is then      *)
(* reported to have failed although the password has changed.              *)
EncryptionTold ==
    (wallet = "open" /\ UserMayClick) =>
        /\ encrypted = (pass # "")
        /\ encryptShown # encrypted => saveFailed

(* The Messages button shows how many messages came since those of this    *)
(* wallet were last on the screen, when all that was told has been         *)
(* handled.  MESSAGES_READ_COUNT is set from two places and is not kept    *)
(* for each wallet: nothing is said of a wallet whose messages were not    *)
(* looked at after those of another one, or since the start.               *)
UnreadIsCounted ==
    (queue = <<>> /\ wallet = "open" /\ messageRows > 0 /\ seen[1] = walletFile) =>
        badge = Min({messageRows - seen[2], BadgeLimit})
=============================================================================
