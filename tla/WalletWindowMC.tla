--------------------------- MODULE WalletWindowMC ---------------------------
(***************************************************************************)
(* The parts of the window, each in turn: a behaviour has one "part", in   *)
(* which the user opens wallets and also sets passwords, changes contacts  *)
(* or reads messages, or in which the user fills in a form, writes and     *)
(* answers messages, hides the window, or looks at the balances.  Contacts *)
(* are no part of what a password or a message does: there the saves of    *)
(* the address book succeed.  The other parts keep no state in common with *)
(* the window's.                                                           *)
(***************************************************************************)
EXTENDS WalletWindow, SendForms, Mail, Tray, Balances

VARIABLE part

MCImportedTo == [k \in KeysFiles |-> "b.wallet"]
MCDefaultPools == <<"first", "second">>
MCNamed == [a \in Others |-> "Bob"]

\* Texts: a line, an empty line, and lines with colons at the start, in the middle, or alone.
Words == <<"text">>
Link == <<"see", "http", "//page">>
NoWords == <<"">>
MCBodies ==
    {<<Words>>, <<NoWords, Words, NoWords, Words>>, <<Words, Link, NoWords, Words>>,
     <<Link, NoWords, Words>>, <<Link>>, <<Link, NoWords>>, <<<<" ">>, Link, Words, NoWords, Link>>,
     <<<<"From", "C">>, NoWords, Words>>, <<<<"From", "B">>>>}

mcVars == <<part, windowVars, formVars, mailVars, trayVars, balancesVars>>

MCInit ==
    /\ part \in {"password", "contacts", "messages", "forms", "mail", "tray", "balances"}
    /\ WindowInit /\ FormsInit /\ MailInit /\ TrayInit /\ BalancesInit
    /\ part \notin {"password", "contacts", "messages"} => \A file \in Files : password[file] = ""
    /\ part # "forms" => form = "message" /\ known = {}
    /\ part # "tray" => os = "linux" /\ entry = "none"

InWindow == UNCHANGED <<part, formVars, mailVars, trayVars, balancesVars>>

BookIsSaved ==
    IF Takes("book") /\ queue' = Tail(queue)
    THEN contacts' = contacts \cup Loaded /\ book'[addressBookFile] = contacts'
    ELSE book' = book

MCNext ==
    \/ part \in {"password", "messages"} /\ Opening /\ BookIsSaved /\ InWindow
    \/ part = "contacts" /\ Opening /\ InWindow
    \/ part \in {"password", "messages"} /\ PasswordUser /\ InWindow
    \/ part = "contacts" /\ ContactsUser /\ InWindow
    \/ part = "messages" /\ MessagesUser /\ InWindow
    \/ part = "forms" /\ FormsNext /\ UNCHANGED <<part, windowVars, mailVars, trayVars, balancesVars>>
    \/ part = "mail" /\ MailNext /\ UNCHANGED <<part, windowVars, formVars, trayVars, balancesVars>>
    \/ part = "tray" /\ TrayNext /\ UNCHANGED <<part, windowVars, formVars, mailVars, balancesVars>>
    \/ part = "balances" /\ BalancesNext /\ UNCHANGED <<part, windowVars, formVars, mailVars, trayVars>>

MCSpec == MCInit /\ [][MCNext]_mcVars

-----------------------------------------------------------------------------
(* The variables of each part have the values their definitions name.      *)
MCTypeOK == WindowTypeOK /\ FormsTypeOK /\ MailTypeOK /\ TrayTypeOK /\ BalancesTypeOK
=============================================================================
