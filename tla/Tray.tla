-------------------------------- MODULE Tray --------------------------------
(***************************************************************************)
(* The window and its icon in the tray (Windows), the switches of the menu *)
(* that decide between them, the program's entry among those the desktop   *)
(* starts at login, and the pools to mine at.                              *)
(*                                                                         *)
(* The window hides when it is closed or minimized, as the switches say,   *)
(* and only the icon brings it back.  Notifications show the icon as well, *)
(* and a wallet that is closed takes it away.  A switch or a pool is       *)
(* written to the settings file at once; the program may be killed while   *)
(* it writes, which leaves the file, or the entry, empty.  There is a      *)
(* tray: MainWindow does not start without one.                            *)
(***************************************************************************)
EXTENDS Naturals, SequencesExt

CONSTANTS
    DefaultPools,  \* those Settings::load() brings, in their order
    OtherPools,    \* those a user may add
    PoolLimit      \* bound on the list of pools

ASSUME TrayAssumption ==
    /\ DefaultPools \in Seq(ToSet(DefaultPools)) /\ ToSet(DefaultPools) \cap OtherPools = {}
    /\ PoolLimit \in Nat /\ Len(DefaultPools) <= PoolLimit

VARIABLES
    os,          \* Q_OS_WIN or Q_OS_LINUX
    process,     \* "off", "runs", or "quits"
    visible,     \* the window is not hidden
    shape,       \* its windowState()
    icon,        \* m_trayIcon is shown
    purse,       \* the wallet: "none", "loading", "asking" for a password, or "open"
    switches,    \* what m_settings has of Switches
    pools,       \* getMiningPoolList(), and the list of PoolModel
    cfg,         \* the switches and the pools in the file, or NoSettings
    menu,        \* the check marks
    entry,       \* who is started at login: "none", "empty" for nobody, "this" program, or "other"
    \* observation
    chosen,      \* what the user set last
    pooled,      \* the pools the user has added
    torn,        \* the program was killed while it wrote
    leftInTray   \* the wallet was closed while the window was hidden

trayVars ==
    <<os, process, visible, shape, icon, purse, switches, pools, cfg, menu, entry, chosen, pooled,
      torn, leftInTray>>

Switches == {"closeToTray", "minimizeToTray", "messageNotifications", "paymentNotifications"}
NoSettings == <<>>
Marks == Switches \cup {"startOnLogin"}

TrayTypeOK ==
    /\ os \in {"windows", "linux"} /\ process \in {"off", "runs", "quits"}
    /\ visible \in BOOLEAN /\ icon \in BOOLEAN
    /\ shape \in {"normal", "minimized", "maximized"}
    /\ purse \in {"none", "loading", "asking", "open"}
    /\ switches \in [Switches -> BOOLEAN]
    /\ pools \in Seq(ToSet(DefaultPools) \cup OtherPools) /\ Len(pools) <= PoolLimit
    /\ cfg \in {NoSettings} \cup [switches : [Switches -> BOOLEAN], pools : {pools}]
    /\ pooled \subseteq OtherPools
    /\ menu \in [Marks -> BOOLEAN] /\ chosen \in [Marks -> BOOLEAN]
    /\ entry \in {"none", "empty", "this", "other"}
    /\ torn \in BOOLEAN /\ leftInTray \in BOOLEAN

Defaults == [s \in Switches |-> os = "windows" /\ s = "messageNotifications"]

\* On Linux any entry with the program's name will do.
isStartOnLoginEnabled(by) == IF os = "windows" THEN by = "this" ELSE by # "none"

TrayInit ==
    /\ os \in {"windows", "linux"} /\ process = "off"
    /\ visible = FALSE /\ shape = "normal" /\ icon = FALSE /\ purse = "none"
    /\ switches = Defaults /\ pools = <<>> /\ cfg = NoSettings /\ pooled = {}
    /\ entry \in {"none", "this", "other"}
    /\ menu = [m \in Marks |-> IF m \in Switches THEN switches[m] ELSE isStartOnLoginEnabled(entry)]
    /\ chosen = menu
    /\ torn = FALSE /\ leftInTray = FALSE

(***************************************************************************)
(* The start and the end.                                                  *)
(***************************************************************************)
saveSettings == cfg' = [switches |-> switches', pools |-> pools']

\* The loop over the default pools: those that are missing are added to the list.
AddMissing(list) ==
    LET after[i \in 0..Len(DefaultPools)] ==
            IF i = 0 THEN list
            ELSE IF DefaultPools[i] \in ToSet(after[i - 1]) THEN after[i - 1]
            ELSE Append(after[i - 1], DefaultPools[i])
    IN after[Len(DefaultPools)]

loadPools == pools' = IF cfg = NoSettings THEN DefaultPools ELSE AddMissing(cfg.pools)

\* The notifications are saved with their defaults; a tray switch that is missing is off.
load ==
    /\ switches' = (IF cfg = NoSettings THEN Defaults ELSE cfg.switches)
    /\ loadPools
    /\ saveSettings

initUi ==
    menu' = [m \in Marks |-> IF m = "startOnLogin" THEN isStartOnLoginEnabled(entry) ELSE switches'[m]]

StartProgram ==
    /\ process = "off" /\ process' = "runs"
    /\ load
    /\ initUi
    /\ visible' = TRUE /\ shape' = "normal" /\ icon' = FALSE
    /\ purse' = "loading" /\ leftInTray' = FALSE
    /\ UNCHANGED <<os, entry, chosen, pooled, torn>>

\* QApplication::quit(), from a signal or the menu: aboutToQuit() comes next.
quit ==
    /\ process = "runs" /\ process' = "quits"
    /\ visible' = FALSE /\ icon' = FALSE
    /\ UNCHANGED <<os, shape, purse, switches, pools, cfg, menu, entry, chosen, pooled, torn, leftInTray>>

ProcessEnds ==
    /\ process = "quits" /\ process' = "off" /\ purse' = "none"
    /\ UNCHANGED <<os, visible, shape, icon, switches, pools, cfg, menu, entry, chosen, pooled, torn, leftInTray>>

(***************************************************************************)
(* Between the window and the tray.                                        *)
(***************************************************************************)
UserSees == process = "runs" /\ visible /\ purse # "asking"
KeepsAllBut == UNCHANGED <<os, process, purse, switches, pools, cfg, menu, entry, chosen, pooled, torn>>

ShowNormal == visible' = TRUE /\ shape' = "normal" /\ icon' = FALSE /\ leftInTray' = FALSE

\* Mutation of minimizeToTray: the icon is left as it is.
MinimizeShowsNone(on) ==
    IF on THEN visible' = FALSE /\ UNCHANGED <<icon, leftInTray>> ELSE ShowNormal

minimizeToTray(on) ==
    IF on THEN visible' = FALSE /\ icon' = TRUE /\ UNCHANGED leftInTray ELSE ShowNormal

\* Minimized, maximized or restored from the task bar.
changeEvent(state) ==
    /\ UserSees /\ state # shape
    /\ IF os = "windows" /\ switches["minimizeToTray"]
       THEN /\ minimizeToTray(state = "minimized")
            /\ state = "minimized" => shape' = state
       ELSE shape' = state /\ UNCHANGED <<visible, icon, leftInTray>>
    /\ KeepsAllBut

closeEvent ==
    /\ UserSees
    /\ IF os = "windows" /\ switches["closeToTray"]
       THEN minimizeToTray(TRUE) /\ UNCHANGED shape /\ KeepsAllBut
       ELSE quit

\* A click on the icon, or on the notification it shows.
trayActivated ==
    /\ process = "runs" /\ icon
    /\ ShowNormal
    /\ KeepsAllBut

\* What was received has messages or is a payment.
transactionCreated(hasMessages) ==
    /\ process = "runs" /\ purse = "open" /\ os = "windows"
    /\ switches[IF hasMessages THEN "messageNotifications" ELSE "paymentNotifications"]
    /\ icon' = TRUE
    /\ UNCHANGED <<visible, shape, leftInTray>> /\ KeepsAllBut

(***************************************************************************)
(* The wallet.                                                             *)
(***************************************************************************)
HideIcon == icon' = FALSE /\ leftInTray' = (leftInTray \/ ~visible)

\* CloseThen of WalletWindow, and the next wallet.
OpenAnother ==
    /\ UserSees /\ purse \in {"none", "open"} /\ purse' = "loading"
    /\ IF purse = "open" THEN HideIcon ELSE UNCHANGED <<icon, leftInTray>>
    /\ UNCHANGED <<os, process, visible, shape, switches, pools, cfg, menu, entry, chosen, pooled, torn>>

\* walletOpened(): with an error, as walletClosed().  A wrong password is asked for again.
LoadCompleted(result) ==
    /\ process = "runs" /\ purse = "loading" /\ purse' = result
    /\ IF result = "open" THEN UNCHANGED <<icon, leftInTray>> ELSE HideIcon
    /\ UNCHANGED <<os, process, visible, shape, switches, pools, cfg, menu, entry, chosen, pooled, torn>>

askForPassword(accepted) ==
    /\ process = "runs" /\ purse = "asking"
    /\ purse' = IF accepted THEN "loading" ELSE "none"
    /\ UNCHANGED <<os, process, visible, shape, icon, switches, pools, cfg, menu, entry, chosen, pooled, torn, leftInTray>>

(***************************************************************************)
(* The switches.                                                           *)
(***************************************************************************)
Offered(s) == os = "windows" \/ s \in {"messageNotifications", "paymentNotifications"}

\* On Linux the two that are left do nothing.
SetSwitch(s, on) ==
    /\ UserSees /\ Offered(s) /\ on # menu[s]
    /\ menu' = [menu EXCEPT ![s] = on]
    /\ IF os = "windows"
       THEN /\ switches' = [switches EXCEPT ![s] = on]
            /\ pools' = pools /\ saveSettings
            /\ chosen' = [chosen EXCEPT ![s] = on]
       ELSE UNCHANGED <<switches, pools, cfg, chosen>>
    /\ UNCHANGED <<os, process, visible, shape, icon, purse, entry, pooled, torn, leftInTray>>

\* PoolModel inserts a row and sets it, and saves the list.  A pool may be in it already.
addPool(pool) ==
    /\ UserSees /\ Len(pools) < PoolLimit
    /\ pools' = Append(pools, pool)
    /\ switches' = switches /\ saveSettings
    /\ pooled' = pooled \cup ({pool} \cap OtherPools)
    /\ UNCHANGED <<os, process, visible, shape, icon, purse, menu, entry, chosen, torn, leftInTray>>

\* Mutation of setStartOnLogin: the mark stays as it was clicked.
LoginIsTrusted(on, writable) ==
    /\ UserSees /\ on # menu["startOnLogin"]
    /\ entry' = IF ~writable THEN entry ELSE IF on THEN "this" ELSE "none"
    /\ menu' = [menu EXCEPT !["startOnLogin"] = on]
    /\ chosen' = [chosen EXCEPT !["startOnLogin"] = on]
    /\ UNCHANGED <<os, process, visible, shape, icon, purse, switches, pools, cfg, pooled, torn, leftInTray>>

\* The directory of the entry, or its file, may not be writable.
setStartOnLogin(on, writable) ==
    /\ UserSees /\ on # menu["startOnLogin"]
    /\ entry' = IF ~writable THEN entry ELSE IF on THEN "this" ELSE "none"
    /\ menu' = [menu EXCEPT !["startOnLogin"] = isStartOnLoginEnabled(entry')]
    /\ chosen' = [chosen EXCEPT !["startOnLogin"] = menu'["startOnLogin"]]
    /\ UNCHANGED <<os, process, visible, shape, icon, purse, switches, pools, cfg, pooled, torn, leftInTray>>

KilledIn(file) ==
    /\ process = "runs" /\ process' = "off"
    /\ file = "entry" => os = "linux" /\ UserSees
    /\ cfg' = IF file = "cfg" THEN NoSettings ELSE cfg
    /\ entry' = IF file = "entry" THEN "empty" ELSE entry
    /\ visible' = FALSE /\ icon' = FALSE /\ purse' = "none"
    /\ torn' = (torn \/ file # "none")
    /\ pooled' = IF file = "cfg" THEN {} ELSE pooled
    /\ UNCHANGED <<os, shape, switches, pools, menu, chosen, leftInTray>>

TrayNext ==
    \/ StartProgram \/ quit \/ ProcessEnds \/ closeEvent \/ trayActivated \/ OpenAnother
    \/ \E state \in {"normal", "minimized", "maximized"} : changeEvent(state)
    \/ \E hasMessages \in BOOLEAN : transactionCreated(hasMessages)
    \/ \E result \in {"open", "asking", "none"} : LoadCompleted(result)
    \/ \E accepted \in BOOLEAN : askForPassword(accepted)
    \/ \E s \in Switches, on \in BOOLEAN : SetSwitch(s, on)
    \/ \E on, writable \in BOOLEAN : setStartOnLogin(on, writable)
    \/ \E pool \in ToSet(DefaultPools) \cup OtherPools : addPool(pool)
    \/ \E file \in {"none", "cfg", "entry"} : KilledIn(file)

TraySpec == TrayInit /\ [][TrayNext]_trayVars

-----------------------------------------------------------------------------
(* While the program runs, the user has a way to the window: it is there,  *)
(* or its icon is, or a dialog, whatever the order in which the window is  *)
(* closed, minimized and shown, switches are changed, notifications come   *)
(* and wallets are opened.  The exception is a wallet that is closed, or   *)
(* fails to open, while the window is hidden: walletClosed() hides the     *)
(* icon all the same.                                                      *)
WindowReachable == process = "runs" => visible \/ icon \/ purse = "asking" \/ leftInTray

(* The marks of the menu tell what the program will do, also after it was  *)
(* started again, and are what the user set last, unless the program was   *)
(* killed while it wrote.  At login this program is started when the mark  *)
(* says so, except for an entry that another copy of it wrote, or that was *)
(* left empty: on Linux isStartOnLoginEnabled() does not look into it.     *)
(* The pools offered are the default ones and those the user has added.    *)
MenuIsTrue ==
    process = "runs" =>
        /\ ToSet(pools) = ToSet(DefaultPools) \cup pooled
        /\ os = "windows" => \A s \in Switches : menu[s] = switches[s] /\ (~torn => menu[s] = chosen[s])
        /\ ~torn => menu["startOnLogin"] = chosen["startOnLogin"]
        /\ menu["startOnLogin"] => entry \in {"this"} \cup IF os = "linux" THEN {"other", "empty"} ELSE {}
        /\ entry = "this" => menu["startOnLogin"]
=============================================================================
