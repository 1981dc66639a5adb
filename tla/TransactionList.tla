-------------------------- MODULE TransactionList --------------------------
(***************************************************************************)
(* What a list of transactions promises the user of a wallet: once it has  *)
(* been loaded it shows the rows of the first so many transactions of the  *)
(* wallet, each once and in order, and it only grows until the wallet is   *)
(* closed.                                                                 *)
(***************************************************************************)
EXTENDS FeedRows

VARIABLES
    store,    \* the transactions of the wallet
    rows,     \* what is shown
    loaded    \* the list has been loaded from this wallet

vars == <<store, rows, loaded>>

Shown(n) == rows' = Blocks(store, n) /\ n <= Len(store)

Init == store = <<>> /\ rows = <<>> /\ ~loaded

\* The wallet gets transactions.
Receive ==
    /\ Len(store') = Len(store) + 1
    /\ SubSeq(store', 1, Len(store)) = store
    /\ UNCHANGED <<rows, loaded>>

Load ==
    /\ loaded'
    /\ Shown(Len(store))
    /\ UNCHANGED store

\* More of the wallet's transactions are shown.
Show ==
    /\ loaded
    /\ \E n \in 0..Len(store) : Shown(n)
    /\ Len(rows') > Len(rows)
    /\ UNCHANGED <<store, loaded>>

Close == ~loaded' /\ rows' = <<>> /\ UNCHANGED store

\* Until it is loaded a list promises nothing.
Unloaded == ~loaded /\ ~loaded' /\ UNCHANGED store

\* The wallet is deleted, or one is opened.
Switch == ~loaded' /\ UNCHANGED rows

Next == Receive \/ Load \/ Show \/ Close \/ Unloaded \/ Switch

Spec == Init /\ [][Next]_vars
=============================================================================
