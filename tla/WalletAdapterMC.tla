-------------------------- MODULE WalletAdapterMC --------------------------
(***************************************************************************)
(* Small instances of WalletAdapter.                                       *)
(***************************************************************************)
EXTENDS WalletAdapter

CONSTANTS k1, k2

AnyOps == {"message", "open", "backup", "wrongPassword", "quit"}

PacedOps == {"transaction", "deposit", "open", "create", "legacy", "import", "reset", "changePassword",
             "quit", "wrongPassword", "fail", "crash"}

\* The user sends messages; a message sent completes twice in the event queue.
MessageOps == {"message"}

\* The user sends a transaction and quits.
SendAndQuitOps == {"transaction", "quit"}
=============================================================================
