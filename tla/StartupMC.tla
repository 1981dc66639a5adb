----------------------------- MODULE StartupMC -----------------------------
(* An instance of Startup for TLC. *)
EXTENDS Startup

CONSTANTS p1, p2, w1, w2

MCProcess == {p1, p2}
MCWalletFiles == {w1, w2}
=============================================================================
