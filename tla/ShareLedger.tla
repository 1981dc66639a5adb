---------------------------- MODULE ShareLedger ----------------------------
(***************************************************************************)
(* What the miner promises the pool: it works on one job at a time, and it *)
(* submits each nonce of that job at most once, while the job is current.  *)
(***************************************************************************)
EXTENDS Naturals

CONSTANTS
    Jobs,      \* job ids the pool hands out
    NoJob,     \* no job
    Nonces     \* nonces that are tried

VARIABLES
    job,       \* the current job
    sent       \* how often each share was submitted

Shares == Jobs \X Nonces

LedgerInit ==
    /\ job = NoJob
    /\ sent = [s \in Shares |-> 0]

\* The pool gives a job, or the connection ends.
ChangeJob ==
    /\ job' \in Jobs \cup {NoJob}
    /\ UNCHANGED sent

Submit(nonce) ==
    /\ job \in Jobs
    /\ sent[<<job, nonce>>] = 0
    /\ sent' = [sent EXCEPT ![<<job, nonce>>] = 1]
    /\ UNCHANGED job

LedgerNext == ChangeJob \/ \E nonce \in Nonces : Submit(nonce)

LedgerSpec == LedgerInit /\ [][LedgerNext]_<<job, sent>>
=============================================================================
