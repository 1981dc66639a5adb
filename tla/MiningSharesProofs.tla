------------------------- MODULE MiningSharesProofs -------------------------
(***************************************************************************)
(* Proofs about MiningShares, for any number of workers, jobs and nonces:  *)
(* it has the types of TypeOK, it keeps TriedOnce, and it implements       *)
(* ShareLedger.                                                            *)
(***************************************************************************)
EXTENDS MiningShares, TLAPS

-----------------------------------------------------------------------------
(* The inductive invariant.  Each share of the current job has a nonce that *)
(* m_nonce has already passed, so the next nonce is new; while updateJob()  *)
(* holds the lock nothing of the new job exists, so m_nonce can be reset.   *)

\* The lock is updateJob()'s, and job ids that exist were handed out by the pool.
JobsKnown ==
    /\ locked <=> gui = "update"
    /\ m_currentJob \in offered \cup {NoJob}
    /\ \A w \in Workers : localJob[w] \in offered \cup {NoJob}
    /\ \A i \in DOMAIN posted : posted[i][1] \in offered
    /\ \A s \in Shares : sent[s] # 0 => s[1] \in offered

\* A worker past ReadJob has a job, and one that hashes has a nonce.
WorkersReady ==
    \A w \in Workers :
        /\ thread[w] \in {"take", "hash"} => localJob[w] \in Jobs
        /\ thread[w] = "hash" => localNonce[w] \in Nonces

\* No worker has the new job before the lock is free.
JobHidden == locked => \A w \in Workers : localJob[w] # m_currentJob

Passed(s) == ~locked /\ s[2] <= m_nonce

\* Submitted shares.
SentOnce ==
    \A s \in Shares : sent[s] # 0 /\ s[1] = m_currentJob => Passed(s) /\ sent[s] = 1

\* Queued shares.
QueuedOnce ==
    /\ \A i \in DOMAIN posted :
        posted[i][1] = m_currentJob => Passed(posted[i]) /\ sent[posted[i]] = 0
    /\ \A i, k \in DOMAIN posted :
        posted[i][1] = m_currentJob /\ posted[i] = posted[k] => i = k

\* The share a worker may find.
Own(w) == <<localJob[w], localNonce[w]>>
Hashing(w) == thread[w] = "hash" /\ localJob[w] = m_currentJob

HeldOnce ==
    /\ \A w \in Workers :
        Hashing(w) =>
            /\ Passed(Own(w))
            /\ sent[Own(w)] = 0
            /\ \A i \in DOMAIN posted : posted[i] # Own(w)
    /\ \A v, w \in Workers : Hashing(v) /\ Hashing(w) /\ localNonce[v] = localNonce[w] => v = w

IInv ==
    /\ TypeOK
    /\ JobsKnown
    /\ WorkersReady
    /\ JobHidden
    /\ SentOnce
    /\ QueuedOnce
    /\ HeldOnce

-----------------------------------------------------------------------------
(* Types. *)

\* The three ways in which the queue of shares changes keep its type.
LEMMA QueueTypes ==
    ASSUME posted \in Seq(Shares)
    PROVE  /\ \A s \in Shares : Append(posted, s) \in Seq(Shares)
           /\ posted # <<>> => Head(posted) \in Shares /\ Tail(posted) \in Seq(Shares)
    OBVIOUS

\* A step of a worker's thread leads to one of its places.
LEMMA StandTypes ==
    ASSUME TypeOK, NEW w \in Workers, NEW from,
           NEW to \in {"starting", "queued", "check", "read", "take", "hash", "exec", "finished"},
           Stand(w, from, to)
    PROVE  thread' \in [Workers -> {"starting", "queued", "check", "read", "take", "hash", "exec",
                                    "finished"}]
    BY DEF TypeOK, Stand

\* Every step of the GUI thread keeps the types.
LEMMA GuiTypes == TypeOK /\ GuiNext => TypeOK'
<1> SUFFICES ASSUME TypeOK, GuiNext PROVE TypeOK'
    OBVIOUS
<1>1. ASSUME NEW j \in Jobs, SetJob(j) PROVE TypeOK'
    BY <1>1 DEF TypeOK, SetJob, worker, ending
<1>2. CASE ResetNonce
    <2>1. m_nonce' \in 0..MaxNonce
        BY <1>2, NonceAssumption DEF ResetNonce
    <2>2. locked' \in BOOLEAN
        BY <1>2 DEF ResetNonce
    <2>3. /\ gui' = "loop"
          /\ UNCHANGED <<m_currentJob, offered, posted, sent, thread, localJob, localNonce,
                         m_isStopped, told, quit>>
        BY <1>2 DEF ResetNonce, worker, ending
    <2> QED BY <2>1, <2>2, <2>3 DEF TypeOK
<1>3. CASE SubmitShare
    <2>1. Head(posted) \in Shares /\ posted' \in Seq(Shares)
        BY <1>3, QueueTypes DEF TypeOK, SubmitShare
    <2>2. sent' \in [Shares -> Nat]
        BY <1>3, <2>1 DEF TypeOK, SubmitShare
    <2> QED BY <1>3, <2>1, <2>2 DEF TypeOK, SubmitShare, client, worker, ending
<1>4. CASE ClearJob
    BY <1>4 DEF TypeOK, ClearJob, worker, ending
<1>5. CASE StopMiner
    BY <1>5 DEF TypeOK, StopMiner, worker, ending
<1>6. ASSUME NEW w \in Workers, StopWorker(w) PROVE TypeOK'
    BY <1>6 DEF TypeOK, StopWorker, client, worker
<1>7. ASSUME NEW w \in Workers, QuitThread(w) PROVE TypeOK'
    BY <1>7 DEF TypeOK, QuitThread, client, worker
<1>8. CASE Wait
    BY <1>8 DEF TypeOK, Wait, client, worker, ending
<1> QED BY <1>1, <1>2, <1>3, <1>4, <1>5, <1>6, <1>7, <1>8 DEF GuiNext

\* Every step of a worker that is ready keeps the types.
LEMMA WorkerTypes ==
    ASSUME TypeOK, WorkersReady, NEW w \in Workers, WorkerNext(w)
    PROVE  TypeOK'
<1>1. CASE Start(w)
    BY <1>1, StandTypes DEF TypeOK, Start, client
<1>2. CASE Run(w)
    BY <1>2, StandTypes DEF TypeOK, Run, client, ending
<1>3. CASE Finish(w)
    BY <1>3, StandTypes DEF TypeOK, Finish, client, ending
<1>4. CASE CheckStopped(w)
    BY <1>4, StandTypes DEF TypeOK, CheckStopped, client, ending
<1>5. CASE ReadJob(w)
    <2>1. localJob' \in [Workers -> Jobs \cup {NoJob}]
        BY <1>5 DEF TypeOK, ReadJob
    <2> QED BY <1>5, <2>1, StandTypes DEF TypeOK, ReadJob, client, ending
<1>6. CASE TakeNonce(w)
    <2>1. m_nonce' \in 0..MaxNonce /\ localNonce' \in [Workers -> 0..MaxNonce]
        BY <1>6, NonceAssumption DEF TypeOK, TakeNonce
    <2> QED BY <1>6, <2>1, StandTypes DEF TypeOK, TakeNonce, ending
<1>7. CASE Hash(w)
    <2>1. <<localJob[w], localNonce[w]>> \in Shares
        BY <1>7 DEF WorkersReady, Hash, Stand, Shares
    <2>2. posted' \in Seq(Shares)
        BY <1>7, <2>1, QueueTypes DEF TypeOK, Hash
    <2> QED BY <1>7, <2>2, StandTypes DEF TypeOK, Hash, client, ending
<1> QED BY <1>1, <1>2, <1>3, <1>4, <1>5, <1>6, <1>7 DEF WorkerNext

-----------------------------------------------------------------------------
(* Each step keeps what IInv says about the shares. *)

SharesInv == JobsKnown /\ WorkersReady /\ JobHidden /\ SentOnce /\ QueuedOnce /\ HeldOnce

\* Steps that touch neither the job, the nonces nor the shares, and bring no worker closer to
\* a share.
LEMMA QuietStep ==
    ASSUME IInv,
           UNCHANGED <<m_currentJob, locked, m_nonce, offered, posted, sent, localJob, localNonce>>,
           gui' = "update" <=> gui = "update",
           \A w \in Workers : thread'[w] \in {"take", "hash"} => thread'[w] = thread[w]
    PROVE  SharesInv'
<1> USE DEF IInv
<1>1. JobsKnown'
    BY DEF JobsKnown
<1>2. WorkersReady'
    BY DEF WorkersReady
<1>3. JobHidden'
    BY DEF JobHidden
<1>4. SentOnce'
    BY DEF SentOnce, Passed
<1>5. QueuedOnce'
    BY DEF QueuedOnce, Passed
<1>6. \A w \in Workers : /\ Hashing(w)' => Hashing(w)
                        /\ Own(w)' = Own(w)
    BY DEF Hashing, Own
<1>7. HeldOnce'
    BY <1>6 DEF HeldOnce, Passed
<1> QED BY <1>1, <1>2, <1>3, <1>4, <1>5, <1>7 DEF SharesInv

\* Without a job there is no share of the current job.
LEMMA NoJobStep ==
    ASSUME IInv, m_currentJob' = NoJob, ~locked,
           UNCHANGED <<locked, m_nonce, offered, posted, sent, thread, localJob, localNonce>>,
           gui' # "update"
    PROVE  SharesInv'
<1> USE JobsAssumption DEF IInv
<1>1. JobsKnown'
    BY DEF JobsKnown
<1>2. WorkersReady'
    BY DEF WorkersReady
<1>3. JobHidden'
    BY DEF JobHidden
<1>4. NoJob \notin offered
    BY DEF TypeOK
<1>5. SentOnce'
    BY <1>4 DEF SentOnce, JobsKnown
<1>6. QueuedOnce'
    BY <1>4 DEF QueuedOnce, JobsKnown
<1>7. \A w \in Workers : ~Hashing(w)'
    BY DEF Hashing, WorkersReady
<1>8. HeldOnce'
    BY <1>7 DEF HeldOnce
<1> QED BY <1>1, <1>2, <1>3, <1>5, <1>6, <1>8 DEF SharesInv

\* Nothing of a job exists when the pool hands it out.
LEMMA SetJobStep ==
    ASSUME IInv, NEW j \in Jobs, SetJob(j)
    PROVE  SharesInv'
<1> USE JobsAssumption DEF IInv
<1>0. /\ m_currentJob' = j /\ j \notin offered /\ j # NoJob
      /\ offered' = offered \cup {j}
      /\ gui' = "update"
      /\ UNCHANGED <<m_nonce, posted, sent, thread, localJob, localNonce>>
    BY DEF SetJob, worker
<1>a. locked'
    BY DEF SetJob
<1>1. JobsKnown'
    BY <1>0, <1>a DEF JobsKnown
<1>2. WorkersReady'
    BY <1>0 DEF WorkersReady
<1>3. JobHidden'
    BY <1>0 DEF JobHidden, JobsKnown
<1>5. SentOnce'
    BY <1>0 DEF SentOnce, JobsKnown
<1>6. QueuedOnce'
    BY <1>0 DEF QueuedOnce, JobsKnown
<1>7. \A w \in Workers : ~Hashing(w)'
    BY <1>0 DEF Hashing, JobsKnown
<1>8. HeldOnce'
    BY <1>7 DEF HeldOnce
<1> QED BY <1>1, <1>2, <1>3, <1>5, <1>6, <1>8 DEF SharesInv

\* The nonce is reset before the lock is free, so no share of the new job has a nonce yet.
LEMMA ResetNonceStep ==
    ASSUME IInv, ResetNonce
    PROVE  SharesInv'
<1> USE DEF IInv
<1>0. /\ gui = "update" /\ gui' = "loop" /\ m_nonce' = 0
      /\ UNCHANGED <<m_currentJob, offered, posted, sent, thread, localJob, localNonce>>
    BY DEF ResetNonce, worker
<1>a. locked
    BY <1>0 DEF JobsKnown
<1>b. ~locked'
    BY DEF ResetNonce
<1>1. JobsKnown'
    BY <1>0, <1>b DEF JobsKnown
<1>2. WorkersReady'
    BY <1>0 DEF WorkersReady
<1>3. JobHidden'
    BY <1>b DEF JobHidden
<1>5. SentOnce'
    BY <1>0, <1>a DEF SentOnce, Passed
<1>6. QueuedOnce'
    BY <1>0, <1>a DEF QueuedOnce, Passed
<1>7. \A w \in Workers : ~Hashing(w)'
    BY <1>0, <1>a DEF Hashing, JobHidden
<1>8. HeldOnce'
    BY <1>7 DEF HeldOnce
<1> QED BY <1>1, <1>2, <1>3, <1>5, <1>6, <1>8 DEF SharesInv

\* The head of the queue leaves it, and is submitted when it is of the current job.
LEMMA SubmitShareStep ==
    ASSUME IInv, SubmitShare
    PROVE  SharesInv'
<1> USE DEF IInv
<1> DEFINE head == posted[1]
<1>0. /\ UNCHANGED <<gui, m_currentJob, m_nonce, offered, thread, localJob, localNonce>>
      /\ posted \in Seq(Shares) /\ posted # <<>> /\ posted' = Tail(posted)
      /\ sent' = IF head[1] = m_currentJob THEN [sent EXCEPT ![head] = @ + 1] ELSE sent
      /\ sent \in [Shares -> Nat]
    BY DEF SubmitShare, client, worker, TypeOK
<1>a. locked' = locked
    BY DEF SubmitShare, client
<1>b. /\ 1 \in DOMAIN posted /\ head \in Shares
      /\ \A i \in DOMAIN posted' : i + 1 \in DOMAIN posted /\ posted'[i] = posted[i + 1]
      /\ \A i \in DOMAIN posted' : i \in Nat \ {0}
    BY <1>0
<1>c. /\ \A s \in Shares : s # head => sent'[s] = sent[s]
      /\ head[1] # m_currentJob => sent'[head] = sent[head]
      /\ head[1] = m_currentJob => sent[head] = 0 /\ sent'[head] = 1 /\ Passed(head)
    BY <1>0, <1>b DEF QueuedOnce
<1>d. head[1] \in offered
    BY <1>b DEF JobsKnown
<1>1. JobsKnown'
    BY <1>0, <1>a, <1>b, <1>c, <1>d DEF JobsKnown
<1>2. WorkersReady'
    BY <1>0 DEF WorkersReady
<1>3. JobHidden'
    BY <1>0, <1>a DEF JobHidden
<1>5. SentOnce'
    BY <1>0, <1>a, <1>c DEF SentOnce, Passed
<1>6. QueuedOnce'
    <2>1. ASSUME NEW i \in DOMAIN posted', posted'[i][1] = m_currentJob
          PROVE  Passed(posted[i])' /\ sent'[posted'[i]] = 0
        <3>1. i + 1 \in DOMAIN posted /\ posted'[i] = posted[i + 1] /\ i + 1 # 1
            BY <1>b
        <3>2. posted'[i] # head /\ posted'[i] \in Shares
            BY <3>1, <2>1, <1>b, <1>0 DEF QueuedOnce
        <3>3. Passed(posted[i + 1]) /\ sent[posted[i + 1]] = 0
            BY <3>1, <2>1 DEF QueuedOnce
        <3> QED BY <3>1, <3>2, <3>3, <1>0, <1>a, <1>c DEF Passed
    <2>2. ASSUME NEW i \in DOMAIN posted', NEW k \in DOMAIN posted',
                 posted'[i][1] = m_currentJob, posted'[i] = posted'[k]
          PROVE  i = k
        <3>1. /\ i + 1 \in DOMAIN posted /\ k + 1 \in DOMAIN posted
              /\ posted[i + 1][1] = m_currentJob /\ posted[i + 1] = posted[k + 1]
            BY <2>2, <1>b
        <3>2. i + 1 = k + 1
            BY <3>1 DEF QueuedOnce
        <3> QED BY <3>2, <1>b
    <2> QED BY <2>1, <2>2, <1>0 DEF QueuedOnce
<1>7. \A w \in Workers : (Hashing(w)' <=> Hashing(w)) /\ Own(w)' = Own(w)
    BY <1>0 DEF Hashing, Own
<1>8. HeldOnce'
    <2>1. ASSUME NEW w \in Workers, Hashing(w)
          PROVE  /\ Passed(Own(w))'
                 /\ sent'[Own(w)] = 0
                 /\ \A i \in DOMAIN posted' : posted'[i] # Own(w)
        <3>1. Own(w) \in Shares
            BY <2>1 DEF Hashing, WorkersReady, Own, Shares
        <3>2. Passed(Own(w)) /\ sent[Own(w)] = 0 /\ \A i \in DOMAIN posted : posted[i] # Own(w)
            BY <2>1 DEF HeldOnce
        <3>3. Own(w) # head
            BY <3>2, <1>b
        <3>4. Passed(Own(w))'
            BY <3>2, <1>0, <1>a, <1>7 DEF Passed
        <3> QED BY <3>1, <3>2, <3>3, <3>4, <1>b, <1>c
    <2> QED BY <2>1, <1>0, <1>7 DEF HeldOnce
<1> QED BY <1>1, <1>2, <1>3, <1>5, <1>6, <1>8 DEF SharesInv

\* A worker copies the current job while the lock is free.
LEMMA ReadJobStep ==
    ASSUME IInv, NEW w \in Workers, ReadJob(w)
    PROVE  SharesInv'
<1> USE JobsAssumption DEF IInv
<1>0. /\ UNCHANGED <<gui, m_currentJob, m_nonce, offered, posted, sent, localNonce>>
      /\ \A v \in Workers : localJob'[v] \in {localJob[v], m_currentJob}
      /\ \A v \in Workers : v # w => localJob'[v] = localJob[v] /\ thread'[v] = thread[v]
      /\ thread'[w] \in {"check", "take"}
      /\ thread'[w] = "take" => localJob'[w] = m_currentJob /\ m_currentJob \in Jobs
    BY DEF ReadJob, client, Stand, TypeOK
<1>a. ~locked /\ ~locked'
    BY DEF ReadJob, client
<1>1. JobsKnown'
    BY <1>0, <1>a DEF JobsKnown
<1>2. WorkersReady'
    BY <1>0 DEF WorkersReady
<1>3. JobHidden'
    BY <1>a DEF JobHidden
<1>5. SentOnce'
    BY <1>0, <1>a DEF SentOnce, Passed
<1>6. QueuedOnce'
    BY <1>0, <1>a DEF QueuedOnce, Passed
<1>7. \A v \in Workers : Hashing(v)' => v # w /\ Hashing(v) /\ Own(v)' = Own(v)
    BY <1>0 DEF Hashing, Own
<1>8. HeldOnce'
    BY <1>0, <1>a, <1>7 DEF HeldOnce, Passed
<1> QED BY <1>1, <1>2, <1>3, <1>5, <1>6, <1>8 DEF SharesInv

\* The nonce a worker takes is above every nonce of the current job.
LEMMA TakeNonceStep ==
    ASSUME IInv, NEW w \in Workers, TakeNonce(w)
    PROVE  SharesInv'
<1> USE DEF IInv
<1>0. /\ UNCHANGED <<gui, m_currentJob, offered, posted, sent, localJob>>
      /\ m_nonce \in Nat /\ m_nonce' = m_nonce + 1 /\ m_nonce' \in Nonces
      /\ localNonce'[w] = m_nonce'
      /\ thread[w] = "take"
      /\ \A v \in Workers : v # w => localNonce'[v] = localNonce[v] /\ thread'[v] = thread[v]
    BY NonceAssumption DEF TakeNonce, Stand, TypeOK, Nonces
<1>a. locked' = locked
    BY DEF TakeNonce
<1>b. \A s \in Shares : Passed(s) => Passed(s)' /\ s[2] < m_nonce'
    <2>1. \A s \in Shares : s[2] \in Nat
        BY DEF Shares, Nonces
    <2> QED BY <2>1, <1>0, <1>a DEF Passed
<1>c. \A i \in DOMAIN posted : posted[i] \in Shares
    BY DEF TypeOK
<1>d. localJob[w] \in Jobs /\ Own(w)' \in Shares
    BY <1>0 DEF WorkersReady, Own, Shares
<1>1. JobsKnown'
    BY <1>0, <1>a DEF JobsKnown
<1>2. WorkersReady'
    BY <1>0, <1>d DEF WorkersReady
<1>3. JobHidden'
    BY <1>0, <1>a DEF JobHidden
<1>5. SentOnce'
    BY <1>0, <1>b DEF SentOnce
<1>6. QueuedOnce'
    BY <1>0, <1>b, <1>c DEF QueuedOnce
<1>7. ASSUME NEW v \in Workers, v # w
      PROVE  (Hashing(v)' <=> Hashing(v)) /\ Own(v)' = Own(v)
    BY <1>0, <1>7 DEF Hashing, Own
<1>8. ASSUME NEW v \in Workers, v # w, Hashing(v)'
      PROVE  /\ Own(v) \in Shares /\ Passed(Own(v)) /\ sent[Own(v)] = 0
             /\ \A i \in DOMAIN posted : posted[i] # Own(v)
             /\ localNonce'[v] < m_nonce'
    <2>1. Hashing(v)
        BY <1>7, <1>8
    <2>2. Own(v) \in Shares /\ Own(v)[2] = localNonce[v]
        BY <2>1 DEF Hashing, WorkersReady, Own, Shares
    <2>3. Passed(Own(v)) /\ sent[Own(v)] = 0 /\ \A i \in DOMAIN posted : posted[i] # Own(v)
        BY <2>1 DEF HeldOnce
    <2> QED BY <2>2, <2>3, <1>b, <1>0, <1>8
<1>9. ASSUME Hashing(w)'
      PROVE  /\ Passed(Own(w))' /\ sent[Own(w)'] = 0
             /\ \A i \in DOMAIN posted : posted[i] # Own(w)'
    <2>1. /\ Own(w)'[1] = m_currentJob /\ Own(w)'[2] = m_nonce'
        BY <1>9, <1>0 DEF Hashing, Own
    <2>2. ~locked
        BY <1>9, <1>0 DEF Hashing, JobHidden
    <2>3. Passed(Own(w))'
        BY <2>1, <2>2, <1>0, <1>a DEF Passed
    <2>4. sent[Own(w)'] = 0
        BY <2>1, <1>b, <1>d, <1>0 DEF SentOnce
    <2>5. \A i \in DOMAIN posted : posted[i] # Own(w)'
        BY <2>1, <1>b, <1>c, <1>0 DEF QueuedOnce
    <2> QED BY <2>3, <2>4, <2>5
<1>10. HeldOnce'
    <2>1. ASSUME NEW v \in Workers, Hashing(v)'
          PROVE  /\ Passed(Own(v))' /\ sent[Own(v)'] = 0
                 /\ \A i \in DOMAIN posted : posted[i] # Own(v)'
        <3>1. CASE v = w
            BY <3>1, <2>1, <1>9
        <3>2. CASE v # w
            <4>1. Own(v)' = Own(v)
                BY <3>2, <1>7
            <4>2. Own(v) \in Shares /\ Passed(Own(v)) /\ sent[Own(v)] = 0
                  /\ \A i \in DOMAIN posted : posted[i] # Own(v)
                BY <3>2, <2>1, <1>8
            <4>3. Passed(Own(v))'
                BY <4>1, <4>2, <1>0, <1>a, <1>b DEF Passed
            <4> QED BY <4>1, <4>2, <4>3
        <3> QED BY <3>1, <3>2
    <2>2. ASSUME NEW u \in Workers, NEW v \in Workers, Hashing(u)', Hashing(v)',
                 localNonce'[u] = localNonce'[v]
          PROVE  u = v
        <3>1. CASE u # w /\ v # w
            BY <3>1, <2>2, <1>7, <1>0 DEF HeldOnce
        <3>2. CASE u = w /\ v # w
            BY <3>2, <2>2, <1>8, <1>0 DEF Nonces
        <3>3. CASE v = w /\ u # w
            BY <3>3, <2>2, <1>8, <1>0 DEF Nonces
        <3> QED BY <3>1, <3>2, <3>3
    <2> QED BY <2>1, <2>2, <1>0 DEF HeldOnce
<1> QED BY <1>1, <1>2, <1>3, <1>5, <1>6, <1>10 DEF SharesInv

\* A share goes from the worker that found it to the queue, or is none.
LEMMA HashStep ==
    ASSUME IInv, NEW w \in Workers, Hash(w)
    PROVE  SharesInv'
<1> USE DEF IInv
<1> DEFINE share == Own(w)
           last == Len(posted) + 1
<1>0. /\ UNCHANGED <<gui, m_currentJob, m_nonce, offered, sent, localJob, localNonce>>
      /\ thread[w] = "hash" /\ thread'[w] = "check"
      /\ \A v \in Workers : v # w => thread'[v] = thread[v]
      /\ posted \in Seq(Shares)
      /\ posted' = posted \/ posted' = Append(posted, share)
    BY DEF Hash, Stand, client, TypeOK, Own
<1>a. locked' = locked
    BY DEF Hash, client
<1>b. \A i \in DOMAIN posted' :
        \/ i \in DOMAIN posted /\ posted'[i] = posted[i]
        \/ i = last /\ posted'[i] = share
    BY <1>0
<1>c. share \in Shares /\ share[1] \in offered
    BY <1>0, JobsAssumption DEF WorkersReady, JobsKnown, Own, Shares
<1>d. share[1] = m_currentJob =>
        Passed(share) /\ sent[share] = 0 /\ \A i \in DOMAIN posted : posted[i] # share
    BY <1>0 DEF HeldOnce, Hashing, Own
<1>e. \A s : Passed(s)' <=> Passed(s)
    BY <1>0, <1>a DEF Passed
<1>1. JobsKnown'
    BY <1>0, <1>a, <1>b, <1>c DEF JobsKnown
<1>2. WorkersReady'
    BY <1>0 DEF WorkersReady
<1>3. JobHidden'
    BY <1>0, <1>a DEF JobHidden
<1>5. SentOnce'
    BY <1>0, <1>e DEF SentOnce
<1>6. QueuedOnce'
    <2>1. ASSUME NEW i \in DOMAIN posted', posted'[i][1] = m_currentJob
          PROVE  Passed(posted'[i]) /\ sent[posted'[i]] = 0
        BY <2>1, <1>b, <1>d DEF QueuedOnce
    <2>2. ASSUME NEW i \in DOMAIN posted', NEW k \in DOMAIN posted',
                 posted'[i][1] = m_currentJob, posted'[i] = posted'[k]
          PROVE  i = k
        BY <2>2, <1>b, <1>d DEF QueuedOnce
    <2>3. \A i \in DOMAIN posted' : Passed(posted[i])' <=> Passed(posted'[i])
        BY <1>0, <1>a DEF Passed
    <2> QED BY <2>1, <2>2, <2>3, <1>0 DEF QueuedOnce
<1>7. \A v \in Workers : Hashing(v)' => v # w /\ Hashing(v)
    BY <1>0 DEF Hashing
<1>8. \A v \in Workers : Own(v)' = Own(v)
    BY <1>0 DEF Own
<1>9. HeldOnce'
    <2>1. ASSUME NEW v \in Workers, v # w, Hashing(v)
          PROVE  /\ Passed(Own(v)) /\ sent[Own(v)] = 0
                 /\ \A i \in DOMAIN posted' : posted'[i] # Own(v)
        <3>1. Own(v) # share
            BY <2>1, <1>0 DEF HeldOnce, Hashing, Own
        <3> QED BY <2>1, <3>1, <1>b DEF HeldOnce
    <2> QED BY <2>1, <1>0, <1>7, <1>8, <1>e DEF HeldOnce
<1> QED BY <1>1, <1>2, <1>3, <1>5, <1>6, <1>9 DEF SharesInv

\* The steps of a worker that touch no share.
LEMMA IdleSteps ==
    ASSUME IInv, NEW w \in Workers, Start(w) \/ Run(w) \/ Finish(w) \/ CheckStopped(w)
    PROVE  SharesInv'
<1>1. UNCHANGED <<gui, m_currentJob, locked, m_nonce, offered, posted, sent, localJob, localNonce>>
    BY DEF Start, Run, Finish, CheckStopped, client
<1>2. \A v \in Workers : thread'[v] \in {"take", "hash"} => thread'[v] = thread[v]
    BY DEF Start, Run, Finish, CheckStopped, Stand, IInv, TypeOK
<1> QED BY <1>1, <1>2, QuietStep

-----------------------------------------------------------------------------
LEMMA InvInit == Init => IInv
<1> SUFFICES ASSUME Init PROVE IInv
    OBVIOUS
<1>1. TypeOK
    <2>1. 0 \in 0..MaxNonce
        BY NonceAssumption
    <2>2. posted \in Seq(Shares)
        BY DEF Init
    <2>3. sent \in [Shares -> Nat] /\ locked \in BOOLEAN
        BY DEF Init
    <2> QED BY <2>1, <2>2, <2>3 DEF Init, TypeOK
<1>2. JobsKnown /\ WorkersReady /\ JobHidden
    BY DEF Init, JobsKnown, WorkersReady, JobHidden
<1>3. SentOnce /\ QueuedOnce
    BY DEF Init, SentOnce, QueuedOnce
<1>4. HeldOnce
    BY DEF Init, HeldOnce, Hashing
<1> QED BY <1>1, <1>2, <1>3, <1>4 DEF IInv

LEMMA InvStep == IInv /\ [Next]_vars => IInv'
<1> SUFFICES ASSUME IInv, [Next]_vars PROVE TypeOK' /\ SharesInv'
    BY DEF IInv, SharesInv
<1> USE DEF IInv
<1>1. ASSUME NEW j \in Jobs, SetJob(j) PROVE SharesInv'
    BY <1>1, SetJobStep
<1>2. ASSUME ResetNonce PROVE SharesInv'
    BY <1>2, ResetNonceStep
<1>3. ASSUME SubmitShare PROVE SharesInv'
    BY <1>3, SubmitShareStep
<1>4. ASSUME ClearJob \/ StopMiner PROVE SharesInv'
    <2>1. ~locked
        BY <1>4 DEF ClearJob, StopMiner, JobsKnown
    <2> QED BY <1>4, <2>1, NoJobStep DEF ClearJob, StopMiner, worker
<1>5. ASSUME NEW w \in Workers, StopWorker(w) \/ QuitThread(w) PROVE SharesInv'
    BY <1>5, QuietStep DEF StopWorker, QuitThread, client, worker
<1>6. ASSUME Wait PROVE SharesInv'
    BY <1>6, QuietStep DEF Wait, client, worker
<1>7. ASSUME NEW w \in Workers, WorkerNext(w) PROVE SharesInv'
    BY <1>7, IdleSteps, ReadJobStep, TakeNonceStep, HashStep DEF WorkerNext
<1>8. CASE UNCHANGED vars
    <2>1. TypeOK'
        BY <1>8 DEF TypeOK, vars
    <2>2. SharesInv'
        BY <1>8, QuietStep DEF vars
    <2> QED BY <2>1, <2>2
<1>9. Next => TypeOK'
    BY GuiTypes, WorkerTypes DEF Next
<1> QED BY <1>1, <1>2, <1>3, <1>4, <1>5, <1>6, <1>7, <1>8, <1>9 DEF Next, GuiNext

\* The inductive invariant: what JobsKnown, JobHidden and the Once conjuncts say of the code of
\* Worker::run(), updateJob() and submitShare() holds in every reachable state.
THEOREM InvCorrect == Spec => []IInv
    BY InvInit, InvStep, PTL DEF Spec

\* Miner, StratumClient and the workers keep their variables in the types of TypeOK.
THEOREM MiningTypes == Spec => []TypeOK
<1>1. IInv => TypeOK
    BY DEF IInv
<1> QED BY InvCorrect, <1>1, PTL

\* Worker::run() and updateJob() never give a nonce of the current job to two workers, and no
\* share of it is twice in the queue of submitShareSignal or on the socket.
THEOREM SharesTriedOnce == Spec => []TriedOnce
<1>1. ASSUME IInv, NEW n \in Nonces, m_currentJob \in Jobs
      PROVE  LET share == <<m_currentJob, n>> IN
            /\ \A v, w \in Workers : Holds(v, share) /\ Holds(w, share) => v = w
            /\ \A i, k \in Queued(share) : i = k
            /\ (\E w \in Workers : Holds(w, share)) => Queued(share) = {} /\ sent[share] = 0
            /\ Queued(share) # {} => sent[share] = 0
            /\ sent[share] <= 1
    <2> DEFINE share == <<m_currentJob, n>>
    <2>1. share \in Shares /\ share[1] = m_currentJob /\ sent[share] \in Nat
        BY <1>1 DEF Shares, IInv, TypeOK
    <2>2. \A w \in Workers : Holds(w, share) => Hashing(w) /\ Own(w) = share /\ localNonce[w] = n
        BY DEF Holds, Hashing, Own
    <2>3. \A v, w \in Workers : Holds(v, share) /\ Holds(w, share) => v = w
        BY <2>2, <1>1 DEF IInv, HeldOnce
    <2>4. \A i, k \in Queued(share) : i = k
        BY <2>1, <1>1 DEF IInv, QueuedOnce, Queued
    <2>5. (\E w \in Workers : Holds(w, share)) => Queued(share) = {} /\ sent[share] = 0
        BY <2>2, <1>1 DEF IInv, HeldOnce, Queued
    <2>6. Queued(share) # {} => sent[share] = 0
        BY <2>1, <1>1 DEF IInv, QueuedOnce, Queued
    <2>7. sent[share] <= 1
        BY <2>1, <1>1 DEF IInv, SentOnce
    <2> QED BY <2>3, <2>4, <2>5, <2>6, <2>7
<1>2. IInv => TriedOnce
    BY <1>1 DEF TriedOnce
<1> QED BY InvCorrect, <1>2, PTL

\* What the pool sees of the miner is what ShareLedger promises: a share at most once, while
\* its job is the current one.
THEOREM Implementation == Spec => ImplementsLedger
<1>1. Init => Ledger!LedgerInit
    BY DEF Init, Ledger!LedgerInit, Shares, Ledger!Shares
<1>2. ASSUME IInv, [Next]_vars PROVE [Ledger!LedgerNext]_<<m_currentJob, sent>>
    <2>1. CASE \E j \in Jobs : SetJob(j)
        BY <2>1 DEF SetJob, Ledger!LedgerNext, Ledger!ChangeJob
    <2>2. CASE ClearJob \/ StopMiner
        BY <2>2 DEF ClearJob, StopMiner, Ledger!LedgerNext, Ledger!ChangeJob
    <2>3. CASE SubmitShare
        <3> DEFINE head == posted[1]
        <3>1. /\ 1 \in DOMAIN posted /\ head \in Shares
              /\ sent' = IF head[1] = m_currentJob THEN [sent EXCEPT ![head] = @ + 1] ELSE sent
              /\ m_currentJob' = m_currentJob
            BY <1>2, <2>3 DEF SubmitShare, client, IInv, TypeOK
        <3>2. CASE head[1] = m_currentJob
            <4>1. sent[head] = 0
                BY <1>2, <3>1, <3>2 DEF IInv, QueuedOnce
            <4>2. head = <<m_currentJob, head[2]>> /\ head[2] \in Nonces /\ m_currentJob \in Jobs
                BY <3>1, <3>2 DEF Shares
            <4>3. sent' = [sent EXCEPT ![head] = 1]
                BY <3>1, <3>2, <4>1
            <4>4. Ledger!Submit(head[2])
                BY <3>1, <4>1, <4>2, <4>3 DEF Ledger!Submit
            <4> QED BY <4>2, <4>4 DEF Ledger!LedgerNext
        <3>3. CASE head[1] # m_currentJob
            BY <3>1, <3>3
        <3> QED BY <3>2, <3>3
    <2>4. CASE UNCHANGED vars
        BY <2>4 DEF vars
    <2>5. ASSUME ResetNonce \/ Wait \/ (\E w \in Workers : StopWorker(w) \/ QuitThread(w))
          PROVE  UNCHANGED <<m_currentJob, sent>>
        BY <2>5 DEF ResetNonce, Wait, StopWorker, QuitThread, client
    <2>6. ASSUME NEW w \in Workers, WorkerNext(w) PROVE UNCHANGED <<m_currentJob, sent>>
        BY <2>6 DEF WorkerNext, Start, Run, Finish, CheckStopped, ReadJob, TakeNonce, Hash, client
    <2> QED BY <1>2, <2>1, <2>2, <2>3, <2>4, <2>5, <2>6 DEF Next, GuiNext
<1> QED BY <1>1, <1>2, InvCorrect, PTL DEF Spec, ImplementsLedger, Ledger!LedgerSpec
=============================================================================
