------------------------------ MODULE Balances ------------------------------
(***************************************************************************)
(* The four balances of a wallet on their way to the labels of             *)
(* OverviewFrame, SendFrame, SendMessageFrame and DepositsFrame.           *)
(*                                                                         *)
(* The library changes a balance on its own thread and then tells it; the  *)
(* GUI thread reads all four when the wallet is initialised, and tells     *)
(* them too.  Every value told is posted to the labels.  The total of the  *)
(* deposits is the sum of a value that was posted and of the other one as  *)
(* it is when the post is taken.  The user closes a wallet that has been   *)
(* initialised, and WalletAdapter::close() takes what was posted before    *)
(* the wallet is deleted.                                                  *)
(***************************************************************************)
EXTENDS Naturals, SequencesExt

CONSTANTS
    MaxBalance,  \* bound on a balance
    PostLimit    \* bound on what is posted when the library tells a balance

ASSUME BalancesAssumption == MaxBalance \in Nat \ {0} /\ PostLimit \in Nat \ {0}

\* In the order in which onWalletInitCompleted() tells them.
Kinds == <<"actual", "pending", "actualDeposit", "pendingDeposit">>
Kind == Range(Kinds)

VARIABLES
    stage,      \* m_wallet: none, "loading", "loaded" by the library, or "ready"
    owned,      \* the balances of the wallet
    untold,     \* those the library has changed and not told
    posts,      \* posted to the GUI thread: values, and "loaded"
    told,       \* how many onWalletInitCompleted() has told, 4 when it is not running
    reading,    \* the value it has read and not told, or none
    labels,     \* what the frames show
    \* observation
    overtaken   \* told by onWalletInitCompleted() after the library had told a newer value

balancesVars == <<stage, owned, untold, posts, told, reading, labels, overtaken>>

Zero == [k \in Kind |-> 0]
NothingRead == {}
Labels == {"actual", "pending", "send", "message", "deposit", "unlocked", "locked", "total"}

BalancesTypeOK ==
    /\ stage \in {"none", "loading", "loaded", "ready"}
    /\ owned \in [Kind -> 0..MaxBalance] /\ untold \subseteq Kind /\ overtaken \subseteq Kind
    /\ posts \in Seq([kind : Kind \cup {"loaded"}, value : 0..MaxBalance])
    /\ told \in 0..4 /\ reading \in {NothingRead} \cup {{v} : v \in 0..MaxBalance}
    /\ labels \in [Labels -> 0..2 * MaxBalance]

BalancesInit ==
    /\ stage = "none" /\ owned = Zero /\ untold = {} /\ overtaken = {}
    /\ posts = <<>> /\ told = 4 /\ reading = NothingRead
    /\ labels = [l \in Labels |-> 0]

(***************************************************************************)
(* The slots: what each makes of the labels.                               *)
(***************************************************************************)
\* getActualDepositBalance() and the other three: 0 without a wallet.
Balance(kind) == IF stage = "none" THEN 0 ELSE owned[kind]

\* OverviewFrame
actualBalanceUpdated(l, value) == [l EXCEPT !["actual"] = value]
pendingBalanceUpdated(l, value) == [l EXCEPT !["pending"] = value]
resetOverview(l) == pendingBalanceUpdated(actualBalanceUpdated(l, 0), 0)

\* SendFrame, SendMessageFrame and DepositsFrame.  Nothing sets these to 0 at the end.
sendBalanceUpdated(l, value) == [l EXCEPT !["send"] = value]
messageBalanceUpdated(l, value) == [l EXCEPT !["message"] = value]
walletActualBalanceUpdated(l, value) == [l EXCEPT !["deposit"] = value]

\* Mutation of actualDepositBalanceUpdated: the locked deposits are forgotten.
UnlockedIsTotal(l, value) == [l EXCEPT !["unlocked"] = value, !["total"] = value]

\* DepositsFrame
actualDepositBalanceUpdated(l, value) ==
    [l EXCEPT !["unlocked"] = value, !["total"] = value + Balance("pendingDeposit")]
pendingDepositBalanceUpdated(l, value) ==
    [l EXCEPT !["locked"] = value, !["total"] = value + Balance("actualDeposit")]
resetDepositsFrame(l) == pendingDepositBalanceUpdated(actualDepositBalanceUpdated(l, 0), 0)

Slot(l, post) ==
    CASE post.kind = "actual" ->
             walletActualBalanceUpdated(messageBalanceUpdated(sendBalanceUpdated(
                 actualBalanceUpdated(l, post.value), post.value), post.value), post.value)
      [] post.kind = "pending" -> pendingBalanceUpdated(l, post.value)
      [] post.kind = "actualDeposit" -> actualDepositBalanceUpdated(l, post.value)
      [] post.kind = "pendingDeposit" -> pendingDepositBalanceUpdated(l, post.value)
      [] OTHER -> l

\* The slots of what is posted, one after the other.
AllSlots(l, queue) ==
    LET after[i \in 0..Len(queue)] == IF i = 0 THEN l ELSE Slot(after[i - 1], queue[i])
    IN after[Len(queue)]

(***************************************************************************)
(* The library.                                                            *)
(***************************************************************************)
HasRoom == Len(posts) < PostLimit

\* Before it is initialised nobody is told of the balances it finds in the file.
LibraryLoads(balances) ==
    /\ stage = "loading" /\ stage' = "loaded" /\ owned' = balances
    /\ posts' = Append(posts, [kind |-> "loaded", value |-> 0])
    /\ UNCHANGED <<untold, told, reading, labels, overtaken>>

LibraryFails ==
    /\ stage = "loading" /\ stage' = "none"
    /\ UNCHANGED <<owned, untold, posts, told, reading, labels, overtaken>>

LibraryChanges(kind, value) ==
    /\ stage \in {"loaded", "ready"} /\ kind \notin untold /\ value # owned[kind]
    /\ owned' = [owned EXCEPT ![kind] = value]
    /\ untold' = untold \cup {kind}
    /\ UNCHANGED <<stage, posts, told, reading, labels, overtaken>>

\* actualBalanceUpdated() and the other three of WalletAdapter.
LibraryTells(kind) ==
    /\ kind \in untold /\ untold' = untold \ {kind}
    /\ HasRoom /\ posts' = Append(posts, [kind |-> kind, value |-> owned[kind]])
    /\ overtaken' = overtaken \ {kind}
    /\ UNCHANGED <<stage, owned, told, reading, labels>>

(***************************************************************************)
(* The GUI thread.                                                         *)
(***************************************************************************)
Idle == told = 4

TakesPost ==
    /\ Idle /\ posts # <<>> /\ posts' = Tail(posts)
    /\ labels' = Slot(labels, posts[1])
    /\ IF posts[1].kind = "loaded" THEN told' = 0 /\ stage' = "ready" ELSE UNCHANGED <<told, stage>>
    /\ UNCHANGED <<owned, untold, reading, overtaken>>

\* onWalletInitCompleted(): reads a balance, then tells it.
ReadsBalance ==
    /\ told < 4 /\ reading = NothingRead
    /\ reading' = {owned[Kinds[told + 1]]}
    /\ UNCHANGED <<stage, owned, untold, posts, told, labels, overtaken>>

TellsBalance ==
    /\ \E value \in reading :
           LET kind == Kinds[told + 1]
           IN /\ posts' = Append(posts, [kind |-> kind, value |-> value])
              /\ overtaken' = IF value # owned[kind] /\ kind \notin untold THEN overtaken \cup {kind}
                              ELSE overtaken
    /\ told' = told + 1 /\ reading' = NothingRead
    /\ UNCHANGED <<stage, owned, untold, labels>>

OpensWallet ==
    /\ Idle /\ stage = "none" /\ stage' = "loading"
    /\ UNCHANGED <<owned, untold, posts, told, reading, labels, overtaken>>

\* close(): the slots of walletCloseCompletedSignal run while there still is a wallet.
ClosesWallet ==
    /\ Idle /\ stage = "ready" /\ stage' = "none"
    /\ labels' = resetDepositsFrame(resetOverview(AllSlots(labels, posts)))
    /\ posts' = <<>> /\ untold' = {} /\ overtaken' = {} /\ owned' = Zero
    /\ UNCHANGED <<told, reading>>

BalancesNext ==
    \/ LibraryFails \/ TakesPost \/ ReadsBalance \/ TellsBalance \/ OpensWallet \/ ClosesWallet
    \/ \E balances \in [Kind -> 0..MaxBalance] : LibraryLoads(balances)
    \/ \E kind \in Kind, value \in 0..MaxBalance : LibraryChanges(kind, value)
    \/ \E kind \in Kind : LibraryTells(kind)

BalancesSpec == BalancesInit /\ [][BalancesNext]_balancesVars

-----------------------------------------------------------------------------
(* When nothing is on its way any more, the labels show the balances of    *)
(* the wallet that is open, none that was before it, and the total of its  *)
(* deposits, although the sum is made of values of two times; without a    *)
(* wallet the overview shows nothing.  The exception is a balance that     *)
(* onWalletInitCompleted() has read before the library changed it and      *)
(* tells after the library has told the change.                            *)
BalancesShown ==
    posts = <<>> /\ Idle /\ untold = {} =>
        /\ stage = "ready" =>
               /\ "actual" \notin overtaken =>
                      \A l \in {"actual", "send", "message", "deposit"} : labels[l] = owned["actual"]
               /\ "pending" \notin overtaken => labels["pending"] = owned["pending"]
               /\ {"actualDeposit", "pendingDeposit"} \cap overtaken = {} =>
                      /\ labels["unlocked"] = owned["actualDeposit"]
                      /\ labels["locked"] = owned["pendingDeposit"]
                      /\ labels["total"] = owned["actualDeposit"] + owned["pendingDeposit"]
        /\ stage = "none" => \A l \in {"actual", "pending", "unlocked", "locked"} : labels[l] = 0
=============================================================================
