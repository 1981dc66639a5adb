------------------------- MODULE TransactionFeedMC -------------------------
(***************************************************************************)
(* The transactions of a wallet on their way to the lists, and what the    *)
(* rows tell of them: a behaviour is about one "part", and the two have no *)
(* variables in common.                                                    *)
(***************************************************************************)
EXTENDS TransactionFeed, RowDetails

VARIABLE part

MCReceipt ==
    [isCoinbase |-> FALSE, totalAmount |-> 5, fee |-> 1, transfers |-> <<>>,
     deposit |-> 0, messages |-> FALSE]

\* A message to two recipients.
MCMessage ==
    [isCoinbase |-> FALSE, totalAmount |-> -4, fee |-> 1,
     transfers |-> <<[address |-> "a", amount |-> 1], [address |-> "b", amount |-> 2]>>,
     deposit |-> 0, messages |-> TRUE]

MCReceivedMessage == [MCReceipt EXCEPT !.messages = TRUE]

MCDeposit ==
    [isCoinbase |-> FALSE, totalAmount |-> -8, fee |-> 1, transfers |-> <<>>,
     deposit |-> 7, messages |-> FALSE]

\* A payment to oneself, and the reward of a block.
MCToMyself ==
    [isCoinbase |-> FALSE, totalAmount |-> -1, fee |-> 1,
     transfers |-> <<[address |-> "me", amount |-> 3]>>, deposit |-> 0, messages |-> FALSE]

MCMined == [MCReceipt EXCEPT !.isCoinbase = TRUE, !.fee = 0]

MCReceived == {MCReceivedMessage}
MCSent == {MCMessage, MCDeposit}
MCStored == {<<>>, <<MCMessage>>}
MCFound == {MCReceipt, MCMessage, MCDeposit, MCToMyself, MCMined}

mcVars == <<part, vars, detailVars>>

MCInit == part \in {"feed", "rows"} /\ Init /\ DetailsInit

MCNext ==
    \/ part = "feed" /\ Next /\ UNCHANGED <<part, detailVars>>
    \/ part = "rows" /\ DetailsNext /\ UNCHANGED <<part, vars>>

MCSpec == MCInit /\ [][MCNext]_mcVars /\ Fairness

-----------------------------------------------------------------------------
(* The variables of both parts have the values their definitions name.     *)
MCTypeOK == TypeOK /\ DetailsTypeOK
=============================================================================
