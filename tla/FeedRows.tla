------------------------------ MODULE FeedRows ------------------------------
(***************************************************************************)
(* The transactions a wallet keeps and the rows TransactionsModel and      *)
(* MessagesModel make of them.  Transaction i is the one whose id is i - 1 *)
(* in the code, and row i the one whose number is i - 1.                   *)
(***************************************************************************)
EXTENDS Integers, Sequences

None == 0   \* WALLET_LEGACY_INVALID_TRANSFER_ID

(* What the models read of a WalletLegacyTransaction: its destinations in  *)
(* `transfers`, the amount of the deposit it creates (0: no deposit), and  *)
(* whether it carries messages.                                            *)
Transfer == [address : STRING, amount : Nat]
Transactions ==
    [isCoinbase : BOOLEAN, totalAmount : Int, fee : Nat, transfers : Seq(Transfer),
     deposit : Nat, messages : BOOLEAN]

Row(id, transfer) == [transaction |-> id, transfer |-> transfer]

\* A row for each transfer, or one without a transfer.
RowsOf(id, tx) ==
    IF tx.transfers = <<>> THEN <<Row(id, None)>>
    ELSE [i \in DOMAIN tx.transfers |-> Row(id, i)]

\* The rows of the first n transactions, in order.
Blocks(txs, n) ==
    LET upTo[i \in 0..n] ==
            IF i = 0 THEN <<>> ELSE upTo[i - 1] \o RowsOf(i, txs[i])
    IN upTo[n]

Deposits(txs) == {i \in DOMAIN txs : txs[i].deposit # 0}
=============================================================================
