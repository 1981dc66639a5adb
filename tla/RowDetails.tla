----------------------------- MODULE RowDetails -----------------------------
(***************************************************************************)
(* What TransactionsModel and DepositModel tell of their rows.             *)
(*                                                                         *)
(* The rows of a transaction follow from its id, but a deposit, which      *)
(* knows the ids of the transactions that created and spent it, takes      *)
(* these for row numbers.  The library confirms transactions, detaches     *)
(* their blocks and unlocks deposits, and the node knows another height    *)
(* than the wallet.  The rows of both models lag behind the wallet, as     *)
(* TransactionFeed shows.                                                  *)
(***************************************************************************)
EXTENDS FeedRows, FiniteSetsExt

CONSTANTS
    MyAddress,    \* WalletAdapter::getAddress()
    Found,        \* the transactions the library may find
    Term,         \* of a deposit
    LedgerLimit,  \* bound on the transactions of the wallet
    TopHeight,    \* bound on the height of a block
    Clocks,       \* the icons of a transaction with few confirmations: 12
    Wrap64        \* quint64 wraps at 2^64

\* The sum of a sequence of numbers.
SumOf(numbers) ==
    LET upTo[i \in 0..Len(numbers)] == IF i = 0 THEN 0 ELSE upTo[i - 1] + numbers[i]
    IN upTo[Len(numbers)]

\* A payment to others, and what they get.
IsPayment(tx) ==
    /\ ~tx.isCoinbase /\ tx.deposit = 0 /\ tx.totalAmount < 0 /\ tx.transfers # <<>>
    /\ \A i \in DOMAIN tx.transfers : tx.transfers[i].address # MyAddress
Paid(tx) == SumOf([i \in DOMAIN tx.transfers |-> tx.transfers[i].amount])

\* A payment takes from the wallet what the others get, and the fee.
ASSUME RowDetailsAssumption ==
    /\ Found \subseteq Transactions
    /\ \A tx \in Found : IsPayment(tx) => tx.totalAmount = -(Paid(tx) + tx.fee)
    /\ Term \in Nat \ {0} /\ LedgerLimit \in Nat /\ TopHeight \in Nat
    /\ Clocks \in Nat \ {0} /\ Wrap64 \in Nat /\ Wrap64 > TopHeight + Clocks

VARIABLES
    ledger,     \* the transactions of the wallet
    height,     \* the block of each
    deposits,   \* the deposits of the wallet
    listed,     \* the transactions in TransactionsModel
    counted,    \* DepositModel::m_depositCount
    top         \* NodeAdapter::getLastKnownBlockHeight()

detailVars == <<ledger, height, deposits, listed, counted, top>>

Unconfirmed == 0   \* WALLET_LEGACY_UNCONFIRMED_TRANSACTION_HEIGHT
NoTransaction == 0 \* WALLET_LEGACY_INVALID_TRANSACTION_ID

DetailsTypeOK ==
    /\ ledger \in Seq(Transactions) /\ Len(ledger) <= LedgerLimit
    /\ height \in Seq(Unconfirmed..TopHeight) /\ Len(height) = Len(ledger)
    /\ deposits \in Seq([by : DOMAIN ledger, spentBy : DOMAIN ledger \cup {NoTransaction}, locked : BOOLEAN])
    /\ listed \in 0..Len(ledger) /\ counted \in 0..Len(deposits)
    /\ top \in 0..TopHeight

(***************************************************************************)
(* TransactionsModel                                                       *)
(***************************************************************************)
TransferOf(row) ==
    IF row.transfer = None THEN [address |-> "", amount |-> 0]
    ELSE ledger[row.transaction].transfers[row.transfer]

RowType(row) ==
    LET tx == ledger[row.transaction]
    IN IF tx.isCoinbase THEN "MINED"
       ELSE IF tx.deposit # 0 THEN "DEPOSIT"
       ELSE IF TransferOf(row).address = MyAddress THEN "INOUT"
       ELSE IF tx.totalAmount < 0 THEN "OUTPUT" ELSE "INPUT"

\* Mutation of RowAmount: every row of a payment shows the whole amount.
RowAmountOfAll(row) ==
    LET tx == ledger[row.transaction]
    IN IF RowType(row) = "DEPOSIT" THEN -(tx.fee + tx.deposit) ELSE tx.totalAmount

RowAmount(row) ==
    LET tx == ledger[row.transaction]
        type == RowType(row)
    IN CASE type = "DEPOSIT" -> -(tx.fee + tx.deposit)
         [] type \in {"OUTPUT", "INOUT"} /\ row.transfer # None -> -TransferOf(row).amount
         [] OTHER -> tx.totalAmount

TransactionRoles(row) ==
    LET h == height[row.transaction]
    IN [type |-> RowType(row), address |-> TransferOf(row).address, amount |-> RowAmount(row),
        fee |-> ledger[row.transaction].fee, height |-> h,
        confirmations |-> IF h = Unconfirmed THEN 0 ELSE (top - h + 1 + Wrap64) % Wrap64,
        deposits |-> {d \in DOMAIN deposits : deposits[d].by = row.transaction}]

\* The columns that say more, or less, than the roles.
TransactionColumns(row) ==
    LET role == TransactionRoles(row)
    IN [address |-> IF role.type \in {"INPUT", "MINED", "INOUT"} THEN "me"
                    ELSE IF role.address = "" THEN "(n/a)" ELSE role.address,
        height |-> IF role.height = Unconfirmed THEN {} ELSE {role.height}]

\* "tx-message", a clock for each number of confirmations up to 11, or "transaction".
getDecorationRole(row) ==
    LET role == TransactionRoles(row)
    IN IF role.fee = 0 /\ role.type # "MINED" THEN <<"tx-message">>
       ELSE IF role.confirmations < Clocks THEN <<"clock", role.confirmations>> ELSE <<"transaction">>

toCsv == [i \in DOMAIN Blocks(ledger, listed) |->
             LET row == Blocks(ledger, listed)[i]
             IN <<TransactionRoles(row).confirmations, TransactionRoles(row).amount, TransactionColumns(row)>>]

\* index(id, column).data(): that of the row with this number.  A number beyond the last row
\* gives the first transaction with the first transfer of the wallet, if it has one.
RowAt(id) ==
    LET list == Blocks(ledger, listed)
    IN IF id \in DOMAIN list THEN {list[id]}
       ELSE IF \E i \in DOMAIN ledger : ledger[i].transfers # <<>> THEN {Row(1, None)} ELSE {}

(***************************************************************************)
(* DepositModel                                                            *)
(***************************************************************************)
DepositRoles(d) ==
    LET deposit == deposits[d]
        creatingHeight == {height[row.transaction] : row \in RowAt(deposit.by)}
    IN [state |-> IF deposit.locked THEN "Locked"
                  ELSE IF deposit.spentBy = NoTransaction THEN "Unlocked" ELSE "Spent",
        creating |-> deposit.by, spending |-> deposit.spentBy,
        unlockHeight |-> IF creatingHeight = {Unconfirmed} THEN Unconfirmed
                         ELSE Term + (IF creatingHeight = {} THEN 0 ELSE Min(creatingHeight))]

\* A transaction's hash stands for its hash and its date.
HashAt(id) == {row.transaction : row \in RowAt(id)}
HeightAt(id) == UNION {TransactionColumns(row).height : row \in RowAt(id)}

DepositColumns(d) ==
    LET role == DepositRoles(d)
    IN [state |-> role.state,
        unlockHeight |-> IF role.unlockHeight = Unconfirmed THEN {} ELSE {role.unlockHeight},
        creatingHash |-> HashAt(role.creating), creatingHeight |-> HeightAt(role.creating),
        spendingHash |-> IF role.spending = NoTransaction THEN {} ELSE HashAt(role.spending),
        spendingHeight |-> IF role.spending = NoTransaction THEN {} ELSE HeightAt(role.spending)]

\* The rows transactionUpdated() announces as changed.
transactionUpdated(id) == UNION {TransactionRoles(row).deposits : row \in RowAt(id)}

\* The dialogs: what they say when they are opened stays.
DepositDetailsDialog(d) == DepositColumns(d)

TransactionDetailsDialog(row) ==
    LET role == TransactionRoles(row)
    IN [confirmations |-> role.confirmations, amount |-> role.amount, fee |-> role.fee,
        address |-> TransactionColumns(row).address,
        deposit |-> IF role.deposits = {} THEN {} ELSE {DepositDetailsDialog(Min(role.deposits))}]

(***************************************************************************)
(* The library and the node.                                               *)
(***************************************************************************)
DetailsInit ==
    /\ ledger = <<>> /\ height = <<>> /\ deposits = <<>>
    /\ listed = 0 /\ counted = 0 /\ top = 0

Locked(by) == [by |-> by, spentBy |-> NoTransaction, locked |-> TRUE]

Enters(tx) ==
    /\ Len(ledger) < LedgerLimit
    /\ ledger' = Append(ledger, tx) /\ height' = Append(height, Unconfirmed)

Finds(tx) ==
    /\ Enters(tx)
    /\ deposits' = IF tx.deposit = 0 THEN deposits ELSE Append(deposits, Locked(Len(ledger')))
    /\ UNCHANGED <<listed, counted, top>>

Confirms(id, h) ==
    /\ height[id] = Unconfirmed /\ h # Unconfirmed
    /\ height' = [height EXCEPT ![id] = h]
    /\ UNCHANGED <<ledger, deposits, listed, counted, top>>

\* A deposit whose block is gone is locked again.
Detaches(id) ==
    /\ height[id] # Unconfirmed
    /\ \A d \in DOMAIN deposits : deposits[d].by = id => deposits[d].spentBy = NoTransaction
    /\ height' = [height EXCEPT ![id] = Unconfirmed]
    /\ deposits' = [d \in DOMAIN deposits |->
                        IF deposits[d].by = id THEN [deposits[d] EXCEPT !.locked = TRUE] ELSE deposits[d]]
    /\ UNCHANGED <<ledger, listed, counted, top>>

Unlocks(d) ==
    /\ deposits[d].locked /\ height[deposits[d].by] # Unconfirmed
    /\ deposits' = [deposits EXCEPT ![d].locked = FALSE]
    /\ UNCHANGED <<ledger, height, listed, counted, top>>

lastKnownBlockHeightUpdated(h) ==
    /\ top' = h
    /\ UNCHANGED <<ledger, height, deposits, listed, counted>>

(***************************************************************************)
(* The GUI thread.                                                         *)
(***************************************************************************)
ListTransactions == listed' = Len(ledger) /\ UNCHANGED <<ledger, height, deposits, counted, top>>
CountDeposits == counted' = Len(deposits) /\ UNCHANGED <<ledger, height, deposits, listed, top>>

\* The library spends the deposits the frame names.
withdrawClicked ==
    LET named == {d \in 1..counted : DepositRoles(d).state = "Unlocked"}
        sum == SumOf([d \in 1..counted |-> IF d \in named THEN ledger[deposits[d].by].deposit ELSE 0])
    IN /\ named # {}
       /\ Enters([isCoinbase |-> FALSE, totalAmount |-> sum - 1, fee |-> 1, transfers |-> <<>>,
                  deposit |-> 0, messages |-> FALSE])
       /\ deposits' = [d \in DOMAIN deposits |->
                           IF d \in named THEN [deposits[d] EXCEPT !.spentBy = Len(ledger')] ELSE deposits[d]]
       /\ UNCHANGED <<listed, counted, top>>

DetailsNext ==
    \/ \E tx \in Found : Finds(tx)
    \/ \E id \in DOMAIN ledger : Detaches(id) \/ \E h \in 1..TopHeight : Confirms(id, h)
    \/ \E d \in DOMAIN deposits : Unlocks(d)
    \/ \E h \in 0..TopHeight : lastKnownBlockHeightUpdated(h)
    \/ ListTransactions \/ CountDeposits \/ withdrawClicked

DetailsSpec == DetailsInit /\ [][DetailsNext]_detailVars

-----------------------------------------------------------------------------
\* No transaction before this one, which is listed, has a second row.
InItsRow(id) ==
    id \in 1..listed /\ \A i \in 1..(id - 1) : Len(ledger[i].transfers) <= 1

(* The amounts shown for a payment to others add up to what it took from   *)
(* the wallet but for the fee, over however many rows.                     *)
AmountsAddUp ==
    LET list == Blocks(ledger, listed)
        amounts(id) == [i \in DOMAIN list |-> IF list[i].transaction = id THEN RowAmount(list[i]) ELSE 0]
    IN \A id \in 1..listed :
           (\A i \in DOMAIN list : list[i].transaction = id =>
                RowType(list[i]) = "OUTPUT" /\ list[i].transfer # None)
           => SumOf(amounts(id)) = ledger[id].totalAmount + ledger[id].fee

(* A deposit tells of the transactions that created and spent it, and is   *)
(* among the rows that are told to change with the first of them and in    *)
(* the dialog about it, unless a transaction before them has a second row, *)
(* which moves all rows after it.                                          *)
DepositsTellTheirTransactions ==
    \A d \in 1..counted :
        LET by == deposits[d].by
            spentBy == deposits[d].spentBy
            columns == DepositColumns(d)
            block(id) == {height[id]} \ {Unconfirmed}
        IN /\ InItsRow(by) =>
                  /\ columns.creatingHash = {by} /\ columns.creatingHeight = block(by)
                  /\ columns.unlockHeight = {h + Term : h \in block(by)}
                  /\ d \in transactionUpdated(by)
                  /\ \A row \in RowAt(by) : TransactionDetailsDialog(row).deposit = {columns}
           /\ InItsRow(spentBy) =>
                  columns.spendingHash = {spentBy} /\ columns.spendingHeight = block(spentBy)

(* A row is shown as confirmed when its transaction is in a block, and     *)
(* with as many confirmations as there are blocks since, unless the node   *)
(* is behind the wallet: then their number wraps, or is 0.                 *)
ConfirmationsAreCounted ==
    \A i \in DOMAIN toCsv :
        LET row == Blocks(ledger, listed)[i]
            h == height[row.transaction]
        IN h <= top =>
               /\ (toCsv[i][1] = 0) = (h = Unconfirmed)
               /\ getDecorationRole(row) = <<"transaction">> => h # Unconfirmed /\ top - h >= Clocks - 1

(* What the rows of transactions and deposits tell is true of the          *)
(* transaction they stand for.                                             *)
RowsTellTheirTransactions ==
    AmountsAddUp /\ DepositsTellTheirTransactions /\ ConfirmationsAreCounted
=============================================================================
