----------------------- MODULE TransactionFeedProofs -----------------------
(***************************************************************************)
(* Proofs about TransactionFeed and, in the last part, RowDetails.         *)
(*                                                                         *)
(* For any wallet files, any transactions and any bounds,                  *)
(* TransactionsModel shows the rows of the first transactions of the       *)
(* wallet and knows which are whose; none is forgotten but those that      *)
(* TransactionFeed says may be; MessagesModel keeps its rows in order and  *)
(* leaves out no message but for the reason given there; and               *)
(* TransactionsModel implements TransactionList.  What the rows tell is    *)
(* true of the transactions they stand for.                                *)
(*                                                                         *)
(* None of this is inductive.  What the models become depends on what is   *)
(* still queued for them, so the invariant IInv is about the queue, too:   *)
(*   QueueInv   only transactions of the open wallet are announced, and    *)
(*              each announcement and reload comes to TransactionsModel    *)
(*              before it comes to MessagesModel;                          *)
(*   LibInv     what the adapter keeps back is a transaction of the        *)
(*              wallet, before the one the library has yet to tell;        *)
(*   RowsInv    the index of TransactionsModel fits its rows, and these    *)
(*              are the blocks of transactions 1..Listed once loaded;     *)
(*   Covered    something still stands for each transaction after Listed;  *)
(*   Announced  an announcement MessagesModel has still to get is of a     *)
(*              listed transaction, unless TransactionsModel has still to  *)
(*              get it, too: so forgetting m_lastWalletTransactionId       *)
(*              uncovers nothing that was told;                            *)
(*   MsgInv     a message left out has enough rows before it, or none      *)
(*              after it, so that it may still be appended in order.       *)
(*                                                                         *)
(* The loops that append rows are recursive functions.  What they compute  *)
(* is proved by induction over the number of iterations, which             *)
(* SetInduction makes of the well-foundedness of < on Nat.                 *)
(***************************************************************************)
EXTENDS TransactionFeed, RowDetails, SequenceTheorems, FiniteSetTheorems, WellFoundedInduction, TLAPS

\* A set of numbers with 0 that has the next of each of its members is all of Nat.
LEMMA SetInduction ==
    ASSUME NEW S \in SUBSET Nat, 0 \in S, \A n \in S : n + 1 \in S
    PROVE  S = Nat
<1> DEFINE R == {pair \in Nat \X Nat : pair[1] < pair[2]}
<1>1. IsWellFoundedOn(R, Nat)
    BY NatLessThanWellFounded, Zenon DEF OpToRel
<1>2. IsWellFoundedOn(R, Nat \ S)
    BY <1>1, IsWellFoundedOnSubset
<1> SUFFICES ASSUME Nat \ S # {} PROVE FALSE
    OBVIOUS
<1> HIDE DEF R
<1>3. PICK x \in Nat \ S : \A y \in Nat \ S : ~(<<y, x>> \in R)
    BY <1>2, WFMin
<1>4. x - 1 \in Nat
    BY <1>3
<1>5. <<x - 1, x>> \in R
    BY <1>4 DEF R
<1>6. x - 1 \in S
    BY <1>3, <1>4, <1>5
<1> QED BY <1>3, <1>6

\* What the proofs use of the assumptions.
LEMMA Constants ==
    /\ TxLimit \in Nat /\ Kinds \subseteq Transactions
    /\ \A stored \in Stored : stored \in Seq(Kinds) /\ Len(stored) <= TxLimit
BY FeedAssumption DEF FeedAssumption

-----------------------------------------------------------------------------
(* The rows of transactions. *)

\* Rows of transactions 1 to n.
RowsUpTo(n) == Seq([transaction : 1..n, transfer : Nat])

\* A transaction has a row or more, one for each transfer in order.
LEMMA RowsOfIs ==
    ASSUME NEW id, NEW tx \in Transactions
    PROVE  /\ RowsOf(id, tx) \in Seq([transaction : {id}, transfer : Nat])
           /\ Len(RowsOf(id, tx)) \in Nat /\ Len(RowsOf(id, tx)) > 0
           /\ \A i \in 1..Len(RowsOf(id, tx)) : RowsOf(id, tx)[i].transaction = id
           /\ \A i, j \in 1..Len(RowsOf(id, tx)) :
                  i < j => RowsOf(id, tx)[i].transfer < RowsOf(id, tx)[j].transfer
<1>1. tx.transfers \in Seq(Transfer)
    BY DEF Transactions
<1>2. CASE tx.transfers = <<>>
    <2> DEFINE row == Row(id, None)
    <2>1. RowsOf(id, tx) = <<row>> /\ row \in [transaction : {id}, transfer : Nat] /\ row.transaction = id
        BY <1>2 DEF RowsOf, Row, None
    <2> HIDE DEF row
    <2>2. <<row>> \in Seq([transaction : {id}, transfer : Nat]) /\ Len(<<row>>) = 1 /\ <<row>>[1] = row
        BY <2>1
    <2> QED BY <2>1, <2>2
<1>3. CASE tx.transfers # <<>>
    <2> DEFINE n == Len(tx.transfers)
               all == [i \in 1..n |-> Row(id, i)]
    <2>1. n \in Nat /\ n > 0 /\ DOMAIN tx.transfers = 1..n
        BY <1>1, <1>3, EmptySeq
    <2>2. RowsOf(id, tx) = all
        BY <1>3, <2>1 DEF RowsOf
    <2> HIDE DEF n
    <2> DEFINE R == [transaction : {id}, transfer : Nat]
    <2>3. \A i \in 1..n : Row(id, i) \in R
        BY <2>1 DEF Row
    <2> HIDE DEF R
    <2>4. all \in Seq(R) /\ Len(all) = n
        BY <2>1, <2>3
    <2> USE DEF R
    <2>5. \A i \in 1..n : all[i].transaction = id /\ all[i].transfer = i
        BY DEF Row
    <2> HIDE DEF all
    <2> QED BY <2>1, <2>2, <2>4, <2>5
<1> QED BY <1>2, <1>3

\* The recursive function that Blocks evaluates.
Block(list, n) ==
    CHOOSE f : f = [i \in 0..n |-> IF i = 0 THEN <<>> ELSE f[i - 1] \o RowsOf(i, list[i])]

\* Blocks counts up from no transaction.
LEMMA BlockDefined ==
    ASSUME NEW list, NEW n \in Nat
    PROVE  /\ Blocks(list, n) = Block(list, n)[n]
           /\ Block(list, n)[0] = <<>>
           /\ \A i \in 1..n : Block(list, n)[i] = Block(list, n)[i - 1] \o RowsOf(i, list[i])
<1> DEFINE Next1(f, i) == IF i = 0 THEN <<>> ELSE f[i - 1] \o RowsOf(i, list[i])
           P(m) == \E f : f = [i \in 0..m |-> Next1(f, i)]
           S == {m \in Nat : P(m)}
<1>1. P(0)
    <2> DEFINE f == [i \in 0..0 |-> <<>>]
    <2>1. f = [i \in 0..0 |-> Next1(f, i)]
        OBVIOUS
    <2> QED BY <2>1
<1>2. ASSUME NEW m \in Nat, P(m) PROVE P(m + 1)
    <2>1. PICK f : f = [i \in 0..m |-> Next1(f, i)]
        BY <1>2
    <2> DEFINE g == [i \in 0..(m + 1) |->
                         IF i = m + 1 THEN f[m] \o RowsOf(m + 1, list[m + 1]) ELSE f[i]]
    <2>2. ASSUME NEW i \in 0..(m + 1) PROVE g[i] = Next1(g, i)
        <3>1. CASE i = m + 1
            <4>1. (m + 1) - 1 = m /\ m # m + 1 /\ m \in 0..(m + 1) /\ m + 1 \in 0..(m + 1) /\ m + 1 # 0
                OBVIOUS
            <4>2. g[m] = f[m] /\ g[m + 1] = f[m] \o RowsOf(m + 1, list[m + 1])
                BY <4>1
            <4> HIDE DEF g
            <4> QED BY <3>1, <4>1, <4>2
        <3>2. CASE i \in 0..m
            <4>1. f[i] = Next1(f, i) /\ g[i] = f[i]
                BY <2>1, <3>2
            <4>2. i = 0 \/ (i - 1 \in 0..m /\ g[i - 1] = f[i - 1])
                BY <3>2
            <4> QED BY <4>1, <4>2
        <3> QED BY <3>1, <3>2
    <2>3. g = [i \in 0..(m + 1) |-> Next1(g, i)]
        BY <2>2
    <2> QED BY <2>3
<1>3. n \in S
    <2>1. 0 \in S /\ \A m \in S : m + 1 \in S
        BY <1>1, <1>2
    <2> HIDE DEF P
    <2>2. S \in SUBSET Nat
        OBVIOUS
    <2> HIDE DEF S
    <2> QED BY <2>1, <2>2, SetInduction
<1>4. P(n)
    BY <1>3
<1>5. Block(list, n) = [i \in 0..n |-> Next1(Block(list, n), i)]
    BY <1>4 DEF Block
<1>6. Blocks(list, n) = Block(list, n)[n]
    BY DEF Blocks, Block
<1> HIDE DEF Block
<1> QED BY <1>5, <1>6

\* The rows of fewer transactions are the first of those of more, in whatever list they are.
LEMMA SameBlocks ==
    ASSUME NEW a, NEW b, NEW m \in Nat, NEW n \in Nat, m <= n, \A i \in 1..m : a[i] = b[i]
    PROVE  Blocks(a, m) = Block(b, n)[m]
<1> DEFINE P(i) == i <= m => Block(a, m)[i] = Block(b, n)[i]
           S == {i \in Nat : P(i)}
<1>a. Block(a, m)[0] = <<>> /\ Block(b, n)[0] = <<>>
    BY BlockDefined
<1>b. \A i \in 1..m : Block(a, m)[i] = Block(a, m)[i - 1] \o RowsOf(i, a[i])
    BY BlockDefined
<1>c. \A i \in 1..n : Block(b, n)[i] = Block(b, n)[i - 1] \o RowsOf(i, b[i])
    BY BlockDefined
<1>1. P(0)
    BY <1>a
<1>2. ASSUME NEW i \in Nat, P(i) PROVE P(i + 1)
    <2> SUFFICES ASSUME i + 1 <= m PROVE Block(a, m)[i + 1] = Block(b, n)[i + 1]
        OBVIOUS
    <2>1. i + 1 \in 0..m /\ i + 1 \in 0..n /\ i + 1 # 0 /\ (i + 1) - 1 = i /\ i + 1 \in 1..m /\ i + 1 \in 1..n
        OBVIOUS
    <2>2. Block(a, m)[i + 1] = Block(a, m)[i] \o RowsOf(i + 1, a[i + 1])
        BY <2>1, <1>b
    <2>3. Block(b, n)[i + 1] = Block(b, n)[i] \o RowsOf(i + 1, b[i + 1])
        BY <2>1, <1>c
    <2>4. Block(a, m)[i] = Block(b, n)[i]
        BY <1>2, <2>1
    <2> QED BY <2>1, <2>2, <2>3, <2>4
<1>3. m \in S
    <2>1. 0 \in S /\ \A i \in S : i + 1 \in S
        BY <1>1, <1>2
    <2> HIDE DEF P
    <2>2. S \in SUBSET Nat
        OBVIOUS
    <2> HIDE DEF S
    <2> QED BY <2>1, <2>2, SetInduction
<1>4. Block(a, m)[m] = Block(b, n)[m]
    BY <1>3
<1> HIDE DEF P
<1> QED BY <1>4, BlockDefined

\* The rows of no transaction, and of one more.
LEMMA BlocksGrow ==
    ASSUME NEW list
    PROVE  /\ Blocks(list, 0) = <<>>
           /\ \A n \in Nat : Blocks(list, n + 1) = Blocks(list, n) \o RowsOf(n + 1, list[n + 1])
<1>1. Blocks(list, 0) = <<>>
    BY BlockDefined
<1>2. ASSUME NEW n \in Nat
      PROVE  Blocks(list, n + 1) = Blocks(list, n) \o RowsOf(n + 1, list[n + 1])
    <2>1. n + 1 \in Nat /\ n + 1 \in 1..(n + 1) /\ n + 1 # 0 /\ (n + 1) - 1 = n /\ n <= n + 1
        OBVIOUS
    <2>2. Blocks(list, n + 1) = Block(list, n + 1)[n] \o RowsOf(n + 1, list[n + 1])
        BY <2>1, BlockDefined
    <2>3. Blocks(list, n) = Block(list, n + 1)[n]
        BY <2>1, SameBlocks
    <2> QED BY <2>2, <2>3
<1> QED BY <1>1, <1>2

\* More transactions do not change the rows of the first ones.
LEMMA BlocksStay ==
    ASSUME NEW a, NEW b, NEW n \in Nat, \A i \in 1..n : a[i] = b[i]
    PROVE  Blocks(a, n) = Blocks(b, n)
BY SameBlocks, BlockDefined

-----------------------------------------------------------------------------
(* TransactionsModel: the rows and their index. *)

\* The rows of transactions 1 to k, and where those of each begin and how many there are.
Indexed(rows, index, k) ==
    /\ k \in 0..TxLimit /\ rows \in RowsUpTo(k)
    /\ DOMAIN index = 1..k
    /\ \A id \in 1..k :
           /\ index[id] \in Nat \X Nat
           /\ index[id][1] + index[id][2] <= Len(rows) + 1
           /\ \A i \in 1..Len(rows) :
                  rows[i].transaction = id
                      <=> index[id][1] <= i /\ i <= index[id][1] + index[id][2] - 1
           /\ 1 <= index[id][1]

\* One more transaction.
LEMMA AppendRowsStep ==
    ASSUME NEW list, NEW k, Indexed(list.rows, list.index, k),
           txs \in Seq(Kinds), Len(txs) <= TxLimit, k + 1 <= Len(txs)
    PROVE  /\ Indexed(AppendRows(list, k + 1).rows, AppendRows(list, k + 1).index, k + 1)
           /\ AppendRows(list, k + 1).rows = list.rows \o RowsOf(k + 1, txs[k + 1])
<1> DEFINE id == k + 1
           new == RowsOf(id, txs[id])
           rows == list.rows \o new
           row == <<Len(list.rows) + 1, Len(new)>>
           index == With(list.index, id, row)
<1>0. TxLimit \in Nat /\ k \in Nat /\ Len(txs) \in Nat /\ id \in 1..Len(txs) /\ id \in 0..TxLimit
    BY Constants DEF Indexed
<1>1. txs[id] \in Transactions
    <2>1. txs[id] \in Kinds
        BY <1>0
    <2> QED BY <2>1, Constants
<1>2. AppendRows(list, id) = [rows |-> rows, index |-> index]
    BY <1>0 DEF AppendRows
<1>3. /\ new \in Seq([transaction : {id}, transfer : Nat])
      /\ Len(new) \in Nat /\ Len(new) > 0
      /\ \A i \in 1..Len(new) : new[i].transaction = id
    BY <1>1, RowsOfIs
<1>4. list.rows \in RowsUpTo(k) /\ Len(list.rows) \in Nat
    BY DEF Indexed, RowsUpTo
<1> HIDE DEF new
<1>5. rows \in RowsUpTo(id)
    <2> DEFINE R == [transaction : 1..id, transfer : Nat]
               F == [transaction : 1..k, transfer : Nat]
               L == [transaction : {id}, transfer : Nat]
    <2>1. 1..k \subseteq 1..id /\ {id} \subseteq 1..id
        BY <1>0
    <2>2. F \subseteq R /\ L \subseteq R /\ list.rows \in Seq(F) /\ new \in Seq(L)
        BY <1>3, <1>4, <2>1 DEF RowsUpTo
    <2> HIDE DEF R, F, L
    <2>3. list.rows \in Seq(R) /\ new \in Seq(R)
        BY <2>2, SeqMonotonic
    <2>4. rows \in Seq(R)
        BY <2>3, ConcatProperties
    <2> QED BY <2>4 DEF R, RowsUpTo
<1>6. /\ Len(rows) = Len(list.rows) + Len(new)
      /\ \A i \in 1..Len(list.rows) : rows[i] = list.rows[i]
      /\ \A i \in (Len(list.rows) + 1)..Len(rows) : rows[i].transaction = id
    <2> DEFINE m == Len(list.rows)
    <2>1. /\ Len(rows) = m + Len(new)
          /\ \A i \in 1..(m + Len(new)) :
                 rows[i] = IF i <= m THEN list.rows[i] ELSE new[i - m]
        BY <1>3, <1>4, ConcatProperties DEF RowsUpTo
    <2>2. m \in Nat
        BY <1>4
    <2> HIDE DEF rows, m
    <2>3. \A i \in (m + 1)..Len(rows) :
              i - m \in 1..Len(new) /\ i \in 1..(m + Len(new)) /\ ~(i <= m)
        BY <1>3, <2>1, <2>2
    <2>4. \A i \in (m + 1)..Len(rows) : rows[i] = new[i - m] /\ rows[i].transaction = id
        BY <1>3, <2>1, <2>3
    <2>5. \A i \in 1..m : rows[i] = list.rows[i]
        BY <1>3, <2>1, <2>2
    <2> QED BY <2>1, <2>4, <2>5 DEF m
<1>7. \A i \in 1..Len(list.rows) : list.rows[i].transaction \in 1..k
    <2>1. \A i \in 1..Len(list.rows) : list.rows[i] \in [transaction : 1..k, transfer : Nat]
        BY <1>4, ElementOfSeq DEF RowsUpTo
    <2> QED BY <2>1
<1>8. /\ DOMAIN index = 1..id /\ index[id] = row
      /\ \A i \in 1..k : index[i] = list.index[i]
    <2>1. DOMAIN list.index = 1..k
        BY DEF Indexed
    <2>2. (1..k) \cup {id} = 1..id /\ \A i \in 1..k : i # id
        BY <1>0
    <2> QED BY <2>1, <2>2 DEF With
<1> HIDE DEF rows, index
<1>a. /\ Len(list.rows) \in Nat /\ Len(new) \in Nat /\ Len(new) > 0
      /\ Len(rows) = Len(list.rows) + Len(new)
    BY <1>3, <1>4, <1>6
<1>9. ASSUME NEW n \in 1..id
      PROVE  /\ index[n] \in Nat \X Nat
             /\ index[n][1] + index[n][2] <= Len(rows) + 1
             /\ \A i \in 1..Len(rows) :
                    rows[i].transaction = n
                        <=> index[n][1] <= i /\ i <= index[n][1] + index[n][2] - 1
             /\ 1 <= index[n][1]
    <2>1. CASE n = id
        <3>1. index[n][1] = Len(list.rows) + 1 /\ index[n][2] = Len(new)
            BY <1>8, <2>1
        <3>2. index[n] \in Nat \X Nat
            <4>1. row \in Nat \X Nat
                BY <1>3, <1>4
            <4> QED BY <1>8, <2>1, <4>1
        <3>3. ASSUME NEW i \in 1..Len(rows)
              PROVE  rows[i].transaction = n
                        <=> index[n][1] <= i /\ i <= index[n][1] + index[n][2] - 1
            <4>1. CASE i \in 1..Len(list.rows)
                <5>1. rows[i].transaction # n
                    BY <1>0, <1>6, <1>7, <2>1, <4>1
                <5> QED BY <1>a, <3>1, <4>1, <5>1
            <4>2. CASE i \in (Len(list.rows) + 1)..Len(rows)
                <5>1. rows[i].transaction = n
                    BY <1>6, <2>1, <4>2
                <5> QED BY <1>a, <3>1, <4>2, <5>1
            <4> QED BY <1>a, <4>1, <4>2
        <3>4. index[n][1] + index[n][2] <= Len(rows) + 1 /\ 1 <= index[n][1]
            BY <1>a, <3>1
        <3> QED BY <3>2, <3>3, <3>4
    <2>2. CASE n \in 1..k
        <3>1. index[n] = list.index[n] /\ n # id
            BY <1>0, <1>8, <2>2
        <3>2. /\ index[n] \in Nat \X Nat
              /\ index[n][1] + index[n][2] <= Len(list.rows) + 1
              /\ \A i \in 1..Len(list.rows) :
                     list.rows[i].transaction = n
                         <=> index[n][1] <= i /\ i <= index[n][1] + index[n][2] - 1
              /\ 1 <= index[n][1]
            BY <2>2, <3>1 DEF Indexed
        <3>3. index[n][1] \in Nat /\ index[n][2] \in Nat
            BY <3>2
        <3>4. index[n][1] + index[n][2] <= Len(list.rows) + 1
            BY <3>2
        <3>5. ASSUME NEW i \in 1..Len(rows)
              PROVE  rows[i].transaction = n
                        <=> index[n][1] <= i /\ i <= index[n][1] + index[n][2] - 1
            <4>1. CASE i \in 1..Len(list.rows)
                BY <1>6, <3>2, <4>1
            <4>2. CASE i \in (Len(list.rows) + 1)..Len(rows)
                <5>1. rows[i].transaction # n
                    BY <1>6, <3>1, <4>2
                <5>2. ~(i <= index[n][1] + index[n][2] - 1)
                    BY <1>a, <3>3, <3>4, <4>2, SMTT(30)
                <5> QED BY <5>1, <5>2
            <4> QED BY <1>a, <4>1, <4>2
        <3>6. index[n][1] + index[n][2] <= Len(rows) + 1
            BY <1>a, <3>3, <3>4, SMTT(30)
        <3> QED BY <3>2, <3>5, <3>6
    <2> QED BY <1>0, <2>1, <2>2
<1>10. Indexed(rows, index, id)
    BY <1>0, <1>5, <1>8, <1>9 DEF Indexed
<1>11. AppendRows(list, id).rows = rows /\ AppendRows(list, id).index = index
    BY <1>2
<1> QED BY <1>10, <1>11 DEF rows, new

\* The loop of appendTransaction(), call by call.
AllRows(list, from, to) ==
    CHOOSE f : f = [id \in (from - 1)..to |-> IF id < from THEN list ELSE AppendRows(f[id - 1], id)]

\* It starts from the list there is, and goes from one transaction to the next.
LEMMA AllRowsDefined ==
    ASSUME NEW list, NEW k \in Nat, NEW to \in Nat, k < to
    PROVE  /\ AppendAllRows(list, k + 1, to) = AllRows(list, k + 1, to)[to]
           /\ AllRows(list, k + 1, to)[k] = list
           /\ \A id \in (k + 1)..to :
                  AllRows(list, k + 1, to)[id] = AppendRows(AllRows(list, k + 1, to)[id - 1], id)
<1> DEFINE from == k + 1
           Next1(f, id) == IF id < from THEN list ELSE AppendRows(f[id - 1], id)
           P(m) == \E f : f = [id \in (from - 1)..(k + m) |-> Next1(f, id)]
           S == {m \in Nat : P(m)}
<1>1. P(0)
    <2> DEFINE f == [id \in (from - 1)..(k + 0) |-> list]
    <2>1. f = [id \in (from - 1)..(k + 0) |-> Next1(f, id)]
        OBVIOUS
    <2> QED BY <2>1
<1>2. ASSUME NEW m \in Nat, P(m) PROVE P(m + 1)
    <2> DEFINE last == k + (m + 1)
    <2>0. last - 1 = k + m /\ last \in Nat /\ last # k + m /\ from - 1 = k /\ ~(last < from)
        OBVIOUS
    <2>1. PICK f : f = [id \in (from - 1)..(k + m) |-> Next1(f, id)]
        BY <1>2
    <2> DEFINE g == [id \in (from - 1)..last |->
                         IF id = last THEN AppendRows(f[k + m], last) ELSE f[id]]
    <2>2. ASSUME NEW id \in (from - 1)..last PROVE g[id] = Next1(g, id)
        <3>1. CASE id = last
            <4>1. k + m \in (from - 1)..last /\ last \in (from - 1)..last
                BY <2>0
            <4>2. g[k + m] = f[k + m] /\ g[last] = AppendRows(f[k + m], last)
                BY <2>0, <4>1
            <4> HIDE DEF g, last
            <4> QED BY <2>0, <3>1, <4>2
        <3>2. CASE id \in (from - 1)..(k + m)
            <4>1. f[id] = Next1(f, id) /\ g[id] = f[id]
                BY <2>1, <3>2
            <4>2. id < from \/ (id - 1 \in (from - 1)..(k + m) /\ g[id - 1] = f[id - 1])
                BY <3>2
            <4> HIDE DEF g, last
            <4> QED BY <4>1, <4>2
        <3> QED BY <3>1, <3>2
    <2>3. g = [id \in (from - 1)..last |-> Next1(g, id)]
        BY <2>2
    <2> QED BY <2>3
<1>3. to - k \in S
    <2> HIDE DEF P
    <2>1. 0 \in S /\ \A m \in S : m + 1 \in S
        BY <1>1, <1>2
    <2>2. S \in SUBSET Nat /\ to - k \in Nat
        OBVIOUS
    <2> HIDE DEF S
    <2> QED BY <2>1, <2>2, SetInduction
<1>4. k + (to - k) = to
    OBVIOUS
<1>5. P(to - k)
    BY <1>3
<1>6. \E f : f = [id \in (from - 1)..to |-> Next1(f, id)]
    BY <1>4, <1>5
<1>7. AllRows(list, from, to) = [id \in (from - 1)..to |-> Next1(AllRows(list, from, to), id)]
    BY <1>6 DEF AllRows
<1>8. AppendAllRows(list, from, to) = AllRows(list, from, to)[to]
    <2>1. ~(to < from)
        OBVIOUS
    <2> HIDE DEF from
    <2> QED BY <2>1 DEF AppendAllRows, AllRows
<1> HIDE DEF AllRows
<1>9. AllRows(list, from, to)[k] = list
    BY <1>7
<1>10. \A id \in from..to : AllRows(list, from, to)[id] = AppendRows(AllRows(list, from, to)[id - 1], id)
    BY <1>7
<1> QED BY <1>8, <1>9, <1>10

\* How far the list of the first k transactions gets.
Reached(k, to) == IF to <= k \/ Len(txs) <= k THEN k ELSE IF to <= Len(txs) THEN to ELSE Len(txs)

\* The loop appends the rows of the transactions there are, in order.
LEMMA AppendAllRowsIs ==
    ASSUME NEW list, NEW k, Indexed(list.rows, list.index, k),
           txs \in Seq(Kinds), Len(txs) <= TxLimit, NEW to \in Nat
    PROVE  LET all == AppendAllRows(list, k + 1, to)
           IN /\ Indexed(all.rows, all.index, Reached(k, to))
              /\ k <= Len(txs) /\ list.rows = Blocks(txs, k) => all.rows = Blocks(txs, Reached(k, to))
<1>0. k \in Nat /\ Len(txs) \in Nat
    BY Constants DEF Indexed
<1>1. CASE to <= k
    <2>1. AppendAllRows(list, k + 1, to) = list /\ Reached(k, to) = k
        BY <1>0, <1>1 DEF AppendAllRows, Reached
    <2> QED BY <2>1
<1>2. CASE k < to
    <2> DEFINE f == AllRows(list, k + 1, to)
               Good(m) == /\ Indexed(f[k + m].rows, f[k + m].index, Reached(k, k + m))
                          /\ k <= Len(txs) /\ list.rows = Blocks(txs, k) =>
                                 f[k + m].rows = Blocks(txs, Reached(k, k + m))
               P(m) == k + m <= to => Good(m)
               S == {m \in Nat : P(m)}
    <2>1. P(0)
        <3>1. k + 0 = k /\ Reached(k, k) = k /\ f[k] = list
            BY <1>0, <1>2, AllRowsDefined DEF Reached
        <3> QED BY <3>1
    <2>2. ASSUME NEW m \in Nat, P(m) PROVE P(m + 1)
        <3> SUFFICES ASSUME k + (m + 1) <= to PROVE Good(m + 1)
            OBVIOUS
        <3> DEFINE at == k + m
        <3>1. at \in Nat /\ k + (m + 1) = at + 1 /\ at + 1 \in (k + 1)..to /\ (at + 1) - 1 = at /\ k <= at
            BY <1>0
        <3>2. /\ Indexed(f[at].rows, f[at].index, Reached(k, at))
              /\ k <= Len(txs) /\ list.rows = Blocks(txs, k) => f[at].rows = Blocks(txs, Reached(k, at))
            BY <1>0, <2>2
        <3>3. f[at + 1] = AppendRows(f[at], at + 1)
            <4>1. \A id \in (k + 1)..to : f[id] = AppendRows(f[id - 1], id)
                BY <1>0, <1>2, AllRowsDefined
            <4> HIDE DEF f, at
            <4> QED BY <3>1, <4>1
        <3> HIDE DEF f, at
        <3>4. CASE at + 1 > Len(txs)
            <4>1. f[at + 1] = f[at]
                BY <3>3, <3>4 DEF AppendRows
            <4>2. Reached(k, at + 1) = Reached(k, at)
                BY <1>0, <3>1, <3>4 DEF Reached
            <4> QED BY <3>1, <3>2, <4>1, <4>2
        <3>5. CASE at + 1 <= Len(txs)
            <4>1. Reached(k, at) = at /\ Reached(k, at + 1) = at + 1
                BY <1>0, <3>1, <3>5 DEF Reached
            <4>2. /\ Indexed(f[at + 1].rows, f[at + 1].index, at + 1)
                  /\ f[at + 1].rows = f[at].rows \o RowsOf(at + 1, txs[at + 1])
                BY <3>2, <3>3, <3>5, <4>1, AppendRowsStep
            <4>3. Blocks(txs, at + 1) = Blocks(txs, at) \o RowsOf(at + 1, txs[at + 1])
                BY <3>1, BlocksGrow
            <4> QED BY <3>1, <3>2, <4>1, <4>2, <4>3
        <3> QED BY <1>0, <3>1, <3>4, <3>5
    <2>3. to - k \in S
        <3> HIDE DEF P
        <3>1. 0 \in S /\ \A m \in S : m + 1 \in S
            BY <2>1, <2>2
        <3>2. S \in SUBSET Nat /\ to - k \in Nat
            BY <1>0, <1>2
        <3> HIDE DEF S
        <3> QED BY <3>1, <3>2, SetInduction
    <2>4. k + (to - k) = to
        BY <1>0
    <2>5. Good(to - k)
        BY <2>3, <2>4
    <2>6. AppendAllRows(list, k + 1, to) = f[to]
        BY <1>0, <1>2, AllRowsDefined
    <2> HIDE DEF f
    <2> QED BY <2>4, <2>5, <2>6
<1> QED BY <1>0, <1>1, <1>2

-----------------------------------------------------------------------------
(* Posted events. *)

\* What may be posted to the GUI thread.
Events ==
    [to : Models \cup {"adapter"},
     ev : {"init", "sent", "progress", "completed", "created", "reload", "closed"},
     id : Nat]

Has(q, e) == \E i \in 1..Len(q) : q[i] = e

\* MessagesModel gets what TransactionsModel gets, and gets it later.
Ordered(q) ==
    \A i \in 1..Len(q) :
        q[i].to = "transactions" /\ q[i].ev \in {"created", "reload"} =>
            \E j \in (i + 1)..Len(q) : q[j] = Event("messages", q[i].ev, q[i].id)

\* Events are posted at the end.
LEMMA PostedIs ==
    ASSUME NEW q \in Seq(Events), NEW es \in Seq(Events)
    PROVE  /\ q \o es \in Seq(Events)
           /\ \A e : Has(q \o es, e) <=> Has(q, e) \/ Has(es, e)
           /\ Ordered(q) /\ Ordered(es) => Ordered(q \o es)
<1> DEFINE r == q \o es
           m == Len(q)
           n == Len(es)
<1>1. m \in Nat /\ n \in Nat
    OBVIOUS
<1>2. r \in Seq(Events) /\ Len(r) = m + n
    BY ConcatProperties
<1>3. \A i \in 1..m : r[i] = q[i]
    <2>1. \A i \in 1..(m + n) : r[i] = IF i <= m THEN q[i] ELSE es[i - m]
        BY ConcatProperties
    <2> HIDE DEF r, m, n
    <2> QED BY <1>1, <2>1
<1>4. \A i \in 1..n : r[m + i] = es[i]
    <2>1. \A i \in 1..(m + n) : r[i] = IF i <= m THEN q[i] ELSE es[i - m]
        BY ConcatProperties
    <2> HIDE DEF r, m, n
    <2>2. \A i \in 1..n : m + i \in 1..(m + n) /\ ~(m + i <= m) /\ (m + i) - m = i
        BY <1>1
    <2> QED BY <2>1, <2>2
<1> HIDE DEF r
<1>5. \A i \in 1..(m + n) : i \in 1..m \/ (i - m \in 1..n /\ m + (i - m) = i)
    BY <1>1
<1>6. \A i \in 1..m : i \in 1..(m + n)
    BY <1>1
<1>7. \A i \in 1..n : m + i \in 1..(m + n)
    BY <1>1
<1>8. ASSUME NEW e PROVE Has(r, e) <=> Has(q, e) \/ Has(es, e)
    <2>1. ASSUME Has(r, e) PROVE Has(q, e) \/ Has(es, e)
        <3>1. PICK i \in 1..(m + n) : r[i] = e
            BY <1>2, <2>1 DEF Has
        <3> QED BY <1>3, <1>4, <1>5, <3>1 DEF Has
    <2>2. ASSUME Has(q, e) PROVE Has(r, e)
        BY <1>2, <1>3, <1>6, <2>2 DEF Has
    <2>3. ASSUME Has(es, e) PROVE Has(r, e)
        BY <1>2, <1>4, <1>7, <2>3 DEF Has
    <2> QED BY <2>1, <2>2, <2>3
<1>9. ASSUME Ordered(q), Ordered(es) PROVE Ordered(r)
    <2> SUFFICES ASSUME NEW i \in 1..(m + n), r[i].to = "transactions", r[i].ev \in {"created", "reload"}
                 PROVE  \E j \in (i + 1)..(m + n) : r[j] = Event("messages", r[i].ev, r[i].id)
        BY <1>2 DEF Ordered
    <2>1. CASE i \in 1..m
        <3>1. r[i] = q[i]
            BY <1>3, <2>1
        <3>2. PICK j \in (i + 1)..m : q[j] = Event("messages", q[i].ev, q[i].id)
            BY <1>9, <2>1, <3>1 DEF Ordered
        <3>3. j \in 1..m /\ j \in (i + 1)..(m + n)
            BY <1>1, <2>1
        <3> QED BY <1>3, <3>1, <3>2, <3>3
    <2>2. CASE i - m \in 1..n /\ m + (i - m) = i
        <3> DEFINE k == i - m
        <3>1. r[i] = es[k] /\ k \in 1..n
            BY <1>4, <2>2
        <3>2. PICK j \in (k + 1)..n : es[j] = Event("messages", es[k].ev, es[k].id)
            BY <1>9, <3>1 DEF Ordered
        <3>3. j \in 1..n /\ m + j \in (i + 1)..(m + n)
            BY <1>1, <2>2, <3>2
        <3> QED BY <1>4, <3>1, <3>2, <3>3
    <2> QED BY <1>5, <2>1, <2>2
<1> QED BY <1>2, <1>8, <1>9 DEF r

\* The first event is taken.
LEMMA TakenIs ==
    ASSUME NEW q \in Seq(Events), q # <<>>
    PROVE  /\ Head(q) \in Events /\ Tail(q) \in Seq(Events)
           /\ \A e : Has(q, e) <=> e = Head(q) \/ Has(Tail(q), e)
           /\ Ordered(q) => Ordered(Tail(q))
           /\ Ordered(q) /\ Head(q).to = "transactions" /\ Head(q).ev \in {"created", "reload"} =>
                  Has(Tail(q), Event("messages", Head(q).ev, Head(q).id))
<1> DEFINE r == Tail(q)
           n == Len(q)
<1>1. n \in Nat /\ n > 0 /\ Head(q) = q[1]
    BY EmptySeq DEF Head
<1>2. /\ r \in Seq(Events) /\ Len(r) = n - 1 /\ Head(q) \in Events
      /\ \A i \in 1..(n - 1) : r[i] = q[i + 1]
    <2>1. /\ Head(q) \in Events /\ r \in Seq(Events) /\ Len(r) = n - 1
          /\ \A i \in 1..Len(r) : r[i] = q[i + 1]
        BY HeadTailProperties
    <2> HIDE DEF r, n
    <2> QED BY <2>1
<1> HIDE DEF r
<1>3. ASSUME NEW e PROVE Has(q, e) <=> e = Head(q) \/ Has(r, e)
    <2>1. ASSUME Has(q, e) PROVE e = Head(q) \/ Has(r, e)
        <3>1. PICK i \in 1..n : q[i] = e
            BY <2>1 DEF Has
        <3>2. i = 1 \/ (i - 1 \in 1..(n - 1) /\ (i - 1) + 1 = i)
            BY <1>1
        <3> QED BY <1>1, <1>2, <3>1, <3>2 DEF Has
    <2>2. ASSUME Has(r, e) PROVE Has(q, e)
        <3>1. PICK i \in 1..(n - 1) : r[i] = e
            BY <1>2, <2>2 DEF Has
        <3>2. i + 1 \in 1..n
            BY <1>1
        <3> QED BY <1>2, <3>1, <3>2 DEF Has
    <2>3. ASSUME e = Head(q) PROVE Has(q, e)
        <3>1. 1 \in 1..n
            BY <1>1
        <3> QED BY <1>1, <2>3, <3>1 DEF Has
    <2> QED BY <2>1, <2>2, <2>3
<1>4. ASSUME Ordered(q) PROVE Ordered(r)
    <2> SUFFICES ASSUME NEW i \in 1..(n - 1), r[i].to = "transactions", r[i].ev \in {"created", "reload"}
                 PROVE  \E j \in (i + 1)..(n - 1) : r[j] = Event("messages", r[i].ev, r[i].id)
        BY <1>2 DEF Ordered
    <2>1. r[i] = q[i + 1] /\ i + 1 \in 1..n
        BY <1>1, <1>2
    <2>2. PICK j \in ((i + 1) + 1)..n : q[j] = Event("messages", q[i + 1].ev, q[i + 1].id)
        BY <1>4, <2>1 DEF Ordered
    <2>3. j - 1 \in 1..(n - 1) /\ j - 1 \in (i + 1)..(n - 1) /\ (j - 1) + 1 = j
        BY <1>1
    <2> QED BY <1>2, <2>1, <2>2, <2>3
<1>5. ASSUME Ordered(q), Head(q).to = "transactions", Head(q).ev \in {"created", "reload"}
      PROVE  Has(r, Event("messages", Head(q).ev, Head(q).id))
    <2>1. 1 \in 1..n
        BY <1>1
    <2>2. PICK j \in (1 + 1)..n : q[j] = Event("messages", q[1].ev, q[1].id)
        BY <1>1, <1>5, <2>1 DEF Ordered
    <2>3. j - 1 \in 1..(n - 1) /\ (j - 1) + 1 = j
        BY <1>1
    <2> QED BY <1>1, <1>2, <2>2, <2>3 DEF Has
<1> QED BY <1>2, <1>3, <1>4, <1>5 DEF r

\* Nothing is posted.
LEMMA NothingIs == <<>> \in Seq(Events) /\ Ordered(<<>>) /\ \A e : ~Has(<<>>, e)
BY DEF Ordered, Has

\* An event for the adapter, once or twice.
LEMMA SingleIs ==
    ASSUME NEW x \in Events, x.to = "adapter"
    PROVE  /\ <<x>> \in Seq(Events) /\ Ordered(<<x>>) /\ \A e : Has(<<x>>, e) <=> e = x
           /\ <<x, x>> \in Seq(Events) /\ Ordered(<<x, x>>) /\ \A e : Has(<<x, x>>, e) <=> e = x
<1>1. <<x>> \in Seq(Events) /\ Len(<<x>>) = 1 /\ <<x>>[1] = x
    OBVIOUS
<1>2. <<x, x>> \in Seq(Events) /\ Len(<<x, x>>) = 2 /\ <<x, x>>[1] = x /\ <<x, x>>[2] = x
    OBVIOUS
<1>3. 1..1 = {1} /\ 1..2 = {1, 2}
    OBVIOUS
<1>4. Ordered(<<x>>) /\ \A e : Has(<<x>>, e) <=> e = x
    BY <1>1, <1>3 DEF Ordered, Has
<1>5. Ordered(<<x, x>>) /\ \A e : Has(<<x, x>>, e) <=> e = x
    BY <1>2, <1>3 DEF Ordered, Has
<1> QED BY <1>1, <1>2, <1>4, <1>5

\* A signal for the three models.
LEMMA ToModelsIs ==
    ASSUME NEW ev \in {"created", "reload", "closed"}, NEW id \in Nat
    PROVE  /\ ToModels(ev, id) \in Seq(Events) /\ Ordered(ToModels(ev, id))
           /\ \A e : Has(ToModels(ev, id), e) <=> \E to \in Models : e = Event(to, ev, id)
<1> DEFINE x(to) == Event(to, ev, id)
           q == <<x("transactions"), x("messages"), x("deposits")>>
<1>1. \A to \in Models : x(to) \in Events /\ x(to).to = to /\ x(to).ev = ev /\ x(to).id = id
    BY DEF Event, Events, Models
<1>2. Models = {"transactions", "messages", "deposits"}
    BY DEF Models
<1>3. ToModels(ev, id) = q
    BY DEF ToModels
<1> HIDE DEF x
<1>4. /\ q \in Seq(Events) /\ Len(q) = 3
      /\ q[1] = x("transactions") /\ q[2] = x("messages") /\ q[3] = x("deposits")
    BY <1>1, <1>2
<1>5. 1..3 = {1, 2, 3} /\ 2 \in (1 + 1)..3
    OBVIOUS
<1> HIDE DEF q
<1>6. Ordered(q)
    <2> SUFFICES ASSUME NEW i \in 1..3, q[i].to = "transactions"
                 PROVE  \E j \in (i + 1)..3 : q[j] = Event("messages", q[i].ev, q[i].id)
        BY <1>4 DEF Ordered
    <2>1. i = 1
        BY <1>1, <1>2, <1>4, <1>5
    <2>2. q[2] = Event("messages", q[i].ev, q[i].id)
        BY <1>1, <1>2, <1>4, <2>1 DEF x
    <2> QED BY <1>5, <2>1, <2>2
<1>7. \A e : Has(q, e) <=> \E to \in Models : e = x(to)
    BY <1>2, <1>4, <1>5 DEF Has
<1> QED BY <1>3, <1>4, <1>6, <1>7 DEF x

-----------------------------------------------------------------------------
(* The inductive invariant. *)

\* TypeOK without the rows, whose types follow from RowsInv and MsgInv.
Types ==
    /\ wallet \in BOOLEAN
    /\ txs \in Seq(Kinds) /\ Len(txs) <= TxLimit
    /\ ready \in BOOLEAN
    /\ lib \in 0..TxLimit
    /\ sending \in [at : {"none", "locked", "unlocked"}, id : 0..TxLimit, message : BOOLEAN]
    /\ isSynchronized \in BOOLEAN /\ timer \in BOOLEAN /\ crashed \in BOOLEAN
    /\ lastId \in 0..TxLimit /\ lost \subseteq 1..TxLimit
    /\ gui \in {"idle", "emitting", "emitted", "closing"}
    /\ queue \in Seq(Events)
    /\ depositCount \in 0..TxLimit
    /\ loaded \in BOOLEAN

\* Only transactions of the wallet are announced, and the models are reset only when it closes.
QueueInv ==
    /\ Ordered(queue)
    /\ \A e : Has(queue, e) =>
           /\ e.ev = "created" => e.to \in Models /\ 1 <= e.id /\ e.id <= Len(txs)
           /\ e.ev = "closed" => gui = "closing"
           /\ e.ev = "sent" => e.id # 0
           /\ e.ev \in {"init", "reload"} => wallet

\* What is kept back is a transaction of the wallet, and an earlier one than the library has
\* still to announce.
LibInv ==
    /\ lib <= Len(txs) /\ lastId <= Len(txs) /\ (lib # 0 => lastId <= lib)
    /\ ~wallet \/ gui = "closing" => lib = 0 /\ lastId = 0
    /\ ~wallet => txs = <<>>
    /\ gui \in {"emitting", "emitted"} => lastId # 0
    /\ sending.at = "none" <=> sending.id = 0

Basics == Types /\ QueueInv /\ LibInv

-----------------------------------------------------------------------------
(* The library, the adapter and the events. *)

\* What may be posted.
Postable(es) ==
    /\ es \in Seq(Events) /\ Ordered(es)
    /\ \A e : Has(es, e) =>
           /\ e.ev = "created" => e.to \in Models /\ 1 <= e.id /\ e.id <= Len(txs)
           /\ e.ev = "closed" => gui' = "closing"
           /\ e.ev = "sent" => e.id # 0
           /\ e.ev \in {"init", "reload"} => wallet

\* A step that posts some events, after it has taken one or not.
LEMMA PostStep ==
    ASSUME Basics, NEW es, Postable(es),
           (queue' = queue \o es) \/ (queue # <<>> /\ queue' = Tail(queue) \o es),
           txs' \in Seq(Kinds), Len(txs) <= Len(txs'), gui = "closing" => gui' = "closing",
           wallet => wallet'
    PROVE  queue' \in Seq(Events) /\ QueueInv'
<1>0. queue \in Seq(Events) /\ es \in Seq(Events) /\ Len(txs) \in Nat /\ Len(txs') \in Nat
    BY DEF Basics, Types, Postable
<1>1. PICK q \in Seq(Events) : /\ queue' = q \o es /\ Ordered(q)
                               /\ \A e : Has(q, e) => Has(queue, e)
    <2>1. CASE queue' = queue \o es
        BY <1>0, <2>1 DEF Basics, QueueInv
    <2>2. CASE queue # <<>> /\ queue' = Tail(queue) \o es
        BY <1>0, <2>2, TakenIs DEF Basics, QueueInv
    <2> QED BY <2>1, <2>2
<1>2. /\ q \o es \in Seq(Events) /\ Ordered(q \o es)
      /\ \A e : Has(q \o es, e) <=> Has(q, e) \/ Has(es, e)
    BY <1>0, <1>1, PostedIs DEF Postable
<1>3. ASSUME NEW e, Has(queue', e)
      PROVE  /\ e.ev = "created" => e.to \in Models /\ 1 <= e.id /\ e.id <= Len(txs')
             /\ e.ev = "closed" => gui' = "closing"
             /\ e.ev = "sent" => e.id # 0
             /\ e.ev \in {"init", "reload"} => wallet'
    <2>1. Has(queue, e) \/ Has(es, e)
        BY <1>1, <1>2, <1>3
    <2>2. /\ e.ev = "created" => e.to \in Models /\ 1 <= e.id /\ e.id <= Len(txs)
          /\ e.ev = "closed" => gui' = "closing"
          /\ e.ev = "sent" => e.id # 0
          /\ e.ev \in {"init", "reload"} => wallet
        BY <2>1 DEF Basics, QueueInv, Postable
    <2>3. e.ev = "created" => e.id \in Nat
        <3>1. q \o es \in Seq(Events) /\ queue' = q \o es
            BY <1>1, <1>2
        <3>2. e \in Events
            BY <1>3, <3>1, ElementOfSeq DEF Has
        <3> QED BY <3>2 DEF Events
    <2> QED BY <1>0, <2>2, <2>3
<1> QED BY <1>1, <1>2, <1>3 DEF QueueInv

\* The queue is left alone.
LEMMA NoPost ==
    ASSUME Basics, UNCHANGED queue, txs' \in Seq(Kinds), Len(txs) <= Len(txs'),
           gui = "closing" => gui' = "closing", wallet => wallet'
    PROVE  queue' \in Seq(Events) /\ QueueInv'
<1>1. queue \o <<>> = queue
    BY ConcatEmptySeq DEF Basics, Types
<1>2. Postable(<<>>)
    BY NothingIs DEF Postable
<1> QED BY <1>1, <1>2, PostStep

\* Announcements of a transaction of the wallet, and what else is posted.
LEMMA PostableEvents ==
    ASSUME Basics
    PROVE  /\ Postable(<<>>)
           /\ \A id \in Nat : 1 <= id /\ id <= Len(txs) => Postable(ToModels("created", id))
           /\ wallet => Postable(ToModels("reload", 0))
           /\ gui' = "closing" => Postable(ToModels("closed", 0))
           /\ \A id \in Nat, ev \in {"init", "sent", "progress", "completed"} :
                  (ev = "sent" => id # 0) /\ (ev = "init" => wallet) =>
                      /\ Postable(<<Event("adapter", ev, id)>>)
                      /\ Postable(<<Event("adapter", ev, id), Event("adapter", ev, id)>>)
<1>1. Postable(<<>>)
    BY NothingIs DEF Postable
<1>2. ASSUME NEW id \in Nat, 1 <= id, id <= Len(txs) PROVE Postable(ToModels("created", id))
    <2>1. \A e : Has(ToModels("created", id), e) => e.ev = "created" /\ e.to \in Models /\ e.id = id
        BY ToModelsIs DEF Event
    <2> QED BY <1>2, <2>1, ToModelsIs DEF Postable
<1>3. ASSUME wallet PROVE Postable(ToModels("reload", 0))
    <2>1. \A e : Has(ToModels("reload", 0), e) => e.ev = "reload"
        BY ToModelsIs DEF Event
    <2> QED BY <1>3, <2>1, ToModelsIs DEF Postable
<1>4. ASSUME gui' = "closing" PROVE Postable(ToModels("closed", 0))
    <2>1. \A e : Has(ToModels("closed", 0), e) => e.ev = "closed"
        BY ToModelsIs DEF Event
    <2> QED BY <1>4, <2>1, ToModelsIs DEF Postable
<1>5. ASSUME NEW id \in Nat, NEW ev \in {"init", "sent", "progress", "completed"},
             ev = "sent" => id # 0, ev = "init" => wallet
      PROVE  Postable(<<Event("adapter", ev, id)>>)
             /\ Postable(<<Event("adapter", ev, id), Event("adapter", ev, id)>>)
    <2> DEFINE x == Event("adapter", ev, id)
    <2>1. x \in Events /\ x.to = "adapter" /\ x.ev = ev /\ x.id = id
        BY DEF Event, Events
    <2> HIDE DEF x
    <2>2. x.ev # "created" /\ x.ev # "closed" /\ x.ev # "reload"
        BY <2>1
    <2>3. Postable(<<x>>) /\ Postable(<<x, x>>)
        BY <1>5, <2>1, <2>2, SingleIs DEF Postable
    <2> QED BY <2>3 DEF x
<1> QED BY <1>1, <1>2, <1>3, <1>4, <1>5

\* One more transaction.
LEMMA OneMore ==
    ASSUME Types, NEW tx \in Kinds, txs' = Append(txs, tx)
    PROVE  /\ txs' \in Seq(Kinds) /\ Len(txs') = Len(txs) + 1 /\ Len(txs) \in Nat
           /\ \A i \in 1..Len(txs) : txs'[i] = txs[i]
BY AppendProperties DEF Types

\* A slot takes an event that was posted.
LEMMA TakesOne ==
    ASSUME Basics, NEW to, NEW ev, Takes(to, ev)
    PROVE  /\ queue # <<>> /\ Head(queue) \in Events /\ Has(queue, Head(queue))
           /\ Head(queue).to = to /\ Head(queue).ev = ev /\ Head(queue).id \in Nat
           /\ ev \in {"created", "reload"} /\ to = "transactions" =>
                  Has(Tail(queue), Event("messages", ev, Head(queue).id))
<1>1. queue # <<>> /\ Head(queue).to = to /\ Head(queue).ev = ev /\ queue \in Seq(Events)
    BY DEF Takes, Basics, Types
<1>2. Head(queue) \in Events /\ Has(queue, Head(queue))
    BY <1>1, TakenIs
<1>3. Ordered(queue)
    BY DEF Basics, QueueInv
<1> QED BY <1>1, <1>2, <1>3, TakenIs DEF Events

\* Every step keeps the events in order and about the open wallet.
LEMMA QueueStep ==
    ASSUME Basics, Next
    PROVE  queue' \in Seq(Events) /\ QueueInv'
<1>0. queue \in Seq(Events) /\ txs \in Seq(Kinds) /\ Len(txs) \in Nat /\ TxLimit \in Nat
    BY Constants DEF Basics, Types
<1>1. CASE \E tx \in Received : Receive(tx)
    <2>1. PICK tx \in Kinds : txs' = Append(txs, tx) /\ UNCHANGED <<wallet, queue, gui>>
        BY <1>1 DEF Receive, adapter, Kinds
    <2> QED BY <2>1, OneMore, NoPost DEF Basics
<1>2. CASE \E tx \in Sent : Send(tx)
    <2>1. PICK tx \in Kinds : txs' = Append(txs, tx) /\ UNCHANGED <<wallet, queue, gui>>
        BY <1>2 DEF Send, adapter, Kinds
    <2> QED BY <2>1, OneMore, NoPost DEF Basics
<1>3. CASE \E stored \in Stored : Open(stored)
    <2>1. txs' \in Seq(Kinds) /\ UNCHANGED <<queue, gui>> /\ txs = <<>> /\ ~wallet
        BY <1>3, Constants DEF Open, adapter, Basics, LibInv
    <2>2. Len(txs) = 0 /\ Len(txs') \in Nat
        BY <2>1
    <2> QED BY <2>1, <2>2, NoPost
<1>4. CASE DeleteWallet
    <2>1. queue = <<>> /\ queue' = queue
        BY <1>4 DEF DeleteWallet
    <2>2. \A e : ~Has(queue', e)
        BY <2>1, NothingIs
    <2> QED BY <1>0, <2>1, <2>2 DEF QueueInv, Basics
<1>5. CASE initCompleted \/ synchronizationProgressUpdated \/ synchronizationCompleted
    <2>1. PICK ev \in {"init", "progress", "completed"} :
              queue' = Append(queue, Event("adapter", ev, 0)) /\ UNCHANGED <<wallet, txs, gui>> /\ wallet
        BY <1>5 DEF initCompleted, synchronizationProgressUpdated, synchronizationCompleted, adapter, library, Observed
    <2>2. Append(queue, Event("adapter", ev, 0)) = queue \o <<Event("adapter", ev, 0)>>
        <3>1. Event("adapter", ev, 0) \in Events
            BY DEF Event, Events
        <3> QED BY <1>0, <3>1, AppendIsConcat
    <2> DEFINE es == <<Event("adapter", ev, 0)>>
    <2>3. Postable(es)
        BY <2>1, PostableEvents
    <2> HIDE DEF es
    <2>4. queue' = queue \o es
        BY <2>1, <2>2 DEF es
    <2> QED BY <1>0, <2>1, <2>3, <2>4, PostStep
<1>6. CASE externalTransactionCreated
    <2>1. UNCHANGED <<wallet, txs, gui>> /\ lib # 0
        BY <1>6 DEF externalTransactionCreated
    <2>2. CASE isSynchronized
        <3> DEFINE es == ToModels("created", lib)
        <3>1. queue' = queue \o es
            BY <1>6, <2>2 DEF externalTransactionCreated
        <3>2. lib \in Nat /\ 1 <= lib /\ lib <= Len(txs)
            BY <2>1 DEF Basics, Types, LibInv
        <3>3. Postable(es)
            BY <3>2, PostableEvents
        <3> HIDE DEF es
        <3> QED BY <1>0, <2>1, <3>1, <3>3, PostStep
    <2>3. CASE ~isSynchronized
        BY <1>0, <1>6, <2>1, <2>3, NoPost DEF externalTransactionCreated
    <2> QED BY <2>2, <2>3
<1>7. CASE UnlockSent \/ TimerFires \/ ForgetLast
    BY <1>0, <1>7, NoPost DEF UnlockSent, TimerFires, ForgetLast, CheckLast, library, adapter
<1>8. CASE EmitSent
    <2> DEFINE x == Event("adapter", "sent", sending.id)
    <2>1. UNCHANGED <<wallet, txs, gui>> /\ (queue' = queue \o <<x, x>> \/ queue' = queue \o <<x>>)
        BY <1>8 DEF EmitSent, adapter
    <2>2. sending.id \in Nat /\ sending.id # 0
        BY <1>8 DEF EmitSent, Basics, Types, LibInv
    <2> DEFINE single == <<x>>
               double == <<x, x>>
    <2>3. Postable(single) /\ Postable(double)
        BY <2>2, PostableEvents
    <2>4. queue' = queue \o single \/ queue' = queue \o double
        BY <2>1
    <2> HIDE DEF single, double
    <2>5. txs' \in Seq(Kinds) /\ Len(txs) <= Len(txs') /\ (gui = "closing" => gui' = "closing") /\ (wallet => wallet')
        BY <1>0, <2>1
    <2>6. CASE queue' = queue \o single
        BY <2>3, <2>5, <2>6, PostStep
    <2>7. CASE queue' = queue \o double
        BY <2>3, <2>5, <2>7, PostStep
    <2> QED BY <2>4, <2>6, <2>7
<1>9. CASE CloseWallet
    <2> DEFINE es == ToModels("closed", 0)
    <2>1. queue' = queue \o es /\ gui' = "closing" /\ UNCHANGED <<wallet, txs>>
        BY <1>9 DEF CloseWallet
    <2>2. Postable(es)
        BY <2>1, PostableEvents
    <2> HIDE DEF es
    <2> QED BY <1>0, <2>1, <2>2, PostStep
<1>10. CASE EmitLast
    <2> DEFINE es == ToModels("created", lastId)
    <2>1. queue' = queue \o es /\ UNCHANGED <<wallet, txs>> /\ gui = "emitting"
        BY <1>10 DEF EmitLast, library
    <2>2. lastId \in Nat /\ 1 <= lastId /\ lastId <= Len(txs)
        BY <2>1 DEF Basics, Types, LibInv
    <2>3. Postable(es)
        BY <2>2, PostableEvents
    <2> HIDE DEF es
    <2> QED BY <1>0, <2>1, <2>3, PostStep
<1>11. CASE onProgress \/ onCompleted \/ Slots
    <2>1. queue # <<>> /\ queue' = Tail(queue) \o <<>> /\ UNCHANGED <<wallet, txs>>
        BY <1>11 DEF onProgress, onCompleted, Slots, Takes, Post, library,
                     reloadWalletTransactions, appendTransaction, resetTransactions,
                     reloadMessages, appendMessageTransaction, resetMessages,
                     reloadWalletDeposits, transactionCreated, resetDeposits
    <2>2. gui = "closing" => gui' = "closing"
        BY <1>11 DEF onProgress, onCompleted, CheckLast, Slots, adapter, Basics, LibInv,
                     reloadWalletTransactions, appendTransaction, resetTransactions,
                     reloadMessages, appendMessageTransaction, resetMessages,
                     reloadWalletDeposits, transactionCreated, resetDeposits
    <2>3. Postable(<<>>)
        BY PostableEvents
    <2>4. txs' \in Seq(Kinds) /\ Len(txs) <= Len(txs')
        BY <1>0, <2>1
    <2> DEFINE es == <<>>
    <2>5. Postable(es) /\ queue' = Tail(queue) \o es
        BY <2>1, <2>3
    <2> HIDE DEF es
    <2> QED BY <2>1, <2>2, <2>4, <2>5, PostStep
<1>12. CASE onWalletInitCompleted
    <2> DEFINE es == ToModels("reload", 0)
    <2>1. queue # <<>> /\ queue' = Tail(queue) \o es /\ UNCHANGED <<wallet, txs, gui>>
        BY <1>12 DEF onWalletInitCompleted, Takes, Post, library, adapter
    <2>2. wallet
        BY <1>12, TakesOne DEF onWalletInitCompleted, Basics, QueueInv
    <2>3. Postable(es)
        BY <2>2, PostableEvents
    <2> HIDE DEF es
    <2> QED BY <1>0, <2>1, <2>3, PostStep
<1>13. CASE onWalletSendTransactionCompleted
    <2> DEFINE id == Head(queue).id
               es == IF wallet /\ id <= Len(txs) THEN ToModels("created", id) ELSE <<>>
    <2>1. queue # <<>> /\ queue' = Tail(queue) \o es /\ UNCHANGED <<wallet, txs, gui>>
        BY <1>13 DEF onWalletSendTransactionCompleted, Takes, Post, library
    <2>2. id \in Nat /\ id # 0
        BY <1>13, TakesOne DEF onWalletSendTransactionCompleted, Basics, QueueInv
    <2>3. Postable(es)
        BY <2>2, PostableEvents
    <2> HIDE DEF es
    <2> QED BY <1>0, <2>1, <2>3, PostStep
<1> QED BY <1>1, <1>2, <1>3, <1>4, <1>5, <1>6, <1>7, <1>8, <1>9, <1>10, <1>11, <1>12, <1>13
       DEF Next, Library, User, Adapter

\* Every step keeps the types of what is not a row.
LEMMA TypesStep ==
    ASSUME Basics, Next, queue' \in Seq(Events)
    PROVE  Types'
<1>0. txs \in Seq(Kinds) /\ Len(txs) \in Nat /\ TxLimit \in Nat /\ Len(txs) <= TxLimit
    BY Constants DEF Basics, Types
<1> USE DEF Types
<1>1. CASE \E tx \in Received : Receive(tx)
    <2>1. PICK tx \in Kinds : /\ txs' = Append(txs, tx) /\ lib' = Len(txs') /\ Len(txs) < TxLimit
                              /\ UNCHANGED <<wallet, ready, sending, adapter, models>>
        BY <1>1 DEF Receive, Kinds
    <2>2. txs' \in Seq(Kinds) /\ Len(txs') <= TxLimit /\ lib' \in 0..TxLimit
        BY <1>0, <2>1, OneMore DEF Basics
    <2> QED BY <2>1, <2>2 DEF Basics, adapter, models
<1>2. CASE \E tx \in Sent : Send(tx)
    <2>1. PICK tx \in Kinds : /\ txs' = Append(txs, tx) /\ Len(txs) < TxLimit
                              /\ sending' = [at |-> "locked", id |-> Len(txs'), message |-> tx.messages]
                              /\ UNCHANGED <<wallet, ready, lib, adapter, models>>
        BY <1>2 DEF Send, Kinds
    <2>2. txs' \in Seq(Kinds) /\ Len(txs') <= TxLimit /\ Len(txs') \in 0..TxLimit
        BY <1>0, <2>1, OneMore DEF Basics
    <2>3. tx.messages \in BOOLEAN
        BY Constants DEF Transactions
    <2> QED BY <2>1, <2>2, <2>3 DEF Basics, adapter, models
<1>3. CASE \E stored \in Stored : Open(stored)
    BY <1>3, Constants DEF Open, Basics, adapter, models
<1>4. CASE DeleteWallet
    <2>1. <<>> \in Seq(Kinds) /\ Len(<<>>) = 0
        OBVIOUS
    <2>2. wallet' \in BOOLEAN /\ ready' \in BOOLEAN /\ loaded' \in BOOLEAN
        BY <1>4 DEF DeleteWallet
    <2>3. txs' \in Seq(Kinds) /\ Len(txs') <= TxLimit
        BY <1>0, <1>4, <2>1 DEF DeleteWallet
    <2>4. gui' \in {"idle", "emitting", "emitted", "closing"} /\ lost' \subseteq 1..TxLimit
        BY <1>4 DEF DeleteWallet
    <2>5. UNCHANGED <<lib, sending, isSynchronized, lastId, timer, crashed, depositCount>>
        BY <1>4 DEF DeleteWallet
    <2> QED BY <2>2, <2>3, <2>4, <2>5 DEF Basics
<1>5. CASE initCompleted \/ synchronizationProgressUpdated \/ synchronizationCompleted
    BY <1>5 DEF initCompleted, synchronizationProgressUpdated, synchronizationCompleted, Basics,
                adapter, models, library
<1>6. CASE externalTransactionCreated
    BY <1>0, <1>6 DEF externalTransactionCreated, Basics, models
<1>7. CASE UnlockSent \/ EmitSent
    <2>1. NoSend \in [at : {"none", "locked", "unlocked"}, id : 0..TxLimit, message : BOOLEAN]
        BY <1>0 DEF NoSend
    <2> QED BY <1>7, <2>1 DEF UnlockSent, EmitSent, Basics, adapter, models
<1>8. CASE TimerFires \/ EmitLast \/ onProgress \/ onCompleted \/ onWalletInitCompleted
           \/ onWalletSendTransactionCompleted \/ CloseWallet
    <2>1. UNCHANGED <<wallet, txs, ready, sending, lost, depositCount, loaded>>
        BY <1>8 DEF TimerFires, EmitLast, onProgress, onCompleted, onWalletInitCompleted, CloseWallet,
                    onWalletSendTransactionCompleted, library, adapter, models
    <2>2. gui' \in {"idle", "emitting", "emitted", "closing"}
        BY <1>8 DEF TimerFires, EmitLast, onProgress, onCompleted, onWalletInitCompleted, CloseWallet,
                    onWalletSendTransactionCompleted, CheckLast, adapter, Basics
    <2>3. isSynchronized' \in BOOLEAN /\ timer' \in BOOLEAN /\ crashed' \in BOOLEAN
        BY <1>8 DEF TimerFires, EmitLast, onProgress, onCompleted, onWalletInitCompleted, CloseWallet,
                    onWalletSendTransactionCompleted, adapter, Basics
    <2>4. lib' \in 0..TxLimit /\ lastId' \in 0..TxLimit
        BY <1>0, <1>8 DEF TimerFires, EmitLast, onProgress, onCompleted, onWalletInitCompleted, CloseWallet,
                    onWalletSendTransactionCompleted, library, adapter, Basics
    <2> QED BY <2>1, <2>2, <2>3, <2>4 DEF Basics
<1>9. CASE ForgetLast
    <2>1. lastId \in 1..TxLimit
        BY <1>0, <1>9 DEF ForgetLast, Basics, LibInv
    <2>2. lastId' \in 0..TxLimit /\ gui' \in {"idle", "emitting", "emitted", "closing"}
        BY <1>0, <1>9 DEF ForgetLast
    <2>3. lost' \subseteq 1..TxLimit
        <3>1. lost' = lost \cup ({lastId} \ Told) /\ lost \subseteq 1..TxLimit
            BY <1>9 DEF ForgetLast, Basics
        <3> QED BY <2>1, <3>1
    <2>4. UNCHANGED <<library, isSynchronized, timer, crashed, depositCount, loaded>>
        BY <1>9 DEF ForgetLast, models
    <2> QED BY <2>2, <2>3, <2>4 DEF Basics, library
<1>10. CASE Slots
    <2>1. depositCount' \in 0..TxLimit
        <3>1. Cardinality(Deposits(txs)) \in 0..TxLimit
            <4>1. DOMAIN txs = 1..Len(txs)
                BY <1>0
            <4>2. Deposits(txs) \subseteq 1..Len(txs)
                BY <4>1 DEF Deposits
            <4>3. IsFiniteSet(1..Len(txs)) /\ Cardinality(1..Len(txs)) = Len(txs)
                <5>1. 0 \in Int /\ 1 \in Int /\ Len(txs) \in Int
                    BY <1>0
                <5>2. IsFiniteSet(1..Len(txs))
                          /\ Cardinality(1..Len(txs)) = (IF 1 > Len(txs) THEN 0 ELSE Len(txs) - 1 + 1)
                    BY <5>1, FS_Interval
                <5> QED BY <1>0, <5>2
            <4>4. IsFiniteSet(Deposits(txs)) /\ Cardinality(Deposits(txs)) <= Len(txs)
                BY <4>2, <4>3, FS_Subset
            <4>5. Cardinality(Deposits(txs)) \in Nat
                BY <4>4, FS_CardinalityType
            <4> QED BY <1>0, <4>4, <4>5
        <3> QED BY <1>0, <1>10, <3>1 DEF Slots, Basics, reloadWalletTransactions, appendTransaction,
                   resetTransactions, reloadMessages, appendMessageTransaction, resetMessages,
                   reloadWalletDeposits, transactionCreated, resetDeposits, appendDeposit
    <2>2. loaded' \in BOOLEAN /\ UNCHANGED <<library, adapter>>
        BY <1>10 DEF Slots, Basics, reloadWalletTransactions, appendTransaction,
                   resetTransactions, reloadMessages, appendMessageTransaction, resetMessages,
                   reloadWalletDeposits, transactionCreated, resetDeposits
    <2> QED BY <2>1, <2>2 DEF Basics, library, adapter
<1> QED BY <1>1, <1>2, <1>3, <1>4, <1>5, <1>6, <1>7, <1>8, <1>9, <1>10
       DEF Next, Library, User, Adapter

\* Every step keeps what is kept back within the wallet.
LEMMA LibStep ==
    ASSUME Basics, Next
    PROVE  LibInv'
<1>0. /\ txs \in Seq(Kinds) /\ Len(txs) \in Nat /\ TxLimit \in Nat /\ Len(txs) <= TxLimit
      /\ lib \in Nat /\ lastId \in Nat
    BY Constants DEF Basics, Types
<1> USE DEF LibInv
<1>1. CASE \E tx \in Received : Receive(tx)
    <2>1. PICK tx \in Kinds : /\ txs' = Append(txs, tx) /\ lib' = Len(txs') /\ wallet /\ gui # "closing"
                              /\ UNCHANGED <<wallet, gui, lastId, sending>>
        BY <1>1 DEF Receive, Kinds, adapter, Observed
    <2>2. Len(txs') = Len(txs) + 1
        BY <2>1, OneMore DEF Basics
    <2> QED BY <1>0, <2>1, <2>2 DEF Basics
<1>2. CASE \E tx \in Sent : Send(tx)
    <2>1. PICK tx \in Kinds : /\ txs' = Append(txs, tx) /\ wallet /\ sending'.id = Len(txs')
                              /\ sending'.at = "locked" /\ UNCHANGED <<wallet, gui, lib, lastId>>
        BY <1>2 DEF Send, Kinds, adapter
    <2>2. Len(txs') = Len(txs) + 1
        BY <2>1, OneMore DEF Basics
    <2> QED BY <1>0, <2>1, <2>2 DEF Basics
<1>3. CASE \E stored \in Stored : Open(stored)
    <2>1. txs' \in Seq(Kinds)
        BY <1>3, Constants DEF Open
    <2> QED BY <1>0, <1>3, <2>1 DEF Open, Basics, adapter
<1>4. CASE DeleteWallet
    BY <1>0, <1>4 DEF DeleteWallet, Basics
<1>5. CASE initCompleted \/ synchronizationProgressUpdated \/ synchronizationCompleted
    BY <1>5 DEF initCompleted, synchronizationProgressUpdated, synchronizationCompleted, Basics,
                adapter, library
<1>6. CASE externalTransactionCreated
    BY <1>0, <1>6 DEF externalTransactionCreated, Basics, Observed
<1>7. CASE UnlockSent \/ EmitSent
    BY <1>7 DEF UnlockSent, EmitSent, NoSend, Basics, Types, adapter
<1>8. CASE TimerFires \/ EmitLast \/ ForgetLast
    BY <1>0, <1>8 DEF TimerFires, EmitLast, ForgetLast, CheckLast, Basics, library
<1>9. CASE CloseWallet
    BY <1>0, <1>9 DEF CloseWallet, Basics
<1>10. CASE onProgress \/ onCompleted \/ onWalletInitCompleted \/ onWalletSendTransactionCompleted \/ Slots
    BY <1>0, <1>10 DEF onProgress, onCompleted, onWalletInitCompleted, onWalletSendTransactionCompleted, Slots,
                CheckLast, Basics, library, adapter,
                reloadWalletTransactions, appendTransaction,
                resetTransactions, reloadMessages, appendMessageTransaction, resetMessages,
                reloadWalletDeposits, transactionCreated, resetDeposits
<1> QED BY <1>1, <1>2, <1>3, <1>4, <1>5, <1>6, <1>7, <1>8, <1>9, <1>10
       DEF Next, Library, User, Adapter

-----------------------------------------------------------------------------
(* TransactionsModel. *)

\* The transactions that are listed.
Listed == Cardinality(DOMAIN transactionRow)

\* Once it is loaded TransactionsModel lists the first transactions of the wallet.
RowsInv ==
    /\ Indexed(transfers, transactionRow, Listed)
    /\ loaded => wallet /\ Listed <= Len(txs) /\ transfers = Blocks(txs, Listed)

\* The index tells how many transactions are listed.
LEMMA ListedIs ==
    ASSUME NEW rows, NEW index, NEW k, Indexed(rows, index, k)
    PROVE  Cardinality(DOMAIN index) = k
<1>1. k \in Nat /\ DOMAIN index = 1..k
    BY Constants DEF Indexed
<1>2. Cardinality(1..k) = IF 1 > k THEN 0 ELSE k - 1 + 1
    <2>1. 1 \in Int /\ k \in Int
        BY <1>1
    <2> QED BY <2>1, FS_Interval
<1>3. Cardinality(1..k) = k
    BY <1>1, <1>2
<1> QED BY <1>1, <1>3

\* An empty list.
LEMMA NoRowsIndexed == Indexed(<<>>, <<>>, 0) /\ \A list : Blocks(list, 0) = <<>>
<1>1. <<>> \in RowsUpTo(0) /\ DOMAIN <<>> = 1..0 /\ 0 \in 0..TxLimit
    BY Constants DEF RowsUpTo
<1>2. Indexed(<<>>, <<>>, 0)
    BY <1>1 DEF Indexed
<1> QED BY <1>2, BlocksGrow

\* All transactions are listed after a reload.
LEMMA ReloadIs ==
    ASSUME Basics, reloadWalletTransactions
    PROVE  /\ Indexed(transfers', transactionRow', Len(txs)) /\ Listed' = Len(txs)
           /\ transfers' = Blocks(txs, Len(txs)) /\ loaded' = TRUE /\ wallet
           /\ UNCHANGED <<wallet, txs, gui>>
<1> DEFINE none == [rows |-> <<>>, index |-> <<>>]
           all == AppendAllRows(none, 0 + 1, Len(txs))
<1>0. txs \in Seq(Kinds) /\ Len(txs) \in Nat /\ Len(txs) <= TxLimit
    BY DEF Basics, Types
<1>1. none.rows = <<>> /\ none.index = <<>>
    OBVIOUS
<1>2. Indexed(none.rows, none.index, 0) /\ none.rows = Blocks(txs, 0)
    BY <1>1, NoRowsIndexed
<1>3. transfers' = all.rows /\ transactionRow' = all.index
    <2>1. 0 + 1 = 1
        OBVIOUS
    <2> QED BY <2>1 DEF reloadWalletTransactions, SetTransactions
<1> HIDE DEF none
<1>4. Reached(0, Len(txs)) = Len(txs)
    BY <1>0 DEF Reached
<1>5. Indexed(all.rows, all.index, Len(txs)) /\ all.rows = Blocks(txs, Len(txs))
    <2>1. /\ Indexed(all.rows, all.index, Reached(0, Len(txs)))
          /\ 0 <= Len(txs) /\ none.rows = Blocks(txs, 0) => all.rows = Blocks(txs, Reached(0, Len(txs)))
        BY <1>0, <1>2, AppendAllRowsIs
    <2> QED BY <1>0, <1>2, <1>4, <2>1
<1> HIDE DEF all
<1>6. Listed' = Len(txs)
    BY <1>3, <1>5, ListedIs DEF Listed
<1>7. wallet
    BY TakesOne DEF reloadWalletTransactions, Basics, QueueInv
<1>8. loaded' = TRUE /\ UNCHANGED <<wallet, txs, gui>>
    BY DEF reloadWalletTransactions, library, adapter
<1> QED BY <1>3, <1>5, <1>6, <1>7, <1>8

\* The listed transactions stay, and those up to the announced one follow.
LEMMA AppendIs ==
    ASSUME Basics, RowsInv, appendTransaction
    PROVE  LET id == Head(queue).id
           IN /\ id \in Nat /\ Indexed(transfers', transactionRow', Listed')
              /\ UNCHANGED <<wallet, txs, gui, loaded>>
              /\ Listed \in Nat /\ Listed' \in Nat
              /\ Listed' = (IF id \in DOMAIN transactionRow THEN Listed ELSE Reached(Listed, id))
              /\ Listed' = Listed => UNCHANGED transfers
              /\ loaded => transfers' = Blocks(txs, Listed')
<1> DEFINE id == Head(queue).id
           old == [rows |-> transfers, index |-> transactionRow]
           all == AppendAllRows(old, Listed + 1, id)
<1>0. txs \in Seq(Kinds) /\ Len(txs) \in Nat /\ Len(txs) <= TxLimit
    BY DEF Basics, Types
<1>1. id \in Nat
    BY TakesOne DEF appendTransaction
<1>2. UNCHANGED <<wallet, txs, gui, loaded>>
    BY DEF appendTransaction, library, adapter
<1>3. Indexed(transfers, transactionRow, Listed) /\ Listed \in Nat
    BY DEF RowsInv, Indexed
<1>4. CASE id \in DOMAIN transactionRow
    <2>1. UNCHANGED <<transfers, transactionRow>>
        BY <1>4 DEF appendTransaction
    <2> QED BY <1>1, <1>2, <1>3, <1>4, <2>1 DEF RowsInv, Listed
<1>5. CASE id \notin DOMAIN transactionRow
    <2>1. transfers' = all.rows /\ transactionRow' = all.index
        BY <1>5 DEF appendTransaction, SetTransactions, Listed
    <2>2. old.rows = transfers /\ old.index = transactionRow
        OBVIOUS
    <2> HIDE DEF old, id
    <2>3. /\ Indexed(all.rows, all.index, Reached(Listed, id))
          /\ Listed <= Len(txs) /\ old.rows = Blocks(txs, Listed) =>
                 all.rows = Blocks(txs, Reached(Listed, id))
        BY <1>0, <1>1, <1>3, <2>2, AppendAllRowsIs
    <2>4. Reached(Listed, id) = Listed => all.rows = transfers
        <3>1. CASE id <= Listed
            BY <1>1, <1>3, <2>2, <3>1 DEF AppendAllRows
        <3>2. CASE Listed < id
            <4>1. Reached(Listed, id) = Listed => Len(txs) <= Listed
                BY <1>0, <1>1, <1>3, <3>2 DEF Reached
            <4> SUFFICES ASSUME Len(txs) <= Listed PROVE all.rows = transfers
                BY <4>1
            <4> DEFINE f == AllRows(old, Listed + 1, id)
                       P(m) == Listed + m <= id => f[Listed + m] = old
                       S == {m \in Nat : P(m)}
            <4>2. P(0)
                BY <1>1, <1>3, <3>2, AllRowsDefined
            <4>3. ASSUME NEW m \in Nat, P(m) PROVE P(m + 1)
                <5> SUFFICES ASSUME Listed + (m + 1) <= id PROVE f[Listed + (m + 1)] = old
                    OBVIOUS
                <5> DEFINE at == Listed + (m + 1)
                <5>1. at \in (Listed + 1)..id /\ at - 1 = Listed + m /\ at > Len(txs)
                    BY <1>0, <1>1, <1>3
                <5>2. f[at - 1] = old
                    BY <1>1, <1>3, <4>3, <5>1
                <5>3. f[at] = AppendRows(f[at - 1], at)
                    <6>1. \A i \in (Listed + 1)..id : f[i] = AppendRows(f[i - 1], i)
                        BY <1>1, <1>3, <3>2, AllRowsDefined
                    <6> HIDE DEF f, at
                    <6> QED BY <5>1, <6>1
                <5> HIDE DEF f, at
                <5> QED BY <5>1, <5>2, <5>3 DEF AppendRows, at
            <4>4. id - Listed \in S
                <5>1. 0 \in S /\ \A m \in S : m + 1 \in S
                    BY <4>2, <4>3
                <5> HIDE DEF P
                <5>2. S \in SUBSET Nat /\ id - Listed \in Nat
                    BY <1>1, <1>3, <3>2
                <5> HIDE DEF S
                <5> QED BY <5>1, <5>2, SetInduction
            <4>5. Listed + (id - Listed) = id /\ id <= id
                BY <1>1, <1>3
            <4>6. f[id] = old
                BY <4>4, <4>5
            <4>7. all = f[id]
                BY <1>1, <1>3, <3>2, AllRowsDefined
            <4> HIDE DEF f, all
            <4> QED BY <2>2, <4>6, <4>7
        <3> QED BY <1>1, <1>3, <3>1, <3>2
    <2> HIDE DEF all
    <2>5. Listed' = Reached(Listed, id)
        BY <2>1, <2>3, ListedIs DEF Listed
    <2>6. Reached(Listed, id) \in Nat
        BY <1>0, <1>1, <1>3 DEF Reached
    <2>7. loaded => transfers' = Blocks(txs, Listed')
        BY <2>1, <2>2, <2>3, <2>5 DEF RowsInv
    <2> QED BY <1>1, <1>2, <1>3, <1>5, <2>1, <2>3, <2>4, <2>5, <2>6, <2>7 DEF id
<1> QED BY <1>4, <1>5

\* Every step keeps the rows and their index.
LEMMA RowsStep ==
    ASSUME Basics, RowsInv, Next
    PROVE  RowsInv'
<1>0. txs \in Seq(Kinds) /\ Len(txs) \in Nat /\ Listed \in Nat
    BY DEF Basics, Types, RowsInv, Indexed
<1>1. CASE (\E tx \in Received : Receive(tx)) \/ (\E tx \in Sent : Send(tx))
    <2>1. PICK tx \in Kinds : txs' = Append(txs, tx) /\ UNCHANGED <<wallet, models>>
        BY <1>1 DEF Receive, Send, Kinds
    <2>2. Len(txs') = Len(txs) + 1 /\ \A i \in 1..Len(txs) : txs'[i] = txs[i]
        BY <2>1, OneMore DEF Basics
    <2>3. ASSUME loaded PROVE Listed <= Len(txs') /\ transfers = Blocks(txs', Listed)
        <3>1. Listed <= Len(txs) /\ transfers = Blocks(txs, Listed)
            BY <2>3 DEF RowsInv
        <3>2. \A i \in 1..Listed : txs[i] = txs'[i]
            BY <1>0, <2>2, <3>1
        <3>3. Blocks(txs, Listed) = Blocks(txs', Listed)
            BY <1>0, <3>2, BlocksStay
        <3> QED BY <1>0, <2>2, <3>1, <3>3
    <2>4. UNCHANGED <<transfers, transactionRow, loaded, wallet>>
        BY <2>1 DEF models
    <2> QED BY <2>3, <2>4 DEF RowsInv, Listed
<1>2. CASE \E stored \in Stored : Open(stored)
    <2>1. ~wallet /\ UNCHANGED <<transfers, transactionRow, loaded>>
        BY <1>2 DEF Open, models
    <2> QED BY <2>1 DEF RowsInv, Listed
<1>3. CASE DeleteWallet
    <2>1. loaded' = FALSE /\ UNCHANGED <<transfers, transactionRow>>
        BY <1>3 DEF DeleteWallet
    <2> QED BY <2>1 DEF RowsInv, Listed
<1>4. CASE initCompleted \/ externalTransactionCreated \/ synchronizationProgressUpdated
           \/ synchronizationCompleted \/ UnlockSent \/ EmitSent \/ CloseWallet \/ TimerFires \/ EmitLast
           \/ ForgetLast \/ onProgress \/ onCompleted \/ onWalletInitCompleted
           \/ onWalletSendTransactionCompleted \/ reloadMessages \/ appendMessageTransaction \/ resetMessages
           \/ reloadWalletDeposits \/ transactionCreated \/ resetDeposits
    <2>1. UNCHANGED <<wallet, txs, transfers, transactionRow, loaded>>
        BY <1>4 DEF initCompleted, externalTransactionCreated, synchronizationProgressUpdated,
               synchronizationCompleted, UnlockSent, EmitSent, CloseWallet, TimerFires, EmitLast,
               ForgetLast, onProgress, onCompleted, onWalletInitCompleted,
               onWalletSendTransactionCompleted, reloadMessages, appendMessageTransaction, resetMessages,
               reloadWalletDeposits, transactionCreated, resetDeposits, library, models
    <2> QED BY <2>1 DEF RowsInv, Listed
<1>5. CASE reloadWalletTransactions
    BY <1>0, <1>5, ReloadIs DEF RowsInv
<1>6. CASE appendTransaction
    <2>1. loaded => Listed <= Len(txs)
        BY DEF RowsInv
    <2>2. loaded => Reached(Listed, Head(queue).id) <= Len(txs)
        BY <1>0, <1>6, <2>1, AppendIs DEF Reached
    <2> QED BY <1>0, <1>6, <2>1, <2>2, AppendIs DEF RowsInv
<1>7. CASE resetTransactions
    <2>1. transfers' = <<>> /\ transactionRow' = <<>> /\ loaded' = FALSE
        BY <1>7 DEF resetTransactions
    <2>2. Listed' = 0
        BY <2>1, NoRowsIndexed, ListedIs DEF Listed
    <2> QED BY <2>1, <2>2, NoRowsIndexed DEF RowsInv
<1> QED BY <1>1, <1>2, <1>3, <1>4, <1>5, <1>6, <1>7 DEF Next, Library, User, Adapter, Slots

-----------------------------------------------------------------------------
(* What is announced. *)

Live == loaded /\ gui # "closing"

\* Something will bring transaction `id` to TransactionsModel, or it was forgotten untold.
Covers(id) ==
    \/ lastId >= id
    \/ lib >= id
    \/ \E t \in lost : t >= id
    \/ sending.id \in id..Len(txs)
    \/ \E t \in id..Len(txs) : Has(queue, Event("adapter", "sent", t))
    \/ \E t \in id..TxLimit : Has(queue, Event("transactions", "created", t))

Covered == Live => \A id \in (Listed + 1)..Len(txs) : Covers(id)

\* A transaction that is still to be announced to one of the models is listed, or is still to
\* be announced to TransactionsModel.
Announced ==
    Live => \A e : Has(queue, e) /\ e.ev = "created" =>
                e.id <= Listed \/ Has(queue, Event("transactions", "created", e.id))

\* A step after which what covered a transaction still does.
LEMMA CoverKept ==
    ASSUME Covered, Announced, Listed' = Listed, UNCHANGED txs, Live' => Live,
           Live => \A id \in (Listed + 1)..Len(txs) : Covers(id) => Covers(id)',
           Live => \A e : Has(queue, e) /\ e.to = "transactions" => Has(queue', e),
           \A e : Has(queue', e) /\ e.ev = "created" =>
               Has(queue, e) \/ Has(queue', Event("transactions", "created", e.id))
    PROVE  Covered' /\ Announced'
<1>1. Covered'
    BY DEF Covered
<1>2. ASSUME Live', NEW e, Has(queue', e), e.ev = "created"
      PROVE  e.id <= Listed' \/ Has(queue', Event("transactions", "created", e.id))
    <2>1. CASE Has(queue, e)
        <3>1. e.id <= Listed \/ Has(queue, Event("transactions", "created", e.id))
            BY <1>2, <2>1 DEF Announced
        <3>2. Event("transactions", "created", e.id).to = "transactions"
            BY DEF Event
        <3> QED BY <1>2, <3>1, <3>2
    <2> QED BY <1>2, <2>1
<1> QED BY <1>1, <1>2 DEF Announced

\* The events after a step that posts some, and after one that takes one and posts some.
LEMMA PostedHas ==
    ASSUME Basics, NEW es \in Seq(Events), queue' = queue \o es
    PROVE  \A e : Has(queue', e) <=> Has(queue, e) \/ Has(es, e)
BY PostedIs DEF Basics, Types

\* (The same for a slot.)
LEMMA TakenHas ==
    ASSUME Basics, NEW es \in Seq(Events), queue # <<>>, queue' = Tail(queue) \o es
    PROVE  /\ \A e : Has(queue', e) <=> Has(Tail(queue), e) \/ Has(es, e)
           /\ \A e : Has(queue, e) <=> e = Head(queue) \/ Has(Tail(queue), e)
<1>1. queue \in Seq(Events)
    BY DEF Basics, Types
<1>2. Tail(queue) \in Seq(Events) /\ \A e : Has(queue, e) <=> e = Head(queue) \/ Has(Tail(queue), e)
    BY <1>1, TakenIs
<1>3. \A e : Has(Tail(queue) \o es, e) <=> Has(Tail(queue), e) \/ Has(es, e)
    BY <1>2, PostedIs
<1> QED BY <1>2, <1>3

\* A step that posts some events and leaves what is to be told alone.
LEMMA PostKeepsCover ==
    ASSUME Basics, Covered, Announced, NEW es \in Seq(Events), queue' = queue \o es,
           Listed' = Listed, UNCHANGED txs, Live' => Live, lost \subseteq lost', UNCHANGED <<lib, lastId>>,
           sending'.id = sending.id,
           \A e : Has(es, e) /\ e.ev = "created" => Has(es, Event("transactions", "created", e.id))
    PROVE  Covered' /\ Announced'
<1>1. \A e : Has(queue', e) <=> Has(queue, e) \/ Has(es, e)
    BY PostedHas
<1>2. \A id : Covers(id) => Covers(id)'
    BY <1>1 DEF Covers
<1> QED BY <1>1, <1>2, CoverKept

\* A step that takes an event TransactionsModel does not get, and no completed send.
LEMMA TakeKeepsCover ==
    ASSUME Basics, Covered, Announced, NEW es \in Seq(Events), queue # <<>>, queue' = Tail(queue) \o es,
           Head(queue).to # "transactions", Head(queue).ev # "sent",
           Listed' = Listed, UNCHANGED txs, Live' => Live, UNCHANGED <<lib, lastId, lost, sending>>,
           \A e : Has(es, e) => e.ev # "created"
    PROVE  Covered' /\ Announced'
<1>1. \A e : Has(queue', e) <=> Has(Tail(queue), e) \/ Has(es, e)
    BY TakenHas
<1>2. \A e : Has(queue, e) <=> e = Head(queue) \/ Has(Tail(queue), e)
    BY TakenHas
<1>3. \A t : /\ Event("adapter", "sent", t).ev = "sent"
             /\ Event("transactions", "created", t).to = "transactions"
    BY DEF Event
<1>4. \A id : Covers(id) => Covers(id)'
    BY <1>1, <1>2, <1>3 DEF Covers
<1> QED BY <1>1, <1>2, <1>4, CoverKept

\* No step uncovers a transaction.
LEMMA CoverStep ==
    ASSUME Basics, RowsInv, Covered, Announced, Next
    PROVE  Covered' /\ Announced'
<1>0. /\ txs \in Seq(Kinds) /\ Len(txs) \in Nat /\ TxLimit \in Nat /\ Len(txs) <= TxLimit /\ Listed \in Nat
      /\ lib \in Nat /\ lastId \in Nat /\ sending.id \in Nat
    BY Constants DEF Basics, Types, RowsInv, Indexed
<1>1. ASSUME NEW tx \in Kinds, txs' = Append(txs, tx),
             UNCHANGED <<gui, loaded, transactionRow, lost, lastId, queue>>,
             \/ lib' = Len(txs') /\ lib = 0 /\ UNCHANGED sending
             \/ sending'.id = Len(txs') /\ sending.id = 0 /\ UNCHANGED lib
      PROVE  Covered' /\ Announced'
    <2>1. Len(txs') = Len(txs) + 1
        BY <1>1, OneMore DEF Basics
    <2>2. Announced'
        BY <1>1 DEF Announced, Live, Listed
    <2>3. ASSUME Live', NEW id \in (Listed + 1)..Len(txs') PROVE Covers(id)'
        <3>1. CASE id = Len(txs')
            BY <1>1, <2>1, <3>1 DEF Covers
        <3>2. CASE id # Len(txs')
            <4>1. id \in (Listed + 1)..Len(txs) /\ Live
                BY <1>0, <1>1, <2>1, <2>3, <3>2 DEF Live
            <4>2. Covers(id)
                BY <4>1 DEF Covered
            <4>3. \A t \in id..Len(txs) : t \in id..Len(txs')
                BY <1>0, <2>1
            <4>4. id > 0
                BY <1>0, <4>1
            <4> QED BY <1>0, <1>1, <4>2, <4>3, <4>4 DEF Covers
        <3> QED BY <3>1, <3>2
    <2> QED BY <1>1, <2>2, <2>3 DEF Covered, Listed
<1>2. CASE \E tx \in Received : Receive(tx)
    <2>1. PICK tx \in Received : Receive(tx)
        BY <1>2
    <2> QED BY <1>1, <2>1 DEF Receive, Kinds, adapter, models
<1>3. CASE \E tx \in Sent : Send(tx)
    <2>1. PICK tx \in Sent : Send(tx)
        BY <1>3
    <2>2. sending'.id = Len(txs') /\ sending.id = 0
        BY <2>1 DEF Send, Basics, LibInv
    <2> QED BY <1>1, <2>1, <2>2 DEF Send, Kinds, adapter, models
<1>4. CASE (\E stored \in Stored : Open(stored)) \/ CloseWallet \/ DeleteWallet \/ resetTransactions
    <2>1. ~Live'
        BY <1>4 DEF Open, CloseWallet, DeleteWallet, resetTransactions, models, RowsInv, Live
    <2> QED BY <2>1 DEF Covered, Announced
<1>5. CASE initCompleted \/ synchronizationProgressUpdated \/ synchronizationCompleted
    <2>1. PICK ev \in {"init", "progress", "completed"} :
              queue' = Append(queue, Event("adapter", ev, 0))
        BY <1>5 DEF initCompleted, synchronizationProgressUpdated, synchronizationCompleted
    <2>2. UNCHANGED <<txs, lib, sending, lastId, lost, gui, loaded, transactionRow>>
        BY <1>5 DEF initCompleted, synchronizationProgressUpdated, synchronizationCompleted, adapter, library, models
    <2> DEFINE e == Event("adapter", ev, 0)
               es == <<e>>
    <2>3. e \in Events /\ e.to = "adapter" /\ e.ev # "created"
        BY DEF Event, Events
    <2>4. queue' = queue \o es
        BY <2>1, <2>3, AppendIsConcat DEF Basics, Types
    <2> HIDE DEF e
    <2>5. es \in Seq(Events) /\ \A x : Has(es, x) => x = e
        BY <2>3, SingleIs
    <2> HIDE DEF es
    <2>6. Listed' = Listed /\ Live' = Live
        BY <2>2 DEF Listed, Live
    <2> QED BY <2>2, <2>3, <2>4, <2>5, <2>6, PostKeepsCover
<1>6. CASE externalTransactionCreated
    <2>1. UNCHANGED <<txs, sending, lost, gui, loaded, transactionRow>> /\ lib # 0 /\ lib' = 0 /\ lib \in Nat
        BY <1>0, <1>6 DEF externalTransactionCreated, models
    <2>2. Listed' = Listed /\ Live' = Live
        BY <2>1 DEF Listed, Live
    <2>3. CASE isSynchronized
        <3> DEFINE es == ToModels("created", lib)
        <3>1. queue' = queue \o es /\ UNCHANGED lastId
            BY <1>6, <2>3 DEF externalTransactionCreated
        <3>2. es \in Seq(Events) /\ \A e : Has(es, e) <=> \E to \in Models : e = Event(to, "created", lib)
            BY <2>1, ToModelsIs
        <3> HIDE DEF es
        <3>3. \A e : Has(queue', e) <=> Has(queue, e) \/ Has(es, e)
            BY <3>1, <3>2, PostedHas
        <3>4. Has(es, Event("transactions", "created", lib))
            BY <3>2 DEF Models
        <3>5. \A e : Has(es, e) => e.id = lib
            BY <3>2 DEF Event
        <3>6. lib <= TxLimit
            BY <1>0 DEF Basics, LibInv
        <3>7. \A id \in (Listed + 1)..Len(txs) : Covers(id) => Covers(id)'
            <4> SUFFICES ASSUME NEW id \in (Listed + 1)..Len(txs), Covers(id) PROVE Covers(id)'
                OBVIOUS
            <4>1. CASE lib >= id
                <5>1. lib \in id..TxLimit
                    BY <1>0, <3>6, <4>1
                <5> QED BY <3>3, <3>4, <5>1 DEF Covers
            <4>2. CASE ~(lib >= id)
                BY <2>1, <3>1, <3>3, <4>2 DEF Covers
            <4> QED BY <4>1, <4>2
        <3> QED BY <2>1, <2>2, <3>3, <3>4, <3>5, <3>7, CoverKept
    <2>4. CASE ~isSynchronized
        <3>1. lastId' = lib /\ UNCHANGED queue /\ lastId <= lib
            BY <1>6, <2>1, <2>4 DEF externalTransactionCreated, Basics, LibInv
        <3>2. \A id \in (Listed + 1)..Len(txs) : Covers(id) => Covers(id)'
            BY <1>0, <2>1, <3>1 DEF Covers
        <3> QED BY <2>1, <2>2, <3>1, <3>2, CoverKept
    <2> QED BY <2>3, <2>4
<1>7. CASE UnlockSent \/ TimerFires
    <2>1. /\ UNCHANGED <<txs, lib, lastId, lost, loaded, transactionRow, queue>>
          /\ sending'.id = sending.id
        BY <1>7 DEF UnlockSent, TimerFires, adapter, library, models, Basics, Types
    <2>2. Listed' = Listed /\ (Live' => Live)
        BY <1>7, <2>1 DEF UnlockSent, TimerFires, adapter, Listed, Live
    <2>3. \A id : Covers(id) => Covers(id)'
        BY <2>1 DEF Covers
    <2> QED BY <2>1, <2>2, <2>3, CoverKept
<1>8. CASE EmitSent
    <2> DEFINE x == Event("adapter", "sent", sending.id)
               single == <<x>>
               double == <<x, x>>
    <2>1. UNCHANGED <<txs, lib, lastId, lost, gui, loaded, transactionRow>> /\ sending'.id = 0
        BY <1>8 DEF EmitSent, adapter, models, NoSend
    <2>2. Listed' = Listed /\ Live' = Live
        BY <2>1 DEF Listed, Live
    <2>3. x \in Events /\ x.to = "adapter" /\ x.ev # "created"
        BY <1>0 DEF Event, Events
    <2>4. queue' = queue \o single \/ queue' = queue \o double
        BY <1>8 DEF EmitSent
    <2> HIDE DEF x
    <2>5. PICK es \in Seq(Events) : queue' = queue \o es /\ \A e : Has(es, e) <=> e = x
        <3>1. /\ single \in Seq(Events) /\ \A e : Has(single, e) <=> e = x
              /\ double \in Seq(Events) /\ \A e : Has(double, e) <=> e = x
            BY <2>3, SingleIs
        <3> HIDE DEF single, double
        <3> QED BY <2>4, <3>1
    <2>6. \A e : Has(queue', e) <=> Has(queue, e) \/ Has(es, e)
        BY <2>5, PostedHas
    <2>7. \A id \in (Listed + 1)..Len(txs) : Covers(id) => Covers(id)'
        <3> SUFFICES ASSUME NEW id \in (Listed + 1)..Len(txs), Covers(id) PROVE Covers(id)'
            OBVIOUS
        <3>1. CASE sending.id \in id..Len(txs)
            BY <2>1, <2>5, <2>6, <3>1 DEF Covers, x
        <3>2. CASE ~(sending.id \in id..Len(txs))
            BY <2>1, <2>6, <3>2 DEF Covers
        <3> QED BY <3>1, <3>2
    <2> QED BY <2>1, <2>2, <2>3, <2>5, <2>6, <2>7, CoverKept
<1>9. CASE EmitLast
    <2> DEFINE es == ToModels("created", lastId)
    <2>1. /\ UNCHANGED <<txs, lib, lastId, lost, sending, loaded, transactionRow>> /\ queue' = queue \o es
          /\ gui = "emitting"
        BY <1>9 DEF EmitLast, library, models
    <2>2. Listed' = Listed /\ (Live' => Live)
        BY <2>1 DEF Listed, Live
    <2>3. es \in Seq(Events) /\ \A e : Has(es, e) <=> \E to \in Models : e = Event(to, "created", lastId)
        BY <1>0, ToModelsIs
    <2> HIDE DEF es
    <2>4. \A e : Has(es, e) /\ e.ev = "created" => Has(es, Event("transactions", "created", e.id))
        BY <2>3 DEF Event, Models
    <2> QED BY <2>1, <2>2, <2>3, <2>4, PostKeepsCover
<1>10. CASE ForgetLast
    <2>1. /\ UNCHANGED <<txs, lib, sending, loaded, transactionRow, queue>>
          /\ gui = "emitted" /\ lost' = lost \cup ({lastId} \ Told)
        BY <1>10 DEF ForgetLast, library, models
    <2>2. Listed' = Listed /\ (Live' => Live)
        BY <2>1 DEF Listed, Live
    <2>3. ASSUME Live, NEW id \in (Listed + 1)..Len(txs), Covers(id) PROVE Covers(id)'
        <3>1. CASE lastId >= id
            <4>1. CASE lastId \notin Told
                BY <2>1, <3>1, <4>1 DEF Covers
            <4>2. CASE lastId \in Told
                <5>1. PICK i \in DOMAIN queue : queue[i].ev = "created" /\ queue[i].id = lastId
                    BY <4>2 DEF Told
                <5>2. Has(queue, queue[i])
                    <6>1. DOMAIN queue = 1..Len(queue)
                        BY DEF Basics, Types
                    <6> QED BY <5>1, <6>1 DEF Has
                <5>3. Has(queue, Event("transactions", "created", lastId))
                    BY <1>0, <2>3, <3>1, <5>1, <5>2 DEF Announced
                <5>4. lastId \in id..TxLimit
                    BY <1>0, <3>1 DEF Basics, Types
                <5> QED BY <2>1, <5>3, <5>4 DEF Covers
            <4> QED BY <4>1, <4>2
        <3>2. CASE ~(lastId >= id)
            BY <2>1, <2>3, <3>2 DEF Covers
        <3> QED BY <3>1, <3>2
    <2> QED BY <2>1, <2>2, <2>3, CoverKept
<1>11. CASE onProgress \/ onCompleted \/ onWalletInitCompleted
    <2>1. /\ UNCHANGED <<txs, lib, sending, lastId, lost, loaded, transactionRow>>
          /\ queue # <<>> /\ Head(queue).to # "transactions" /\ Head(queue).ev # "sent"
        BY <1>11 DEF onProgress, onCompleted, onWalletInitCompleted, Takes, library, adapter, models
    <2>2. Live' => Live
        BY <1>11 DEF onProgress, onCompleted, onWalletInitCompleted, CheckLast, adapter, models, Live,
                     Basics, LibInv
    <2>3. Listed' = Listed
        BY <2>1 DEF Listed
    <2>4. CASE onProgress \/ onCompleted
        <3> DEFINE es == <<>>
        <3>1. queue' = Tail(queue) \o es
            BY <2>4 DEF onProgress, onCompleted, Post
        <3>2. es \in Seq(Events) /\ \A e : ~Has(es, e)
            BY NothingIs
        <3> HIDE DEF es
        <3> QED BY <2>1, <2>2, <2>3, <3>1, <3>2, TakeKeepsCover
    <2>5. CASE onWalletInitCompleted
        <3> DEFINE es == ToModels("reload", 0)
        <3>1. queue' = Tail(queue) \o es
            BY <2>5 DEF onWalletInitCompleted, Post
        <3>2. es \in Seq(Events) /\ \A e : Has(es, e) => e.ev # "created"
            BY ToModelsIs DEF Event
        <3> HIDE DEF es
        <3> QED BY <2>1, <2>2, <2>3, <3>1, <3>2, TakeKeepsCover
    <2> QED BY <1>11, <2>4, <2>5
<1>12. CASE onWalletSendTransactionCompleted
    <2> DEFINE sent == Head(queue).id
               es == IF wallet /\ sent <= Len(txs) THEN ToModels("created", sent) ELSE <<>>
    <2>1. /\ UNCHANGED <<txs, lib, sending, lastId, lost, gui, loaded, transactionRow>>
          /\ queue # <<>> /\ queue' = Tail(queue) \o es
        BY <1>12 DEF onWalletSendTransactionCompleted, Takes, Post, library, models
    <2>2. /\ sent \in Nat /\ Head(queue).ev = "sent" /\ Head(queue).to = "adapter"
        BY <1>12, TakesOne DEF onWalletSendTransactionCompleted
    <2>3. Listed' = Listed /\ Live' = Live /\ (Live => wallet)
        BY <2>1 DEF Listed, Live, RowsInv
    <2>4. /\ es \in Seq(Events)
          /\ wallet /\ sent <= Len(txs) => Has(es, Event("transactions", "created", sent))
          /\ \A e : Has(es, e) => Has(es, Event("transactions", "created", e.id))
        <3>1. CASE wallet /\ sent <= Len(txs)
            <4>1. es = ToModels("created", sent)
                BY <3>1
            <4> HIDE DEF es, sent
            <4>2. es \in Seq(Events) /\ \A e : Has(es, e) <=> \E to \in Models : e = Event(to, "created", sent)
                BY <2>2, <4>1, ToModelsIs
            <4> QED BY <4>2 DEF Event, Models
        <3>2. CASE ~(wallet /\ sent <= Len(txs))
            BY <3>2, NothingIs
        <3> QED BY <3>1, <3>2
    <2> HIDE DEF es
    <2>5. /\ \A e : Has(queue', e) <=> Has(Tail(queue), e) \/ Has(es, e)
          /\ \A e : Has(queue, e) <=> e = Head(queue) \/ Has(Tail(queue), e)
        BY <2>1, <2>4, TakenHas
    <2>6. ASSUME Live, NEW id \in (Listed + 1)..Len(txs), Covers(id) PROVE Covers(id)'
        <3>1. CASE \E t \in id..Len(txs) : Head(queue) = Event("adapter", "sent", t)
            <4>1. sent \in id..Len(txs) /\ sent \in id..TxLimit
                BY <1>0, <3>1 DEF Event
            <4>2. Has(queue', Event("transactions", "created", sent))
                BY <1>0, <2>3, <2>4, <2>5, <2>6, <4>1
            <4> QED BY <4>1, <4>2 DEF Covers
        <3>2. CASE ~\E t \in id..Len(txs) : Head(queue) = Event("adapter", "sent", t)
            <4>1. \A t : Head(queue) # Event("transactions", "created", t)
                BY <2>2 DEF Event
            <4> QED BY <2>1, <2>5, <2>6, <3>2, <4>1 DEF Covers
        <3> QED BY <3>1, <3>2
    <2> QED BY <2>1, <2>2, <2>3, <2>4, <2>5, <2>6, CoverKept
<1>13. CASE reloadMessages \/ appendMessageTransaction \/ resetMessages
            \/ reloadWalletDeposits \/ transactionCreated \/ resetDeposits
    <2> DEFINE es == <<>>
    <2>1. /\ UNCHANGED <<txs, lib, sending, lastId, lost, gui, loaded, transactionRow>>
          /\ queue # <<>> /\ queue' = Tail(queue) \o es
          /\ Head(queue).to # "transactions" /\ Head(queue).ev # "sent"
        BY <1>13 DEF reloadMessages, appendMessageTransaction, resetMessages, reloadWalletDeposits,
                     transactionCreated, resetDeposits, Takes, Post, library, adapter
    <2>2. Listed' = Listed /\ Live' = Live
        BY <2>1 DEF Listed, Live
    <2>3. es \in Seq(Events) /\ \A e : ~Has(es, e)
        BY NothingIs
    <2> HIDE DEF es
    <2> QED BY <2>1, <2>2, <2>3, TakeKeepsCover
<1>14. CASE reloadWalletTransactions
    <2>1. Listed' = Len(txs) /\ UNCHANGED txs /\ queue # <<>> /\ queue' = Tail(queue) \o <<>>
        BY <1>14, ReloadIs DEF reloadWalletTransactions, Takes, Post
    <2>2. \A e : Has(queue', e) => Has(queue, e)
        <3> DEFINE es == <<>>
        <3>1. es \in Seq(Events) /\ \A e : ~Has(es, e)
            BY NothingIs
        <3>2. queue' = Tail(queue) \o es
            BY <2>1
        <3> HIDE DEF es
        <3> QED BY <2>1, <3>1, <3>2, TakenHas
    <2>3. \A e : Has(queue', e) /\ e.ev = "created" => e.id <= Len(txs)
        BY <2>2 DEF Basics, QueueInv
    <2>4. ~\E id \in (Listed' + 1)..Len(txs') : TRUE
        BY <1>0, <2>1
    <2> QED BY <2>1, <2>3, <2>4 DEF Covered, Announced
<1>15. CASE appendTransaction
    <2> DEFINE id == Head(queue).id
               es == <<>>
    <2>1. /\ UNCHANGED <<txs, lib, sending, lastId, lost, gui, loaded>> /\ queue # <<>>
          /\ queue' = Tail(queue) \o es /\ Head(queue).to = "transactions" /\ Head(queue).ev = "created"
        BY <1>15 DEF appendTransaction, Takes, Post, library, adapter
    <2>2. id \in 1..Len(txs)
        BY <1>15, TakesOne DEF appendTransaction, Basics, QueueInv
    <2>3. Listed <= Listed' /\ id <= Listed' /\ Listed' \in Nat
        <3>1. DOMAIN transactionRow = 1..Listed
            BY DEF RowsInv, Indexed
        <3>2. Listed' = IF id \in DOMAIN transactionRow THEN Listed ELSE Reached(Listed, id)
            BY <1>15, AppendIs
        <3> QED BY <1>0, <2>2, <3>1, <3>2 DEF Reached
    <2>4. es \in Seq(Events) /\ \A e : ~Has(es, e)
        BY NothingIs
    <2> HIDE DEF es
    <2>5. /\ \A e : Has(queue', e) <=> Has(Tail(queue), e)
          /\ \A e : Has(queue, e) <=> e = Head(queue) \/ Has(Tail(queue), e)
        BY <2>1, <2>4, TakenHas
    <2>6. Head(queue) = Event("transactions", "created", id)
        <3>1. Head(queue) \in Events
            BY <1>15, TakesOne DEF appendTransaction
        <3> QED BY <2>1, <3>1 DEF Events, Event
    <2>10. PICK n \in Nat : n = Listed'
        BY <2>3
    <2>7. ASSUME Live, NEW t \in (n + 1)..Len(txs) PROVE Covers(t)'
        <3>1. t \in (Listed + 1)..Len(txs) /\ id < t
            <4>1. Len(txs) \in Int /\ Listed \in Int
                BY <1>0
            <4>2. t \in Int /\ n + 1 <= t /\ t <= Len(txs)
                BY <4>1
            <4>3. Listed <= n /\ id <= n
                BY <2>3, <2>10
            <4>4. id \in Int
                BY <2>2
            <4> HIDE DEF id
            <4>5. Listed + 1 <= t
                BY <4>1, <4>2, <4>3
            <4>6. id < t
                BY <4>2, <4>3, <4>4
            <4> QED BY <4>1, <4>2, <4>5, <4>6
        <3>2. Covers(t)
            BY <2>7, <3>1 DEF Covered
        <3>3. \A u \in t..TxLimit : Event("transactions", "created", u) # Head(queue)
            BY <1>0, <2>2, <3>1 DEF Event
        <3>4. \A u : Event("adapter", "sent", u) # Head(queue)
            BY <2>1 DEF Event
        <3> QED BY <2>1, <2>5, <3>2, <3>3, <3>4 DEF Covers
    <2>8. ASSUME Live, NEW e, Has(queue', e), e.ev = "created"
          PROVE  e.id <= Listed' \/ Has(queue', Event("transactions", "created", e.id))
        <3>1. e.id <= Listed \/ Has(queue, Event("transactions", "created", e.id))
            BY <2>5, <2>8 DEF Announced
        <3>2. e.id \in Int
            <4>1. Has(queue, e) /\ queue \in Seq(Events)
                BY <2>5, <2>8 DEF Basics, Types
            <4>2. e \in Events
                BY <4>1, ElementOfSeq DEF Has
            <4> QED BY <4>2 DEF Events
        <3>3. Event("transactions", "created", e.id) = Head(queue) => e.id = id
            BY <2>6 DEF Event
        <3> QED BY <1>0, <2>3, <2>5, <3>1, <3>2, <3>3
    <2>9. Live' => Live
        BY <2>1 DEF Live
    <2> QED BY <2>1, <2>7, <2>8, <2>9, <2>10 DEF Covered, Announced
<1> QED BY <1>2, <1>3, <1>4, <1>5, <1>6, <1>7, <1>8, <1>9, <1>10, <1>11, <1>12, <1>13, <1>14, <1>15
       DEF Next, Library, User, Adapter, Slots

-----------------------------------------------------------------------------
(* MessagesModel: its rows. *)

Missing(rows, id) == txs[id].messages /\ ~HasRows(rows, id)

\* The messages before transaction `id` have as many rows as there are transactions up to it.
Enough(rows, id) == Cardinality({i \in DOMAIN rows : rows[i].transaction < id}) >= id

Before(rows, id) == \A i \in 1..Len(rows) : rows[i].transaction < id

InOrder(rows) ==
    \A i \in DOMAIN rows : \A j \in 1..(i - 1) :
        \/ rows[j].transaction < rows[i].transaction
        \/ /\ rows[j].transaction = rows[i].transaction
           /\ rows[j].transfer < rows[i].transfer

\* Rows in order, which leave out only messages that will be left out for good, or that may
\* still be appended in order.
Shows(rows) ==
    /\ \A i \in 1..Len(rows) : rows[i].transaction <= Len(txs)
    /\ InOrder(rows)
    /\ \A id \in 1..Len(txs) : Missing(rows, id) => Enough(rows, id) \/ Before(rows, id)

\* `more` begins with `rows`.
Longer(rows, more) == Len(rows) <= Len(more) /\ \A i \in 1..Len(rows) : more[i] = rows[i]

\* How many rows are before a transaction.
LEMMA EnoughIs ==
    ASSUME NEW rows \in RowsUpTo(TxLimit), NEW id \in Nat
    PROVE  /\ Enough(rows, id) => id <= Len(rows)
           /\ Before(rows, id) /\ id <= Len(rows) => Enough(rows, id)
           /\ \A more \in RowsUpTo(TxLimit) :
                  Longer(rows, more) /\ Enough(rows, id) => Enough(more, id)
<1> DEFINE Earlier(r) == {i \in DOMAIN r : r[i].transaction < id}
<1>1. ASSUME NEW r \in RowsUpTo(TxLimit)
      PROVE  /\ DOMAIN r = 1..Len(r) /\ Len(r) \in Nat
             /\ IsFiniteSet(1..Len(r)) /\ Cardinality(1..Len(r)) = Len(r)
             /\ IsFiniteSet(Earlier(r)) /\ Cardinality(Earlier(r)) \in Nat
             /\ Cardinality(Earlier(r)) <= Len(r)
    <2>1. DOMAIN r = 1..Len(r) /\ Len(r) \in Nat
        BY DEF RowsUpTo
    <2>2. IsFiniteSet(1..Len(r)) /\ Cardinality(1..Len(r)) = Len(r)
        <3>1. 1 \in Int /\ Len(r) \in Int
            BY <2>1
        <3>2. /\ IsFiniteSet(1..Len(r))
              /\ Cardinality(1..Len(r)) = IF 1 > Len(r) THEN 0 ELSE Len(r) - 1 + 1
            BY <3>1, FS_Interval
        <3> QED BY <2>1, <3>2
    <2>3. Earlier(r) \subseteq 1..Len(r)
        BY <2>1
    <2> HIDE DEF Earlier
    <2>4. IsFiniteSet(Earlier(r)) /\ Cardinality(Earlier(r)) <= Cardinality(1..Len(r))
        BY <2>2, <2>3, FS_Subset
    <2>5. Cardinality(Earlier(r)) \in Nat
        BY <2>4, FS_CardinalityType
    <2> QED BY <2>1, <2>2, <2>4, <2>5
<1>2. Enough(rows, id) => id <= Len(rows)
    <2>1. Cardinality(Earlier(rows)) <= Len(rows) /\ Cardinality(Earlier(rows)) \in Nat /\ Len(rows) \in Nat
        BY <1>1
    <2> QED BY <2>1 DEF Enough
<1>3. ASSUME Before(rows, id), id <= Len(rows) PROVE Enough(rows, id)
    <2>1. Earlier(rows) = 1..Len(rows)
        BY <1>1, <1>3 DEF Before
    <2>2. Cardinality(1..Len(rows)) = Len(rows)
        BY <1>1
    <2> QED BY <1>3, <2>1, <2>2 DEF Enough
<1>4. ASSUME NEW more \in RowsUpTo(TxLimit), Longer(rows, more), Enough(rows, id) PROVE Enough(more, id)
    <2>1. Earlier(rows) \subseteq Earlier(more)
        <3>1. DOMAIN rows = 1..Len(rows) /\ DOMAIN more = 1..Len(more) /\ Len(rows) \in Nat /\ Len(more) \in Nat
            BY <1>1
        <3> QED BY <1>4, <3>1 DEF Longer
    <2>2. IsFiniteSet(Earlier(more)) /\ Cardinality(Earlier(more)) \in Nat /\ Cardinality(Earlier(rows)) \in Nat
        BY <1>1
    <2>3. Cardinality(Earlier(rows)) >= id
        BY <1>4 DEF Enough
    <2>4. Cardinality(Earlier(rows)) <= Cardinality(Earlier(more))
        <3> HIDE DEF Earlier
        <3> QED BY <2>1, <2>2, FS_Subset
    <2>5. Cardinality(Earlier(more)) >= id
        BY <2>2, <2>3, <2>4
    <2> QED BY <2>5 DEF Enough
<1> QED BY <1>2, <1>3, <1>4

\* The rows of one more transaction.
LEMMA AppendMessagesIs ==
    ASSUME NEW rows \in RowsUpTo(TxLimit), NEW id \in Nat, 1 <= id,
           txs \in Seq(Kinds), Len(txs) <= TxLimit
    PROVE  LET more == AppendMessages(rows, id)
           IN /\ more \in RowsUpTo(TxLimit) /\ Longer(rows, more)
              /\ \A i \in 1..Len(more) : i \in 1..Len(rows) \/ more[i].transaction = id
              /\ id <= Len(txs) => ~Missing(more, id)
              /\ id <= Len(txs) /\ Before(rows, id) /\ InOrder(rows) => InOrder(more)
              /\ id > Len(txs) \/ ~Missing(rows, id) => more = rows
<1> DEFINE new == RowsOf(id, txs[id])
           more == AppendMessages(rows, id)
<1>0. TxLimit \in Nat /\ Len(txs) \in Nat /\ DOMAIN rows = 1..Len(rows) /\ Len(rows) \in Nat
    BY Constants DEF RowsUpTo
<1>1. CASE id > Len(txs) \/ ~Missing(rows, id)
    <2>1. more = rows
        BY <1>1 DEF AppendMessages, Missing
    <2>2. id <= Len(txs) => ~Missing(rows, id)
        BY <1>0, <1>1
    <2> QED BY <1>0, <2>1, <2>2 DEF Longer
<1>2. CASE id <= Len(txs) /\ Missing(rows, id)
    <2>1. txs[id] \in Transactions /\ id \in 1..TxLimit
        <3>1. txs[id] \in Kinds
            BY <1>0, <1>2
        <3> QED BY <1>0, <1>2, <3>1, Constants
    <2>2. more = rows \o new
        <3>1. ~(id > Len(txs)) /\ ~HasRows(rows, id) /\ txs[id].messages
            BY <1>0, <1>2 DEF Missing
        <3> QED BY <3>1 DEF AppendMessages
    <2>3. /\ new \in Seq([transaction : {id}, transfer : Nat])
          /\ Len(new) \in Nat /\ Len(new) > 0
          /\ \A i \in 1..Len(new) : new[i].transaction = id
          /\ \A i, j \in 1..Len(new) : i < j => new[i].transfer < new[j].transfer
        BY <2>1, RowsOfIs
    <2> DEFINE R == [transaction : 1..TxLimit, transfer : Nat]
    <2>4. rows \in Seq(R) /\ new \in Seq(R)
        <3>1. [transaction : {id}, transfer : Nat] \subseteq R
            BY <2>1
        <3> HIDE DEF R
        <3>2. new \in Seq(R)
            BY <2>3, <3>1, SeqMonotonic
        <3> QED BY <3>2 DEF R, RowsUpTo
    <2> HIDE DEF R, new
    <2> DEFINE m == Len(rows)
               n == Len(new)
    <2>5. /\ more \in Seq(R) /\ Len(more) = m + n
          /\ \A i \in 1..(m + n) : more[i] = IF i <= m THEN rows[i] ELSE new[i - m]
        BY <2>2, <2>4, ConcatProperties
    <2>6. more \in RowsUpTo(TxLimit)
        BY <2>5 DEF R, RowsUpTo
    <2> HIDE DEF more
    <2>7. m \in Nat /\ n \in Nat /\ n > 0
        BY <1>0, <2>3
    <2> HIDE DEF m, n
    <2>8. \A i \in 1..m : more[i] = rows[i]
        BY <2>5, <2>7
    <2>9. \A i \in (m + 1)..(m + n) : i - m \in 1..n /\ i \in 1..(m + n) /\ ~(i <= m)
        BY <2>7
    <2>10. \A i \in (m + 1)..(m + n) : more[i] = new[i - m] /\ more[i].transaction = id
        BY <2>3, <2>5, <2>9 DEF n
    <2>11. Longer(rows, more)
        BY <2>5, <2>7, <2>8 DEF Longer, m
    <2>12. \A i \in 1..Len(more) : i \in 1..m \/ i \in (m + 1)..(m + n)
        BY <2>5, <2>7
    <2>13. ~Missing(more, id)
        <3>1. m + 1 \in (m + 1)..(m + n) /\ m + 1 \in 1..Len(more) /\ DOMAIN more = 1..Len(more)
            BY <2>5, <2>7
        <3> QED BY <2>10, <3>1 DEF Missing, HasRows
    <2>14. ASSUME Before(rows, id), InOrder(rows) PROVE InOrder(more)
        <3> SUFFICES ASSUME NEW i \in 1..(m + n), NEW j \in 1..(i - 1)
                     PROVE  \/ more[j].transaction < more[i].transaction
                            \/ /\ more[j].transaction = more[i].transaction
                               /\ more[j].transfer < more[i].transfer
            <4>1. DOMAIN more = 1..(m + n)
                BY <2>5
            <4> QED BY <4>1 DEF InOrder
        <3>1. CASE i \in 1..m
            <4>1. j \in 1..m /\ i \in DOMAIN rows
                BY <1>0, <2>7, <3>1 DEF m
            <4> QED BY <2>8, <2>14, <3>1, <4>1 DEF InOrder
        <3>2. CASE i \in (m + 1)..(m + n) /\ j \in 1..m
            <4>1. more[j].transaction < id
                BY <2>8, <2>14, <3>2 DEF Before, m
            <4> QED BY <2>10, <3>2, <4>1
        <3>3. CASE i \in (m + 1)..(m + n) /\ j \in (m + 1)..(m + n)
            <4>1. i - m \in 1..n /\ j - m \in 1..n /\ j - m < i - m
                BY <2>7, <3>3
            <4>2. new[j - m].transfer < new[i - m].transfer
                BY <2>3, <4>1 DEF n
            <4> QED BY <2>10, <3>3, <4>2
        <3>4. i \in 1..m \/ i \in (m + 1)..(m + n)
            BY <2>7
        <3>5. j \in 1..m \/ j \in (m + 1)..(m + n)
            BY <2>7
        <3>6. i \in 1..m => j \in 1..m
            BY <2>7
        <3> QED BY <3>1, <3>2, <3>3, <3>4, <3>5
    <2>15. ~(id > Len(txs))
        BY <1>0, <1>2
    <2> QED BY <1>2, <2>6, <2>10, <2>11, <2>12, <2>13, <2>14, <2>15 DEF more, m
<1> QED BY <1>0, <1>1, <1>2

\* The loop of appendTransaction(), call by call.
AllMessages(rows, from, to) ==
    CHOOSE f : f = [id \in (from - 1)..to |-> IF id < from THEN rows ELSE AppendMessages(f[id - 1], id)]

\* It starts from the rows there are, and goes from one transaction to the next.
LEMMA AllMessagesDefined ==
    ASSUME NEW rows, NEW k \in Nat, NEW to \in Nat, k < to
    PROVE  /\ AppendAllMessages(rows, k + 1, to) = AllMessages(rows, k + 1, to)[to]
           /\ AllMessages(rows, k + 1, to)[k] = rows
           /\ \A id \in (k + 1)..to :
                  AllMessages(rows, k + 1, to)[id] = AppendMessages(AllMessages(rows, k + 1, to)[id - 1], id)
<1> DEFINE from == k + 1
           Next1(f, id) == IF id < from THEN rows ELSE AppendMessages(f[id - 1], id)
           P(m) == \E f : f = [id \in (from - 1)..(k + m) |-> Next1(f, id)]
           S == {m \in Nat : P(m)}
<1>1. P(0)
    <2> DEFINE f == [id \in (from - 1)..(k + 0) |-> rows]
    <2>1. f = [id \in (from - 1)..(k + 0) |-> Next1(f, id)]
        OBVIOUS
    <2> QED BY <2>1
<1>2. ASSUME NEW m \in Nat, P(m) PROVE P(m + 1)
    <2> DEFINE last == k + (m + 1)
    <2>0. last - 1 = k + m /\ last \in Nat /\ last # k + m /\ from - 1 = k /\ ~(last < from)
        OBVIOUS
    <2>1. PICK f : f = [id \in (from - 1)..(k + m) |-> Next1(f, id)]
        BY <1>2
    <2> DEFINE g == [id \in (from - 1)..last |->
                         IF id = last THEN AppendMessages(f[k + m], last) ELSE f[id]]
    <2>2. ASSUME NEW id \in (from - 1)..last PROVE g[id] = Next1(g, id)
        <3>1. CASE id = last
            <4>1. k + m \in (from - 1)..last /\ last \in (from - 1)..last
                BY <2>0
            <4>2. g[k + m] = f[k + m] /\ g[last] = AppendMessages(f[k + m], last)
                BY <2>0, <4>1
            <4> HIDE DEF g, last
            <4> QED BY <2>0, <3>1, <4>2
        <3>2. CASE id \in (from - 1)..(k + m)
            <4>1. f[id] = Next1(f, id) /\ g[id] = f[id]
                BY <2>1, <3>2
            <4>2. id < from \/ (id - 1 \in (from - 1)..(k + m) /\ g[id - 1] = f[id - 1])
                BY <3>2
            <4> HIDE DEF g, last
            <4> QED BY <4>1, <4>2
        <3> QED BY <3>1, <3>2
    <2>3. g = [id \in (from - 1)..last |-> Next1(g, id)]
        BY <2>2
    <2> QED BY <2>3
<1>3. to - k \in S
    <2> HIDE DEF P
    <2>1. 0 \in S /\ \A m \in S : m + 1 \in S
        BY <1>1, <1>2
    <2>2. S \in SUBSET Nat /\ to - k \in Nat
        OBVIOUS
    <2> HIDE DEF S
    <2> QED BY <2>1, <2>2, SetInduction
<1>4. k + (to - k) = to
    OBVIOUS
<1>5. P(to - k)
    BY <1>3
<1>6. \E f : f = [id \in (from - 1)..to |-> Next1(f, id)]
    BY <1>4, <1>5
<1>7. AllMessages(rows, from, to) = [id \in (from - 1)..to |-> Next1(AllMessages(rows, from, to), id)]
    BY <1>6 DEF AllMessages
<1>8. AppendAllMessages(rows, from, to) = AllMessages(rows, from, to)[to]
    <2>1. ~(to < from)
        OBVIOUS
    <2> HIDE DEF from
    <2> QED BY <2>1 DEF AppendAllMessages, AllMessages
<1> HIDE DEF AllMessages
<1>9. AllMessages(rows, from, to)[k] = rows
    BY <1>7
<1>10. \A id \in from..to : AllMessages(rows, from, to)[id] = AppendMessages(AllMessages(rows, from, to)[id - 1], id)
    BY <1>7
<1> QED BY <1>8, <1>9, <1>10

\* The loop keeps the rows in order, and leaves out no message it comes to.
LEMMA AppendAllMessagesIs ==
    ASSUME NEW base \in RowsUpTo(TxLimit), txs \in Seq(Kinds), Len(txs) <= TxLimit, NEW to \in Nat
    PROVE  LET all == AppendAllMessages(base, Len(base) + 1, to)
           IN /\ all \in RowsUpTo(TxLimit) /\ Longer(base, all)
              /\ Shows(base) => Shows(all)
              /\ \A id \in (Len(base) + 1)..to : id <= Len(txs) => ~Missing(all, id)
<1> DEFINE k == Len(base)
<1>0. k \in Nat /\ Len(txs) \in Nat
    BY DEF RowsUpTo
<1>1. CASE to <= k
    <2>1. to < k + 1
        BY <1>0, <1>1
    <2>2. AppendAllMessages(base, k + 1, to) = base
        BY <2>1 DEF AppendAllMessages
    <2>3. Longer(base, base) /\ ~\E id \in (k + 1)..to : TRUE
        BY <1>0, <1>1 DEF Longer
    <2> QED BY <2>2, <2>3
<1>2. CASE k < to
    <2> DEFINE f == AllMessages(base, k + 1, to)
               Fine(rows, at) ==
                   /\ rows \in RowsUpTo(TxLimit) /\ Longer(base, rows)
                   /\ \A i \in 1..Len(rows) : i \in 1..k \/ rows[i].transaction <= at
                   /\ \A id \in (k + 1)..at : id <= Len(txs) => ~Missing(rows, id)
                   /\ Shows(base) => Shows(rows)
               P(m) == k + m <= to => Fine(f[k + m], k + m)
               S == {m \in Nat : P(m)}
    <2>1. P(0)
        <3>1. k + 0 = k /\ f[k] = base
            <4> HIDE DEF k
            <4> QED BY <1>0, <1>2, AllMessagesDefined
        <3>2. Longer(base, base) /\ ~\E id \in (k + 1)..k : TRUE
            BY <1>0 DEF Longer
        <3> HIDE DEF f
        <3> QED BY <3>1, <3>2
    <2>2. ASSUME NEW m \in Nat, P(m) PROVE P(m + 1)
        <3> SUFFICES ASSUME k + (m + 1) <= to PROVE Fine(f[k + (m + 1)], k + (m + 1))
            OBVIOUS
        <3> DEFINE id == k + (m + 1)
                   rows == f[k + m]
                   more == AppendMessages(rows, id)
        <3>1. id \in Nat /\ 1 <= id /\ id \in (k + 1)..to /\ id - 1 = k + m /\ k + m <= to /\ k < id
            BY <1>0
        <3>2. Fine(rows, k + m)
            BY <2>2, <3>1
        <3>3. f[id] = more
            <4>1. \A i \in (k + 1)..to : f[i] = AppendMessages(f[i - 1], i)
                BY <1>0, <1>2, AllMessagesDefined
            <4> HIDE DEF f, id
            <4> QED BY <3>1, <4>1
        <3> HIDE DEF f, rows
        <3>4. Fine(more, id)
            <4> HIDE DEF id, k
            <4>0. rows \in RowsUpTo(TxLimit) /\ Longer(base, rows) /\ Len(rows) \in Nat /\ Len(base) \in Nat
                BY <3>2 DEF RowsUpTo
            <4>1. /\ more \in RowsUpTo(TxLimit) /\ Longer(rows, more)
                  /\ \A i \in 1..Len(more) : i \in 1..Len(rows) \/ more[i].transaction = id
                  /\ id <= Len(txs) => ~Missing(more, id)
                  /\ id <= Len(txs) /\ Before(rows, id) /\ InOrder(rows) => InOrder(more)
                  /\ id > Len(txs) \/ ~Missing(rows, id) => more = rows
                BY <3>1, <4>0, AppendMessagesIs
            <4> HIDE DEF more
            <4>2. Len(more) \in Nat /\ DOMAIN more = 1..Len(more) /\ DOMAIN rows = 1..Len(rows)
                BY <4>0, <4>1 DEF RowsUpTo
            <4>3. Longer(base, more)
                <5>1. \A i \in 1..Len(base) : i \in 1..Len(rows)
                    BY <4>0 DEF Longer
                <5> QED BY <4>0, <4>1, <4>2, <5>1 DEF Longer
            <4>4. \A i \in 1..Len(rows) : i \in 1..Len(more) /\ more[i] = rows[i]
                BY <4>0, <4>1, <4>2 DEF Longer
            <4>5. ASSUME NEW i \in 1..Len(more) PROVE i \in 1..k \/ more[i].transaction <= id
                <5>1. CASE i \in 1..Len(rows)
                    <6>1. i \in 1..k \/ rows[i].transaction <= k + m
                        BY <3>2, <5>1
                    <6>2. rows[i].transaction \in Nat
                        <7>1. rows[i] \in [transaction : 1..TxLimit, transfer : Nat]
                            BY <4>0, <5>1, ElementOfSeq DEF RowsUpTo
                        <7> QED BY <7>1, Constants
                    <6> QED BY <1>0, <3>1, <4>4, <5>1, <6>1, <6>2
                <5>2. CASE more[i].transaction = id
                    BY <3>1, <5>2
                <5> QED BY <4>1, <5>1, <5>2
            <4>6. \A t : HasRows(rows, t) => HasRows(more, t)
                BY <4>2, <4>4 DEF HasRows
            <4>7. ASSUME NEW t \in (k + 1)..id, t <= Len(txs) PROVE ~Missing(more, t)
                <5>1. CASE t = id
                    BY <4>1, <4>7, <5>1
                <5>2. CASE t # id
                    <6>1. t \in (k + 1)..(k + m)
                        BY <1>0, <3>1, <5>2
                    <6> QED BY <3>2, <4>6, <4>7, <6>1 DEF Missing
                <5> QED BY <5>1, <5>2
            <4>8. ASSUME Shows(base) PROVE Shows(more)
                <5>1. Shows(rows)
                    BY <3>2, <4>8
                <5>2. CASE id > Len(txs) \/ ~Missing(rows, id)
                    BY <4>1, <5>1, <5>2
                <5>3. CASE id <= Len(txs) /\ Missing(rows, id)
                    <6>1. Before(base, id)
                        <7>1. Missing(base, id)
                            <8>0. DOMAIN base = 1..Len(base)
                                BY DEF RowsUpTo
                            <8>1. \A i \in DOMAIN base : i \in DOMAIN rows /\ rows[i] = base[i]
                                BY <4>0, <4>2, <8>0 DEF Longer
                            <8> QED BY <5>3, <8>1 DEF Missing, HasRows
                        <7>2. Enough(base, id) \/ Before(base, id)
                            <8>1. id \in 1..Len(txs)
                                BY <1>0, <3>1, <5>3
                            <8> QED BY <4>8, <7>1, <8>1 DEF Shows
                        <7>3. ~Enough(base, id)
                            BY <3>1, <4>0, EnoughIs DEF k
                        <7> QED BY <7>2, <7>3
                    <6>2. Before(rows, id)
                        <7> SUFFICES ASSUME NEW i \in 1..Len(rows) PROVE rows[i].transaction < id
                            BY DEF Before
                        <7>1. CASE i \in 1..k
                            <8>1. rows[i] = base[i] /\ base[i].transaction < id
                                BY <4>0, <6>1, <7>1 DEF Before, Longer, k
                            <8> QED BY <8>1
                        <7>2. CASE rows[i].transaction <= k + m
                            <8>1. rows[i].transaction \in Nat
                                <9>1. rows[i] \in [transaction : 1..TxLimit, transfer : Nat]
                                    BY <4>0, ElementOfSeq DEF RowsUpTo
                                <9> QED BY <9>1, Constants
                            <8> QED BY <1>0, <3>1, <7>2, <8>1
                        <7> QED BY <3>2, <7>1, <7>2
                    <6>3. InOrder(more)
                        BY <4>1, <5>1, <5>3, <6>2 DEF Shows
                    <6>4. \A i \in 1..Len(more) : more[i].transaction <= Len(txs)
                        BY <4>1, <4>4, <5>1, <5>3 DEF Shows
                    <6>5. ASSUME NEW t \in 1..Len(txs), Missing(more, t) PROVE Enough(more, t) \/ Before(more, t)
                        <7>0. t \in Nat /\ t # id
                            BY <4>1, <5>3, <6>5
                        <7>1. Missing(rows, t)
                            BY <4>6, <6>5 DEF Missing
                        <7>2. Enough(rows, t) \/ Before(rows, t)
                            BY <5>1, <7>1 DEF Shows
                        <7>3. CASE Enough(rows, t)
                            BY <4>0, <4>1, <7>0, <7>3, EnoughIs
                        <7>4. CASE Before(rows, t) /\ id < t
                            <8>1. \A i \in 1..Len(more) : more[i].transaction < t
                                BY <4>1, <4>4, <7>4 DEF Before
                            <8> QED BY <8>1 DEF Before
                        <7>5. CASE Before(rows, t) /\ t < id
                            <8>1. t <= k
                                <9> SUFFICES ASSUME t > k PROVE FALSE
                                    BY <1>0, <7>0
                                <9>1. t \in (k + 1)..(k + m) /\ t <= Len(txs)
                                    BY <1>0, <3>1, <7>0, <7>5
                                <9> QED BY <3>2, <7>1, <9>1
                            <8>2. t <= Len(rows)
                                BY <1>0, <4>0, <7>0, <8>1 DEF Longer, k
                            <8>3. Enough(rows, t)
                                BY <4>0, <7>0, <7>5, <8>2, EnoughIs
                            <8> QED BY <4>0, <4>1, <7>0, <8>3, EnoughIs
                        <7>6. id < t \/ t < id
                            BY <3>1, <7>0
                        <7> QED BY <7>2, <7>3, <7>4, <7>5, <7>6
                    <6> QED BY <6>3, <6>4, <6>5 DEF Shows
                <5> QED BY <1>0, <3>1, <5>2, <5>3
            <4> QED BY <4>1, <4>3, <4>5, <4>7, <4>8
        <3> HIDE DEF more, Fine, id
        <3>5. Fine(f[id], id)
            BY <3>3, <3>4
        <3> QED BY <3>5 DEF id
    <2>3. to - k \in S
        <3> HIDE DEF P
        <3>1. 0 \in S /\ \A m \in S : m + 1 \in S
            BY <2>1, <2>2
        <3>2. S \in SUBSET Nat /\ to - k \in Nat
            BY <1>0, <1>2
        <3> HIDE DEF S
        <3> QED BY <3>1, <3>2, SetInduction
    <2>4. k + (to - k) = to /\ to <= to
        BY <1>0
    <2>5. Fine(f[to], to)
        <3>1. P(to - k)
            BY <2>3
        <3> HIDE DEF f, Fine
        <3> QED BY <2>4, <3>1
    <2>6. AppendAllMessages(base, k + 1, to) = f[to]
        BY <1>0, <1>2, AllMessagesDefined
    <2> HIDE DEF f
    <2> QED BY <2>5, <2>6
<1> QED BY <1>0, <1>1, <1>2

-----------------------------------------------------------------------------
(* MessagesModel follows the wallet. *)

\* MessagesModel has been loaded from the open wallet.
Followed == Live /\ \A e : Has(queue, e) => ~(e.to = "messages" /\ e.ev = "reload")

\* A message of a listed transaction that is left out is left out for good, or announced.
Pending == \A id \in 1..Listed :
               Missing(messages, id) =>
                   \/ Enough(messages, id)
                   \/ \E t \in id..TxLimit : Has(queue, Event("messages", "created", t))

\* Once it is loaded MessagesModel shows what it can of the listed transactions.
MsgInv ==
    /\ messages \in RowsUpTo(TxLimit)
    /\ Followed => Shows(messages) /\ Pending

\* A step after which the events for MessagesModel are still there.
LEMMA MsgKept ==
    ASSUME MsgInv, UNCHANGED <<messages, txs>>, Listed' = Listed, Live' => Live,
           Live => \A e : Has(queue, e) /\ e.to = "messages" => Has(queue', e)
    PROVE  MsgInv'
<1>1. ASSUME Followed' PROVE Followed
    BY <1>1 DEF Followed
<1>2. ASSUME Followed' PROVE Shows(messages)'
    BY <1>1, <1>2 DEF MsgInv, Shows, Missing, Enough, Before, InOrder, HasRows
<1>3. ASSUME Followed' PROVE Pending'
    <2>1. Pending /\ Live
        BY <1>1, <1>3 DEF MsgInv, Followed
    <2>2. \A t : Event("messages", "created", t).to = "messages"
        BY DEF Event
    <2>3. \A t : Has(queue, Event("messages", "created", t)) => Has(queue', Event("messages", "created", t))
        BY <2>1, <2>2
    <2> QED BY <2>1, <2>3 DEF Pending, Missing, Enough, HasRows
<1>4. messages' \in RowsUpTo(TxLimit)
    BY DEF MsgInv
<1> QED BY <1>2, <1>3, <1>4 DEF MsgInv

\* What the GUI thread takes, and leaves.
LEMMA TakesEvent ==
    ASSUME Basics, NEW to, NEW ev, Takes(to, ev), Post(<<>>)
    PROVE  /\ queue # <<>> /\ Head(queue) \in Events
           /\ Head(queue).to = to /\ Head(queue).ev = ev /\ Head(queue).id \in Nat
           /\ \A e : Has(queue', e) <=> Has(Tail(queue), e)
           /\ \A e : Has(queue, e) <=> e = Head(queue) \/ Has(Tail(queue), e)
<1> DEFINE es == <<>>
<1>1. queue # <<>> /\ queue' = Tail(queue) \o es
    BY DEF Takes, Post
<1>2. es \in Seq(Events) /\ \A e : ~Has(es, e)
    BY NothingIs
<1>3. /\ Head(queue) \in Events
      /\ Head(queue).to = to /\ Head(queue).ev = ev /\ Head(queue).id \in Nat
    BY TakesOne
<1> HIDE DEF es
<1> QED BY <1>1, <1>2, <1>3, TakenHas

\* Every step keeps the rows of MessagesModel in order, and those it may still append.
LEMMA MsgStep ==
    ASSUME Basics, RowsInv, MsgInv, Next
    PROVE  MsgInv'
<1>0. /\ txs \in Seq(Kinds) /\ Len(txs) \in Nat /\ TxLimit \in Nat /\ Len(txs) <= TxLimit /\ Listed \in Nat
      /\ messages \in RowsUpTo(TxLimit) /\ Len(messages) \in Nat /\ DOMAIN messages = 1..Len(messages)
    BY Constants DEF Basics, Types, RowsInv, Indexed, MsgInv, RowsUpTo
<1>1. CASE (\E tx \in Received : Receive(tx)) \/ (\E tx \in Sent : Send(tx))
    <2>1. PICK tx \in Kinds : txs' = Append(txs, tx) /\ UNCHANGED <<gui, queue, models>>
        BY <1>1 DEF Receive, Send, Kinds, adapter
    <2>2. Len(txs') = Len(txs) + 1 /\ \A i \in 1..Len(txs) : txs'[i] = txs[i]
        BY <2>1, OneMore DEF Basics
    <2>3. UNCHANGED <<messages, gui, queue, loaded, transactionRow>> /\ Listed' = Listed
        BY <2>1 DEF models, Listed
    <2>4. CASE ~Followed
        BY <2>3, <2>4 DEF MsgInv, Followed, Live
    <2>5. CASE Followed
        <3>1. Shows(messages) /\ Pending /\ Listed <= Len(txs)
            BY <2>5 DEF MsgInv, Followed, Live, RowsInv
        <3>2. \A i \in 1..Len(messages) : messages[i].transaction \in Nat
            <4>1. \A i \in 1..Len(messages) : messages[i] \in [transaction : 1..TxLimit, transfer : Nat]
                BY <1>0, ElementOfSeq DEF RowsUpTo
            <4> QED BY <1>0, <4>1
        <3>3. \A i \in 1..Len(messages') : messages'[i].transaction <= Len(txs')
            BY <1>0, <2>2, <2>3, <3>1, <3>2 DEF Shows
        <3>4. ASSUME NEW id \in 1..(Len(txs) + 1), Missing(messages, id)'
              PROVE  Enough(messages, id) \/ Before(messages, id)
            <4>1. CASE id \in 1..Len(txs)
                <5>1. Missing(messages, id)
                    BY <2>2, <2>3, <3>4, <4>1 DEF Missing, HasRows
                <5> QED BY <3>1, <4>1, <5>1 DEF Shows
            <4>2. CASE id = Len(txs) + 1
                BY <1>0, <3>1, <3>2, <4>2 DEF Shows, Before
            <4> QED BY <1>0, <4>1, <4>2
        <3>5. Shows(messages)'
            <4>1. InOrder(messages)'
                BY <2>3, <3>1 DEF Shows, InOrder
            <4>2. \A id \in 1..Len(txs') : Missing(messages, id)' => Enough(messages, id)' \/ Before(messages, id)'
                BY <2>2, <2>3, <3>4 DEF Enough, Before
            <4> QED BY <3>3, <4>1, <4>2 DEF Shows
        <3>6. Pending'
            <4> SUFFICES ASSUME NEW id \in 1..Listed, Missing(messages, id)'
                         PROVE  \/ Enough(messages, id)'
                                \/ \E t \in id..TxLimit : Has(queue, Event("messages", "created", t))'
                BY <2>3 DEF Pending
            <4>1. id \in 1..Len(txs)
                BY <1>0, <3>1
            <4>2. Missing(messages, id)
                BY <2>2, <2>3, <4>1 DEF Missing, HasRows
            <4> QED BY <2>3, <3>1, <4>2 DEF Pending, Enough
        <3> QED BY <1>0, <2>3, <3>5, <3>6 DEF MsgInv
    <2> QED BY <2>4, <2>5
<1>2. CASE (\E stored \in Stored : Open(stored)) \/ CloseWallet \/ DeleteWallet \/ resetTransactions
    <2>1. ~Live' /\ UNCHANGED messages
        BY <1>2 DEF Open, CloseWallet, DeleteWallet, resetTransactions, models, RowsInv, Live
    <2> QED BY <2>1 DEF MsgInv, Followed
<1>3. CASE initCompleted \/ synchronizationProgressUpdated \/ synchronizationCompleted
    <2>1. PICK ev \in {"init", "progress", "completed"} :
              queue' = Append(queue, Event("adapter", ev, 0))
        BY <1>3 DEF initCompleted, synchronizationProgressUpdated, synchronizationCompleted
    <2>2. UNCHANGED <<txs, gui, loaded, transactionRow, messages>>
        BY <1>3 DEF initCompleted, synchronizationProgressUpdated, synchronizationCompleted, adapter, library, models
    <2> DEFINE e == Event("adapter", ev, 0)
               es == <<e>>
    <2>3. e \in Events /\ e.to = "adapter"
        BY DEF Event, Events
    <2>4. queue' = queue \o es
        BY <2>1, <2>3, AppendIsConcat DEF Basics, Types
    <2> HIDE DEF e
    <2>5. es \in Seq(Events)
        BY <2>3, SingleIs
    <2> HIDE DEF es
    <2>6. \A x : Has(queue, x) => Has(queue', x)
        BY <2>4, <2>5, PostedHas
    <2> QED BY <2>2, <2>6, MsgKept DEF Listed, Live
<1>4. CASE externalTransactionCreated \/ EmitLast
    <2>1. UNCHANGED <<txs, loaded, transactionRow, messages>> /\ (Live' => Live)
        BY <1>4 DEF externalTransactionCreated, EmitLast, library, models, Live
    <2>2. PICK es \in Seq(Events) : queue' = queue \o es
        <3>1. \A id \in Nat : ToModels("created", id) \in Seq(Events)
            BY ToModelsIs
        <3>2. <<>> \in Seq(Events) /\ queue = queue \o <<>>
            BY NothingIs, ConcatEmptySeq DEF Basics, Types
        <3>3. lib \in Nat /\ lastId \in Nat
            BY <1>0 DEF Basics, Types
        <3>4. queue' = queue \/ queue' = queue \o ToModels("created", lib) \/ queue' = queue \o ToModels("created", lastId)
            BY <1>4 DEF externalTransactionCreated, EmitLast
        <3> QED BY <3>1, <3>2, <3>3, <3>4
    <2>3. \A x : Has(queue, x) => Has(queue', x)
        BY <2>2, PostedHas
    <2> QED BY <2>1, <2>3, MsgKept DEF Listed
<1>5. CASE UnlockSent \/ TimerFires \/ ForgetLast
    <2>1. UNCHANGED <<txs, loaded, transactionRow, messages, queue>> /\ (Live' => Live)
        BY <1>5 DEF UnlockSent, TimerFires, ForgetLast, adapter, library, models, Live
    <2> QED BY <2>1, MsgKept DEF Listed
<1>6. CASE EmitSent
    <2> DEFINE x == Event("adapter", "sent", sending.id)
               single == <<x>>
               double == <<x, x>>
    <2>1. UNCHANGED <<txs, gui, loaded, transactionRow, messages>>
        BY <1>6 DEF EmitSent, adapter, models
    <2>2. queue' = queue \o single \/ queue' = queue \o double
        BY <1>6 DEF EmitSent
    <2>3. single \in Seq(Events) /\ double \in Seq(Events)
        <3>1. x \in Events /\ x.to = "adapter"
            BY DEF Event, Events, Basics, Types
        <3> HIDE DEF x
        <3> QED BY <3>1, SingleIs
    <2> HIDE DEF single, double
    <2>4. \A e : Has(queue, e) => Has(queue', e)
        BY <2>2, <2>3, PostedHas
    <2> QED BY <2>1, <2>4, MsgKept DEF Listed, Live
<1>7. CASE onProgress \/ onCompleted \/ reloadWalletDeposits \/ transactionCreated \/ resetDeposits
    <2>1. PICK to \in {"adapter", "deposits"}, ev \in {"progress", "completed", "reload", "created", "closed"} :
              Takes(to, ev) /\ Post(<<>>)
        BY <1>7 DEF onProgress, onCompleted, reloadWalletDeposits, transactionCreated, resetDeposits
    <2>2. UNCHANGED <<txs, loaded, transactionRow, messages>>
        BY <1>7 DEF onProgress, onCompleted, reloadWalletDeposits, transactionCreated, resetDeposits,
                    library, models
    <2>3. Live' => Live
        BY <1>7 DEF onProgress, onCompleted, reloadWalletDeposits, transactionCreated, resetDeposits,
                    CheckLast, adapter, models, Live, Basics, LibInv
    <2>4. \A e : Has(queue, e) /\ e.to = "messages" => Has(queue', e)
        BY <2>1, TakesEvent
    <2> QED BY <2>2, <2>3, <2>4, MsgKept DEF Listed
<1>8. CASE onWalletInitCompleted
    <2> DEFINE es == ToModels("reload", 0)
    <2>1. queue # <<>> /\ queue' = Tail(queue) \o es /\ UNCHANGED messages
        BY <1>8 DEF onWalletInitCompleted, Takes, Post, models
    <2>2. es \in Seq(Events) /\ Has(es, Event("messages", "reload", 0))
        BY ToModelsIs DEF Models
    <2> HIDE DEF es
    <2>3. Has(queue', Event("messages", "reload", 0))
        BY <2>1, <2>2, TakenHas
    <2>4. ~Followed'
        BY <2>3 DEF Followed, Event
    <2> QED BY <2>1, <2>4 DEF MsgInv
<1>9. CASE onWalletSendTransactionCompleted
    <2> DEFINE sent == Head(queue).id
               es == IF wallet /\ sent <= Len(txs) THEN ToModels("created", sent) ELSE <<>>
    <2>1. /\ UNCHANGED <<txs, gui, loaded, transactionRow, messages>>
          /\ queue # <<>> /\ queue' = Tail(queue) \o es /\ Head(queue).to = "adapter"
        BY <1>9 DEF onWalletSendTransactionCompleted, Takes, Post, library, models
    <2>2. sent \in Nat
        BY <1>9, TakesOne DEF onWalletSendTransactionCompleted
    <2>3. es \in Seq(Events)
        BY <2>2, ToModelsIs, NothingIs
    <2> HIDE DEF es
    <2>4. \A e : Has(queue, e) /\ e.to = "messages" => Has(queue', e)
        BY <2>1, <2>3, TakenHas
    <2> QED BY <2>1, <2>4, MsgKept DEF Listed, Live
<1>10. CASE reloadWalletTransactions
    <2>1. UNCHANGED messages /\ Takes("transactions", "reload") /\ Post(<<>>)
        BY <1>10 DEF reloadWalletTransactions
    <2>2. Has(Tail(queue), Event("messages", "reload", Head(queue).id))
        BY <2>1, TakesOne
    <2>3. Has(queue', Event("messages", "reload", Head(queue).id))
        BY <2>1, <2>2, TakesEvent
    <2>4. ~Followed'
        BY <2>3 DEF Followed, Event
    <2> QED BY <2>1, <2>4 DEF MsgInv
<1>11. CASE appendTransaction
    <2> DEFINE id == Head(queue).id
    <2>1. /\ UNCHANGED <<messages, txs, gui, loaded>>
          /\ Takes("transactions", "created") /\ Post(<<>>)
        BY <1>11 DEF appendTransaction, library, adapter
    <2>2. /\ Head(queue).to = "transactions" /\ id \in Nat
          /\ \A e : Has(queue', e) <=> Has(Tail(queue), e)
          /\ \A e : Has(queue, e) <=> e = Head(queue) \/ Has(Tail(queue), e)
        BY <2>1, TakesEvent
    <2>3. Has(queue', Event("messages", "created", id))
        BY <2>1, <2>2, TakesOne
    <2>4. id <= TxLimit
        <3>1. Has(queue, Head(queue)) /\ Head(queue).ev = "created"
            BY <2>1, TakesOne
        <3>2. id <= Len(txs)
            BY <3>1 DEF Basics, QueueInv
        <3> QED BY <1>0, <2>2, <3>2
    <2>5. \A e : Has(queue, e) /\ e.to = "messages" => Has(queue', e)
        BY <2>2
    <2>6. ASSUME Followed' PROVE Shows(messages)' /\ Pending'
        <3>1. Followed
            BY <2>1, <2>5, <2>6 DEF Followed, Live
        <3>2. Shows(messages) /\ Pending
            BY <3>1 DEF MsgInv
        <3>3. Shows(messages)'
            BY <2>1, <3>2 DEF Shows, Missing, Enough, Before, InOrder, HasRows
        <3>4. PICK n \in Nat : n = Listed'
            BY <1>11, AppendIs
        <3>5. ASSUME NEW u \in 1..n, Missing(messages, u)
              PROVE  Enough(messages, u) \/ \E t \in u..TxLimit : Has(queue', Event("messages", "created", t))
            <4>1. CASE u \in 1..Listed
                <5>1. \A t : Event("messages", "created", t).to = "messages"
                    BY DEF Event
                <5> QED BY <2>5, <3>2, <3>5, <4>1, <5>1 DEF Pending
            <4>2. CASE u \notin 1..Listed
                <5>1. n = IF id \in DOMAIN transactionRow THEN Listed ELSE Reached(Listed, id)
                    BY <1>11, <3>4, AppendIs
                <5> HIDE DEF id
                <5>2. u <= id
                    BY <1>0, <2>2, <4>2, <5>1 DEF Reached
                <5>3. id \in u..TxLimit
                    BY <1>0, <2>2, <2>4, <5>2
                <5> QED BY <2>3, <5>3
            <4> QED BY <4>1, <4>2
        <3>6. Pending'
            BY <2>1, <3>4, <3>5 DEF Pending, Missing, Enough, HasRows
        <3> QED BY <3>3, <3>6
    <2>7. messages' \in RowsUpTo(TxLimit)
        BY <1>0, <2>1
    <2> QED BY <2>6, <2>7 DEF MsgInv
<1>12. CASE reloadMessages
    <2> DEFINE base == <<>>
               all == AppendAllMessages(base, Len(base) + 1, Len(txs))
    <2>1. messages' = all /\ UNCHANGED <<txs, transactionRow, loaded>>
        <3>1. Len(base) + 1 = 1
            OBVIOUS
        <3> QED BY <1>12, <3>1 DEF reloadMessages, library
    <2>2. base \in RowsUpTo(TxLimit) /\ Len(base) = 0 /\ DOMAIN base = {}
        BY DEF RowsUpTo
    <2>3. Shows(base)
        <3> HIDE DEF base
        <3> QED BY <2>2 DEF Shows, InOrder, Before
    <2> HIDE DEF base
    <2>4. /\ all \in RowsUpTo(TxLimit) /\ Shows(all)
          /\ \A id \in (Len(base) + 1)..Len(txs) : id <= Len(txs) => ~Missing(all, id)
        BY <1>0, <2>2, <2>3, AppendAllMessagesIs
    <2>5. \A id \in 1..Len(txs) : ~Missing(all, id)
        BY <1>0, <2>2, <2>4
    <2> HIDE DEF all
    <2>6. Shows(messages)'
        BY <2>1, <2>4 DEF Shows, Missing, Enough, Before, InOrder, HasRows
    <2>7. ASSUME Followed' PROVE Pending'
        <3>1. Listed <= Len(txs) /\ Listed' = Listed
            BY <2>1, <2>7 DEF Followed, Live, RowsInv, Listed
        <3>2. \A id \in 1..Listed : ~Missing(all, id)
            BY <1>0, <2>5, <3>1
        <3> QED BY <2>1, <3>1, <3>2 DEF Pending, Missing, HasRows
    <2> QED BY <2>1, <2>4, <2>6, <2>7 DEF MsgInv
<1>13. CASE appendMessageTransaction
    <2> DEFINE id == Head(queue).id
               all == AppendAllMessages(messages, Len(messages) + 1, id)
    <2>1. /\ UNCHANGED <<txs, gui, transactionRow, loaded>> /\ Listed' = Listed
          /\ Takes("messages", "created") /\ Post(<<>>)
          /\ messages' = IF HasRows(messages, id) THEN messages ELSE all
        BY <1>13 DEF appendMessageTransaction, library, adapter, Listed
    <2>2. /\ Head(queue) \in Events /\ Head(queue).to = "messages" /\ Head(queue).ev = "created" /\ id \in Nat
          /\ \A e : Has(queue', e) <=> Has(Tail(queue), e)
          /\ \A e : Has(queue, e) <=> e = Head(queue) \/ Has(Tail(queue), e)
        BY <2>1, TakesEvent
    <2>3. /\ all \in RowsUpTo(TxLimit) /\ Longer(messages, all)
          /\ Shows(messages) => Shows(all)
          /\ \A t \in (Len(messages) + 1)..id : t <= Len(txs) => ~Missing(all, t)
        BY <1>0, <2>2, AppendAllMessagesIs
    <2> HIDE DEF all
    <2>4. messages' \in RowsUpTo(TxLimit)
        BY <1>0, <2>1, <2>3
    <2>5. ASSUME Followed' PROVE Shows(messages') /\ Pending'
        <3>1. Followed
            BY <2>1, <2>2, <2>5 DEF Followed, Live
        <3>2. Shows(messages) /\ Pending /\ Listed <= Len(txs)
            BY <3>1 DEF MsgInv, Followed, Live, RowsInv
        <3>3. Shows(messages')
            BY <2>1, <2>3, <3>2
        <3>4. ASSUME NEW u \in 1..Listed, Missing(messages', u)
              PROVE  Enough(messages', u) \/ \E t \in u..TxLimit : Has(queue', Event("messages", "created", t))
            <4>0. u \in Nat /\ u <= Len(txs) /\ u \in 1..Len(txs)
                BY <1>0, <3>2
            <4>1. Longer(messages, messages')
                BY <1>0, <2>1, <2>3 DEF Longer
            <4>2. Len(messages') \in Nat /\ DOMAIN messages' = 1..Len(messages')
                BY <2>4 DEF RowsUpTo
            <4>3. Missing(messages, u)
                BY <1>0, <3>4, <4>1, <4>2 DEF Missing, HasRows, Longer
            <4>4. CASE id < u
                <5>1. CASE Enough(messages, u)
                    BY <1>0, <2>4, <4>0, <4>1, <5>1, EnoughIs
                <5>2. CASE \E t \in u..TxLimit : Has(queue, Event("messages", "created", t))
                    <6>1. PICK t \in u..TxLimit : Has(queue, Event("messages", "created", t))
                        BY <5>2
                    <6>2. Event("messages", "created", t) # Head(queue)
                        BY <1>0, <2>2, <4>0, <4>4 DEF Event
                    <6> QED BY <2>2, <6>1, <6>2
                <5> QED BY <3>2, <4>3, <5>1, <5>2 DEF Pending
            <4>5. CASE u <= id
                <5>1. Enough(messages', u) \/ Before(messages', u)
                    BY <3>3, <3>4, <4>0 DEF Shows
                <5>2. CASE HasRows(messages, id)
                    <6>1. messages' = messages
                        BY <2>1, <5>2
                    <6>2. PICK i \in 1..Len(messages) : messages[i].transaction = id
                        BY <1>0, <5>2 DEF HasRows
                    <6>3. ~Before(messages, u)
                        <7> HIDE DEF id
                        <7> QED BY <2>2, <4>0, <4>5, <6>2 DEF Before
                    <6> QED BY <5>1, <6>1, <6>3
                <5>3. CASE ~HasRows(messages, id)
                    <6>1. messages' = all
                        BY <2>1, <5>3
                    <6>2. u <= Len(messages)
                        <7> SUFFICES ASSUME u > Len(messages) PROVE FALSE
                            BY <1>0, <4>0
                        <7> HIDE DEF id
                        <7>1. u \in (Len(messages) + 1)..id
                            BY <1>0, <2>2, <4>0, <4>5
                        <7> QED BY <2>3, <3>4, <4>0, <6>1, <7>1
                    <6>3. u <= Len(messages')
                        BY <1>0, <4>0, <4>1, <4>2, <6>2 DEF Longer
                    <6> QED BY <2>4, <4>0, <5>1, <6>3, EnoughIs
                <5> QED BY <5>2, <5>3
            <4>6. id < u \/ u <= id
                BY <2>2, <4>0
            <4> QED BY <4>4, <4>5, <4>6
        <3>5. Pending'
            BY <2>1, <3>4 DEF Pending, Missing, Enough, HasRows
        <3> QED BY <3>3, <3>5
    <2>6. Shows(messages') <=> Shows(messages)'
        BY <2>1 DEF Shows, Missing, Enough, Before, InOrder, HasRows
    <2> QED BY <2>4, <2>5, <2>6 DEF MsgInv
<1>14. CASE resetMessages
    <2>1. messages' = <<>> /\ UNCHANGED <<gui, loaded>> /\ Takes("messages", "closed")
        BY <1>14 DEF resetMessages, adapter
    <2>2. gui = "closing"
        BY <2>1, TakesOne DEF Basics, QueueInv
    <2>3. <<>> \in RowsUpTo(TxLimit)
        BY DEF RowsUpTo
    <2> QED BY <2>1, <2>2, <2>3 DEF MsgInv, Followed, Live
<1> QED BY <1>1, <1>2, <1>3, <1>4, <1>5, <1>6, <1>7, <1>8, <1>9, <1>10, <1>11, <1>12, <1>13, <1>14
       DEF Next, Library, User, Adapter, Slots

-----------------------------------------------------------------------------
(* The theorems. *)

IInv == Basics /\ RowsInv /\ Covered /\ Announced /\ MsgInv

\* Nothing is loaded, posted or kept back at the start.
LEMMA Initially == Init => IInv
<1> SUFFICES ASSUME Init PROVE IInv
    OBVIOUS
<1>0. TxLimit \in Nat
    BY Constants
<1>1. queue = <<>> /\ \A e : ~Has(queue, e)
    BY NothingIs DEF Init
<1>2. Types
    <2>1. <<>> \in Seq(Kinds) /\ Len(<<>>) = 0 /\ <<>> \in Seq(Events)
        OBVIOUS
    <2>2. wallet \in BOOLEAN /\ ready \in BOOLEAN /\ isSynchronized \in BOOLEAN /\ timer \in BOOLEAN
          /\ crashed \in BOOLEAN /\ loaded \in BOOLEAN
        BY DEF Init
    <2>3. txs \in Seq(Kinds) /\ Len(txs) <= TxLimit /\ queue \in Seq(Events)
        BY <1>0, <2>1 DEF Init
    <2>4. lib \in 0..TxLimit /\ lastId \in 0..TxLimit /\ depositCount \in 0..TxLimit /\ lost \subseteq 1..TxLimit
        BY <1>0 DEF Init
    <2>5. sending \in [at : {"none", "locked", "unlocked"}, id : 0..TxLimit, message : BOOLEAN]
        BY <1>0 DEF Init, NoSend
    <2>6. gui \in {"idle", "emitting", "emitted", "closing"}
        BY DEF Init
    <2> QED BY <2>2, <2>3, <2>4, <2>5, <2>6 DEF Types
<1>3. QueueInv
    BY <1>1, NothingIs DEF QueueInv
<1>4. LibInv
    BY DEF Init, LibInv, NoSend
<1>5. RowsInv
    <2>1. transfers = <<>> /\ transactionRow = <<>> /\ ~loaded
        BY DEF Init
    <2>2. Listed = 0
        BY <2>1, NoRowsIndexed, ListedIs DEF Listed
    <2> QED BY <2>1, <2>2, NoRowsIndexed DEF RowsInv
<1>6. Covered /\ Announced /\ MsgInv
    <2>1. ~Live /\ messages \in RowsUpTo(TxLimit)
        BY DEF Init, Live, RowsUpTo
    <2> QED BY <2>1 DEF Covered, Announced, MsgInv, Followed
<1> QED BY <1>2, <1>3, <1>4, <1>5, <1>6 DEF IInv, Basics

\* No step breaks the invariant.
LEMMA Inductive == IInv /\ [Next]_vars => IInv'
<1> SUFFICES ASSUME IInv, [Next]_vars PROVE IInv'
    OBVIOUS
<1>1. CASE Next
    <2>1. Basics /\ RowsInv /\ Covered /\ Announced /\ MsgInv
        BY DEF IInv
    <2>2. queue' \in Seq(Events) /\ QueueInv'
        BY <1>1, <2>1, QueueStep
    <2>3. Types'
        BY <1>1, <2>1, <2>2, TypesStep
    <2>4. LibInv'
        BY <1>1, <2>1, LibStep
    <2>5. RowsInv'
        BY <1>1, <2>1, RowsStep
    <2>6. Covered' /\ Announced'
        BY <1>1, <2>1, CoverStep
    <2>7. MsgInv'
        BY <1>1, <2>1, MsgStep
    <2> QED BY <2>2, <2>3, <2>4, <2>5, <2>6, <2>7 DEF IInv, Basics
<1>2. CASE UNCHANGED vars
    <2>1. UNCHANGED <<wallet, txs, ready, lib, sending>>
        BY <1>2 DEF vars, library
    <2>2. UNCHANGED <<isSynchronized, lastId, timer, gui, crashed, lost, queue>>
        BY <1>2 DEF vars, adapter
    <2>3. UNCHANGED <<transfers, transactionRow, messages, depositCount, loaded>>
        BY <1>2 DEF vars, models
    <2>4. Types' /\ QueueInv' /\ LibInv'
        BY <2>1, <2>2, <2>3 DEF IInv, Basics, Types, QueueInv, LibInv
    <2>5. RowsInv' /\ Listed' = Listed /\ Live' = Live
        BY <2>1, <2>2, <2>3 DEF IInv, RowsInv, Listed, Live
    <2>6. \A id : Covers(id)' <=> Covers(id)
        BY <2>1, <2>2 DEF Covers
    <2>7. Covered' /\ Announced'
        BY <2>1, <2>2, <2>5, <2>6 DEF IInv, Covered, Announced
    <2>8. MsgInv'
        BY <2>1, <2>2, <2>3, <2>5, MsgKept DEF IInv
    <2> QED BY <2>4, <2>5, <2>7, <2>8 DEF IInv, Basics
<1> QED BY <1>1, <1>2

\* It holds throughout.
LEMMA Always == Spec => []IInv
BY Initially, Inductive, PTL DEF Spec

\* Rows typed by the transactions there are belong to the transactions there may be.
LEMMA RowsTyped ==
    ASSUME NEW n \in Nat, n <= TxLimit, NEW rows \in RowsUpTo(n)
    PROVE  rows \in RowsUpTo(TxLimit)
<1>1. [transaction : 1..n, transfer : Nat] \subseteq [transaction : 1..TxLimit, transfer : Nat]
    BY Constants
<1> QED BY <1>1, SeqMonotonic DEF RowsUpTo

\* Every variable keeps its type: the models have rows only of transactions there may be, and
\* every row of the index is of one (TransactionsModel.cpp, MessagesModel.cpp).
THEOREM FeedTypes == Spec => []TypeOK
<1>1. IInv => TypeOK
    <2> SUFFICES ASSUME IInv PROVE TypeOK
        OBVIOUS
    <2>1. transfers \in Seq([transaction : 1..TxLimit, transfer : Nat])
        <3>1. Listed \in Nat /\ Listed <= TxLimit /\ transfers \in RowsUpTo(Listed)
            BY Constants DEF IInv, RowsInv, Indexed
        <3> QED BY <3>1, RowsTyped DEF RowsUpTo
    <2>2. \A id \in DOMAIN transactionRow : id \in 1..TxLimit /\ transactionRow[id] \in Nat \X Nat
        BY Constants DEF IInv, RowsInv, Indexed
    <2>3. messages \in Seq([transaction : 1..TxLimit, transfer : Nat])
        BY DEF IInv, MsgInv, RowsUpTo
    <2> QED BY <2>1, <2>2, <2>3 DEF IInv, Basics, Types, TypeOK, Events
<1> QED BY <1>1, Always, PTL

\* The rows updateWalletTransaction() announces as changed are exactly those of the transaction,
\* whatever reloads, appends and resets came before it.
THEOREM FeedChangedRows == Spec => []ChangedRowsAreItsRows
<1>1. IInv => ChangedRowsAreItsRows
    <2> SUFFICES ASSUME IInv, NEW id \in DOMAIN transactionRow
                 PROVE  ChangedRows(id) = {i \in DOMAIN transfers : transfers[i].transaction = id}
        BY DEF ChangedRowsAreItsRows
    <2>1. Indexed(transfers, transactionRow, Listed) /\ id \in 1..Listed
        BY DEF IInv, RowsInv, Indexed
    <2>2. DOMAIN transfers = 1..Len(transfers) /\ Len(transfers) \in Nat
        BY <2>1 DEF Indexed, RowsUpTo
    <2> DEFINE first == transactionRow[id][1]
               count == transactionRow[id][2]
    <2>3. /\ first \in Nat /\ count \in Nat /\ 1 <= first /\ first + count <= Len(transfers) + 1
          /\ \A i \in 1..Len(transfers) :
                 transfers[i].transaction = id <=> first <= i /\ i <= first + count - 1
        BY <2>1 DEF Indexed
    <2>4. ChangedRows(id) = first..(first + count - 1)
        BY DEF ChangedRows
    <2> HIDE DEF first, count
    <2>5. first..(first + count - 1) = {i \in 1..Len(transfers) : first <= i /\ i <= first + count - 1}
        BY <2>2, <2>3
    <2> QED BY <2>2, <2>3, <2>4, <2>5
<1> QED BY <1>1, Always, PTL

\* A transaction of the loaded wallet is listed, or it or a later one is on its way to the list,
\* unless notifyAboutLastTransaction() forgot it between its emit and its reset.
THEOREM FeedNoneForgotten == Spec => []NoneForgotten
<1>1. IInv => NoneForgotten
    <2> SUFFICES ASSUME IInv, Serving, NEW id \in DOMAIN txs, id \notin DOMAIN transactionRow
                 PROVE  \E told \in Told \cup lost \cup {lastId, lib, sending.id}
                            \cup {queue[i].id : i \in {j \in DOMAIN queue : queue[j].ev = "sent"}} :
                            told >= id
        BY DEF NoneForgotten
    <2>1. id \in (Listed + 1)..Len(txs) /\ Len(txs) \in Nat /\ Listed \in Nat /\ DOMAIN queue = 1..Len(queue)
        <3>1. DOMAIN txs = 1..Len(txs) /\ Len(txs) \in Nat /\ DOMAIN transactionRow = 1..Listed
              /\ Listed \in Nat /\ DOMAIN queue = 1..Len(queue)
            BY DEF IInv, Basics, Types, RowsInv, Indexed
        <3> QED BY <3>1
    <2>2. Covers(id)
        BY <2>1 DEF IInv, Covered, Serving, Live
    <2>3. ASSUME NEW t \in id..Len(txs), Has(queue, Event("adapter", "sent", t))
          PROVE  t \in {queue[i].id : i \in {j \in DOMAIN queue : queue[j].ev = "sent"}} /\ t >= id
        <3>1. PICK i \in DOMAIN queue : queue[i] = Event("adapter", "sent", t)
            BY <2>1, <2>3 DEF Has
        <3>2. queue[i].ev = "sent" /\ queue[i].id = t
            BY <3>1 DEF Event
        <3> QED BY <2>1, <3>2
    <2>4. ASSUME NEW t \in id..TxLimit, Has(queue, Event("transactions", "created", t))
          PROVE  t \in Told /\ t >= id
        <3>1. PICK i \in DOMAIN queue : queue[i] = Event("transactions", "created", t)
            BY <2>1, <2>4 DEF Has
        <3>2. queue[i].ev = "created" /\ queue[i].id = t
            BY <3>1 DEF Event
        <3> QED BY <2>1, <3>2 DEF Told
    <2>5. sending.id \in id..Len(txs) => sending.id >= id
        BY <2>1
    <2> QED BY <2>2, <2>3, <2>4, <2>5 DEF Covers
<1> QED BY <1>1, Always, PTL

\* A loaded MessagesModel shows each transaction once and in order, and when nothing is on its
\* way to it, it leaves out only messages with more rows before them than transactions, because
\* appendTransaction() starts from the number of rows.
THEOREM FeedMessagesInOrder == Spec => []MessagesInOrder
<1>1. IInv => MessagesInOrder
    <2> SUFFICES ASSUME IInv, Serving
                 PROVE  /\ InOrder(messages)
                        /\ MessagesQuiet => \A id \in DOMAIN transactionRow :
                               Missing(messages, id) => Enough(messages, id)
        BY DEF MessagesInOrder, InOrder, Missing, Enough
    <2>1. DOMAIN queue = 1..Len(queue) /\ DOMAIN transactionRow = 1..Listed
        BY DEF IInv, Basics, Types, RowsInv, Indexed
    <2>2. Followed
        BY <2>1 DEF Serving, Followed, Live, Has
    <2>3. Shows(messages) /\ Pending
        BY <2>2 DEF IInv, MsgInv
    <2>4. ASSUME MessagesQuiet PROVE \A t : ~Has(queue, Event("messages", "created", t))
        BY <2>1, <2>4 DEF MessagesQuiet, Has, Event
    <2> QED BY <2>1, <2>3, <2>4 DEF Shows, Pending
<1> QED BY <1>1, Always, PTL

\* More transactions have more rows.
LEMMA BlocksLonger ==
    ASSUME NEW list \in Seq(Kinds), NEW n \in Nat, NEW m \in Nat, n < m, m <= Len(list)
    PROVE  Len(Blocks(list, n)) < Len(Blocks(list, m))
<1> DEFINE R == [transaction : Nat, transfer : Nat]
           P(i) == i <= Len(list) =>
                       /\ Blocks(list, i) \in Seq(R)
                       /\ n < i => Len(Blocks(list, n)) < Len(Blocks(list, i))
           S == {i \in Nat : P(i)}
<1>1. P(0)
    <2>1. Blocks(list, 0) = <<>> /\ <<>> \in Seq(R) /\ ~(n < 0)
        BY NoRowsIndexed
    <2> HIDE DEF R
    <2> QED BY <2>1
<1>2. ASSUME NEW i \in Nat, P(i) PROVE P(i + 1)
    <2> SUFFICES ASSUME i + 1 <= Len(list)
                 PROVE  /\ Blocks(list, i + 1) \in Seq(R)
                        /\ n < i + 1 => Len(Blocks(list, n)) < Len(Blocks(list, i + 1))
        OBVIOUS
    <2> DEFINE new == RowsOf(i + 1, list[i + 1])
    <2>1. list[i + 1] \in Transactions
        <3>1. i + 1 \in 1..Len(list)
            OBVIOUS
        <3>2. list[i + 1] \in Kinds
            BY <3>1
        <3> QED BY <3>2, Constants
    <2>2. /\ new \in Seq([transaction : {i + 1}, transfer : Nat])
          /\ Len(new) \in Nat /\ Len(new) > 0
        BY <2>1, RowsOfIs
    <2>3. Blocks(list, i + 1) = Blocks(list, i) \o new
        BY BlocksGrow
    <2> HIDE DEF new
    <2>4. [transaction : {i + 1}, transfer : Nat] \subseteq R
        OBVIOUS
    <2>5. Blocks(list, i) \in Seq(R)
        BY <1>2
    <2> HIDE DEF R
    <2>6. new \in Seq(R)
        BY <2>2, <2>4, SeqMonotonic
    <2>7. Blocks(list, i + 1) \in Seq(R) /\ Len(Blocks(list, i + 1)) = Len(Blocks(list, i)) + Len(new)
        BY <2>3, <2>5, <2>6, ConcatProperties
    <2>8. Len(Blocks(list, i)) \in Nat
        BY <2>5
    <2>9. n < i + 1 => Len(Blocks(list, n)) <= Len(Blocks(list, i))
        <3>1. n < i + 1 => n = i \/ n < i
            OBVIOUS
        <3>2. n < i => Len(Blocks(list, n)) < Len(Blocks(list, i)) /\ n <= Len(list)
            BY <1>2
        <3>3. n < i => Len(Blocks(list, n)) <= Len(Blocks(list, i))
            BY <2>8, <3>2
        <3> QED BY <2>8, <3>1, <3>3
    <2>10. Len(Blocks(list, n)) \in Int \/ ~(n < i + 1)
        OBVIOUS
    <2> QED BY <2>2, <2>7, <2>8, <2>9, <2>10
<1>3. m \in S
    <2>1. 0 \in S /\ \A i \in S : i + 1 \in S
        BY <1>1, <1>2
    <2> HIDE DEF P
    <2>2. S \in SUBSET Nat
        OBVIOUS
    <2> HIDE DEF S
    <2> QED BY <2>1, <2>2, SetInduction
<1>4. P(m)
    BY <1>3
<1> QED BY <1>4

\* Each step is one of TransactionList, or changes nothing it is about.
LEMMA PromiseStep ==
    ASSUME IInv, [Next]_vars
    PROVE  [Promise!Next]_(Promise!vars)
<1>0. txs \in Seq(Kinds) /\ Len(txs) \in Nat /\ Listed \in Nat /\ Basics /\ RowsInv
    BY DEF IInv, Basics, Types, RowsInv, Indexed
<1>1. CASE (\E tx \in Received : Receive(tx)) \/ (\E tx \in Sent : Send(tx))
    <2>1. PICK tx \in Kinds : txs' = Append(txs, tx) /\ UNCHANGED models
        BY <1>1 DEF Receive, Send, Kinds
    <2>2. /\ txs' \in Seq(Kinds) /\ Len(txs') = Len(txs) + 1
          /\ \A i \in 1..Len(txs) : txs'[i] = txs[i]
        BY <1>0, <2>1, OneMore DEF Basics
    <2>3. SubSeq(txs', 1, Len(txs)) = txs
        <3> DEFINE n == Len(txs)
                   first == SubSeq(txs', 1, n)
        <3>1. /\ first \in Seq(Kinds) /\ Len(first) = IF 1 <= n THEN n - 1 + 1 ELSE 0
              /\ \A i \in 1..(n - 1 + 1) : first[i] = txs'[1 + i - 1]
            <4>1. 1 \in Int /\ n \in Int /\ \A i \in 1..n : txs'[i] \in Kinds
                BY <1>0, <2>2
            <4> HIDE DEF n
            <4> QED BY <4>1, SubSeqProperties
        <3>2. n \in Nat
            BY <1>0
        <3> HIDE DEF first, n
        <3>3. Len(first) = n /\ \A i \in 1..n : first[i] = txs'[i]
            <4>1. n - 1 + 1 = n /\ (1 <= n \/ n = 0)
                BY <3>2
            <4>2. Len(first) = n
                BY <3>1, <4>1
            <4>3. ASSUME NEW i \in 1..n
                  PROVE  first[i] = txs'[i]
                <5>1. first[i] = txs'[1 + i - 1]
                    BY <3>1, <4>1
                <5>2. 1 + i - 1 = i
                    BY <3>2
                <5> QED BY <5>1, <5>2
            <4> QED BY <4>2, <4>3
        <3>4. \A i \in 1..n : first[i] = txs[i]
            BY <2>2, <3>3 DEF n
        <3>5. first = txs
            BY <1>0, <3>1, <3>3, <3>4, SeqEqual DEF n
        <3> QED BY <3>5 DEF first, n
    <2>4. UNCHANGED <<transfers, loaded>>
        BY <2>1 DEF models
    <2> QED BY <2>2, <2>3, <2>4 DEF Promise!Next, Promise!Receive
<1>2. CASE (\E stored \in Stored : Open(stored)) \/ DeleteWallet
    <2>1. loaded' = FALSE /\ UNCHANGED transfers
        BY <1>0, <1>2 DEF Open, DeleteWallet, models, RowsInv, Basics, Types, IInv
    <2> QED BY <2>1 DEF Promise!Next, Promise!Switch
<1>3. CASE reloadWalletTransactions
    <2>1. loaded' /\ transfers' = Blocks(txs, Len(txs)) /\ UNCHANGED txs
        BY <1>0, <1>3, ReloadIs
    <2>2. Promise!Blocks(txs, Len(txs)) = Blocks(txs, Len(txs))
        BY DEF Promise!Blocks, Blocks, Promise!RowsOf, RowsOf, Promise!Row, Row, Promise!None, None
    <2> QED BY <1>0, <2>1, <2>2 DEF Promise!Next, Promise!Load, Promise!Shown
<1>4. CASE appendTransaction
    <2>1. /\ UNCHANGED <<txs, loaded>> /\ Listed' \in Nat
          /\ Listed' = (IF Head(queue).id \in DOMAIN transactionRow THEN Listed ELSE Reached(Listed, Head(queue).id))
          /\ Listed' = Listed => UNCHANGED transfers
          /\ loaded => transfers' = Blocks(txs, Listed')
          /\ Head(queue).id \in Nat
        BY <1>0, <1>4, AppendIs
    <2>2. CASE ~loaded
        BY <2>1, <2>2 DEF Promise!Next, Promise!Unloaded
    <2>3. CASE loaded /\ Listed' = Listed
        BY <2>1, <2>3 DEF Promise!vars
    <2>4. CASE loaded /\ Listed' # Listed
        <3>1. PICK n \in Nat : n = Listed'
            BY <2>1
        <3>2. n <= Len(txs) /\ Listed < n /\ transfers = Blocks(txs, Listed)
            BY <1>0, <2>1, <2>4, <3>1 DEF Reached, RowsInv
        <3>3. transfers' = Blocks(txs, n)
            BY <2>1, <2>4, <3>1
        <3>4. Len(transfers') > Len(transfers)
            <4>1. Len(Blocks(txs, Listed)) < Len(Blocks(txs, n))
                BY <1>0, <3>2, BlocksLonger
            <4> QED BY <3>2, <3>3, <4>1
        <3>5. n \in 0..Len(txs)
            BY <1>0, <3>2
        <3>6. Promise!Blocks(txs, n) = Blocks(txs, n)
            BY DEF Promise!Blocks, Blocks, Promise!RowsOf, RowsOf, Promise!Row, Row, Promise!None, None
        <3> QED BY <2>1, <2>4, <3>2, <3>3, <3>4, <3>5, <3>6 DEF Promise!Next, Promise!Show, Promise!Shown
    <2> QED BY <2>2, <2>3, <2>4
<1>5. CASE resetTransactions
    <2>1. loaded' = FALSE /\ transfers' = <<>> /\ UNCHANGED txs
        BY <1>5 DEF resetTransactions, library
    <2> QED BY <2>1 DEF Promise!Next, Promise!Close
<1>6. CASE initCompleted \/ externalTransactionCreated \/ synchronizationProgressUpdated
           \/ synchronizationCompleted \/ UnlockSent \/ EmitSent \/ CloseWallet \/ TimerFires \/ EmitLast
           \/ ForgetLast \/ onProgress \/ onCompleted \/ onWalletInitCompleted
           \/ onWalletSendTransactionCompleted \/ reloadMessages \/ appendMessageTransaction \/ resetMessages
           \/ reloadWalletDeposits \/ transactionCreated \/ resetDeposits
    <2>1. UNCHANGED <<txs, transfers, loaded>>
        BY <1>6 DEF initCompleted, externalTransactionCreated, synchronizationProgressUpdated,
               synchronizationCompleted, UnlockSent, EmitSent, CloseWallet, TimerFires, EmitLast,
               ForgetLast, onProgress, onCompleted, onWalletInitCompleted,
               onWalletSendTransactionCompleted, reloadMessages, appendMessageTransaction, resetMessages,
               reloadWalletDeposits, transactionCreated, resetDeposits, library, models
    <2> QED BY <2>1 DEF Promise!vars
<1>7. CASE UNCHANGED vars
    BY <1>7 DEF vars, library, models, Promise!vars
<1> QED BY <1>1, <1>2, <1>3, <1>4, <1>5, <1>6, <1>7 DEF Next, Library, User, Adapter, Slots

\* TransactionsModel implements TransactionList: the rows of the first transactions of the
\* wallet, in order, and only more of them until the wallet is closed.
THEOREM FeedKeepsPromise == Spec => KeepsPromise
<1>1. Init => Promise!Init
    BY DEF Init, Promise!Init
<1>2. IInv /\ [Next]_vars => [Promise!Next]_(Promise!vars)
    BY PromiseStep
<1> QED BY <1>1, <1>2, Always, PTL DEF Spec, KeepsPromise, Promise!Spec

-----------------------------------------------------------------------------
(***************************************************************************)
(* RowDetails, for any wallet and any number of transactions, transfers    *)
(* and deposits.  What the rows tell follows from three facts about the    *)
(* wallet, which are inductive together (DetailsInv): the types, that only *)
(* what the library found has transfers, and that no two deposits were     *)
(* created by one transaction.  The amounts of a payment are added up in   *)
(* the order of the rows, by induction over the transactions listed: those *)
(* before and after it add nothing.                                        *)
(***************************************************************************)

(* Sums. *)

\* What holds of 0, and of the next number up to n, holds of n.
LEMMA CountingUp ==
    ASSUME NEW n \in Nat, NEW S \in SUBSET Nat, 0 \in S, \A k \in S : k < n => k + 1 \in S
    PROVE  n \in S
<1> DEFINE T == S \cup {k \in Nat : k > n}
<1>1. 0 \in T /\ T \in SUBSET Nat /\ \A k \in T : k + 1 \in T
    <2>1. ASSUME NEW k \in T PROVE k + 1 \in T
        <3>1. CASE k \in S /\ k < n
            BY <3>1
        <3>2. CASE k \in Nat /\ ~(k < n)
            BY <3>2
        <3> QED BY <3>1, <3>2
    <2> QED BY <2>1
<1> HIDE DEF T
<1>2. n \in T
    BY <1>1, SetInduction
<1> QED BY <1>2 DEF T

\* The recursive function that SumOf evaluates.
UpTo(numbers) ==
    CHOOSE f : f = [i \in 0..Len(numbers) |-> IF i = 0 THEN 0 ELSE f[i - 1] + numbers[i]]

\* SumOf counts up from 0.
LEMMA SumDefined ==
    ASSUME NEW numbers \in Seq(Int)
    PROVE  /\ SumOf(numbers) = UpTo(numbers)[Len(numbers)]
           /\ UpTo(numbers)[0] = 0
           /\ \A i \in 1..Len(numbers) : UpTo(numbers)[i] = UpTo(numbers)[i - 1] + numbers[i]
           /\ \A i \in 0..Len(numbers) : UpTo(numbers)[i] \in Int
<1> DEFINE n == Len(numbers)
           Next1(f, i) == IF i = 0 THEN 0 ELSE f[i - 1] + numbers[i]
           P(m) == \E f : f = [i \in 0..m |-> Next1(f, i)]
           S == {m \in Nat : P(m)}
<1>0. n \in Nat
    OBVIOUS
<1>1. P(0)
    <2> DEFINE f == [i \in 0..0 |-> 0]
    <2>1. f = [i \in 0..0 |-> Next1(f, i)]
        OBVIOUS
    <2> QED BY <2>1
<1>2. ASSUME NEW m \in Nat, P(m) PROVE P(m + 1)
    <2>1. PICK f : f = [i \in 0..m |-> Next1(f, i)]
        BY <1>2
    <2> DEFINE g == [i \in 0..(m + 1) |-> IF i = m + 1 THEN f[m] + numbers[m + 1] ELSE f[i]]
    <2>2. ASSUME NEW i \in 0..(m + 1) PROVE g[i] = Next1(g, i)
        <3>1. CASE i = m + 1
            <4>1. (m + 1) - 1 = m /\ m # m + 1 /\ m \in 0..(m + 1) /\ m + 1 \in 0..(m + 1) /\ m + 1 # 0
                OBVIOUS
            <4>2. g[m] = f[m] /\ g[m + 1] = f[m] + numbers[m + 1]
                BY <4>1
            <4> HIDE DEF g
            <4> QED BY <3>1, <4>1, <4>2
        <3>2. CASE i \in 0..m
            <4>1. f[i] = Next1(f, i) /\ g[i] = f[i]
                BY <2>1, <3>2
            <4>2. i = 0 \/ (i - 1 \in 0..m /\ g[i - 1] = f[i - 1])
                BY <3>2
            <4> QED BY <4>1, <4>2
        <3> QED BY <3>1, <3>2
    <2>3. g = [i \in 0..(m + 1) |-> Next1(g, i)]
        BY <2>2
    <2> QED BY <2>3
<1>3. n \in S
    <2> HIDE DEF P
    <2>1. 0 \in S /\ \A m \in S : m + 1 \in S
        BY <1>1, <1>2
    <2>2. S \in SUBSET Nat
        OBVIOUS
    <2> HIDE DEF S
    <2> QED BY <1>0, <2>1, <2>2, SetInduction
<1>4. P(n)
    BY <1>3
<1>5. UpTo(numbers) = [i \in 0..n |-> Next1(UpTo(numbers), i)]
    BY <1>4 DEF UpTo
<1>6. SumOf(numbers) = UpTo(numbers)[n]
    BY DEF SumOf, UpTo
<1> HIDE DEF UpTo
<1>7. UpTo(numbers)[0] = 0 /\ \A i \in 1..n : UpTo(numbers)[i] = UpTo(numbers)[i - 1] + numbers[i]
    BY <1>0, <1>5
<1>8. ASSUME NEW i \in 0..n PROVE UpTo(numbers)[i] \in Int
    <2> DEFINE R == {k \in Nat : k <= n => UpTo(numbers)[k] \in Int}
    <2>1. 0 \in R
        BY <1>7
    <2>2. ASSUME NEW k \in R PROVE k + 1 \in R
        <3> SUFFICES ASSUME k + 1 <= n PROVE UpTo(numbers)[k + 1] \in Int
            OBVIOUS
        <3>1. k + 1 \in 1..n /\ (k + 1) - 1 = k /\ UpTo(numbers)[k] \in Int
            BY <1>0
        <3>2. numbers[k + 1] \in Int
            BY <3>1
        <3> QED BY <1>7, <3>1, <3>2
    <2>3. R = Nat
        <3>1. R \in SUBSET Nat /\ \A k \in R : k + 1 \in R
            BY <2>2
        <3> HIDE DEF R
        <3> QED BY <2>1, <3>1, SetInduction
    <2> QED BY <1>0, <2>3
<1> QED BY <1>6, <1>7, <1>8

\* Whatever counts up like a sum ends with it.
LEMMA SumIs ==
    ASSUME NEW numbers \in Seq(Int), NEW f, f[0] = 0,
           \A i \in 1..Len(numbers) : f[i] = f[i - 1] + numbers[i]
    PROVE  SumOf(numbers) = f[Len(numbers)]
<1> DEFINE n == Len(numbers)
           S == {k \in Nat : k <= n => f[k] = UpTo(numbers)[k]}
<1>0. n \in Nat
    OBVIOUS
<1>1. 0 \in S
    BY SumDefined
<1>2. ASSUME NEW k \in S PROVE k + 1 \in S
    <2> SUFFICES ASSUME k + 1 <= n PROVE f[k + 1] = UpTo(numbers)[k + 1]
        OBVIOUS
    <2>1. k + 1 \in 1..n /\ (k + 1) - 1 = k /\ f[k] = UpTo(numbers)[k]
        BY <1>0
    <2>2. UpTo(numbers)[k + 1] = UpTo(numbers)[k] + numbers[k + 1]
        BY <2>1, SumDefined
    <2>3. f[k + 1] = f[k] + numbers[k + 1]
        BY <2>1
    <2> QED BY <2>1, <2>2, <2>3
<1>3. S = Nat
    <2>1. S \in SUBSET Nat /\ \A k \in S : k + 1 \in S
        BY <1>2
    <2> HIDE DEF S
    <2> QED BY <1>1, <2>1, SetInduction
<1>4. f[n] = UpTo(numbers)[n]
    BY <1>0, <1>3
<1> QED BY <1>4, SumDefined

LEMMA SumIsInt == ASSUME NEW numbers \in Seq(Int) PROVE SumOf(numbers) \in Int
<1>1. Len(numbers) \in 0..Len(numbers)
    OBVIOUS
<1> QED BY <1>1, SumDefined

LEMMA SumOfZeros ==
    ASSUME NEW numbers \in Seq(Int), \A i \in 1..Len(numbers) : numbers[i] = 0
    PROVE  SumOf(numbers) = 0
<1> DEFINE f == [i \in 0..Len(numbers) |-> 0]
<1>1. f[0] = 0 /\ f[Len(numbers)] = 0 /\ \A i \in 1..Len(numbers) : f[i] = f[i - 1] + numbers[i]
    OBVIOUS
<1> HIDE DEF f
<1> QED BY <1>1, SumIs

LEMMA SumOfNegated ==
    ASSUME NEW numbers \in Seq(Int), NEW negated \in Seq(Int), Len(negated) = Len(numbers),
           \A i \in 1..Len(numbers) : negated[i] = -numbers[i]
    PROVE  SumOf(negated) = -SumOf(numbers)
<1> DEFINE n == Len(numbers)
           f == [i \in 0..n |-> -UpTo(numbers)[i]]
<1>1. n \in Nat /\ \A i \in 0..n : f[i] = -UpTo(numbers)[i]
    OBVIOUS
<1> HIDE DEF f
<1>2. f[0] = 0 /\ f[n] = -UpTo(numbers)[n]
    BY <1>1, SumDefined
<1>3. ASSUME NEW i \in 1..n PROVE f[i] = f[i - 1] + negated[i]
    <2>1. i \in 0..n /\ i - 1 \in 0..n /\ numbers[i] \in Int
        BY <1>1
    <2>2. /\ UpTo(numbers)[i] = UpTo(numbers)[i - 1] + numbers[i]
          /\ UpTo(numbers)[i] \in Int /\ UpTo(numbers)[i - 1] \in Int
        BY <2>1, SumDefined
    <2>3. f[i] = -UpTo(numbers)[i] /\ f[i - 1] = -UpTo(numbers)[i - 1] /\ negated[i] = -numbers[i]
        BY <1>1, <2>1
    <2> QED BY <2>1, <2>2, <2>3, SMTT(30)
<1>4. SumOf(negated) = f[n]
    BY <1>2, <1>3, SumIs
<1> QED BY <1>2, <1>4, SumDefined

LEMMA SumOfBoth ==
    ASSUME NEW a \in Seq(Int), NEW b \in Seq(Int)
    PROVE  SumOf(a \o b) = SumOf(a) + SumOf(b)
<1> DEFINE m == Len(a)
           n == Len(b)
           ua == UpTo(a)
           ub == UpTo(b)
           f == [i \in 0..(m + n) |-> IF i <= m THEN ua[i] ELSE ua[m] + ub[i - m]]
           both == a \o b
<1>1. /\ m \in Nat /\ n \in Nat
      /\ both \in Seq(Int) /\ Len(both) = m + n
      /\ \A i \in 1..m : both[i] = a[i]
      /\ \A i \in (m + 1)..(m + n) : both[i] = b[i - m]
    BY ConcatProperties
<1>2. /\ SumOf(a) = ua[m] /\ ua[0] = 0 /\ \A i \in 1..m : ua[i] = ua[i - 1] + a[i]
      /\ \A i \in 0..m : ua[i] \in Int
    BY SumDefined
<1>3. /\ SumOf(b) = ub[n] /\ ub[0] = 0 /\ \A i \in 1..n : ub[i] = ub[i - 1] + b[i]
      /\ \A i \in 0..n : ub[i] \in Int
    BY SumDefined
<1>4. \A i \in 0..(m + n) : f[i] = IF i <= m THEN ua[i] ELSE ua[m] + ub[i - m]
    OBVIOUS
<1> HIDE DEF f, m, n, ua, ub, both
<1>5. f[0] = 0 /\ f[m + n] = ua[m] + ub[n]
    <2>1. 0 \in 0..(m + n) /\ m + n \in 0..(m + n) /\ 0 <= m /\ (m + n) - m = n /\ (m + n <= m => n = 0)
        BY <1>1
    <2>2. m \in 0..m /\ ua[m] \in Int
        BY <1>1, <1>2
    <2> QED BY <1>1, <1>2, <1>3, <1>4, <2>1, <2>2
<1>6. ASSUME NEW i \in 1..(m + n) PROVE f[i] = f[i - 1] + both[i]
    <2>1. CASE i <= m
        <3>1. i \in 1..m /\ i \in 0..(m + n) /\ i - 1 \in 0..(m + n) /\ i - 1 <= m
            BY <1>1, <2>1
        <3> QED BY <1>1, <1>2, <1>4, <2>1, <3>1
    <2>2. CASE i > m
        <3> DEFINE j == i - m
        <3>1. /\ i \in (m + 1)..(m + n) /\ i \in 0..(m + n) /\ i - 1 \in 0..(m + n) /\ ~(i <= m)
              /\ j \in 1..n /\ j \in 0..n /\ j - 1 \in 0..n /\ (i - 1) - m = j - 1
            BY <1>1, <2>2
        <3>2. f[i] = ua[m] + ub[j] /\ both[i] = b[j]
            BY <1>1, <1>4, <3>1
        <3>3. f[i - 1] = ua[m] + ub[j - 1]
            <4>1. CASE i - 1 <= m
                <5>1. i - 1 = m /\ j - 1 = 0
                    BY <1>1, <2>2, <4>1
                <5>2. m \in 0..m /\ ua[m] \in Int
                    BY <1>1, <1>2
                <5>3. f[i - 1] = ua[m]
                    BY <1>4, <3>1, <4>1, <5>1
                <5>4. ub[j - 1] = 0
                    BY <1>3, <5>1
                <5> QED BY <5>2, <5>3, <5>4
            <4>2. CASE ~(i - 1 <= m)
                BY <1>4, <3>1, <4>2
            <4> QED BY <4>1, <4>2
        <3>4. ub[j] = ub[j - 1] + b[j] /\ ub[j - 1] \in Int /\ b[j] \in Int /\ ua[m] \in Int
            <4>1. b[j] \in Int
                BY <3>1 DEF n
            <4>2. m \in 0..m
                BY <1>1
            <4> QED BY <1>2, <1>3, <3>1, <4>1, <4>2
        <3> HIDE DEF j
        <3> QED BY <3>2, <3>3, <3>4
    <2> QED BY <1>1, <2>1, <2>2
<1>7. SumOf(both) = f[m + n]
    BY <1>1, <1>5, <1>6, SumIs
<1> QED BY <1>2, <1>3, <1>5, <1>7 DEF both

-----------------------------------------------------------------------------
(* The rows of the wallet's transactions. *)

\* A transaction with transfers has a row for each.
LEMMA RowsAreTransfers ==
    ASSUME NEW id, NEW tx \in Transactions
    PROVE  /\ Len(tx.transfers) \in Nat /\ DOMAIN tx.transfers = 1..Len(tx.transfers)
           /\ tx.transfers = <<>> => Len(RowsOf(id, tx)) = 1
           /\ tx.transfers # <<>> =>
                  /\ Len(RowsOf(id, tx)) = Len(tx.transfers)
                  /\ \A j \in 1..Len(tx.transfers) : RowsOf(id, tx)[j] = Row(id, j)
<1> DEFINE n == Len(tx.transfers)
<1>1. tx.transfers \in Seq(Transfer) /\ n \in Nat /\ DOMAIN tx.transfers = 1..n
    BY DEF Transactions
<1>2. CASE tx.transfers = <<>>
    <2>1. RowsOf(id, tx) = <<Row(id, None)>>
        BY <1>2 DEF RowsOf
    <2> QED BY <1>1, <1>2, <2>1
<1>3. CASE tx.transfers # <<>>
    <2> HIDE DEF n
    <2>1. RowsOf(id, tx) = [j \in 1..n |-> Row(id, j)]
        BY <1>1, <1>3 DEF RowsOf
    <2>2. [j \in 1..n |-> Row(id, j)] \in Seq({Row(id, j) : j \in 1..n})
        BY <1>1
    <2> QED BY <1>1, <1>3, <2>1, <2>2 DEF n
<1> QED BY <1>2, <1>3

LEMMA TransactionIs ==
    ASSUME NEW list \in Seq(Transactions)
    PROVE  Len(list) \in Nat /\ DOMAIN list = 1..Len(list) /\ \A id \in 1..Len(list) : list[id] \in Transactions
OBVIOUS

\* The rows of the first transactions belong to them.
LEMMA BlocksTyped ==
    ASSUME NEW list \in Seq(Transactions), NEW n \in 0..Len(list)
    PROVE  Blocks(list, n) \in RowsUpTo(n)
<1> DEFINE S == {k \in 0..n : Blocks(list, k) \in RowsUpTo(n)}
<1>0. n \in Nat /\ Len(list) \in Nat
    OBVIOUS
<1>1. 0 \in S
    <2>1. Blocks(list, 0) = <<>> /\ \A R : <<>> \in Seq(R)
        BY BlocksGrow
    <2>2. Blocks(list, 0) \in RowsUpTo(n)
        BY <2>1, Zenon DEF RowsUpTo
    <2> QED BY <1>0, <2>2
<1>2. ASSUME NEW k \in S, k < n PROVE k + 1 \in S
    <2> DEFINE new == RowsOf(k + 1, list[k + 1])
    <2>1. k \in Nat /\ k + 1 \in 1..n /\ k + 1 \in 1..Len(list) /\ Blocks(list, k) \in RowsUpTo(n)
        BY <1>0, <1>2
    <2>2. new \in Seq([transaction : {k + 1}, transfer : Nat])
        BY <2>1, TransactionIs, RowsOfIs
    <2>3. [transaction : {k + 1}, transfer : Nat] \subseteq [transaction : 1..n, transfer : Nat]
        BY <2>1
    <2>4. new \in RowsUpTo(n)
        BY <2>2, <2>3, SeqMonotonic DEF RowsUpTo
    <2>5. Blocks(list, k + 1) = Blocks(list, k) \o new
        BY <2>1, BlocksGrow
    <2> HIDE DEF new
    <2>6. Blocks(list, k + 1) \in RowsUpTo(n)
        BY <2>1, <2>4, <2>5, ConcatProperties DEF RowsUpTo
    <2> QED BY <2>1, <2>6
<1>3. S \in SUBSET Nat
    BY <1>0
<1> HIDE DEF S
<1>4. n \in S
    BY <1>0, <1>1, <1>2, <1>3, CountingUp
<1> QED BY <1>4 DEF S

\* One more transaction, with its rows after those of the others.
LEMMA OneMoreBlock ==
    ASSUME NEW list \in Seq(Transactions), NEW k \in Nat, k < Len(list)
    PROVE  LET old == Blocks(list, k)
               new == RowsOf(k + 1, list[k + 1])
               all == Blocks(list, k + 1)
           IN /\ all = old \o new /\ list[k + 1] \in Transactions
              /\ old \in Seq([transaction : Nat, transfer : Nat])
              /\ new \in Seq([transaction : {k + 1}, transfer : Nat])
              /\ new \in Seq([transaction : Nat, transfer : Nat])
              /\ Len(old) \in Nat /\ Len(new) \in Nat /\ Len(new) > 0 /\ Len(all) = Len(old) + Len(new)
              /\ \A i \in 1..Len(old) : all[i] = old[i]
              /\ \A i \in 1..Len(new) : all[Len(old) + i] = new[i]
<1> DEFINE old == Blocks(list, k)
           new == RowsOf(k + 1, list[k + 1])
           all == Blocks(list, k + 1)
           R == [transaction : Nat, transfer : Nat]
<1>1. k + 1 \in 1..Len(list) /\ k \in 0..Len(list) /\ Len(list) \in Nat
    OBVIOUS
<1>2. list[k + 1] \in Transactions
    BY <1>1, TransactionIs
<1>3. /\ new \in Seq([transaction : {k + 1}, transfer : Nat])
      /\ Len(new) \in Nat /\ Len(new) > 0
    BY <1>2, RowsOfIs
<1>4. old \in Seq([transaction : 1..k, transfer : Nat])
    BY <1>1, BlocksTyped DEF RowsUpTo
<1>5. all = old \o new
    BY BlocksGrow
<1>6. [transaction : {k + 1}, transfer : Nat] \subseteq R /\ [transaction : 1..k, transfer : Nat] \subseteq R
    BY <1>1
<1> HIDE DEF old, new, all, R
<1>7. old \in Seq(R) /\ new \in Seq(R)
    BY <1>3, <1>4, <1>6, SeqMonotonic
<1>8. Len(old) \in Nat
    BY <1>7
<1>9. /\ Len(all) = Len(old) + Len(new)
      /\ \A i \in 1..Len(old) : all[i] = old[i]
      /\ \A i \in 1..Len(new) : all[Len(old) + i] = new[i]
    BY <1>3, <1>5, <1>7, <1>8, ConcatProperties
<1> QED BY <1>2, <1>3, <1>5, <1>7, <1>8, <1>9 DEF old, new, all, R

\* No row of a transaction is missing.
LEMMA BlocksHold ==
    ASSUME NEW list \in Seq(Transactions), NEW n \in 0..Len(list), NEW id \in 1..n,
           NEW j \in 1..Len(RowsOf(id, list[id]))
    PROVE  \E i \in 1..Len(Blocks(list, n)) : Blocks(list, n)[i] = RowsOf(id, list[id])[j]
<1> DEFINE row == RowsOf(id, list[id])[j]
           In(k) == \E i \in 1..Len(Blocks(list, k)) : Blocks(list, k)[i] = row
           S == {k \in 0..n : id <= k => In(k)}
<1>0. n \in Nat /\ Len(list) \in Nat /\ n <= Len(list) /\ id \in Nat /\ id > 0
    OBVIOUS
<1>1. 0 \in S
    BY <1>0
<1>2. ASSUME NEW k \in S, k < n PROVE k + 1 \in S
    <2>0. k \in Nat /\ k < Len(list) /\ k + 1 \in 0..n
        BY <1>0, <1>2
    <2> DEFINE old == Blocks(list, k)
               new == RowsOf(k + 1, list[k + 1])
               all == Blocks(list, k + 1)
    <2>1. /\ Len(old) \in Nat /\ Len(new) \in Nat /\ Len(all) = Len(old) + Len(new)
          /\ \A i \in 1..Len(old) : all[i] = old[i]
          /\ \A i \in 1..Len(new) : all[Len(old) + i] = new[i]
        BY <2>0, OneMoreBlock
    <2>2. CASE id = k + 1
        <3>1. j \in 1..Len(new) /\ new[j] = row
            BY <2>2
        <3> HIDE DEF row, old, new
        <3>2. Len(old) + j \in 1..Len(all) /\ all[Len(old) + j] = row
            BY <2>1, <3>1
        <3>3. In(k + 1)
            BY <3>2
        <3> QED BY <2>0, <3>3
    <2>3. CASE id <= k
        <3>1. PICK i \in 1..Len(old) : old[i] = row
            BY <2>3
        <3> HIDE DEF row, old, new
        <3>2. i \in 1..Len(all) /\ all[i] = row
            BY <2>1, <3>1
        <3>3. In(k + 1)
            BY <3>2
        <3> QED BY <2>0, <3>3
    <2>4. CASE id > k + 1
        BY <1>0, <2>0, <2>4
    <2> QED BY <1>0, <2>0, <2>2, <2>3, <2>4
<1>3. S \in SUBSET Nat
    BY <1>0
<1> HIDE DEF S
<1>4. n \in S
    BY <1>0, <1>1, <1>2, <1>3, CountingUp
<1>5. In(n)
    BY <1>0, <1>4 DEF S
<1> QED BY <1>5

\* Where no transaction before has a second row, the row with the number of a transaction is its.
LEMMA FirstRow ==
    ASSUME NEW list \in Seq(Transactions), NEW n \in 0..Len(list), NEW id \in 1..n,
           \A i \in 1..(id - 1) : Len(list[i].transfers) <= 1
    PROVE  id \in 1..Len(Blocks(list, n)) /\ Blocks(list, n)[id].transaction = id
<1> DEFINE P(k) == IF k < id THEN Len(Blocks(list, k)) = k
                   ELSE id <= Len(Blocks(list, k)) /\ Blocks(list, k)[id].transaction = id
           S == {k \in 0..n : P(k)}
<1>0. n \in Nat /\ Len(list) \in Nat /\ n <= Len(list) /\ id \in Nat /\ id > 0
    OBVIOUS
<1>1. 0 \in S
    <2>1. Len(Blocks(list, 0)) = 0
        BY BlocksGrow
    <2> QED BY <1>0, <2>1
<1>2. ASSUME NEW k \in S, k < n PROVE k + 1 \in S
    <2>0. k \in Nat /\ k < Len(list) /\ k + 1 \in 0..n
        BY <1>0, <1>2
    <2> DEFINE old == Blocks(list, k)
               new == RowsOf(k + 1, list[k + 1])
               all == Blocks(list, k + 1)
    <2>1. /\ Len(old) \in Nat /\ Len(new) \in Nat /\ Len(new) > 0 /\ Len(all) = Len(old) + Len(new)
          /\ \A i \in 1..Len(old) : all[i] = old[i]
          /\ \A i \in 1..Len(new) : all[Len(old) + i] = new[i]
          /\ new \in Seq([transaction : {k + 1}, transfer : Nat])
          /\ list[k + 1] \in Transactions
        BY <2>0, OneMoreBlock
    <2>2. CASE k + 1 < id
        <3>1. Len(old) = k
            BY <1>0, <2>0, <2>2
        <3>2. Len(list[k + 1].transfers) <= 1
            BY <1>0, <2>0, <2>2
        <3>3. Len(new) = 1
            <4>1. CASE list[k + 1].transfers = <<>>
                BY <2>1, <4>1, RowsAreTransfers
            <4>2. CASE list[k + 1].transfers # <<>>
                <5>1. Len(new) = Len(list[k + 1].transfers)
                    BY <2>1, <4>2, RowsAreTransfers
                <5>2. Len(new) <= 1
                    BY <3>2, <5>1
                <5>3. Len(new) \in Nat /\ Len(new) > 0
                    BY <2>1
                <5>4. \A m \in Nat : m > 0 /\ m <= 1 => m = 1
                    OBVIOUS
                <5> QED BY <5>2, <5>3, <5>4, Zenon
            <4> QED BY <4>1, <4>2
        <3> HIDE DEF old, new
        <3>4. Len(all) = k + 1
            BY <2>1, <3>1, <3>3
        <3> QED BY <2>0, <2>2, <3>4
    <2>3. CASE k + 1 = id
        <3>1. Len(old) = k
            BY <1>0, <2>0, <2>3
        <3> HIDE DEF old, new
        <3>a. 1 \in 1..Len(new)
            BY <2>1
        <3>2. new[1] \in [transaction : {k + 1}, transfer : Nat] /\ 1 \in 1..Len(new)
            BY <2>1, <3>a, ElementOfSeq
        <3>3. id <= Len(all) /\ all[Len(old) + 1] = new[1]
            BY <2>1, <2>3, <3>1, <3>2
        <3>4. all[id].transaction = id
            BY <2>0, <2>3, <3>1, <3>2, <3>3
        <3> QED BY <1>0, <2>0, <2>3, <3>3, <3>4
    <2>4. CASE k + 1 > id
        <3>1. id <= Len(old) /\ old[id].transaction = id
            BY <1>0, <2>0, <2>4
        <3> HIDE DEF old, new
        <3>2. id \in 1..Len(old) /\ all[id] = old[id] /\ id <= Len(all)
            BY <1>0, <2>1, <3>1
        <3> QED BY <1>0, <2>0, <2>4, <3>1, <3>2
    <2> QED BY <1>0, <2>0, <2>2, <2>3, <2>4
<1>3. S \in SUBSET Nat
    BY <1>0
<1> HIDE DEF S
<1>4. n \in S
    BY <1>0, <1>1, <1>2, <1>3, CountingUp
<1>5. P(n)
    BY <1>4 DEF S
<1>6. Len(Blocks(list, n)) \in Nat
    BY BlocksTyped DEF RowsUpTo
<1> QED BY <1>0, <1>5, <1>6

-----------------------------------------------------------------------------
(* What the rows tell. *)

\* The amounts that a list shows for a transaction.
AmountsOf(id, list) == [i \in DOMAIN list |-> IF list[i].transaction = id THEN RowAmount(list[i]) ELSE 0]

\* The rows of a transaction show what each of its transfers takes.
Itemised(id) ==
    /\ ledger[id].transfers # <<>>
    /\ \A j \in 1..Len(ledger[id].transfers) : RowAmount(Row(id, j)) = -ledger[id].transfers[j].amount

LEMMA AmountsOfBoth ==
    ASSUME NEW id, NEW R, NEW a \in Seq(R), NEW b \in Seq(R),
           AmountsOf(id, a) \in Seq(Int), AmountsOf(id, b) \in Seq(Int)
    PROVE  /\ AmountsOf(id, a \o b) \in Seq(Int)
           /\ SumOf(AmountsOf(id, a \o b)) = SumOf(AmountsOf(id, a)) + SumOf(AmountsOf(id, b))
<1> DEFINE m == Len(a)
           n == Len(b)
           all == a \o b
           f == AmountsOf(id, a)
           g == AmountsOf(id, b)
           h == AmountsOf(id, all)
           Amount(row) == IF row.transaction = id THEN RowAmount(row) ELSE 0
<1>1. /\ m \in Nat /\ n \in Nat /\ all \in Seq(R) /\ Len(all) = m + n
      /\ \A i \in 1..m : all[i] = a[i]
      /\ \A i \in (m + 1)..(m + n) : all[i] = b[i - m]
    BY ConcatProperties
<1>2. f = [i \in 1..m |-> Amount(a[i])] /\ g = [i \in 1..n |-> Amount(b[i])]
    BY DEF AmountsOf
<1>3. h = [i \in 1..(m + n) |-> Amount(all[i])]
    BY <1>1, LenProperties DEF AmountsOf
<1> HIDE DEF all, f, g, h, Amount
<1>4. f \in Seq(Int) /\ g \in Seq(Int) /\ Len(f) = m /\ Len(g) = n
    BY <1>1, <1>2 DEF f, g
<1>5. /\ f \o g \in Seq(Int) /\ Len(f \o g) = m + n
      /\ \A i \in 1..m : (f \o g)[i] = f[i]
      /\ \A i \in (m + 1)..(m + n) : (f \o g)[i] = g[i - m]
    BY <1>1, <1>4, ConcatProperties, SMTT(30)
<1> HIDE DEF m, n
<1>6. ASSUME NEW i \in 1..(m + n) PROVE (f \o g)[i] = h[i]
    <2>1. CASE i <= m
        BY <1>1, <1>2, <1>3, <1>5, <2>1
    <2>2. CASE i > m
        <3>1. i \in (m + 1)..(m + n) /\ i - m \in 1..n
            BY <1>1, <2>2
        <3> QED BY <1>1, <1>2, <1>3, <1>5, <3>1
    <2>3. m \in Nat /\ n \in Nat
        BY <1>1
    <2>4. i <= m \/ i > m
        BY <2>3
    <2> QED BY <2>1, <2>2, <2>4, Zenon
<1>7. h = f \o g
    <2>1. f \o g = [i \in 1..(m + n) |-> (f \o g)[i]]
        BY <1>5, LenProperties
    <2> QED BY <1>3, <1>6, <2>1
<1>8. SumOf(f \o g) = SumOf(f) + SumOf(g)
    BY <1>4, SumOfBoth
<1> QED BY <1>5, <1>7, <1>8 DEF f, g, h, all

\* The rows of other transactions show nothing of this one.
LEMMA OtherAmounts ==
    ASSUME NEW id, NEW k, k # id, NEW rows \in Seq([transaction : {k}, transfer : Nat])
    PROVE  AmountsOf(id, rows) \in Seq(Int) /\ SumOf(AmountsOf(id, rows)) = 0
<1> DEFINE f == AmountsOf(id, rows)
<1>1. \A i \in 1..Len(rows) : rows[i].transaction # id
    <2> SUFFICES ASSUME NEW i \in 1..Len(rows) PROVE rows[i].transaction # id
        OBVIOUS
    <2>1. rows[i] \in [transaction : {k}, transfer : Nat]
        BY ElementOfSeq
    <2> QED BY <2>1
<1>2. DOMAIN rows = 1..Len(rows) /\ Len(rows) \in Nat
    OBVIOUS
<1>3. f = [i \in 1..Len(rows) |-> 0]
    BY <1>1, <1>2 DEF AmountsOf
<1> HIDE DEF f
<1>4. f \in Seq(Int) /\ Len(f) = Len(rows) /\ \A i \in 1..Len(f) : f[i] = 0
    BY <1>2, <1>3
<1>5. SumOf(f) = 0
    BY <1>4, SumOfZeros
<1> QED BY <1>4, <1>5 DEF f

\* Its own rows show what it paid.
LEMMA OwnAmounts ==
    ASSUME NEW id, ledger[id] \in Transactions, Itemised(id)
    PROVE  LET rows == RowsOf(id, ledger[id])
           IN AmountsOf(id, rows) \in Seq(Int) /\ SumOf(AmountsOf(id, rows)) = -Paid(ledger[id])
<1> DEFINE tx == ledger[id]
           rows == RowsOf(id, tx)
           n == Len(tx.transfers)
           f == AmountsOf(id, rows)
           g == [j \in DOMAIN tx.transfers |-> tx.transfers[j].amount]
<1>1. /\ n \in Nat /\ DOMAIN tx.transfers = 1..n /\ tx.transfers # <<>> /\ tx.transfers \in Seq(Transfer)
      /\ Len(rows) = n /\ \A j \in 1..n : rows[j] = Row(id, j)
    BY RowsAreTransfers DEF Itemised, Transactions
<1>2. DOMAIN rows = 1..n
    <2>1. rows \in Seq([transaction : {id}, transfer : Nat])
        BY RowsOfIs
    <2> HIDE DEF rows
    <2> QED BY <1>1, <2>1
<1>3. \A j \in 1..n : tx.transfers[j].amount \in Nat
    <2> SUFFICES ASSUME NEW j \in 1..n PROVE tx.transfers[j].amount \in Nat
        OBVIOUS
    <2>1. tx.transfers[j] \in Transfer
        BY <1>1, ElementOfSeq
    <2> QED BY <2>1 DEF Transfer
<1>4. \A j \in 1..n : rows[j].transaction = id /\ RowAmount(rows[j]) = -tx.transfers[j].amount
    <2> SUFFICES ASSUME NEW j \in 1..n
                 PROVE  rows[j].transaction = id /\ RowAmount(rows[j]) = -tx.transfers[j].amount
        OBVIOUS
    <2>1. rows[j] = Row(id, j) /\ Row(id, j).transaction = id
        BY <1>1 DEF Row
    <2>2. RowAmount(Row(id, j)) = -tx.transfers[j].amount
        BY DEF Itemised
    <2> QED BY <2>1, <2>2
<1>5. f = [j \in 1..n |-> -tx.transfers[j].amount] /\ g = [j \in 1..n |-> tx.transfers[j].amount]
    BY <1>1, <1>2, <1>4 DEF AmountsOf
<1>6. Paid(tx) = SumOf(g)
    BY DEF Paid
<1> HIDE DEF tx, rows, n, f, g
<1>7. f \in Seq(Int) /\ g \in Seq(Int) /\ Len(f) = n /\ Len(g) = n /\ \A j \in 1..n : f[j] = -g[j]
    BY <1>1, <1>3, <1>5
<1>8. SumOf(f) = -SumOf(g)
    BY <1>7, SumOfNegated
<1> QED BY <1>6, <1>7, <1>8 DEF f, rows, tx

\* The amounts add up to what the transaction paid, once it is listed.
LEMMA AmountsAdd ==
    ASSUME ledger \in Seq(Transactions), NEW n \in 0..Len(ledger), NEW id \in 1..n, Itemised(id)
    PROVE  SumOf(AmountsOf(id, Blocks(ledger, n))) = -Paid(ledger[id])
<1> DEFINE Total(k) == SumOf(AmountsOf(id, Blocks(ledger, k)))
           Typed(k) == AmountsOf(id, Blocks(ledger, k)) \in Seq(Int)
           P(k) == Typed(k) /\ Total(k) = IF id <= k THEN -Paid(ledger[id]) ELSE 0
           S == {k \in 0..n : P(k)}
<1>0. n \in Nat /\ Len(ledger) \in Nat /\ n <= Len(ledger) /\ id \in Nat /\ id > 0 /\ id \in 1..Len(ledger)
    OBVIOUS
<1>a. -Paid(ledger[id]) \in Int
    <2>1. ledger[id] \in Transactions
        BY <1>0, TransactionIs
    <2> QED BY <2>1, OwnAmounts, SumIsInt
<1>1. 0 \in S
    <2>1. Blocks(ledger, 0) = <<>>
        BY BlocksGrow
    <2>2. <<>> \in Seq([transaction : {0}, transfer : Nat])
        OBVIOUS
    <2>3. AmountsOf(id, <<>>) \in Seq(Int) /\ SumOf(AmountsOf(id, <<>>)) = 0
        <3>1. 0 # id
            BY <1>0
        <3> QED BY <2>2, <3>1, OtherAmounts, Zenon
    <2>4. ~(id <= 0)
        BY <1>0
    <2>5. P(0)
        BY <2>1, <2>3, <2>4
    <2> HIDE DEF P
    <2> QED BY <1>0, <2>5
<1>2. ASSUME NEW k \in S, k < n PROVE k + 1 \in S
    <2>0. k \in Nat /\ k < Len(ledger) /\ k + 1 \in 0..n /\ P(k)
        BY <1>0, <1>2
    <2> DEFINE old == Blocks(ledger, k)
               new == RowsOf(k + 1, ledger[k + 1])
               R == [transaction : Nat, transfer : Nat]
    <2>1. /\ Blocks(ledger, k + 1) = old \o new /\ ledger[k + 1] \in Transactions
          /\ old \in Seq(R) /\ new \in Seq(R)
          /\ new \in Seq([transaction : {k + 1}, transfer : Nat])
        BY <2>0, OneMoreBlock
    <2>2. /\ AmountsOf(id, new) \in Seq(Int)
          /\ SumOf(AmountsOf(id, new)) = IF id = k + 1 THEN -Paid(ledger[id]) ELSE 0
        <3>1. CASE id = k + 1
            BY <2>1, <3>1, OwnAmounts
        <3>2. CASE id # k + 1
            <4> HIDE DEF new
            <4> QED BY <2>1, <3>2, OtherAmounts
        <3> QED BY <3>1, <3>2
    <2> HIDE DEF R, new
    <2>3. Typed(k + 1) /\ Total(k + 1) = Total(k) + SumOf(AmountsOf(id, new))
        <3>1. AmountsOf(id, old) \in Seq(Int)
            BY <2>0
        <3> HIDE DEF old
        <3>2. /\ AmountsOf(id, old \o new) \in Seq(Int)
              /\ SumOf(AmountsOf(id, old \o new)) = SumOf(AmountsOf(id, old)) + SumOf(AmountsOf(id, new))
            BY <2>1, <2>2, <3>1, AmountsOfBoth
        <3> QED BY <2>1, <3>2 DEF old
    <2>4. Total(k) = IF id <= k THEN -Paid(ledger[id]) ELSE 0
        BY <2>0
    <2> HIDE DEF Total, Typed
    <2>5. P(k + 1)
        BY <1>0, <1>a, <2>0, <2>2, <2>3, <2>4
    <2> QED BY <2>0, <2>5
<1>3. S \in SUBSET Nat
    BY <1>0
<1> HIDE DEF S
<1>4. n \in S
    BY <1>0, <1>1, <1>2, <1>3, CountingUp
<1>5. P(n)
    BY <1>4 DEF S
<1> QED BY <1>0, <1>5

-----------------------------------------------------------------------------
(* The inductive invariant. *)

\* Only what the library found has transfers: a withdrawal has none.
LedgerFound == \A id \in 1..Len(ledger) : ledger[id] \in Found \/ ledger[id].transfers = <<>>

\* A transaction creates one deposit.
OneDeposit == \A d, e \in 1..Len(deposits) : deposits[d].by = deposits[e].by => d = e

DetailsInv == DetailsTypeOK /\ LedgerFound /\ OneDeposit

\* A deposit of a wallet with n transactions.
DepositRecord(n) == [by : 1..n, spentBy : (1..n) \cup {NoTransaction}, locked : BOOLEAN]

LEMMA DetailConstants ==
    /\ Found \subseteq Transactions /\ \A tx \in Found : IsPayment(tx) => tx.totalAmount = -(Paid(tx) + tx.fee)
    /\ Term \in Nat \ {0} /\ TopHeight \in Nat /\ LedgerLimit \in Nat
    /\ Clocks \in Nat \ {0} /\ Wrap64 \in Nat /\ Wrap64 > TopHeight + Clocks
BY RowDetailsAssumption DEF RowDetailsAssumption

\* The type invariant, with the domain of the ledger in numbers.
DetailsTypes ==
    /\ ledger \in Seq(Transactions) /\ Len(ledger) <= LedgerLimit
    /\ height \in Seq(0..TopHeight) /\ Len(height) = Len(ledger)
    /\ deposits \in Seq(DepositRecord(Len(ledger)))
    /\ listed \in 0..Len(ledger) /\ counted \in 0..Len(deposits)
    /\ top \in 0..TopHeight

LEMMA DetailsTyping == DetailsTypeOK <=> DetailsTypes
<1> SUFFICES ASSUME ledger \in Seq(Transactions) PROVE DetailsTypeOK <=> DetailsTypes
    BY DEF DetailsTypeOK, DetailsTypes
<1>1. DOMAIN ledger = 1..Len(ledger)
    BY TransactionIs
<1> QED BY <1>1, Zenon DEF DetailsTypeOK, DetailsTypes, DepositRecord, Unconfirmed

LEMMA DetailsTypingNext == DetailsTypeOK' <=> DetailsTypes'
BY DetailsTyping, PTL

\* What each transaction and deposit of the wallet is.
LEMMA DetailsAre ==
    ASSUME DetailsTypeOK
    PROVE  /\ Len(ledger) \in Nat /\ DOMAIN ledger = 1..Len(ledger) /\ DOMAIN height = 1..Len(ledger)
           /\ Len(deposits) \in Nat /\ DOMAIN deposits = 1..Len(deposits)
           /\ \A id \in 1..Len(ledger) : ledger[id] \in Transactions /\ height[id] \in 0..TopHeight
           /\ \A d \in 1..Len(deposits) : deposits[d] \in DepositRecord(Len(ledger))
<1>1. /\ ledger \in Seq(Transactions) /\ height \in Seq(0..TopHeight) /\ Len(height) = Len(ledger)
      /\ deposits \in Seq(DepositRecord(Len(ledger)))
    BY DetailsTyping DEF DetailsTypes
<1>2. Len(ledger) \in Nat /\ DOMAIN ledger = 1..Len(ledger) /\ \A id \in 1..Len(ledger) : ledger[id] \in Transactions
    BY <1>1, TransactionIs
<1>3. DOMAIN height = 1..Len(ledger) /\ \A id \in 1..Len(ledger) : height[id] \in 0..TopHeight
    <2>1. DOMAIN height = 1..Len(height)
        BY <1>1
    <2>2. \A id \in 1..Len(height) : height[id] \in 0..TopHeight
        BY <1>1, ElementOfSeq
    <2> QED BY <1>1, <2>1, <2>2
<1> DEFINE D == DepositRecord(Len(ledger))
<1> HIDE DEF D
<1>4. deposits \in Seq(D)
    BY <1>1 DEF D
<1>5. Len(deposits) \in Nat /\ DOMAIN deposits = 1..Len(deposits) /\ \A d \in 1..Len(deposits) : deposits[d] \in D
    BY <1>4, ElementOfSeq
<1> QED BY <1>2, <1>3, <1>5 DEF D

\* A transaction enters the wallet.
LEMMA EnterStep ==
    ASSUME DetailsInv, NEW tx \in Transactions, tx \in Found \/ tx.transfers = <<>>, Enters(tx)
    PROVE  /\ ledger' \in Seq(Transactions) /\ Len(ledger') = Len(ledger) + 1 /\ Len(ledger') <= LedgerLimit
           /\ height' \in Seq(0..TopHeight) /\ Len(height') = Len(ledger')
           /\ LedgerFound'
           /\ DepositRecord(Len(ledger)) \subseteq DepositRecord(Len(ledger'))
<1>1. /\ ledger \in Seq(Transactions) /\ Len(ledger) \in Nat
      /\ height \in Seq(0..TopHeight) /\ Len(height) = Len(ledger)
    BY DetailsTyping, DetailsAre DEF DetailsInv, DetailsTypes
<1>2. ledger' = Append(ledger, tx) /\ height' = Append(height, 0) /\ Len(ledger) < LedgerLimit
    BY DEF Enters, Unconfirmed
<1>3. /\ ledger' \in Seq(Transactions) /\ Len(ledger') = Len(ledger) + 1
      /\ \A id \in 1..Len(ledger) : ledger'[id] = ledger[id]
      /\ ledger'[Len(ledger) + 1] = tx
    BY <1>1, <1>2, AppendProperties
<1>4. height' \in Seq(0..TopHeight) /\ Len(height') = Len(ledger')
    <2>1. 0 \in 0..TopHeight
        BY DetailConstants
    <2> QED BY <1>1, <1>2, <1>3, <2>1, AppendProperties
<1>5. Len(ledger') <= LedgerLimit
    BY <1>1, <1>2, <1>3, DetailConstants
<1>6. LedgerFound'
    <2> SUFFICES ASSUME NEW id \in 1..Len(ledger')
                 PROVE  ledger'[id] \in Found \/ ledger'[id].transfers = <<>>
        BY DEF LedgerFound
    <2>1. id \in 1..Len(ledger) \/ id = Len(ledger) + 1
        BY <1>1, <1>3
    <2>2. CASE id \in 1..Len(ledger)
        BY <1>3, <2>2 DEF DetailsInv, LedgerFound
    <2>3. CASE id = Len(ledger) + 1
        BY <1>3, <2>3
    <2> QED BY <2>1, <2>2, <2>3
<1>7. DepositRecord(Len(ledger)) \subseteq DepositRecord(Len(ledger'))
    <2>1. 1..Len(ledger) \subseteq 1..Len(ledger')
        BY <1>1, <1>3
    <2> QED BY <2>1 DEF DepositRecord
<1> QED BY <1>3, <1>4, <1>5, <1>6, <1>7

\* Deposits that change keep their transactions.
LEMMA DepositsStay ==
    ASSUME OneDeposit, Len(deposits') = Len(deposits),
           \A d \in 1..Len(deposits) : deposits'[d].by = deposits[d].by
    PROVE  OneDeposit'
BY DEF OneDeposit

LEMMA FindsStep == ASSUME DetailsInv, NEW tx \in Found, Finds(tx) PROVE DetailsInv'
<1> DEFINE n == Len(ledger)
           D == DepositRecord(Len(ledger'))
<1>0. /\ n \in Nat /\ deposits \in Seq(DepositRecord(n)) /\ Len(deposits) \in Nat
      /\ \A d \in 1..Len(deposits) : deposits[d] \in DepositRecord(n)
      /\ listed \in 0..n /\ counted \in 0..Len(deposits) /\ top \in 0..TopHeight
    BY DetailsTyping, DetailsAre DEF DetailsInv, DetailsTypes
<1>1. /\ ledger' \in Seq(Transactions) /\ Len(ledger') = n + 1 /\ Len(ledger') <= LedgerLimit
      /\ height' \in Seq(0..TopHeight) /\ Len(height') = Len(ledger')
      /\ LedgerFound' /\ DepositRecord(n) \subseteq D
    BY DetailConstants, EnterStep DEF Finds
<1>2. /\ deposits' = IF tx.deposit = 0 THEN deposits ELSE Append(deposits, Locked(n + 1))
      /\ UNCHANGED <<listed, counted, top>>
    BY <1>1 DEF Finds
<1>3. Locked(n + 1) \in D /\ Locked(n + 1).by = n + 1
    BY <1>0, <1>1 DEF Locked, DepositRecord
<1>4. deposits \in Seq(D)
    BY <1>0, <1>1, SeqMonotonic
<1>5. /\ deposits' \in Seq(D) /\ Len(deposits') \in {Len(deposits), Len(deposits) + 1}
      /\ \A d \in 1..Len(deposits) : deposits'[d] = deposits[d]
      /\ Len(deposits') # Len(deposits) => deposits'[Len(deposits) + 1].by = n + 1
    <2> HIDE DEF D
    <2>1. /\ Append(deposits, Locked(n + 1)) \in Seq(D)
          /\ Len(Append(deposits, Locked(n + 1))) = Len(deposits) + 1
          /\ \A d \in 1..Len(deposits) : Append(deposits, Locked(n + 1))[d] = deposits[d]
          /\ Append(deposits, Locked(n + 1))[Len(deposits) + 1] = Locked(n + 1)
        BY <1>3, <1>4, AppendProperties
    <2> QED BY <1>2, <1>3, <1>4, <2>1
<1>6. OneDeposit'
    <2> SUFFICES ASSUME NEW d \in 1..Len(deposits'), NEW e \in 1..Len(deposits'), deposits'[d].by = deposits'[e].by
                 PROVE  d = e
        BY DEF OneDeposit
    <2>1. \A i \in 1..Len(deposits) : deposits'[i].by = deposits[i].by /\ deposits[i].by \in 1..n
        BY <1>0, <1>5 DEF DepositRecord
    <2>2. \A i \in 1..Len(deposits') : i \in 1..Len(deposits) \/ (i = Len(deposits) + 1 /\ deposits'[i].by = n + 1)
        BY <1>0, <1>5
    <2>3. n + 1 \notin 1..n
        BY <1>0
    <2> QED BY <2>1, <2>2, <2>3 DEF DetailsInv, OneDeposit
<1>7. listed' \in 0..Len(ledger') /\ counted' \in 0..Len(deposits') /\ top' \in 0..TopHeight
    BY <1>0, <1>1, <1>2, <1>5
<1>8. DetailsTypeOK'
    BY <1>1, <1>5, <1>7, DetailsTypingNext DEF DetailsTypes
<1> QED BY <1>1, <1>6, <1>8 DEF DetailsInv

\* What the library does to transactions that are there, and what the GUI thread notes.
LEMMA ConfirmsStep ==
    ASSUME DetailsInv, NEW id \in DOMAIN ledger, NEW h \in 0..TopHeight,
           height' = [height EXCEPT ![id] = h], UNCHANGED <<ledger, listed, counted, top>>,
           deposits' \in Seq(DepositRecord(Len(ledger))), Len(deposits') = Len(deposits),
           \A d \in 1..Len(deposits) : deposits'[d].by = deposits[d].by
    PROVE  DetailsInv'
<1>1. /\ ledger \in Seq(Transactions) /\ Len(ledger) <= LedgerLimit
      /\ height \in Seq(0..TopHeight) /\ Len(height) = Len(ledger) /\ id \in 1..Len(height)
      /\ listed \in 0..Len(ledger) /\ counted \in 0..Len(deposits) /\ top \in 0..TopHeight
    BY DetailsTyping, DetailsAre DEF DetailsInv, DetailsTypes
<1>2. height' \in Seq(0..TopHeight) /\ Len(height') = Len(ledger)
    BY <1>1, ExceptSeq
<1>3. DetailsTypeOK'
    BY <1>1, <1>2, DetailsTypingNext DEF DetailsTypes
<1>4. LedgerFound'
    BY DEF DetailsInv, LedgerFound
<1> QED BY <1>3, <1>4, DepositsStay DEF DetailsInv

LEMMA DetachesStep == ASSUME DetailsInv, NEW id \in DOMAIN ledger, Detaches(id) PROVE DetailsInv'
<1> DEFINE D == DepositRecord(Len(ledger))
           Relocked(d) == IF deposits[d].by = id THEN [deposits[d] EXCEPT !.locked = TRUE] ELSE deposits[d]
<1>1. /\ Len(deposits) \in Nat /\ DOMAIN deposits = 1..Len(deposits)
      /\ \A d \in 1..Len(deposits) : deposits[d] \in D
    BY DetailsAre DEF DetailsInv
<1>2. ASSUME NEW d \in 1..Len(deposits) PROVE Relocked(d) \in D /\ Relocked(d).by = deposits[d].by
    <2>1. deposits[d] \in D
        BY <1>1
    <2> QED BY <2>1 DEF DepositRecord
<1>3. deposits' = [d \in 1..Len(deposits) |-> Relocked(d)]
    BY <1>1 DEF Detaches
<1> HIDE DEF Relocked, D
<1>4. /\ deposits' \in Seq(D) /\ Len(deposits') = Len(deposits)
      /\ \A d \in 1..Len(deposits) : deposits'[d].by = deposits[d].by
    BY <1>1, <1>2, <1>3
<1>5. 0 \in 0..TopHeight
    BY DetailConstants
<1> QED BY <1>4, <1>5, ConfirmsStep DEF Detaches, Unconfirmed, D

LEMMA UnlocksStep == ASSUME DetailsInv, NEW d \in DOMAIN deposits, Unlocks(d) PROVE DetailsInv'
<1> DEFINE D == DepositRecord(Len(ledger))
           new == [deposits[d] EXCEPT !.locked = FALSE]
<1>1. /\ deposits \in Seq(D) /\ Len(deposits) \in Nat /\ d \in 1..Len(deposits) /\ deposits[d] \in D
    BY DetailsTyping, DetailsAre DEF DetailsInv, DetailsTypes
<1>2. new \in D /\ new.by = deposits[d].by
    BY <1>1 DEF DepositRecord
<1>3. deposits' = [deposits EXCEPT ![d] = new] /\ UNCHANGED <<ledger, height, listed, counted, top>>
    BY DEF Unlocks
<1> HIDE DEF D, new
<1>4. /\ deposits' \in Seq(D) /\ Len(deposits') = Len(deposits)
      /\ \A e \in 1..Len(deposits) : deposits'[e] = IF e = d THEN new ELSE deposits[e]
    BY <1>1, <1>2, <1>3, ExceptSeq
<1>5. OneDeposit'
    BY <1>2, <1>4, DepositsStay DEF DetailsInv
<1>6. DetailsTypeOK'
    BY <1>3, <1>4, DetailsTyping, DetailsTypingNext DEF DetailsInv, D, DetailsTypes
<1>7. LedgerFound'
    BY <1>3 DEF DetailsInv, LedgerFound
<1> QED BY <1>5, <1>6, <1>7 DEF DetailsInv

LEMMA NotedStep ==
    ASSUME DetailsInv, UNCHANGED <<ledger, height, deposits>>,
           listed' \in 0..Len(ledger), counted' \in 0..Len(deposits), top' \in 0..TopHeight
    PROVE  DetailsInv'
<1>1. DetailsTypeOK'
    BY DetailsTyping, DetailsTypingNext DEF DetailsInv, DetailsTypes
<1> QED BY <1>1 DEF DetailsInv, LedgerFound, OneDeposit

LEMMA WithdrawStep == ASSUME DetailsInv, withdrawClicked PROVE DetailsInv'
<1> DEFINE n == Len(ledger)
           D == DepositRecord(Len(ledger'))
           named == {d \in 1..counted : DepositRoles(d).state = "Unlocked"}
           numbers == [d \in 1..counted |-> IF d \in named THEN ledger[deposits[d].by].deposit ELSE 0]
           tx == [isCoinbase |-> FALSE, totalAmount |-> SumOf(numbers) - 1, fee |-> 1, transfers |-> <<>>,
                  deposit |-> 0, messages |-> FALSE]
           Spent(d) == IF d \in named THEN [deposits[d] EXCEPT !.spentBy = n + 1] ELSE deposits[d]
<1> HIDE DEF named
<1>0. /\ n \in Nat /\ Len(deposits) \in Nat /\ DOMAIN deposits = 1..Len(deposits)
      /\ \A id \in 1..n : ledger[id] \in Transactions
      /\ \A d \in 1..Len(deposits) : deposits[d] \in DepositRecord(n)
      /\ listed \in 0..n /\ counted \in 0..Len(deposits) /\ top \in 0..TopHeight
    BY DetailsTyping, DetailsAre DEF DetailsInv, DetailsTypes
<1>1. Enters(tx) /\ UNCHANGED <<listed, counted, top>>
    BY Zenon DEF withdrawClicked, named
<1>2. numbers \in Seq(Int)
    <2>1. ASSUME NEW d \in 1..counted PROVE ledger[deposits[d].by].deposit \in Nat
        <3>1. deposits[d].by \in 1..n
            BY <1>0 DEF DepositRecord
        <3> QED BY <1>0, <3>1 DEF Transactions
    <2>2. \A d \in 1..counted : (IF d \in named THEN ledger[deposits[d].by].deposit ELSE 0) \in Int
        BY <2>1
    <2>3. counted \in Nat
        BY <1>0
    <2> QED BY <2>2, <2>3
<1>3. SumOf(numbers) - 1 \in Int
    BY <1>2, SumIsInt
<1> HIDE DEF numbers
<1>4. tx \in Transactions /\ tx.transfers = <<>>
    BY <1>3 DEF Transactions
<1>5. /\ ledger' \in Seq(Transactions) /\ Len(ledger') = n + 1 /\ Len(ledger') <= LedgerLimit
      /\ height' \in Seq(0..TopHeight) /\ Len(height') = Len(ledger')
      /\ LedgerFound' /\ DepositRecord(n) \subseteq D
    <2> HIDE DEF tx
    <2> QED BY <1>1, <1>4, EnterStep
<1>6. deposits' = [d \in 1..Len(deposits) |-> Spent(d)]
    <2>1. deposits' = [d \in DOMAIN deposits |->
                           IF d \in named THEN [deposits[d] EXCEPT !.spentBy = Len(ledger')] ELSE deposits[d]]
        BY Zenon DEF withdrawClicked, named
    <2> QED BY <1>0, <1>5, <2>1
<1>7. ASSUME NEW d \in 1..Len(deposits) PROVE Spent(d) \in D /\ Spent(d).by = deposits[d].by
    <2>1. deposits[d] \in DepositRecord(n)
        BY <1>0
    <2>2. n + 1 \in 1..Len(ledger')
        BY <1>0, <1>5
    <2> QED BY <1>5, <2>1, <2>2 DEF DepositRecord
<1> HIDE DEF Spent, D
<1>8. /\ deposits' \in Seq(D) /\ Len(deposits') = Len(deposits)
      /\ \A d \in 1..Len(deposits) : deposits'[d].by = deposits[d].by
    BY <1>0, <1>6, <1>7
<1>9. OneDeposit'
    BY <1>8, DepositsStay DEF DetailsInv
<1>10. listed' \in 0..Len(ledger') /\ counted' \in 0..Len(deposits') /\ top' \in 0..TopHeight
    BY <1>0, <1>1, <1>5, <1>8
<1>11. DetailsTypeOK'
    BY <1>5, <1>8, <1>10, DetailsTypingNext DEF D, DetailsTypes
<1> QED BY <1>5, <1>9, <1>11 DEF DetailsInv

LEMMA DetailsStep == ASSUME DetailsInv, [DetailsNext]_detailVars PROVE DetailsInv'
<1>0. /\ ledger \in Seq(Transactions) /\ deposits \in Seq(DepositRecord(Len(ledger)))
      /\ listed \in 0..Len(ledger) /\ counted \in 0..Len(deposits) /\ top \in 0..TopHeight
      /\ Len(ledger) \in Nat /\ Len(deposits) \in Nat
    BY DetailsTyping, DetailsAre DEF DetailsInv, DetailsTypes
<1>1. CASE UNCHANGED detailVars
    BY <1>0, <1>1, NotedStep DEF detailVars
<1>2. ASSUME NEW tx \in Found, Finds(tx) PROVE DetailsInv'
    BY <1>2, FindsStep
<1>3. ASSUME NEW id \in DOMAIN ledger, Detaches(id) PROVE DetailsInv'
    BY <1>3, DetachesStep
<1>4. ASSUME NEW id \in DOMAIN ledger, NEW h \in 1..TopHeight, Confirms(id, h) PROVE DetailsInv'
    <2>1. h \in 0..TopHeight
        BY DetailConstants
    <2> QED BY <1>0, <1>4, <2>1, ConfirmsStep DEF Confirms
<1>5. ASSUME NEW d \in DOMAIN deposits, Unlocks(d) PROVE DetailsInv'
    BY <1>5, UnlocksStep
<1>6. ASSUME NEW h \in 0..TopHeight, lastKnownBlockHeightUpdated(h) PROVE DetailsInv'
    BY <1>0, <1>6, NotedStep DEF lastKnownBlockHeightUpdated
<1>7. CASE ListTransactions
    BY <1>0, <1>7, NotedStep DEF ListTransactions
<1>8. CASE CountDeposits
    BY <1>0, <1>8, NotedStep DEF CountDeposits
<1>9. CASE withdrawClicked
    BY <1>9, WithdrawStep
<1> QED BY <1>1, <1>2, <1>3, <1>4, <1>5, <1>6, <1>7, <1>8, <1>9 DEF DetailsNext

LEMMA DetailsHold == DetailsSpec => []DetailsInv
<1>1. DetailsInit => DetailsInv
    <2> SUFFICES ASSUME DetailsInit PROVE DetailsInv
        OBVIOUS
    <2>1. /\ ledger = <<>> /\ height = <<>> /\ deposits = <<>> /\ listed = 0 /\ counted = 0 /\ top = 0
        BY DEF DetailsInit
    <2>2. (\A R : <<>> \in Seq(R)) /\ Len(<<>>) = 0
        OBVIOUS
    <2>3. DetailsTypeOK
        BY <2>1, <2>2, DetailsTyping, DetailConstants DEF DetailsTypes
    <2> QED BY <2>1, <2>2, <2>3 DEF DetailsInv, LedgerFound, OneDeposit
<1> QED BY <1>1, DetailsStep, PTL DEF DetailsSpec

-----------------------------------------------------------------------------
(* The properties. *)

LEMMA TransferIs ==
    ASSUME NEW row
    PROVE  row.transfer # None => TransferOf(row) = ledger[row.transaction].transfers[row.transfer]
BY Zenon DEF TransferOf

\* A row of a payment to others.
LEMMA OutputRow ==
    ASSUME NEW row, RowType(row) = "OUTPUT", row.transfer # None
    PROVE  LET tx == ledger[row.transaction]
           IN /\ ~tx.isCoinbase /\ tx.deposit = 0 /\ tx.totalAmount < 0
              /\ tx.transfers[row.transfer].address # MyAddress
              /\ RowAmount(row) = -tx.transfers[row.transfer].amount
<1> DEFINE tx == ledger[row.transaction]
<1>1. TransferOf(row) = tx.transfers[row.transfer]
    BY TransferIs
<1>2. ~tx.isCoinbase /\ tx.deposit = 0 /\ tx.totalAmount < 0 /\ TransferOf(row).address # MyAddress
    BY DEF RowType
<1>3. RowAmount(row) = -TransferOf(row).amount
    BY DEF RowAmount
<1> QED BY <1>1, <1>2, <1>3

LEMMA AmountsShown == DetailsInv => AmountsAddUp
<1> DEFINE list == Blocks(ledger, listed)
<1> SUFFICES ASSUME DetailsInv, NEW id \in 1..listed,
                    \A i \in DOMAIN list : list[i].transaction = id =>
                        RowType(list[i]) = "OUTPUT" /\ list[i].transfer # None
             PROVE  SumOf(AmountsOf(id, list)) = ledger[id].totalAmount + ledger[id].fee
    BY Zenon DEF AmountsAddUp, AmountsOf
<1>1. /\ ledger \in Seq(Transactions) /\ listed \in 0..Len(ledger) /\ Len(ledger) \in Nat /\ id \in 1..Len(ledger)
      /\ ledger[id] \in Transactions
    BY DetailsTyping, DetailsAre DEF DetailsInv, DetailsTypes
<1> DEFINE tx == ledger[id]
           rows == RowsOf(id, tx)
           n == Len(tx.transfers)
<1>2. ASSUME NEW j \in 1..Len(rows)
      PROVE  /\ rows[j].transaction = id
             /\ RowType(rows[j]) = "OUTPUT" /\ rows[j].transfer # None
    <2>1. PICK i \in 1..Len(list) : list[i] = rows[j]
        BY <1>1, BlocksHold
    <2>2. DOMAIN list = 1..Len(list)
        <3>1. list \in RowsUpTo(listed)
            BY <1>1, BlocksTyped
        <3> HIDE DEF list
        <3> QED BY <3>1 DEF RowsUpTo
    <2>3. rows[j].transaction = id
        BY <1>1, RowsOfIs
    <2> QED BY <2>1, <2>2, <2>3
<1>3. tx.transfers # <<>>
    <2> SUFFICES ASSUME tx.transfers = <<>> PROVE FALSE
        OBVIOUS
    <2>1. rows = <<Row(id, None)>>
        BY DEF RowsOf
    <2>2. Len(rows) = 1 /\ rows[1].transfer = None
        BY <2>1 DEF Row
    <2>3. 1 \in 1..Len(rows)
        BY <2>2
    <2> HIDE DEF rows
    <2> QED BY <1>2, <2>2, <2>3
<1>4. /\ n \in Nat /\ n > 0 /\ DOMAIN tx.transfers = 1..n /\ Len(rows) = n /\ \A j \in 1..n : rows[j] = Row(id, j)
    BY <1>1, <1>3, RowsAreTransfers, RowsOfIs
<1>5. ASSUME NEW j \in 1..n
      PROVE  /\ ~tx.isCoinbase /\ tx.deposit = 0 /\ tx.totalAmount < 0
             /\ tx.transfers[j].address # MyAddress
             /\ RowAmount(Row(id, j)) = -tx.transfers[j].amount
    <2>1. RowType(Row(id, j)) = "OUTPUT" /\ Row(id, j).transfer # None
        BY <1>2, <1>4
    <2>2. Row(id, j).transaction = id /\ Row(id, j).transfer = j
        BY DEF Row
    <2> QED BY <2>1, <2>2, OutputRow
<1>6. 1 \in 1..n
    BY <1>4
<1>7. IsPayment(tx)
    <2> HIDE DEF tx, n
    <2> QED BY <1>3, <1>4, <1>5, <1>6 DEF IsPayment
<1>8. tx \in Found
    BY <1>1, <1>3 DEF DetailsInv, LedgerFound
<1>9. tx.totalAmount = -(Paid(tx) + tx.fee)
    BY <1>7, <1>8, DetailConstants
<1>10. Itemised(id)
    BY <1>3, <1>5 DEF Itemised
<1>11. SumOf(AmountsOf(id, list)) = -Paid(tx)
    BY <1>1, <1>10, AmountsAdd
<1>12. Paid(tx) \in Int /\ tx.fee \in Nat
    <2> DEFINE amounts == [j \in DOMAIN tx.transfers |-> tx.transfers[j].amount]
    <2>1. \A j \in 1..n : tx.transfers[j].amount \in Nat
        <3> SUFFICES ASSUME NEW j \in 1..n PROVE tx.transfers[j].amount \in Nat
            OBVIOUS
        <3>1. tx.transfers \in Seq(Transfer)
            BY <1>1 DEF Transactions
        <3>2. tx.transfers[j] \in Transfer
            BY <3>1, ElementOfSeq
        <3> QED BY <3>2 DEF Transfer
    <2>2. amounts \in Seq(Int)
        <3> HIDE DEF tx, n
        <3> QED BY <1>4, <2>1
    <2>3. Paid(tx) = SumOf(amounts)
        BY DEF Paid
    <2> QED BY <1>1, <2>2, <2>3, SumIsInt DEF Transactions
<1> HIDE DEF list, tx
<1>13. SumOf(AmountsOf(id, list)) = tx.totalAmount + tx.fee
    BY <1>9, <1>11, <1>12
<1> QED BY <1>13 DEF tx

\* The row of a transaction, where rows and transactions have the same numbers.
LEMMA ItsRow ==
    ASSUME DetailsInv, NEW id, InItsRow(id)
    PROVE  /\ id \in 1..Len(ledger) /\ height[id] \in 0..TopHeight
           /\ \E row : RowAt(id) = {row} /\ row.transaction = id
<1> DEFINE list == Blocks(ledger, listed)
<1>1. /\ ledger \in Seq(Transactions) /\ listed \in 0..Len(ledger) /\ Len(ledger) \in Nat
      /\ id \in 1..listed /\ id \in 1..Len(ledger) /\ height[id] \in 0..TopHeight
    BY DetailsTyping, DetailsAre DEF DetailsInv, DetailsTypes, InItsRow
<1>2. id \in 1..Len(list) /\ list[id].transaction = id
    BY <1>1, FirstRow DEF InItsRow
<1>3. DOMAIN list = 1..Len(list)
    <2>1. list \in RowsUpTo(listed)
        BY <1>1, BlocksTyped
    <2> HIDE DEF list
    <2> QED BY <2>1 DEF RowsUpTo
<1>4. RowAt(id) = {list[id]}
    BY <1>2, <1>3 DEF RowAt
<1> QED BY <1>1, <1>2, <1>4

\* What the columns of a transaction in its row say.
LEMMA ItsColumns ==
    ASSUME DetailsInv, NEW id, InItsRow(id)
    PROVE  HashAt(id) = {id} /\ HeightAt(id) = {height[id]} \ {Unconfirmed}
<1>1. PICK row : RowAt(id) = {row} /\ row.transaction = id
    BY ItsRow
<1>2. TransactionColumns(row).height = {height[id]} \ {Unconfirmed}
    <2>1. TransactionRoles(row).height = height[id]
        BY <1>1 DEF TransactionRoles
    <2> QED BY <2>1, Zenon DEF TransactionColumns
<1>3. HashAt(id) = {id}
    BY <1>1 DEF HashAt
<1>4. HeightAt(id) = {height[id]} \ {Unconfirmed}
    BY <1>1, <1>2 DEF HeightAt
<1> QED BY <1>3, <1>4

LEMMA DepositsShown == DetailsInv => DepositsTellTheirTransactions
<1> SUFFICES ASSUME DetailsInv, NEW d \in 1..counted
             PROVE  LET by == deposits[d].by
                        spentBy == deposits[d].spentBy
                        columns == DepositColumns(d)
                        block(id) == {height[id]} \ {Unconfirmed}
                    IN /\ InItsRow(by) =>
                              /\ columns.creatingHash = {by} /\ columns.creatingHeight = block(by)
                              /\ columns.unlockHeight = {h + Term : h \in block(by)}
                              /\ d \in transactionUpdated(by)
                              /\ \A row \in RowAt(by) : TransactionDetailsDialog(row).deposit = {columns}
                       /\ InItsRow(spentBy) =>
                              columns.spendingHash = {spentBy} /\ columns.spendingHeight = block(spentBy)
    BY Zenon DEF DepositsTellTheirTransactions
<1> DEFINE by == deposits[d].by
           spentBy == deposits[d].spentBy
           columns == DepositColumns(d)
           role == DepositRoles(d)
<1>0. /\ Len(deposits) \in Nat /\ DOMAIN deposits = 1..Len(deposits) /\ d \in 1..Len(deposits)
    BY DetailsTyping, DetailsAre DEF DetailsInv, DetailsTypes
<1>1. role.creating = by /\ role.spending = spentBy
    BY Zenon DEF DepositRoles
<1>2. ASSUME InItsRow(by)
      PROVE  /\ columns.creatingHash = {by} /\ columns.creatingHeight = {height[by]} \ {Unconfirmed}
             /\ columns.unlockHeight = {h + Term : h \in {height[by]} \ {Unconfirmed}}
             /\ d \in transactionUpdated(by)
             /\ \A row \in RowAt(by) : TransactionDetailsDialog(row).deposit = {columns}
    <2>1. /\ columns.creatingHash = HashAt(by) /\ columns.creatingHeight = HeightAt(by)
          /\ columns.unlockHeight = IF role.unlockHeight = Unconfirmed THEN {} ELSE {role.unlockHeight}
        BY <1>1 DEF DepositColumns
    <2>2. PICK row : RowAt(by) = {row} /\ row.transaction = by
        BY <1>2, ItsRow
    <2>3. role.unlockHeight = IF height[by] = Unconfirmed THEN Unconfirmed ELSE Term + height[by]
        <3> DEFINE creatingHeight == {height[r.transaction] : r \in RowAt(by)}
        <3>1. role.unlockHeight =
                  IF creatingHeight = {Unconfirmed} THEN Unconfirmed
                  ELSE Term + (IF creatingHeight = {} THEN 0 ELSE Min(creatingHeight))
            BY Zenon DEF DepositRoles
        <3>2. creatingHeight = {height[by]}
            BY <2>2
        <3>3. height[by] \in Nat
            BY <1>2, ItsRow
        <3> HIDE DEF creatingHeight, role, by
        <3>4. creatingHeight # {} /\ (creatingHeight = {Unconfirmed} <=> height[by] = Unconfirmed)
            BY <3>2
        <3>5. Min(creatingHeight) = height[by]
            BY <3>2, <3>3 DEF Min
        <3> QED BY <3>1, <3>4, <3>5
    <2>4. columns.unlockHeight = {h + Term : h \in {height[by]} \ {Unconfirmed}}
        <3>1. height[by] \in Nat /\ Term \in Nat \ {0}
            BY <1>2, ItsRow, DetailConstants
        <3> HIDE DEF role, by, columns
        <3>2. CASE height[by] = Unconfirmed
            BY <2>1, <2>3, <3>2
        <3>3. CASE height[by] # Unconfirmed
            <4>1. role.unlockHeight = height[by] + Term /\ role.unlockHeight # 0
                BY <2>3, <3>1, <3>3 DEF Unconfirmed
            <4>2. columns.unlockHeight = {height[by] + Term}
                BY <2>1, <4>1 DEF Unconfirmed
            <4>3. {height[by]} \ {Unconfirmed} = {height[by]}
                BY <3>3
            <4> QED BY <4>2, <4>3
        <3> QED BY <3>2, <3>3
    <2>5. TransactionRoles(row).deposits = {d}
        <3>1. TransactionRoles(row).deposits = {e \in DOMAIN deposits : deposits[e].by = row.transaction}
            BY Zenon DEF TransactionRoles
        <3>2. \A e \in 1..Len(deposits) : deposits[e].by = by => e = d
            BY <1>0 DEF DetailsInv, OneDeposit
        <3> QED BY <1>0, <2>2, <3>1, <3>2
    <2>6. d \in transactionUpdated(by)
        BY <2>2, <2>5 DEF transactionUpdated
    <2>7. TransactionDetailsDialog(row).deposit = {columns}
        <3>1. Min({d}) = d
            BY <1>0 DEF Min
        <3>2. {d} # {}
            OBVIOUS
        <3> QED BY <2>5, <3>1, <3>2, Zenon DEF TransactionDetailsDialog, DepositDetailsDialog
    <2>8. HashAt(by) = {by} /\ HeightAt(by) = {height[by]} \ {Unconfirmed}
        BY <1>2, ItsColumns
    <2> HIDE DEF columns, role, by
    <2> QED BY <2>1, <2>2, <2>4, <2>6, <2>7, <2>8
<1>3. ASSUME InItsRow(spentBy)
      PROVE  columns.spendingHash = {spentBy} /\ columns.spendingHeight = {height[spentBy]} \ {Unconfirmed}
    <2>1. spentBy # NoTransaction
        BY <1>3, ItsRow DEF NoTransaction
    <2>2. columns.spendingHash = HashAt(spentBy) /\ columns.spendingHeight = HeightAt(spentBy)
        BY <1>1, <2>1 DEF DepositColumns
    <2> QED BY <1>3, <2>2, ItsColumns
<1> QED BY <1>2, <1>3

LEMMA Unwrapped ==
    ASSUME NEW a \in Nat, NEW w \in Nat, a < w
    PROVE  (a + w) % w = a
<1>1. w > 0 /\ a + w \in Int
    OBVIOUS
<1> DEFINE q == (a + w) \div w
           r == (a + w) % w
<1>2. q \in Int /\ r \in 0..(w - 1) /\ a + w = w * q + r
    BY <1>1
<1> HIDE DEF q, r
<1>3. q = 1
    <2>1. CASE q <= 0
        <3>1. w * q <= 0
            BY <1>1, <1>2, <2>1
        <3> QED BY <1>1, <1>2, <3>1
    <2>2. CASE q >= 2
        <3>1. w * q >= w * 2
            BY <1>1, <1>2, <2>2
        <3> QED BY <1>1, <1>2, <3>1
    <2> QED BY <1>2, <2>1, <2>2
<1> QED BY <1>1, <1>2, <1>3 DEF r

LEMMA ConfirmationsShown == DetailsInv => ConfirmationsAreCounted
<1> DEFINE list == Blocks(ledger, listed)
<1>1. DOMAIN toCsv = DOMAIN list /\ \A i \in DOMAIN list : toCsv[i][1] = TransactionRoles(list[i]).confirmations
    BY DEF toCsv
<1> SUFFICES ASSUME DetailsInv, NEW i \in DOMAIN list, height[list[i].transaction] <= top
             PROVE  LET row == list[i]
                        h == height[row.transaction]
                    IN /\ (TransactionRoles(row).confirmations = 0) = (h = Unconfirmed)
                       /\ getDecorationRole(row) = <<"transaction">> => h # Unconfirmed /\ top - h >= Clocks - 1
    <2>1. ConfirmationsAreCounted <=>
              \A i \in DOMAIN toCsv :
                  LET row == list[i]
                      h == height[row.transaction]
                  IN h <= top =>
                         /\ (toCsv[i][1] = 0) = (h = Unconfirmed)
                         /\ getDecorationRole(row) = <<"transaction">> => h # Unconfirmed /\ top - h >= Clocks - 1
        BY Zenon DEF ConfirmationsAreCounted
    <2> HIDE DEF list
    <2> QED BY <1>1, <2>1
<1> DEFINE row == list[i]
           h == height[row.transaction]
           confirmations == TransactionRoles(row).confirmations
<1>2. row.transaction \in 1..Len(ledger)
    <2>1. ledger \in Seq(Transactions) /\ listed \in 0..Len(ledger) /\ Len(ledger) \in Nat
        BY DetailsTyping, DetailsAre DEF DetailsInv, DetailsTypes
    <2>2. list \in Seq([transaction : 1..listed, transfer : Nat])
        BY <2>1, BlocksTyped DEF RowsUpTo
    <2> HIDE DEF list
    <2>3. list[i] \in [transaction : 1..listed, transfer : Nat]
        <3>1. i \in 1..Len(list)
            BY <2>2
        <3> QED BY <2>2, <3>1, ElementOfSeq
    <2> QED BY <2>1, <2>3
<1>3. h \in 0..TopHeight /\ top \in 0..TopHeight
    BY <1>2, DetailsTyping, DetailsAre DEF DetailsInv, DetailsTypes
<1>4. confirmations = IF h = Unconfirmed THEN 0 ELSE (top - h + 1 + Wrap64) % Wrap64
    BY Zenon DEF TransactionRoles
<1>5. h # Unconfirmed => confirmations = top - h + 1 /\ confirmations > 0
    <2> SUFFICES ASSUME h # 0 PROVE confirmations = top - h + 1 /\ confirmations > 0
        BY DEF Unconfirmed
    <2>1. h # Unconfirmed
        BY DEF Unconfirmed
    <2> DEFINE a == top - h + 1
    <2> HIDE DEF h, row, confirmations
    <2>2. a \in Nat /\ a > 0 /\ a < Wrap64 /\ Wrap64 \in Nat
        BY <1>3, DetailConstants DEF h, row
    <2>3. confirmations = (a + Wrap64) % Wrap64
        BY <1>4, <2>1
    <2> HIDE DEF a
    <2>4. confirmations = a
        BY <2>2, <2>3, Unwrapped
    <2> QED BY <2>2, <2>4 DEF a
<1>6. getDecorationRole(row) = <<"transaction">> => ~(confirmations < Clocks)
    <2>1. <<"clock", confirmations>> # <<"transaction">> /\ <<"tx-message">> # <<"transaction">>
        OBVIOUS
    <2> QED BY <2>1, Zenon DEF getDecorationRole
<1>7. (confirmations = 0) = (h = Unconfirmed)
    <2>1. CASE h = Unconfirmed
        BY <1>4, <2>1
    <2>2. CASE h # Unconfirmed
        BY <1>5, <2>2
    <2> QED BY <2>1, <2>2
<1>8. ASSUME ~(confirmations < Clocks) PROVE h # Unconfirmed /\ top - h >= Clocks - 1
    <2>1. Clocks \in Nat \ {0}
        BY DetailConstants
    <2>2. h # Unconfirmed
        BY <1>4, <1>8, <2>1
    <2> QED BY <1>3, <1>5, <1>8, <2>1, <2>2
<1> QED BY <1>6, <1>7, <1>8

(* The variables of the details have the values their definition names:    *)
(* every deposit names a transaction of the wallet, and neither model      *)
(* lists more than the wallet has.                                         *)
THEOREM DetailsTyped == DetailsSpec => []DetailsTypeOK
<1>1. DetailsInv => DetailsTypeOK
    BY DEF DetailsInv
<1> QED BY <1>1, DetailsHold, PTL

(* What the rows of transactions and deposits tell is true of their        *)
(* transactions, for any transactions with any number of transfers.        *)
THEOREM RowsAreTold == DetailsSpec => []RowsTellTheirTransactions
<1>1. DetailsInv => RowsTellTheirTransactions
    BY AmountsShown, DepositsShown, ConfirmationsShown DEF RowsTellTheirTransactions
<1> QED BY <1>1, DetailsHold, PTL
=============================================================================
