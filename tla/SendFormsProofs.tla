-------------------------- MODULE SendFormsProofs --------------------------
(***************************************************************************)
(* Proofs about SendForms and Mail.                                        *)
(*                                                                         *)
(* For any number of rows, any prices and lengths, and any unit of the     *)
(* coins: whenever a send is taken, what leaves is what the fee field      *)
(* shows and pays for what is sent, and a form always has a row to fill    *)
(* in.  For any users and texts, in the second part: a message is read as  *)
(* it was written.                                                         *)
(*                                                                         *)
(* That the fee pays is not inductive: a step that finds the field right   *)
(* for what it was before says nothing of what it is for the new rows.     *)
(* MinimumPays says what the minimum is: in a message always what it       *)
(* costs, in transfers only while no row is on its way out, because        *)
(* clearing them leaves the field to the destruction of the rows.  The     *)
(* other parts of IInv say which rows may be on their way out together:    *)
(* they are why a row is left when the last of them has gone.              *)
(*                                                                         *)
(* updateFee() adds up the rows in a loop, a recursive function here.  What*)
(* it returns is found by induction over the rows, in the form of a lemma  *)
(* about sets of numbers, which follows from < being well-founded.         *)
(***************************************************************************)
EXTENDS SendForms, Mail, SequenceTheorems, FiniteSetTheorems, WellFoundedInduction, TLAPS

\* A set of numbers has a least member.
LEMMA Least ==
    ASSUME NEW S \in SUBSET Nat, S # {}
    PROVE  \E x \in S : \A y \in S : x <= y
<1> DEFINE R == {pair \in Nat \X Nat : pair[1] < pair[2]}
<1>1. IsWellFoundedOn(R, Nat)
    BY NatLessThanWellFounded, Zenon DEF OpToRel
<1>2. IsWellFoundedOn(R, S)
    BY <1>1, IsWellFoundedOnSubset
<1> HIDE DEF R
<1>3. PICK x \in S : \A y \in S : ~(<<y, x>> \in R)
    BY <1>2, WFMin
<1>4. ASSUME NEW y \in S PROVE x <= y
    <2>1. <<y, x>> \in R <=> y < x
        BY DEF R
    <2> QED BY <1>3, <2>1
<1> QED BY <1>4

\* A set of numbers with 0 that has the next of each of its members is all of Nat.
LEMMA SetInduction ==
    ASSUME NEW S \in SUBSET Nat, 0 \in S, \A n \in S : n + 1 \in S
    PROVE  S = Nat
<1> SUFFICES ASSUME Nat \ S # {} PROVE FALSE
    OBVIOUS
<1>1. PICK x \in Nat \ S : \A y \in Nat \ S : x <= y
    BY Least
<1>2. x - 1 \in Nat /\ x - 1 \in S
    BY <1>1
<1> QED BY <1>1, <1>2

\* Min takes a member of its set.
LEMMA LeastMember == ASSUME NEW S \in SUBSET Nat, S # {} PROVE Min(S) \in S
BY Least DEF Min

\* qMax() of two numbers.
LEMMA MaxOfTwo ==
    ASSUME NEW a \in Int, NEW b \in Int
    PROVE  Max({a, b}) = IF a >= b THEN a ELSE b
<1>1. \A x \in {a, b} : (\A y \in {a, b} : x >= y) => x = IF a >= b THEN a ELSE b
    OBVIOUS
<1>2. \E x \in {a, b} : \A y \in {a, b} : x >= y
    OBVIOUS
<1> QED BY <1>1, <1>2 DEF Max

\* What is shown is read again.
LEMMA ReadIsShown == ASSUME NEW amount \in Nat PROVE Read(amount) = amount
<1>1. Coin \in Nat \ {0}
    BY FormsAssumption DEF FormsAssumption
<1>2. Coin \div Coin = 1
    BY <1>1
<1>3. amount = (amount \div Coin) * Coin + (amount % Coin)
    BY <1>1
<1>4. amount % Coin \in Nat /\ (amount \div Coin) * Coin \in Nat
    BY <1>1
<1> QED BY <1>1, <1>2, <1>3, <1>4 DEF Read, parseAmount, formatAmount

\* One more than what is below a bound is within it.
LEMMA Below == ASSUME NEW a \in Nat, NEW b \in Nat, a <= b, a # b PROVE a + 1 <= b
OBVIOUS

\* More of the same costs at least as much.
LEMMA Products ==
    ASSUME NEW a \in Nat, NEW b \in Nat, NEW c \in Nat, a <= b
    PROVE  a * c \in Nat /\ b * c \in Nat /\ a * c <= b * c
OBVIOUS

Rows == Seq([to : Texts, size : 0..CommentLimit, fixed : BOOLEAN, closed : BOOLEAN])

\* The sum in updateFee(), row by row.
UpTo(list) ==
    CHOOSE f : f = [i \in 0..Len(list) |->
                        IF i = 0 THEN MinimumFee ELSE f[i - 1] + list[i].size * CHAR_PRICE]

\* What the comment of a row costs.
LEMMA PricesOfRows ==
    ASSUME NEW list \in Rows
    PROVE  \A i \in 1..Len(list) : list[i].size * CHAR_PRICE \in Nat
<1> SUFFICES ASSUME NEW i \in 1..Len(list) PROVE list[i].size * CHAR_PRICE \in Nat
    OBVIOUS
<1>1. list[i] \in [to : Texts, size : 0..CommentLimit, fixed : BOOLEAN, closed : BOOLEAN]
    BY ElementOfSeq DEF Rows
<1>2. CHAR_PRICE \in Nat
    BY FormsAssumption DEF FormsAssumption
<1> QED BY <1>1, <1>2

\* The sum exists, and grows with each row by what its comment costs.
LEMMA UpToDefined ==
    ASSUME NEW list \in Rows
    PROVE  /\ CommentsPrice(list) = UpTo(list)[Len(list)]
           /\ UpTo(list)[0] = MinimumFee
           /\ \A i \in 1..Len(list) : UpTo(list)[i] = UpTo(list)[i - 1] + list[i].size * CHAR_PRICE
<1> DEFINE Next1(f, i) == IF i = 0 THEN MinimumFee ELSE f[i - 1] + list[i].size * CHAR_PRICE
           Sum(f, n) == \A i \in 0..n : f[i] = Next1(f, i)
           P(n) == n <= Len(list) => \E f \in [0..n -> Nat] : Sum(f, n)
           S == {n \in Nat : P(n)}
<1>1. Len(list) \in Nat /\ MinimumFee \in Nat
    BY FormsAssumption DEF FormsAssumption, Rows
<1>2. 0 \in S
    <2> DEFINE f == [i \in 0..0 |-> MinimumFee]
    <2>1. f \in [0..0 -> Nat] /\ Sum(f, 0)
        BY <1>1
    <2> QED BY <2>1
<1>3. ASSUME NEW n \in S PROVE n + 1 \in S
    <2>0. n \in Nat /\ n + 1 \in Nat
        OBVIOUS
    <2> SUFFICES P(n + 1)
        BY <2>0
    <2> SUFFICES ASSUME n + 1 <= Len(list)
                 PROVE  \E f \in [0..(n + 1) -> Nat] : Sum(f, n + 1)
        OBVIOUS
    <2>1. PICK f \in [0..n -> Nat] : Sum(f, n)
        BY <1>1
    <2>2. list[n + 1].size * CHAR_PRICE \in Nat
        BY PricesOfRows, <1>1
    <2> DEFINE g == [i \in 0..(n + 1) |->
                         IF i = n + 1 THEN f[n] + list[n + 1].size * CHAR_PRICE ELSE f[i]]
    <2>3. g \in [0..(n + 1) -> Nat]
        BY <2>2
    <2>4. ASSUME NEW i \in 0..(n + 1) PROVE g[i] = Next1(g, i)
        <3>1. CASE i = n + 1
            <4>1. n \in 0..(n + 1) /\ n + 1 \in 0..(n + 1) /\ n # n + 1 /\ n + 1 # 0 /\ (n + 1) - 1 = n
                OBVIOUS
            <4>2. g[n] = f[n] /\ g[n + 1] = f[n] + list[n + 1].size * CHAR_PRICE
                BY <4>1, Zenon
            <4> HIDE DEF g
            <4> QED BY <3>1, <4>1, <4>2, Zenon
        <3>2. CASE i \in 0..n
            <4>0. i \in 0..(n + 1) /\ i # n + 1
                BY <3>2
            <4>1. f[i] = Next1(f, i) /\ g[i] = f[i]
                BY <2>1, <3>2, <4>0, Zenon
            <4>2. i = 0 \/ (i - 1 \in 0..n /\ g[i - 1] = f[i - 1])
                BY <3>2
            <4> QED BY <4>1, <4>2
        <3> QED BY <3>1, <3>2
    <2> QED BY <2>3, <2>4
<1>4. Len(list) \in S
    <2> HIDE DEF S
    <2>1. S \in SUBSET Nat
        BY DEF S
    <2>2. S = Nat
        BY <1>2, <1>3, <2>1, SetInduction
    <2> QED BY <1>1, <2>2
<1>5. PICK f \in [0..Len(list) -> Nat] : Sum(f, Len(list))
    BY <1>1, <1>4
<1>6. f = [i \in 0..Len(list) |-> Next1(f, i)]
    BY <1>5
<1>7. UpTo(list) = [i \in 0..Len(list) |-> Next1(UpTo(list), i)]
    BY <1>6 DEF UpTo
<1>8. CommentsPrice(list) = UpTo(list)[Len(list)]
    BY DEF CommentsPrice, UpTo
<1> HIDE DEF UpTo
<1> QED BY <1>1, <1>7, <1>8

\* What the proofs use of the assumptions.
LEMMA Constants ==
    /\ CHAR_PRICE \in Nat /\ MESSAGE_AMOUNT \in Nat /\ MinimumFee \in Nat
    /\ RowLimit \in Nat /\ RowLimit > 0 /\ SizeLimit \in Nat /\ CommentLimit \in Nat /\ Raise \in Nat
    /\ Wrap \in Nat /\ MaximalFee < Wrap
    /\ CommentLimit * CHAR_PRICE \in Nat /\ SizeLimit * CHAR_PRICE \in Nat
<1>1. /\ CHAR_PRICE \in Nat /\ MESSAGE_AMOUNT \in Nat /\ MinimumFee \in Nat
      /\ RowLimit \in Nat /\ RowLimit > 0 /\ SizeLimit \in Nat /\ CommentLimit \in Nat /\ Raise \in Nat
      /\ Wrap \in Nat /\ MaximalFee < Wrap
    BY FormsAssumption DEF FormsAssumption
<1> QED BY <1>1, Products

\* Every row adds at most what the longest comment costs.
LEMMA PriceBounds ==
    ASSUME NEW list \in Rows
    PROVE  /\ CommentsPrice(list) \in Nat
           /\ MinimumFee <= CommentsPrice(list)
           /\ CommentsPrice(list) <= MinimumFee + Len(list) * (CommentLimit * CHAR_PRICE)
<1> DEFINE most == CommentLimit * CHAR_PRICE
           P(n) == n <= Len(list) => /\ UpTo(list)[n] \in Nat
                                     /\ MinimumFee <= UpTo(list)[n]
                                     /\ UpTo(list)[n] <= MinimumFee + n * most
           S == {n \in Nat : P(n)}
<1>0. Len(list) \in Nat /\ most \in Nat /\ MinimumFee \in Nat
    BY Constants DEF Rows
<1>1. P(0)
    BY <1>0, UpToDefined
<1>2. ASSUME NEW n \in Nat, P(n) PROVE P(n + 1)
    <2> SUFFICES ASSUME n + 1 <= Len(list) PROVE P(n + 1)
        OBVIOUS
    <2>1. n + 1 \in 1..Len(list) /\ n <= Len(list)
        BY <1>0
    <2> DEFINE price == list[n + 1].size * CHAR_PRICE
    <2>2. price \in Nat /\ price <= most
        <3>1. list[n + 1] \in [to : Texts, size : 0..CommentLimit, fixed : BOOLEAN, closed : BOOLEAN]
            BY <2>1, ElementOfSeq DEF Rows
        <3>2. list[n + 1].size \in Nat /\ list[n + 1].size <= CommentLimit
            BY <3>1, Constants
        <3> QED BY <3>2, Constants, Products
    <2>3. UpTo(list)[n + 1] = UpTo(list)[n] + price
        BY <2>1, UpToDefined
    <2>4. (n + 1) * most = n * most + most /\ n * most \in Nat
        BY <1>0
    <2> HIDE DEF price, most
    <2> QED BY <1>0, <1>2, <2>1, <2>2, <2>3, <2>4
<1>3. Len(list) \in S
    <2>1. 0 \in S
        BY <1>1
    <2>2. \A n \in S : n + 1 \in S
        BY <1>2
    <2> HIDE DEF P
    <2>3. S \in SUBSET Nat
        OBVIOUS
    <2> HIDE DEF S
    <2> QED BY <1>0, <2>1, <2>2, <2>3, SetInduction
<1>4. P(Len(list))
    BY <1>3
<1> QED BY <1>0, <1>4, UpToDefined

\* Rows without a comment at the end cost nothing.
LEMMA SamePrice ==
    ASSUME NEW a \in Rows, NEW b \in Rows, Len(a) <= Len(b),
           \A i \in 1..Len(a) : b[i].size = a[i].size,
           \A i \in (Len(a) + 1)..Len(b) : b[i].size = 0
    PROVE  CommentsPrice(b) = CommentsPrice(a)
<1> DEFINE at(n) == IF n <= Len(a) THEN n ELSE Len(a)
           P(n) == n <= Len(b) => UpTo(b)[n] = UpTo(a)[at(n)] /\ UpTo(b)[n] \in Nat
           S == {n \in Nat : P(n)}
<1>0. Len(a) \in Nat /\ Len(b) \in Nat /\ MinimumFee \in Nat /\ CHAR_PRICE \in Nat
    BY Constants DEF Rows
<1>1. P(0)
    BY <1>0, UpToDefined
<1>2. ASSUME NEW n \in Nat, P(n) PROVE P(n + 1)
    <2> SUFFICES ASSUME n + 1 <= Len(b) PROVE P(n + 1)
        OBVIOUS
    <2>1. n + 1 \in 1..Len(b) /\ n <= Len(b)
        BY <1>0
    <2>2. /\ UpTo(b)[n + 1] = UpTo(b)[n] + b[n + 1].size * CHAR_PRICE
          /\ b[n + 1].size * CHAR_PRICE \in Nat
        BY <2>1, UpToDefined, PricesOfRows
    <2>3. CASE n + 1 <= Len(a)
        <3>1. UpTo(a)[n + 1] = UpTo(a)[n] + a[n + 1].size * CHAR_PRICE
            BY <1>0, <2>3, UpToDefined
        <3>2. b[n + 1].size = a[n + 1].size
            BY <1>0, <2>3
        <3> QED BY <1>0, <1>2, <2>1, <2>2, <2>3, <3>1, <3>2
    <2>4. CASE ~(n + 1 <= Len(a))
        <3>1. b[n + 1].size = 0
            BY <1>0, <2>1, <2>4
        <3>2. at(n + 1) = at(n)
            BY <1>0, <2>4
        <3> QED BY <1>0, <1>2, <2>1, <2>2, <3>1, <3>2
    <2> QED BY <2>3, <2>4
<1>3. Len(b) \in S
    <2>1. 0 \in S
        BY <1>1
    <2>2. \A n \in S : n + 1 \in S
        BY <1>2
    <2> HIDE DEF P
    <2>3. S \in SUBSET Nat
        OBVIOUS
    <2> HIDE DEF S
    <2> QED BY <1>0, <2>1, <2>2, <2>3, SetInduction
<1>4. P(Len(b))
    BY <1>3
<1> QED BY <1>0, <1>4, UpToDefined

\* The price is that of the comments, whatever else is in the rows.
LEMMA SameSizes ==
    ASSUME NEW a \in Rows, NEW b \in Rows, Len(a) = Len(b), \A i \in 1..Len(a) : b[i].size = a[i].size
    PROVE  CommentsPrice(b) = CommentsPrice(a)
<1>1. Len(a) \in Nat
    BY DEF Rows
<1>2. (Len(a) + 1)..Len(b) = {} /\ Len(a) <= Len(b)
    BY <1>1
<1> QED BY <1>2, SamePrice

-----------------------------------------------------------------------------
(* The rows of a form. *)

FormRow == [to : Texts, size : 0..CommentLimit, fixed : BOOLEAN, closed : BOOLEAN]

\* The rows of a list.
LEMMA RowOf == ASSUME NEW list \in Rows PROVE \A i \in 1..Len(list) : list[i] \in FormRow
BY ElementOfSeq DEF Rows, FormRow

\* A new TransferFrame or MessageAddressFrame.
LEMMA NewRowIsRow ==
    NewRow \in FormRow /\ ~NewRow.closed /\ NewRow.size = 0 /\ [NewRow EXCEPT !.fixed = TRUE] \in FormRow
<1>1. "" \in Texts /\ 0 \in 0..CommentLimit
    BY Constants DEF Texts
<1> QED BY <1>1 DEF NewRow, FormRow

\* A change of one row.
LEMMA RowChanged ==
    ASSUME NEW list \in Rows, NEW i \in 1..Len(list), NEW row \in FormRow
    PROVE  /\ [list EXCEPT ![i] = row] \in Rows
           /\ Len([list EXCEPT ![i] = row]) = Len(list)
           /\ [list EXCEPT ![i] = row][i] = row
           /\ \A j \in 1..Len(list) : j # i => [list EXCEPT ![i] = row][j] = list[j]
BY ExceptSeq DEF Rows, FormRow

\* A row is added at the end, and a row that is alone cannot be removed.
LEMMA WithNewRowIs ==
    ASSUME NEW list \in Rows
    PROVE  LET more == WithNewRow(list)
           IN /\ more \in Rows /\ Len(more) = Len(list) + 1
              /\ \A i \in 1..Len(list) :
                     more[i].size = list[i].size /\ more[i].closed = list[i].closed
              /\ more[Len(list) + 1].size = 0 /\ ~more[Len(list) + 1].closed
              /\ Len(list) = 0 => more[1].fixed
<1>0. Len(list) \in Nat /\ list \in Seq(FormRow) /\ Rows = Seq(FormRow)
    BY DEF Rows, FormRow
<1>1. CASE list = <<>>
    <2> DEFINE row == [NewRow EXCEPT !.fixed = TRUE]
    <2>1. row \in FormRow /\ row.size = 0 /\ ~row.closed /\ row.fixed
        BY NewRowIsRow DEF NewRow
    <2>2. WithNewRow(list) = <<row>>
        BY <1>1 DEF WithNewRow
    <2>3. <<row>> \in Seq(FormRow) /\ Len(<<row>>) = 1 /\ <<row>>[1] = row
        BY <2>1
    <2>4. Len(list) = 0
        BY <1>1
    <2> HIDE DEF row
    <2> QED BY <1>0, <2>1, <2>2, <2>3, <2>4
<1>2. CASE list # <<>>
    <2> DEFINE first == [list[1] EXCEPT !.fixed = FALSE]
               others == [list EXCEPT ![1] = first]
    <2>1. 1 \in 1..Len(list)
        BY <1>0, <1>2, EmptySeq
    <2>2. list[1] \in FormRow
        BY <2>1, RowOf
    <2>3. first \in FormRow /\ first.size = list[1].size /\ first.closed = list[1].closed
        BY <2>2 DEF FormRow
    <2> HIDE DEF first
    <2>4. /\ others \in Rows /\ Len(others) = Len(list) /\ others[1] = first
          /\ \A j \in 1..Len(list) : j # 1 => others[j] = list[j]
        BY <2>1, <2>3, RowChanged
    <2>5. [list EXCEPT ![1].fixed = FALSE] = others
        BY DEF first
    <2>6. WithNewRow(list) = Append(others, NewRow)
        BY <1>2, <2>5 DEF WithNewRow
    <2> HIDE DEF others
    <2>7. /\ Append(others, NewRow) \in Rows /\ Len(Append(others, NewRow)) = Len(list) + 1
          /\ \A j \in 1..Len(list) : Append(others, NewRow)[j] = others[j]
          /\ Append(others, NewRow)[Len(list) + 1] = NewRow
        BY <1>0, <2>4, NewRowIsRow, AppendProperties
    <2>8. Len(list) # 0
        BY <1>0, <2>1
    <2> QED BY <1>0, <2>1, <2>3, <2>4, <2>6, <2>7, <2>8, NewRowIsRow
<1> QED BY <1>1, <1>2

\* One row goes, and the one that is left alone cannot be removed.
LEMMA WithoutIs ==
    ASSUME NEW list \in Rows, NEW i \in 1..Len(list)
    PROVE  LET left == Without(list, i)
           IN /\ left \in Rows /\ Len(left) = Len(list) - 1
              /\ \A j \in 1..Len(left) :
                     left[j].closed = list[IF j < i THEN j ELSE j + 1].closed
              /\ Len(left) = 1 => left[1].fixed
<1> DEFINE left == RemoveAt(list, i)
           before == SubSeq(list, 1, i - 1)
           after == SubSeq(list, i + 1, Len(list))
<1>0. Len(list) \in Nat /\ list \in Seq(FormRow) /\ Rows = Seq(FormRow)
    BY DEF Rows, FormRow
<1>1. before \in Seq(FormRow) /\ Len(before) = i - 1 /\ \A j \in 1..(i - 1) : before[j] = list[j]
    BY <1>0, SubSeqProperties
<1>2. /\ after \in Seq(FormRow) /\ Len(after) = Len(list) - i
      /\ \A j \in 1..(Len(list) - i) : after[j] = list[i + j]
    BY <1>0, SubSeqProperties
<1>3. left = before \o after
    BY DEF RemoveAt
<1> HIDE DEF before, after, left
<1>4. /\ left \in Seq(FormRow) /\ Len(left) = Len(list) - 1
      /\ \A j \in 1..Len(left) : left[j] = IF j <= Len(before) THEN before[j] ELSE after[j - Len(before)]
    <2>1. /\ before \o after \in Seq(FormRow)
          /\ Len(before \o after) = Len(before) + Len(after)
          /\ \A j \in 1..Len(before) + Len(after) :
                 (before \o after)[j] = IF j <= Len(before) THEN before[j] ELSE after[j - Len(before)]
        BY <1>1, <1>2, ConcatProperties
    <2>2. Len(before) + Len(after) = Len(list) - 1
        BY <1>0, <1>1, <1>2
    <2> QED BY <1>3, <2>1, <2>2
<1>5. \A j \in 1..Len(left) : left[j] = list[IF j < i THEN j ELSE j + 1]
    <2> SUFFICES ASSUME NEW j \in 1..Len(left) PROVE left[j] = list[IF j < i THEN j ELSE j + 1]
        OBVIOUS
    <2>1. left[j] = IF j <= Len(before) THEN before[j] ELSE after[j - Len(before)]
        BY <1>4
    <2>2. CASE j < i
        <3>1. j \in 1..(i - 1) /\ j <= Len(before)
            BY <1>0, <1>1, <1>4, <2>2
        <3> QED BY <1>1, <2>1, <2>2, <3>1
    <2>3. CASE ~(j < i)
        <3>1. ~(j <= Len(before)) /\ j - Len(before) = j - (i - 1)
            BY <1>0, <1>1, <1>4, <2>3
        <3>2. j - (i - 1) \in 1..(Len(list) - i) /\ i + (j - (i - 1)) = j + 1
            BY <1>0, <1>4, <2>3
        <3>3. after[j - (i - 1)] = list[i + (j - (i - 1))]
            BY <1>2, <3>2
        <3> QED BY <2>1, <2>3, <3>1, <3>2, <3>3
    <2> QED BY <2>2, <2>3
<1>6. CASE Len(left) = 1
    <2> DEFINE row == [left[1] EXCEPT !.fixed = TRUE]
    <2>1. 1 \in 1..Len(left)
        BY <1>6
    <2>2. left[1] \in FormRow
        BY <1>0, <1>4, <2>1, RowOf
    <2>3. row \in FormRow /\ row.closed = left[1].closed /\ row.fixed
        BY <2>2 DEF FormRow
    <2>4. Without(list, i) = [left EXCEPT ![1] = row]
        BY <1>6 DEF Without, left
    <2> HIDE DEF row
    <2>5. /\ [left EXCEPT ![1] = row] \in Rows
          /\ Len([left EXCEPT ![1] = row]) = Len(left)
          /\ [left EXCEPT ![1] = row][1] = row
        BY <1>0, <1>4, <2>1, <2>3, RowChanged
    <2> QED BY <1>4, <1>5, <1>6, <2>3, <2>4, <2>5
<1>7. CASE Len(left) # 1
    <2>1. Without(list, i) = left
        BY <1>7 DEF Without, left
    <2> QED BY <1>0, <1>4, <1>5, <1>7, <2>1
<1> QED BY <1>6, <1>7

\* Closing all rows keeps their number and their buttons.
LEMMA ClosedIs ==
    ASSUME NEW list \in Rows
    PROVE  /\ Closed(list) \in Rows /\ Len(Closed(list)) = Len(list)
           /\ \A i \in 1..Len(list) :
                  Closed(list)[i].closed /\ Closed(list)[i].fixed = list[i].fixed
<1>1. /\ Closed(list) = [i \in 1..Len(list) |-> [list[i] EXCEPT !.closed = TRUE]]
      /\ Len(list) \in Nat
    BY DEF Closed, Rows
<1>2. \A i \in 1..Len(list) : [list[i] EXCEPT !.closed = TRUE] \in FormRow
    BY RowOf DEF FormRow
<1>3. Closed(list) \in Seq(FormRow) /\ Len(Closed(list)) = Len(list)
    BY <1>1, <1>2
<1> QED BY <1>1, <1>3, RowOf DEF Rows, FormRow

-----------------------------------------------------------------------------
(* The inductive invariant. *)

\* The fee field covers what the form costs: in a message always, in transfers when no row is
\* on its way out, since clearing them leaves the fee to the destruction of the rows.
MinimumPays ==
    /\ minimum + Raise <= MaximalFee
    /\ form = "message" => minimum = IF onChain THEN MessagePrice(Len(rows), size) ELSE 0
    /\ form = "transfers" /\ UserMayEdit => minimum = CommentsPrice(rows)

LastStays == Len(rows) = 1 => rows[1].fixed

TransferRows ==
    form = "transfers" =>
        /\ Len(rows) > 0
        /\ \A i, j \in 1..Len(rows) : rows[i].closed /\ rows[j].closed => i = j
        /\ Len(rows) = 1 => ~rows[1].closed
        /\ orphans > 0 => Len(rows) = 1
        /\ orphans <= RowLimit \/ (~sending /\ orphans <= RowLimit + 1)

MessageRows ==
    form = "message" =>
        /\ orphans = 0
        /\ resetFull \/ \E i \in 1..Len(rows) : ~rows[i].closed

IInv == FormsTypeOK /\ MinimumPays /\ LastStays /\ TransferRows /\ MessageRows

\* The list of rows.
LEMMA RowsTyped == ASSUME FormsTypeOK PROVE rows \in Rows /\ Len(rows) \in Nat /\ DOMAIN rows = 1..Len(rows)
BY DEF FormsTypeOK, Rows

\* A message within its bounds costs no more than the fee field may show.
LEMMA MessagePriceBounds ==
    ASSUME NEW n \in 0..RowLimit, NEW length \in 0..SizeLimit
    PROVE  /\ MessagePrice(n, length) \in Nat
           /\ n * MESSAGE_AMOUNT \in Nat
           /\ n * MESSAGE_AMOUNT <= MessagePrice(n, length)
           /\ MessagePrice(n, length) + Raise <= MaximalFee
<1> DEFINE rest == Max({length - 1, 0})
           comments == CommentLimit * CHAR_PRICE
<1>0. n \in Nat /\ length \in Nat /\ n <= RowLimit /\ length <= SizeLimit
    BY Constants
<1>1. rest \in Nat /\ rest <= SizeLimit
    <2>1. rest = IF length - 1 >= 0 THEN length - 1 ELSE 0
        BY <1>0, MaxOfTwo
    <2> QED BY <1>0, <2>1, Constants
<1>2. rest * CHAR_PRICE \in Nat /\ rest * CHAR_PRICE <= SizeLimit * CHAR_PRICE
    BY <1>1, Constants, Products
<1>3. n * MESSAGE_AMOUNT \in Nat /\ n * MESSAGE_AMOUNT <= RowLimit * MESSAGE_AMOUNT
    BY <1>0, Constants, Products
<1>4. RowLimit * (MESSAGE_AMOUNT + comments) = RowLimit * MESSAGE_AMOUNT + RowLimit * comments
      /\ RowLimit * comments \in Nat /\ RowLimit * MESSAGE_AMOUNT \in Nat
    BY Constants
<1> HIDE DEF rest
<1>5. MessagePrice(n, length) = n * MESSAGE_AMOUNT + rest * CHAR_PRICE
    BY DEF MessagePrice, rest
<1> QED BY <1>2, <1>3, <1>4, <1>5, Constants DEF MaximalFee

\* So do transfers.
LEMMA CommentsPriceBounds ==
    ASSUME NEW list \in Rows, Len(list) <= RowLimit
    PROVE  /\ CommentsPrice(list) \in Nat
           /\ CommentsPrice(list) + Raise <= MaximalFee
<1> DEFINE comments == CommentLimit * CHAR_PRICE
<1>1. Len(list) \in Nat
    BY DEF Rows
<1>2. Len(list) * comments \in Nat /\ Len(list) * comments <= RowLimit * comments
    BY <1>1, Constants, Products
<1>3. RowLimit * (MESSAGE_AMOUNT + comments) = RowLimit * MESSAGE_AMOUNT + RowLimit * comments
      /\ RowLimit * comments \in Nat /\ RowLimit * MESSAGE_AMOUNT \in Nat
    BY Constants
<1> HIDE DEF comments
<1>4. CommentsPrice(list) \in Nat /\ CommentsPrice(list) <= MinimumFee + Len(list) * comments
    BY PriceBounds DEF comments
<1> QED BY <1>2, <1>3, <1>4, Constants DEF MaximalFee, comments

\* The bound is a number.
LEMMA MaximalFeeIsNat == MaximalFee \in Nat
<1>1. 0 \in 0..RowLimit /\ 0 \in 0..SizeLimit
    BY Constants
<1>2. RowLimit * (MESSAGE_AMOUNT + CommentLimit * CHAR_PRICE) \in Nat
    BY Constants
<1> QED BY <1>2, Constants DEF MaximalFee

\* After a calculation, the field and its minimum are what was calculated.
LEMMA Charged ==
    ASSUME NEW amount \in Nat, amount + Raise <= MaximalFee, Charge(amount)
    PROVE  /\ minimum' = amount /\ fee' = amount
           /\ minimum' \in 0..MaximalFee /\ fee' \in minimum'..MaximalFee
BY ReadIsShown, Constants, MaximalFeeIsNat DEF Charge

\* recalculateFeeValue() of a message brings the field up to date.
LEMMA MessageCharged ==
    ASSUME form' = "message", Len(rows') \in 0..RowLimit, size' \in 0..SizeLimit, onChain' \in BOOLEAN,
           recalculateFeeValue(rows', size', onChain')
    PROVE  MinimumPays' /\ minimum' \in 0..MaximalFee /\ fee' \in minimum'..MaximalFee
<1>1. CASE onChain'
    <2>1. Charge(MessagePrice(Len(rows'), size'))
        BY <1>1 DEF recalculateFeeValue
    <2> QED BY <1>1, <2>1, MessagePriceBounds, Charged DEF MinimumPays
<1>2. CASE ~onChain'
    <2>1. Charge(0)
        BY <1>2 DEF recalculateFeeValue
    <2>2. 0 + Raise <= MaximalFee
        <3>1. 0 \in 0..RowLimit /\ 0 \in 0..SizeLimit
            BY Constants
        <3>2. MessagePrice(0, 0) \in Nat /\ MessagePrice(0, 0) + Raise <= MaximalFee
            BY <3>1, MessagePriceBounds
        <3> QED BY <3>2, Constants, MaximalFeeIsNat
    <2> QED BY <1>2, <2>1, <2>2, Charged DEF MinimumPays
<1> QED BY <1>1, <1>2

\* So does updateFee() of transfers.
LEMMA TransfersCharged ==
    ASSUME form' = "transfers", NEW list \in Rows, Len(list) <= RowLimit,
           CommentsPrice(rows') = CommentsPrice(list), updateFee(list)
    PROVE  MinimumPays' /\ minimum' \in 0..MaximalFee /\ fee' \in minimum'..MaximalFee
<1>1. Charge(CommentsPrice(list))
    BY DEF updateFee
<1> QED BY <1>1, CommentsPriceBounds, Charged DEF MinimumPays

\* The slot of destroyed() brings the field up to date.
LEMMA Recalculated ==
    ASSUME FormsTypeOK, NEW list \in Rows, Len(list) <= RowLimit, rows' = list,
           UNCHANGED <<form, size, onChain>>, Recalculate(list)
    PROVE  MinimumPays' /\ minimum' \in 0..MaximalFee /\ fee' \in minimum'..MaximalFee
<1>1. CASE form = "transfers"
    BY <1>1, TransfersCharged DEF Recalculate
<1>2. CASE form = "message"
    <2>1. Len(rows') \in 0..RowLimit
        BY Constants DEF Rows
    <2>2. size' \in 0..SizeLimit /\ onChain' \in BOOLEAN
        BY DEF FormsTypeOK
    <2>3. recalculateFeeValue(rows', size', onChain')
        BY <1>2 DEF Recalculate
    <2> QED BY <1>2, <2>1, <2>2, <2>3, MessageCharged
<1> QED BY <1>1, <1>2 DEF FormsTypeOK

-----------------------------------------------------------------------------
(* The actions, one by one. *)

\* The user edits when no row is on its way out.
LEMMA MayEdit ==
    ASSUME FormsTypeOK
    PROVE  UserMayEdit <=> orphans = 0 /\ \A i \in 1..Len(rows) : ~rows[i].closed
BY RowsTyped, Constants DEF UserMayEdit, RowsAreClosed, FormsTypeOK

\* The new forms.
LEMMA InitInductive == FormsInit => IInv
<1> SUFFICES ASSUME FormsInit PROVE IInv
    OBVIOUS
<1> DEFINE row == [NewRow EXCEPT !.fixed = TRUE]
<1>1. row \in FormRow /\ row.fixed /\ ~row.closed /\ row.size = 0
    BY NewRowIsRow DEF NewRow
<1>2. rows = <<row>>
    BY DEF FormsInit
<1> HIDE DEF row
<1>3. rows \in Rows /\ Len(rows) = 1 /\ rows[1] = row /\ DOMAIN rows = {1}
    BY <1>1, <1>2 DEF Rows, FormRow
<1>4. CommentsPrice(rows) = MinimumFee
    <2>1. UpTo(rows)[1] = UpTo(rows)[0] + rows[1].size * CHAR_PRICE
        BY <1>3, UpToDefined
    <2> QED BY <1>1, <1>3, <2>1, UpToDefined, Constants
<1>5. MinimumFee + Raise <= MaximalFee
    <2>1. Len(rows) <= RowLimit
        BY <1>3, Constants
    <2> QED BY <1>3, <1>4, <2>1, CommentsPriceBounds
<1>6. 0 + Raise <= MaximalFee
    BY <1>5, Constants, MaximalFeeIsNat
<1>7. minimum + Raise <= MaximalFee /\ minimum \in Nat /\ fee = minimum
    BY <1>5, <1>6, Constants DEF FormsInit
<1>8. minimum \in 0..MaximalFee /\ fee \in minimum..MaximalFee
    BY <1>7, Constants, MaximalFeeIsNat
<1>9. FormsTypeOK
    <2>1. Len(rows) <= RowLimit /\ 0 \in 0..2 * RowLimit /\ 0 \in 0..SizeLimit
        BY <1>3, Constants
    <2> QED BY <1>3, <1>8, <2>1 DEF FormsInit, FormsTypeOK, Rows
<1>10. MinimumPays
    BY <1>4, <1>7 DEF FormsInit, MinimumPays
<1>11. orphans = 0 /\ 1 \in 1..Len(rows) /\ \A i \in 1..Len(rows) : ~rows[i].closed
    <2>1. orphans = 0
        BY DEF FormsInit
    <2> QED BY <1>1, <1>3, <2>1
<1>12. LastStays
    BY <1>1, <1>3 DEF LastStays
<1>13. TransferRows /\ MessageRows
    BY <1>3, <1>11, Constants DEF TransferRows, MessageRows
<1> QED BY <1>9, <1>10, <1>12, <1>13 DEF IInv

\* Rows come, and go in two steps.
LEMMA AddStep ==
    ASSUME IInv, addRecipientClicked
    PROVE  IInv'
<1> DEFINE more == WithNewRow(rows)
<1>0. rows \in Rows /\ Len(rows) \in Nat /\ Len(rows) <= RowLimit /\ DOMAIN rows = 1..Len(rows)
    BY RowsTyped DEF IInv, FormsTypeOK
<1>1. orphans = 0 /\ \A i \in 1..Len(rows) : ~rows[i].closed
    BY MayEdit DEF IInv, addRecipientClicked
<1>2. CASE form = "message" /\ Len(rows) = RowLimit
    <2>1. rows' = rows /\ UNCHANGED <<minimum, fee>>
        BY <1>2 DEF addRecipientClicked, WithRecipient
    <2> QED BY <1>2, <2>1
           DEF addRecipientClicked, IInv, FormsTypeOK, MinimumPays, LastStays, TransferRows, MessageRows
<1>3. CASE ~(form = "message" /\ Len(rows) = RowLimit)
    <2>1. rows' = more
        BY <1>3 DEF addRecipientClicked, WithRecipient
    <2>2. /\ more \in Rows /\ Len(more) = Len(rows) + 1 /\ Len(more) <= RowLimit
          /\ \A i \in 1..Len(rows) :
                 more[i].size = rows[i].size /\ more[i].closed = rows[i].closed
          /\ more[Len(rows) + 1].size = 0 /\ ~more[Len(rows) + 1].closed
          /\ Len(rows) = 0 => more[1].fixed
        <3>1. Len(rows) # RowLimit
            BY <1>3 DEF addRecipientClicked
        <3>2. RowLimit \in Nat
            BY Constants
        <3>3. Len(rows) + 1 <= RowLimit
            BY <1>0, <3>1, <3>2, Below
        <3> QED BY <1>0, <3>3, WithNewRowIs
    <2> HIDE DEF more
    <2>3. \A i \in 1..Len(more) : ~more[i].closed
        BY <1>0, <1>1, <2>2
    <2>4. MinimumPays' /\ minimum' \in 0..MaximalFee /\ fee' \in minimum'..MaximalFee
        <3>1. CASE form = "message"
            <4>1. rows' # rows
                BY <1>0, <2>1, <2>2
            <4>2. Recalculate(more)
                BY <2>1, <3>1, <4>1 DEF addRecipientClicked, Recalculate
            <4> QED BY <2>1, <2>2, <4>2, Recalculated DEF addRecipientClicked, IInv
        <3>2. CASE form = "transfers"
            <4>1. CommentsPrice(more) = CommentsPrice(rows)
                BY <1>0, <2>2, SamePrice
            <4> QED BY <2>1, <3>2, <4>1 DEF addRecipientClicked, IInv, MinimumPays, FormsTypeOK
        <3> QED BY <3>1, <3>2 DEF IInv, FormsTypeOK
    <2>5. FormsTypeOK'
        BY <2>1, <2>2, <2>4 DEF addRecipientClicked, IInv, FormsTypeOK, Rows
    <2>6. LastStays'
        BY <1>0, <2>1, <2>2 DEF LastStays
    <2>7. Len(more) \in 1..Len(more) /\ Len(more) > 0
        BY <1>0, <2>2
    <2>8. TransferRows'
        <3>1. orphans' = 0
            BY <1>1 DEF addRecipientClicked
        <3> QED BY <1>0, <2>1, <2>2, <2>3, <2>7, <3>1, Constants DEF TransferRows
    <2>9. MessageRows'
        <3>1. orphans' = 0
            BY <1>1 DEF addRecipientClicked
        <3> QED BY <2>1, <2>3, <2>7, <3>1 DEF MessageRows
    <2> QED BY <2>4, <2>5, <2>6, <2>8, <2>9 DEF IInv
<1> QED BY <1>2, <1>3

\* The remove button of a row, which the last row has disabled.
LEMMA RemoveStep ==
    ASSUME IInv, NEW i \in DOMAIN rows, RemoveClicked(i)
    PROVE  IInv'
<1> DEFINE row == [rows[i] EXCEPT !.closed = TRUE]
<1>0. rows \in Rows /\ Len(rows) \in Nat /\ DOMAIN rows = 1..Len(rows) /\ i \in 1..Len(rows)
    BY RowsTyped DEF IInv
<1>1. orphans = 0 /\ \A j \in 1..Len(rows) : ~rows[j].closed
    BY MayEdit DEF IInv, RemoveClicked
<1>2. row \in FormRow /\ row.closed
    BY <1>0, RowOf DEF FormRow
<1>3. rows' = [rows EXCEPT ![i] = row]
    BY DEF RemoveClicked
<1> HIDE DEF row
<1>4. /\ rows' \in Rows /\ Len(rows') = Len(rows) /\ rows'[i] = row
      /\ \A j \in 1..Len(rows) : j # i => rows'[j] = rows[j]
    BY <1>0, <1>2, <1>3, RowChanged
<1>5. Len(rows) > 1
    BY <1>0 DEF RemoveClicked, IInv, LastStays
<1>6. \E j \in 1..Len(rows) : j # i
    BY <1>0, <1>5
<1>7. FormsTypeOK'
    BY <1>4 DEF RemoveClicked, IInv, FormsTypeOK, Rows
<1>8. MinimumPays'
    <2>1. ~UserMayEdit'
        BY <1>0, <1>2, <1>4, <1>7 DEF UserMayEdit, RowsAreClosed, Rows
    <2> QED BY <1>4, <2>1 DEF RemoveClicked, IInv, MinimumPays
<1> QED BY <1>0, <1>1, <1>2, <1>4, <1>5, <1>6, <1>7, <1>8
       DEF RemoveClicked, IInv, LastStays, TransferRows, MessageRows

\* destroyed() of a row that was removed.
LEMMA DestroyedStep ==
    ASSUME IInv, NEW i \in DOMAIN rows, RowDestroyed(i)
    PROVE  IInv'
<1> DEFINE left == Without(rows, i)
<1>0. rows \in Rows /\ Len(rows) \in Nat /\ DOMAIN rows = 1..Len(rows) /\ i \in 1..Len(rows)
    BY RowsTyped DEF IInv
<1>1. rows' = left
    BY DEF RowDestroyed
<1>2. /\ left \in Rows /\ Len(left) = Len(rows) - 1
      /\ \A j \in 1..Len(left) : left[j].closed = rows[IF j < i THEN j ELSE j + 1].closed
      /\ Len(left) = 1 => left[1].fixed
    BY <1>0, WithoutIs
<1> HIDE DEF left
<1>3. MinimumPays' /\ minimum' \in 0..MaximalFee /\ fee' \in minimum'..MaximalFee
    BY <1>0, <1>1, <1>2, Recalculated, Constants DEF RowDestroyed, IInv, FormsTypeOK
<1>4. FormsTypeOK'
    <2>1. rows' \in Rows /\ Len(rows') <= RowLimit /\ orphans' \in Nat
        BY <1>0, <1>1, <1>2, Constants DEF RowDestroyed, IInv, FormsTypeOK
    <2> QED BY <1>3, <2>1 DEF RowDestroyed, IInv, FormsTypeOK, Rows
<1>5. TransferRows'
    <2> SUFFICES ASSUME form = "transfers" PROVE TransferRows'
        BY DEF TransferRows, RowDestroyed
    <2>1. Len(rows) > 1 /\ orphans = 0
        BY <1>0, Constants DEF IInv, TransferRows, RowDestroyed, FormsTypeOK
    <2>2. \A j \in 1..Len(left) : ~left[j].closed
        <3> SUFFICES ASSUME NEW j \in 1..Len(left) PROVE ~left[j].closed
            OBVIOUS
        <3> DEFINE k == IF j < i THEN j ELSE j + 1
        <3>1. k \in 1..Len(rows) /\ k # i
            BY <1>0, <1>2
        <3>2. ~rows[k].closed
            BY <1>0, <3>1 DEF IInv, TransferRows, RowDestroyed
        <3> QED BY <1>2, <3>2
    <2> QED BY <1>0, <1>1, <1>2, <2>1, <2>2, Constants DEF TransferRows, RowDestroyed
<1>6. MessageRows'
    <2> SUFFICES ASSUME form = "message", ~resetFull
                 PROVE  \E j \in 1..Len(left) : ~left[j].closed
        BY <1>1 DEF MessageRows, RowDestroyed, IInv
    <2>1. PICK k \in 1..Len(rows) : ~rows[k].closed
        BY DEF IInv, MessageRows
    <2> DEFINE j == IF k < i THEN k ELSE k - 1
    <2>2. k # i
        BY <2>1 DEF RowDestroyed
    <2>3. j \in 1..Len(left) /\ (IF j < i THEN j ELSE j + 1) = k
        BY <1>0, <1>2, <2>2
    <2> QED BY <1>2, <2>1, <2>3
<1> QED BY <1>1, <1>2, <1>3, <1>4, <1>5, <1>6 DEF IInv, LastStays

\* destroyed() of a row that was cleared: its list has forgotten it.
LEMMA OrphanStep ==
    ASSUME IInv, OrphanDestroyed
    PROVE  IInv'
<1> DEFINE row == [rows[1] EXCEPT !.fixed = TRUE]
<1>0. rows \in Rows /\ Len(rows) <= RowLimit
    BY RowsTyped DEF IInv, FormsTypeOK
<1>1. form = "transfers" /\ Len(rows) = 1 /\ orphans \in Nat /\ orphans' = orphans - 1
    <2>1. orphans \in Nat /\ form \in {"transfers", "message"}
        BY Constants DEF IInv, FormsTypeOK
    <2>2. orphans > 0 /\ orphans' = orphans - 1
        BY DEF OrphanDestroyed
    <2>3. form = "transfers"
        BY <2>1, <2>2 DEF IInv, MessageRows
    <2> QED BY <2>1, <2>2, <2>3 DEF IInv, TransferRows
<1>2. 1 \in 1..Len(rows)
    BY <1>1
<1>3. row \in FormRow /\ row.fixed /\ row.closed = rows[1].closed /\ row.size = rows[1].size
    BY <1>0, <1>2, RowOf DEF FormRow
<1>4. rows' = [rows EXCEPT ![1] = row]
    BY <1>1 DEF OrphanDestroyed
<1> HIDE DEF row
<1>5. rows' \in Rows /\ Len(rows') = 1 /\ rows'[1] = row
    <2>1. /\ [rows EXCEPT ![1] = row] \in Rows
          /\ Len([rows EXCEPT ![1] = row]) = Len(rows)
          /\ [rows EXCEPT ![1] = row][1] = row
        BY <1>0, <1>2, <1>3, RowChanged
    <2> QED BY <1>1, <1>4, <2>1
<1>6. CommentsPrice(rows') = CommentsPrice(rows)
    BY <1>0, <1>1, <1>3, <1>5, SamePrice
<1>7. form' = "transfers" /\ updateFee(rows)
    BY <1>1 DEF OrphanDestroyed
<1>8. MinimumPays' /\ minimum' \in 0..MaximalFee /\ fee' \in minimum'..MaximalFee
    BY <1>0, <1>6, <1>7, TransfersCharged
<1>9. orphans' \in Nat /\ orphans' <= orphans
    BY <1>1, Constants DEF OrphanDestroyed
<1>10. FormsTypeOK'
    <2>1. Len(rows') <= RowLimit
        BY <1>5, Constants
    <2>2. orphans' \in 0..2 * RowLimit
        BY <1>1, <1>9, Constants DEF IInv, FormsTypeOK
    <2> QED BY <1>5, <1>8, <2>1, <2>2 DEF OrphanDestroyed, IInv, FormsTypeOK, Rows
<1>11. LastStays'
    BY <1>3, <1>5 DEF LastStays
<1>12. TransferRows'
    <2>1. ~rows'[1].closed
        BY <1>1, <1>3, <1>5 DEF IInv, TransferRows
    <2>2. orphans' <= RowLimit \/ (~sending /\ orphans' <= RowLimit + 1)
        BY <1>1, <1>9, Constants DEF IInv, TransferRows
    <2>3. sending' = sending
        BY DEF OrphanDestroyed
    <2> QED BY <1>5, <2>1, <2>2, <2>3 DEF TransferRows
<1>13. MessageRows'
    BY <1>7 DEF MessageRows
<1> QED BY <1>8, <1>10, <1>11, <1>12, <1>13 DEF IInv

\* reset() and clearAllClicked(): the form is emptied, whatever rows are on their way out.
LEMMA ClearStep ==
    ASSUME IInv, Clear, UNCHANGED <<form, onChain, known>>,
           (orphans = 0 /\ sending' = sending) \/ (sending /\ sending' = FALSE)
    PROVE  IInv'
<1>0. rows \in Rows /\ Len(rows) \in Nat /\ Len(rows) <= RowLimit
    BY RowsTyped DEF IInv, FormsTypeOK
<1>1. CASE form = "transfers"
    <2> DEFINE more == WithNewRow(<<>>)
    <2>1. rows' = more /\ orphans' = orphans + Len(rows) /\ UNCHANGED <<size, minimum, fee, resetFull>>
        BY <1>1 DEF Clear, WithRecipient
    <2>2. more \in Rows /\ Len(more) = 1 /\ more[1].fixed /\ ~more[1].closed
        <3>1. <<>> \in Rows /\ Len(<<>>) = 0
            BY DEF Rows
        <3>2. /\ more \in Rows /\ Len(more) = Len(<<>>) + 1 /\ ~more[Len(<<>>) + 1].closed
              /\ Len(<<>>) = 0 => more[1].fixed
            BY <3>1, WithNewRowIs
        <3> HIDE DEF more
        <3> QED BY <3>1, <3>2
    <2> HIDE DEF more
    <2>3. Len(rows) > 0 /\ orphans \in Nat
        BY <1>1, Constants DEF IInv, TransferRows, FormsTypeOK
    <2>4. /\ orphans' \in Nat /\ orphans' > 0
          /\ orphans' <= RowLimit \/ (~sending' /\ orphans' <= RowLimit + 1)
        <3>1. CASE orphans = 0 /\ sending' = sending
            BY <1>0, <2>1, <3>1, <2>3
        <3>2. CASE sending /\ sending' = FALSE
            <4>1. orphans <= RowLimit /\ (orphans > 0 => Len(rows) = 1)
                BY <1>1, <3>2 DEF IInv, TransferRows
            <4>2. RowLimit \in Nat
                BY Constants
            <4>3. CASE orphans = 0
                BY <1>0, <2>1, <2>3, <4>2, <4>3
            <4>4. CASE orphans > 0
                <5>1. orphans' = orphans + 1
                    BY <2>1, <4>1, <4>4
                <5>2. ~sending'
                    BY <3>2
                <5> QED BY <2>3, <4>1, <4>2, <4>4, <5>1, <5>2
            <4> QED BY <2>3, <4>3, <4>4
        <3> QED BY <3>1, <3>2
    <2>5. FormsTypeOK'
        <3>1. Len(rows') <= RowLimit /\ orphans' \in 0..2 * RowLimit
            BY <2>1, <2>2, <2>4, Constants
        <3>2. sending' \in BOOLEAN
            BY DEF IInv, FormsTypeOK
        <3> QED BY <2>1, <2>2, <3>1, <3>2 DEF IInv, FormsTypeOK, Rows
    <2>6. MinimumPays'
        <3>1. ~UserMayEdit'
            BY <2>4 DEF UserMayEdit, RowsAreClosed
        <3> QED BY <1>1, <2>1, <3>1 DEF IInv, MinimumPays
    <2>7. LastStays'
        BY <2>1, <2>2 DEF LastStays
    <2>8. TransferRows' /\ MessageRows'
        BY <1>1, <2>1, <2>2, <2>4 DEF TransferRows, MessageRows
    <2> QED BY <2>5, <2>6, <2>7, <2>8 DEF IInv
<1>2. CASE form = "message"
    <2> DEFINE gone == Closed(rows)
    <2>1. /\ rows' = WithRecipient(gone) /\ size' = 0 /\ recalculateFeeValue(rows', 0, onChain)
          /\ resetFull' = (Len(rows) = RowLimit) /\ orphans' = orphans
        BY <1>2 DEF Clear
    <2>2. gone \in Rows /\ Len(gone) = Len(rows) /\ \A i \in 1..Len(rows) : gone[i].fixed = rows[i].fixed
        BY <1>0, ClosedIs
    <2> HIDE DEF gone
    <2>3. /\ rows' \in Rows /\ Len(rows') \in 0..RowLimit
          /\ Len(rows') = 1 => rows'[1].fixed
          /\ resetFull' \/ \E i \in 1..Len(rows') : ~rows'[i].closed
        <3>1. CASE Len(rows) = RowLimit
            <4>1. rows' = gone
                BY <1>2, <2>1, <2>2, <3>1 DEF WithRecipient
            <4>2. Len(rows) = 1 => gone[1].fixed
                BY <2>2 DEF IInv, LastStays
            <4>3. Len(rows') \in 0..RowLimit
                BY <1>0, <2>2, <4>1
            <4> QED BY <2>1, <2>2, <3>1, <4>1, <4>2, <4>3
        <3>2. CASE Len(rows) # RowLimit
            <4> DEFINE more == WithNewRow(gone)
            <4>1. rows' = more
                BY <2>1, <2>2, <3>2 DEF WithRecipient
            <4>2. /\ more \in Rows /\ Len(more) = Len(rows) + 1
                  /\ ~more[Len(rows) + 1].closed
                  /\ Len(rows) = 0 => more[1].fixed
                BY <2>2, WithNewRowIs
            <4> HIDE DEF more
            <4>3. RowLimit \in Nat
                BY Constants
            <4>4. Len(rows) + 1 <= RowLimit
                BY <1>0, <3>2, <4>3, Below
            <4>5. Len(rows) + 1 \in 1..Len(more)
                BY <1>0, <4>2
            <4> QED BY <1>0, <4>1, <4>2, <4>3, <4>4, <4>5
        <3> QED BY <3>1, <3>2
    <2>4. form' = "message" /\ size' \in 0..SizeLimit /\ onChain' \in BOOLEAN /\ onChain' = onChain
        BY <1>2, <2>1, Constants DEF IInv, FormsTypeOK
    <2>5. MinimumPays' /\ minimum' \in 0..MaximalFee /\ fee' \in minimum'..MaximalFee
        BY <2>1, <2>3, <2>4, MessageCharged
    <2>6. FormsTypeOK'
        <3>1. sending' \in BOOLEAN /\ resetFull' \in BOOLEAN /\ Len(rows') <= RowLimit
            <4>1. sending' \in BOOLEAN /\ resetFull' \in BOOLEAN
                BY <2>1 DEF IInv, FormsTypeOK
            <4> QED BY <2>3, <4>1, Constants
        <3> QED BY <2>1, <2>3, <2>4, <2>5, <3>1 DEF IInv, FormsTypeOK, Rows
    <2>7. LastStays'
        BY <2>3 DEF LastStays
    <2>8. TransferRows'
        BY <2>4 DEF TransferRows
    <2>9. MessageRows'
        BY <1>2, <2>1, <2>3 DEF IInv, MessageRows
    <2> QED BY <2>5, <2>6, <2>7, <2>8, <2>9 DEF IInv
<1> QED BY <1>1, <1>2 DEF IInv, FormsTypeOK

\* The rows stay as they are; a send begins only when none is on its way out.
LEMMA RowsStay ==
    ASSUME IInv, UNCHANGED <<form, rows, orphans, resetFull>>, UserMayEdit,
           FormsTypeOK', MinimumPays'
    PROVE  IInv'
<1>1. orphans = 0
    BY MayEdit DEF IInv
<1> QED BY <1>1, Constants DEF IInv, LastStays, TransferRows, MessageRows

\* The rows change, and none is on its way out.
LEMMA RowsEdited ==
    ASSUME IInv, UNCHANGED <<form, orphans, sending, resetFull>>, UserMayEdit,
           FormsTypeOK', MinimumPays', Len(rows') > 0,
           \A i \in 1..Len(rows') : ~rows'[i].closed,
           Len(rows') = 1 => rows'[1].fixed
    PROVE  IInv'
<1>1. orphans = 0 /\ orphans' = 0
    BY MayEdit DEF IInv
<1>2. Len(rows') \in Nat /\ 1 \in 1..Len(rows')
    BY DEF FormsTypeOK
<1>3. LastStays'
    BY DEF LastStays
<1>4. TransferRows'
    BY <1>1, <1>2, Constants DEF TransferRows
<1>5. MessageRows'
    BY <1>1, <1>2 DEF MessageRows
<1> QED BY <1>3, <1>4, <1>5 DEF IInv

\* The clear button.
LEMMA ClearClickedStep == ASSUME IInv, clearAllClicked PROVE IInv'
<1>1. orphans = 0 /\ sending' = sending
    BY MayEdit DEF IInv, clearAllClicked
<1> QED BY <1>1, ClearStep DEF clearAllClicked

\* The end of a send, which clears the form when there was no error.
LEMMA CompletedStep == ASSUME IInv, NEW error \in BOOLEAN, SendCompleted(error) PROVE IInv'
<1>1. CASE error
    <2>1. UNCHANGED <<form, rows, orphans, size, onChain, minimum, fee, known, resetFull>> /\ sending' = FALSE
        BY <1>1 DEF SendCompleted
    <2> QED BY <2>1 DEF IInv, FormsTypeOK, MinimumPays, UserMayEdit, RowsAreClosed, LastStays,
                        TransferRows, MessageRows
<1>2. CASE ~error
    BY <1>2, ClearStep DEF SendCompleted
<1> QED BY <1>1, <1>2

\* A send begins.
LEMMA SendStep == ASSUME IInv, UserMayEdit, SendBegins PROVE IInv'
<1>1. FormsTypeOK'
    BY DEF SendBegins, IInv, FormsTypeOK
<1>2. MinimumPays'
    BY DEF SendBegins, IInv, MinimumPays, UserMayEdit, RowsAreClosed
<1> QED BY <1>1, <1>2, RowsStay DEF SendBegins

\* What is entered as the recipient of a row.
LEMMA AddressIs == ASSUME FormsTypeOK, NEW text \in Texts PROVE Address(text) \in Texts
BY DEF Address, Texts, FormsTypeOK

\* A field of a row that is not on its way out is edited.
LEMMA RowEdited ==
    ASSUME IInv, UserMayEdit, NEW i \in 1..Len(rows), NEW row \in FormRow,
           ~row.closed, row.fixed = rows[i].fixed, rows' = [rows EXCEPT ![i] = row],
           UNCHANGED <<form, orphans, size, onChain, known, sending, resetFull>>,
           \/ form = "transfers" /\ updateFee(rows')
           \/ row.size = rows[i].size /\ UNCHANGED <<minimum, fee>>
    PROVE  IInv'
<1>0. rows \in Rows /\ Len(rows) \in Nat /\ Len(rows) <= RowLimit
    BY RowsTyped DEF IInv, FormsTypeOK
<1>1. /\ rows' \in Rows /\ Len(rows') = Len(rows) /\ rows'[i] = row
      /\ \A j \in 1..Len(rows) : j # i => rows'[j] = rows[j]
    BY <1>0, ExceptSeq DEF Rows, FormRow
<1>2. \A j \in 1..Len(rows) : ~rows[j].closed
    BY MayEdit DEF IInv
<1>3. MinimumPays' /\ minimum' \in 0..MaximalFee /\ fee' \in minimum'..MaximalFee
    <2>1. CASE form = "transfers" /\ updateFee(rows')
        BY <1>0, <1>1, <2>1, TransfersCharged
    <2>2. CASE row.size = rows[i].size /\ UNCHANGED <<minimum, fee>>
        <3>1. \A j \in 1..Len(rows) : rows'[j].size = rows[j].size
            BY <1>1, <2>2
        <3>2. CommentsPrice(rows') = CommentsPrice(rows)
            <4>1. Len(rows') = Len(rows) /\ rows' \in Rows
                BY <1>1
            <4> QED BY <1>0, <3>1, <4>1, SameSizes
        <3> QED BY <1>1, <2>2, <3>2 DEF IInv, MinimumPays, FormsTypeOK
    <2> QED BY <2>1, <2>2
<1>4. FormsTypeOK'
    BY <1>0, <1>1, <1>3 DEF IInv, FormsTypeOK, Rows
<1>5. Len(rows') > 0 /\ \A j \in 1..Len(rows') : ~rows'[j].closed
    BY <1>0, <1>1, <1>2
<1>6. Len(rows') = 1 => rows'[1].fixed
    BY <1>0, <1>1 DEF IInv, LastStays
<1> QED BY <1>3, <1>4, <1>5, <1>6, RowsEdited

\* The address of a row.
LEMMA AddressStep ==
    ASSUME IInv, NEW i \in DOMAIN rows, NEW text \in Texts, AddressEntered(i, text)
    PROVE  IInv'
<1> DEFINE row == [rows[i] EXCEPT !.to = Address(text)]
<1>0. rows \in Rows /\ i \in 1..Len(rows) /\ rows[i] \in FormRow /\ ~rows[i].closed
    BY RowsTyped, RowOf, MayEdit DEF IInv, AddressEntered
<1>1. row \in FormRow /\ ~row.closed /\ row.fixed = rows[i].fixed /\ row.size = rows[i].size
    BY <1>0, AddressIs DEF IInv, FormRow
<1>2. rows' = [rows EXCEPT ![i] = row]
    BY DEF AddressEntered
<1> HIDE DEF row
<1> QED BY <1>0, <1>1, <1>2, RowEdited DEF AddressEntered

\* The comment of a transfer.
LEMMA CommentStep ==
    ASSUME IInv, NEW i \in DOMAIN rows, NEW length \in 0..CommentLimit, commentEdited(i, length)
    PROVE  IInv'
<1> DEFINE row == [rows[i] EXCEPT !.size = length]
<1>0. rows \in Rows /\ i \in 1..Len(rows) /\ rows[i] \in FormRow /\ ~rows[i].closed
    BY RowsTyped, RowOf, MayEdit DEF IInv, commentEdited
<1>1. row \in FormRow /\ ~row.closed /\ row.fixed = rows[i].fixed
    BY <1>0 DEF FormRow
<1>2. rows' = [rows EXCEPT ![i] = row]
    BY DEF commentEdited
<1> HIDE DEF row
<1> QED BY <1>0, <1>1, <1>2, RowEdited DEF commentEdited

\* setAddress(): the first row without an address, or a new one, is filled in.
LEMMA SetAddressStep ==
    ASSUME IInv, NEW address \in Others, setAddress(address)
    PROVE  IInv'
<1> DEFINE empty == {i \in DOMAIN rows : rows[i].to = ""}
           list == IF empty = {} THEN WithRecipient(rows) ELSE rows
           at == IF empty = {} THEN Len(list) ELSE Min(empty)
           row == [list[at] EXCEPT !.to = address]
<1>0. /\ rows \in Rows /\ Len(rows) \in Nat /\ DOMAIN rows = 1..Len(rows)
      /\ form = "transfers" /\ UserMayEdit /\ Len(rows) > 0
    BY RowsTyped DEF IInv, setAddress, TransferRows
<1>13. Len(rows) = 1 => rows[1].fixed
    BY DEF IInv, LastStays
<1>1. \A i \in 1..Len(rows) : ~rows[i].closed
    BY MayEdit DEF IInv, setAddress
<1>2. Len(list) <= RowLimit /\ rows' = [list EXCEPT ![at] = row]
    BY DEF setAddress
<1>3. /\ list \in Rows /\ Len(list) >= Len(rows)
      /\ \A i \in 1..Len(list) : ~list[i].closed
      /\ Len(list) = 1 => list[1].fixed
      /\ CommentsPrice(list) = CommentsPrice(rows)
    <2>1. CASE empty = {}
        <3> DEFINE more == WithNewRow(rows)
        <3>1. list = more
            BY <1>0, <2>1 DEF WithRecipient
        <3>2. /\ more \in Rows /\ Len(more) = Len(rows) + 1
              /\ \A i \in 1..Len(rows) :
                     more[i].size = rows[i].size /\ more[i].closed = rows[i].closed
              /\ more[Len(rows) + 1].size = 0 /\ ~more[Len(rows) + 1].closed
            BY <1>0, WithNewRowIs
        <3> HIDE DEF more, list
        <3>3. CommentsPrice(more) = CommentsPrice(rows)
            BY <1>0, <3>2, SamePrice
        <3> QED BY <1>0, <1>1, <3>1, <3>2, <3>3
    <2>2. CASE empty # {}
        <3>1. list = rows
            BY <2>2
        <3> HIDE DEF list
        <3> QED BY <1>0, <1>1, <1>13, <3>1
    <2> QED BY <2>1, <2>2
<1>4. at \in 1..Len(list)
    <2>1. CASE empty = {}
        <3>1. at = Len(list)
            BY <2>1
        <3> HIDE DEF list, at
        <3>2. Len(list) \in Nat
            BY <1>3 DEF Rows
        <3> QED BY <1>0, <1>3, <3>1, <3>2
    <2>2. CASE empty # {}
        <3>1. empty \in SUBSET Nat
            <4>1. \A i \in empty : i \in 1..Len(rows)
                BY <1>0
            <4> HIDE DEF empty
            <4> QED BY <4>1
        <3>2. Min(empty) \in empty
            BY <2>2, <3>1, LeastMember
        <3> QED BY <1>0, <2>2, <3>2
    <2> QED BY <2>1, <2>2
<1> HIDE DEF list, at, empty
<1>5. list[at] \in FormRow /\ ~list[at].closed
    BY <1>3, <1>4, RowOf
<1>6. row \in FormRow /\ ~row.closed /\ row.fixed = list[at].fixed /\ row.size = list[at].size
    BY <1>5 DEF FormRow, Texts
<1> HIDE DEF row
<1>7. /\ rows' \in Rows /\ Len(rows') = Len(list) /\ rows'[at] = row
      /\ \A j \in 1..Len(list) : j # at => rows'[j] = list[j]
    BY <1>2, <1>3, <1>4, <1>6, ExceptSeq DEF Rows, FormRow
<1>8. CommentsPrice(rows') = CommentsPrice(rows)
    <2>1. \A j \in 1..Len(list) : rows'[j].size = list[j].size
        BY <1>6, <1>7
    <2>2. Len(list) \in Nat
        BY <1>3 DEF Rows
    <2>3. CommentsPrice(rows') = CommentsPrice(list)
        BY <1>3, <1>7, <2>1, <2>2, SamePrice
    <2> QED BY <1>3, <2>3
<1>9. FormsTypeOK'
    BY <1>2, <1>7 DEF IInv, FormsTypeOK, Rows, setAddress
<1>10. MinimumPays'
    BY <1>0, <1>8 DEF IInv, MinimumPays, setAddress
<1>11. Len(rows') > 0 /\ \A j \in 1..Len(rows') : ~rows'[j].closed
    <2>1. Len(list) \in Nat
        BY <1>3 DEF Rows
    <2> QED BY <1>0, <1>3, <1>6, <1>7, <2>1
<1>12. Len(rows') = 1 => rows'[1].fixed
    BY <1>3, <1>4, <1>6, <1>7
<1> QED BY <1>0, <1>9, <1>10, <1>11, <1>12, RowsEdited DEF setAddress

\* setAddress() of a message: the form begins anew with one row.
LEMMA WriteStep == ASSUME IInv, NEW address \in Others, WriteTo(address) PROVE IInv'
<1> DEFINE row == [NewRow EXCEPT !.to = address, !.fixed = TRUE]
<1>1. row \in FormRow /\ row.fixed /\ ~row.closed
    BY NewRowIsRow DEF NewRow, FormRow, Texts
<1>2. rows' = <<row>>
    BY DEF WriteTo
<1> HIDE DEF row
<1>3. rows' \in Rows /\ Len(rows') = 1 /\ rows'[1] = row
    BY <1>1, <1>2 DEF Rows, FormRow
<1>4. /\ form' = "message" /\ size' = 0 /\ size' \in 0..SizeLimit /\ onChain' = onChain
      /\ onChain' \in BOOLEAN /\ recalculateFeeValue(rows', size', onChain')
    BY Constants DEF WriteTo, IInv, FormsTypeOK
<1>5. Len(rows') \in 0..RowLimit
    BY <1>3, Constants
<1>6. MinimumPays' /\ minimum' \in 0..MaximalFee /\ fee' \in minimum'..MaximalFee
    BY <1>4, <1>5, MessageCharged
<1>7. FormsTypeOK'
    <2>1. Len(rows') <= RowLimit
        BY <1>5, Constants
    <2> QED BY <1>3, <1>4, <1>6, <2>1 DEF WriteTo, IInv, FormsTypeOK, Rows
<1>8. Len(rows') > 0 /\ (\A j \in 1..Len(rows') : ~rows'[j].closed) /\ rows'[1].fixed
    BY <1>1, <1>3
<1> QED BY <1>6, <1>7, <1>8, RowsEdited DEF WriteTo

\* The text of a message, and the choice to keep it on the chain.
LEMMA MessageStep ==
    ASSUME IInv, form = "message", UserMayEdit, UNCHANGED <<form, rows, orphans, known, sending, resetFull>>,
           size' \in 0..SizeLimit, onChain' \in BOOLEAN,
           recalculateFeeValue(rows', size', onChain')
    PROVE  IInv'
<1>1. Len(rows') \in 0..RowLimit
    BY RowsTyped, Constants DEF IInv, FormsTypeOK
<1>2. MinimumPays' /\ minimum' \in 0..MaximalFee /\ fee' \in minimum'..MaximalFee
    BY <1>1, MessageCharged
<1>3. FormsTypeOK'
    BY <1>2 DEF IInv, FormsTypeOK
<1> QED BY <1>2, <1>3, RowsStay

\* The fee field, above its minimum.
LEMMA FeeStep == ASSUME IInv, NEW more \in 0..Raise, FeeEntered(more) PROVE IInv'
<1>1. /\ UNCHANGED <<form, rows, orphans, size, onChain, minimum, known, sending, resetFull>>
      /\ fee' = minimum + more /\ UserMayEdit
    BY DEF FeeEntered
<1>2. minimum \in Nat /\ more \in Nat /\ minimum + Raise <= MaximalFee /\ more <= Raise
    BY Constants, MaximalFeeIsNat DEF IInv, FormsTypeOK, MinimumPays
<1>3. fee' \in minimum'..MaximalFee
    BY <1>1, <1>2, Constants, MaximalFeeIsNat
<1>4. FormsTypeOK'
    BY <1>1, <1>3 DEF IInv, FormsTypeOK
<1>5. MinimumPays'
    BY <1>1 DEF IInv, MinimumPays, UserMayEdit, RowsAreClosed
<1> QED BY <1>1, <1>4, <1>5, RowsStay

\* A new contact.
LEMMA ContactStep ==
    ASSUME IInv, NEW address \in Others, NEW label, addClicked(address, label)
    PROVE  IInv'
<1>1. FormsTypeOK'
    BY DEF IInv, FormsTypeOK, addClicked
<1>2. MinimumPays'
    BY DEF IInv, MinimumPays, addClicked, UserMayEdit, RowsAreClosed
<1> QED BY <1>1, <1>2, RowsStay DEF addClicked

\* Every step keeps the invariant.
LEMMA NextKeeps == ASSUME IInv, [FormsNext]_formVars PROVE IInv'
<1>1. CASE addRecipientClicked
    BY <1>1, AddStep
<1>2. CASE clearAllClicked
    BY <1>2, ClearClickedStep
<1>3. CASE ttlCheckStateChanged
    BY <1>3, MessageStep DEF ttlCheckStateChanged, IInv, FormsTypeOK
<1>4. CASE SendTransfers
    BY <1>4, SendStep DEF SendTransfers, MaySendTransfers
<1>5. CASE \E i \in DOMAIN rows : RemoveClicked(i)
    BY <1>5, RemoveStep
<1>6. CASE \E i \in DOMAIN rows, text \in Texts : AddressEntered(i, text)
    BY <1>6, AddressStep
<1>7. CASE \E i \in DOMAIN rows, length \in 0..CommentLimit : commentEdited(i, length)
    BY <1>7, CommentStep
<1>8. CASE \E length \in 0..SizeLimit : messageTextChanged(length)
    BY <1>8, MessageStep DEF messageTextChanged, IInv, FormsTypeOK
<1>9. CASE \E more \in 0..Raise : FeeEntered(more)
    BY <1>9, FeeStep
<1>10. CASE \E address \in Others : WriteTo(address) \/ addClicked(address, Named[address])
    BY <1>10, WriteStep, ContactStep
<1>11. CASE \E contact \in Others : sendTo(contact) \/ payTo(contact)
    BY <1>11, WriteStep, SetAddressStep DEF sendTo, payTo
<1>12. CASE \E balance \in Amounts : SendMessage(balance)
    BY <1>12, SendStep DEF SendMessage, MaySendMessage
<1>13. CASE \E amount, balance \in Amounts : depositClicked(amount, balance)
    BY <1>13, SendStep DEF depositClicked
<1>14. CASE \E i \in DOMAIN rows : RowDestroyed(i)
    BY <1>14, DestroyedStep
<1>15. CASE OrphanDestroyed
    BY <1>15, OrphanStep
<1>16. CASE \E error \in BOOLEAN : SendCompleted(error)
    BY <1>16, CompletedStep
<1>17. CASE UNCHANGED formVars
    BY <1>17 DEF formVars, IInv, FormsTypeOK, MinimumPays, UserMayEdit, RowsAreClosed, LastStays,
                 TransferRows, MessageRows
<1> QED BY <1>1, <1>2, <1>3, <1>4, <1>5, <1>6, <1>7, <1>8, <1>9, <1>10, <1>11, <1>12, <1>13,
           <1>14, <1>15, <1>16, <1>17 DEF FormsNext, FormsUser

\* The invariant holds in every behaviour.
LEMMA Inductive == FormsSpec => []IInv
<1>1. FormsInit => IInv
    BY InitInductive
<1>2. IInv /\ [FormsNext]_formVars => IInv'
    BY NextKeeps
<1> QED BY <1>1, <1>2, PTL DEF FormsSpec

-----------------------------------------------------------------------------
(* What the fee pays for. *)

\* The recipients of a message are rows of it.
LEMMA RecipientsAreRows ==
    ASSUME FormsTypeOK
    PROVE  Cardinality(Recipients) \in Nat /\ Cardinality(Recipients) <= Len(rows)
<1>1. Len(rows) \in Nat /\ DOMAIN rows = 1..Len(rows)
    BY RowsTyped
<1>2. Recipients \subseteq 1..Len(rows)
    BY <1>1 DEF Recipients
<1>3. IsFiniteSet(1..Len(rows)) /\ Cardinality(1..Len(rows)) = Len(rows)
    <2>1. /\ IsFiniteSet(1..Len(rows))
          /\ Cardinality(1..Len(rows)) = IF 1 > Len(rows) THEN 0 ELSE Len(rows) - 1 + 1
        BY <1>1, FS_Interval
    <2> QED BY <1>1, <2>1
<1>4. IsFiniteSet(Recipients) /\ Cardinality(Recipients) <= Cardinality(1..Len(rows))
    BY <1>2, <1>3, FS_Subset
<1> QED BY <1>3, <1>4, FS_CardinalityType

\* What is taken from a fee that covers it leaves the rest: nothing wraps.
LEMMA RestOfFee ==
    ASSUME NEW all \in Nat, NEW part \in Nat, part <= all, all < Wrap
    PROVE  part + ((all - part + Wrap) % Wrap) = all
<1>1. Wrap \in Nat
    BY Constants
<1>2. all - part \in 0..(Wrap - 1)
    BY <1>1
<1> DEFINE rest == all - part
<1>3. (rest + Wrap) % Wrap = rest
    <2> HIDE DEF rest
    <2>1. rest \in Nat /\ rest < Wrap
        BY <1>1, <1>2 DEF rest
    <2> QED BY <1>1, <2>1
<1>4. part + rest = all
    OBVIOUS
<1>5. part + ((rest + Wrap) % Wrap) = all
    <2> HIDE DEF rest
    <2> QED BY <1>3, <1>4
<1> QED BY <1>5

\* More recipients cost more.
LEMMA MorePay ==
    ASSUME NEW a \in Nat, NEW b \in 0..RowLimit, a <= b, NEW length \in 0..SizeLimit
    PROVE  MessagePrice(a, length) <= MessagePrice(b, length)
<1> DEFINE text == Max({length - 1, 0}) * CHAR_PRICE
<1>1. text \in Nat
    <2>1. length \in Nat
        BY Constants
    <2>2. Max({length - 1, 0}) \in Nat
        BY <2>1, MaxOfTwo
    <2> QED BY <2>2, Constants, Products
<1>2. a * MESSAGE_AMOUNT \in Nat /\ b * MESSAGE_AMOUNT \in Nat /\ a * MESSAGE_AMOUNT <= b * MESSAGE_AMOUNT
    BY Constants, Products
<1> HIDE DEF text
<1>3. /\ MessagePrice(a, length) = a * MESSAGE_AMOUNT + text
      /\ MessagePrice(b, length) = b * MESSAGE_AMOUNT + text
    BY DEF MessagePrice, text
<1> QED BY <1>1, <1>2, <1>3

\* With the minimum at what the form costs, the fee pays for what is sent.
LEMMA PaysForAll == IInv => PaidIsShown
<1> SUFFICES ASSUME IInv PROVE PaidIsShown
    OBVIOUS
<1>1. /\ minimum \in Nat /\ fee \in Nat /\ minimum <= fee /\ fee < Wrap /\ Read(fee) = fee
    <2>1. minimum \in Nat /\ fee \in Nat /\ minimum <= fee /\ fee <= MaximalFee
        BY MaximalFeeIsNat DEF IInv, FormsTypeOK
    <2> QED BY <2>1, MaximalFeeIsNat, Constants, ReadIsShown
<1>2. ASSUME MaySendTransfers PROVE CommentsPrice(rows) <= fee
    BY <1>1, <1>2 DEF MaySendTransfers, IInv, MinimumPays
<1>3. ASSUME onChain, NEW balance, MaySendMessage(balance)
      PROVE  PaidToRecipients + NetworkFee = fee /\ MessagePrice(Cardinality(Recipients), size) <= fee
    <2> DEFINE n == Cardinality(Recipients)
    <2>1. n \in Nat /\ n <= Len(rows) /\ Len(rows) \in 0..RowLimit /\ size \in 0..SizeLimit
        BY RecipientsAreRows, RowsTyped, Constants DEF IInv, FormsTypeOK
    <2>2. minimum = MessagePrice(Len(rows), size)
        BY <1>3 DEF MaySendMessage, IInv, MinimumPays
    <2> HIDE DEF n
    <2>3. MessagePrice(n, size) <= fee
        <3>1. MessagePrice(n, size) <= MessagePrice(Len(rows), size)
            BY <2>1, MorePay
        <3>2. n \in 0..RowLimit
            BY <2>1, Constants
        <3>3. MessagePrice(n, size) \in Nat
            BY <2>1, <3>2, MessagePriceBounds
        <3> QED BY <1>1, <2>2, <3>1, <3>3
    <2>4. n * MESSAGE_AMOUNT \in Nat /\ n * MESSAGE_AMOUNT <= fee
        <3>1. n \in 0..RowLimit
            BY <2>1, Constants
        <3>2. /\ MessagePrice(n, size) \in Nat /\ n * MESSAGE_AMOUNT \in Nat
              /\ n * MESSAGE_AMOUNT <= MessagePrice(n, size)
            BY <2>1, <3>1, MessagePriceBounds
        <3> QED BY <1>1, <2>3, <3>2
    <2>5. PaidToRecipients = n * MESSAGE_AMOUNT
        BY <2>1, Constants DEF PaidToRecipients, n
    <2>6. NetworkFee = (fee - PaidToRecipients + Wrap) % Wrap
        BY <1>1, <1>3 DEF NetworkFee
    <2>7. PaidToRecipients \in Nat /\ PaidToRecipients <= fee
        BY <2>4, <2>5
    <2>8. PaidToRecipients + NetworkFee = fee
        <3>1. PaidToRecipients + ((fee - PaidToRecipients + Wrap) % Wrap) = fee
            BY <1>1, <2>7, RestOfFee
        <3> QED BY <2>6, <3>1
    <2> QED BY <2>3, <2>8 DEF n
<1> QED BY <1>1, <1>2, <1>3 DEF PaidIsShown

-----------------------------------------------------------------------------
(* The forms keep their promises whatever the user enters, however rows    *)
(* are closed, and whenever the end of a send comes.                       *)

\* The lists of rows stay within the limit, and the fee field within what a form can cost.
THEOREM FormsTyped == FormsSpec => []FormsTypeOK
<1>1. IInv => FormsTypeOK
    BY DEF IInv
<1> QED BY <1>1, Inductive, PTL

\* Whenever a send is taken, what leaves is what the field shows and pays for what is sent.
THEOREM FormsPaidIsShown == FormsSpec => []PaidIsShown
BY PaysForAll, Inductive, PTL

\* A form has a row to fill in, but for a full message that reset() has cleared.
THEOREM FormsRowsKept == FormsSpec => []RowsKept
<1>1. IInv => RowsKept
    <2> SUFFICES ASSUME IInv, rows = <<>> PROVE form = "message" /\ resetFull
        BY DEF RowsKept
    <2>1. Len(rows) = 0
        OBVIOUS
    <2> QED BY <2>1 DEF IInv, TransferRows, MessageRows, FormsTypeOK
<1> QED BY <1>1, Inductive, PTL

-----------------------------------------------------------------------------
(***************************************************************************)
(* Mail                                                                    *)
(***************************************************************************)
\* What is between the colons is a member of S.
LinesOver(S) == Seq(S) \ {<<>>}
TextsOver(S) == Seq(LinesOver(S))
HeadersOver(S) == Seq(S \X S)

\* The line between the header and the text.
EmptyLine == <<"">>

\* The provers do not tell that a string is one.
Parts == STRING \cup {"", "From"}

\* The constants, part by part.
LEMMA MailConstants ==
    /\ Bodies \subseteq TextsOver(STRING)
    /\ Addresses \subseteq STRING /\ None \in STRING /\ None \notin Addresses /\ None # "Me"
    /\ "Me" \notin Addresses /\ "-" \notin Addresses /\ Users \subseteq Addresses
BY MailAssumption DEF MailAssumption, TextsOver, LinesOver, Addresses

LEMMA LinesOf ==
    ASSUME NEW S, NEW text \in TextsOver(S)
    PROVE  /\ Len(text) \in Nat /\ DOMAIN text = 1..Len(text)
           /\ \A i \in 1..Len(text) : text[i] \in LinesOver(S) /\ text[i] \in Seq(S) /\ text[i] # <<>>
BY ElementOfSeq DEF TextsOver, LinesOver

LEMMA EmptyIsBlank == \A line : isEmpty(line) => Blank(line)
BY Zenon DEF isEmpty, Blank

LEMMA TwoParts ==
    ASSUME NEW S, NEW a \in S, NEW b \in S
    PROVE  /\ <<a, b>> \in Seq(S) \ {<<>>} /\ Len(<<a, b>>) = 2
           /\ \A c : <<a, b>> # <<c>>
OBVIOUS

LEMMA OnePart == ASSUME NEW S, NEW a \in S PROVE <<a>> \in Seq(S) \ {<<>>} /\ Len(<<a>>) = 1
OBVIOUS

LEMMA PairIs == ASSUME NEW a, NEW b PROVE <<a>> \o <<b>> = <<a, b>>
<1> DEFINE S == {a, b}
<1>1. <<a>> \in Seq(S) /\ <<b>> \in Seq(S) /\ Len(<<a>>) = 1 /\ Len(<<b>>) = 1 /\ <<a>>[1] = a /\ <<b>>[1] = b
    OBVIOUS
<1>2. <<a, b>> \in Seq(S) /\ Len(<<a, b>>) = 2 /\ <<a, b>>[1] = a /\ <<a, b>>[2] = b
    OBVIOUS
<1> HIDE DEF S
<1>3. /\ <<a>> \o <<b>> \in Seq(S) /\ Len(<<a>> \o <<b>>) = 2
      /\ (<<a>> \o <<b>>)[1] = a /\ (<<a>> \o <<b>>)[2] = b
    BY <1>1, ConcatProperties
<1>4. \A i \in 1..2 : (<<a>> \o <<b>>)[i] = <<a, b>>[i]
    BY <1>2, <1>3
<1> QED BY <1>2, <1>3, <1>4, SeqEqual

LEMMA SingleIs == ASSUME NEW S, NEW s \in Seq(S), Len(s) = 1 PROVE s = <<s[1]>>
OBVIOUS

LEMMA SeqOfMore == ASSUME NEW S, NEW T, S \subseteq T, NEW s \in Seq(S) PROVE s \in Seq(T)
OBVIOUS

\* The lines in front of a text.
LEMMA FromLine ==
    ASSUME NEW u \in STRING
    PROVE  /\ <<"From", u>> \in LinesOver(Parts) /\ ~Blank(<<"From", u>>) /\ Len(<<"From", u>>) = 2
           /\ EmptyLine \in LinesOver(Parts) /\ isEmpty(EmptyLine)
<1>1. "From" \in Parts /\ "" \in Parts /\ u \in Parts
    BY Zenon DEF Parts
<1>2. <<"From", u>> \in Seq(Parts) \ {<<>>} /\ Len(<<"From", u>>) = 2 /\ \A c : <<"From", u>> # <<c>>
    BY <1>1, TwoParts, Zenon
<1>3. <<"">> \in Seq(Parts) \ {<<>>}
    BY <1>1, OnePart, Zenon
<1> QED BY <1>2, <1>3, Zenon DEF LinesOver, Blank, isEmpty, EmptyLine

\* A text and a header of one line.
LEMMA PutTogether ==
    ASSUME NEW S, NEW line \in LinesOver(S), NEW body
    PROVE  makeTextMessage(body, <<line>>) = <<line, EmptyLine>> \o body
<1>1. <<line>> # <<>>
    OBVIOUS
<1>2. <<line>> \o <<EmptyLine>> = <<line, EmptyLine>>
    BY PairIs
<1>3. makeTextMessage(body, <<line>>) = <<line>> \o <<EmptyLine>> \o body
    BY <1>1, Zenon DEF makeTextMessage, EmptyLine
<1> QED BY <1>2, <1>3

\* A sequence after two other elements.
LEMMA AfterTwo ==
    ASSUME NEW S, NEW a \in S, NEW b \in S, NEW s \in Seq(S)
    PROVE  /\ <<a, b>> \o s \in Seq(S) /\ Len(<<a, b>> \o s) = Len(s) + 2
           /\ (<<a, b>> \o s)[1] = a /\ (<<a, b>> \o s)[2] = b
           /\ \A i \in 1..Len(s) : (<<a, b>> \o s)[i + 2] = s[i]
<1>1. <<a, b>> \in Seq(S) /\ Len(<<a, b>>) = 2 /\ <<a, b>>[1] = a /\ <<a, b>>[2] = b /\ Len(s) \in Nat
    OBVIOUS
<1> QED BY <1>1, ConcatProperties

\* The lines of a text from any of them on.
LEMMA TailOfText ==
    ASSUME NEW S, NEW text \in TextsOver(S), NEW m \in 1..(Len(text) + 1)
    PROVE  /\ SubSeq(text, m, Len(text)) \in TextsOver(S)
           /\ Len(SubSeq(text, m, Len(text))) = Len(text) - m + 1
           /\ \A i \in 1..(Len(text) - m + 1) : SubSeq(text, m, Len(text))[i] = text[m + i - 1]
<1>1. Len(text) \in Nat /\ \A i \in m..Len(text) : text[i] \in LinesOver(S)
    BY LinesOf, ElementOfSeq DEF TextsOver
<1> QED BY <1>1, SubSeqProperties DEF TextsOver

LEMMA HeadOfText ==
    ASSUME NEW S, NEW text \in TextsOver(S), NEW n \in 0..Len(text)
    PROVE  /\ SubSeq(text, 1, n) \in TextsOver(S)
           /\ Len(SubSeq(text, 1, n)) = n
           /\ \A i \in 1..n : SubSeq(text, 1, n)[i] = text[i]
<1>1. Len(text) \in Nat /\ \A i \in 1..n : text[i] \in LinesOver(S)
    BY LinesOf, ElementOfSeq DEF TextsOver
<1> QED BY <1>1, SubSeqProperties DEF TextsOver

\* A text with something in it starts there.
LEMMA StartsWritten ==
    ASSUME NEW S, NEW text \in TextsOver(S)
    PROVE  /\ WithoutLeadingBlanks(text) \in TextsOver(S)
           /\ (\E i \in DOMAIN text : ~Blank(text[i])) =>
                  Len(WithoutLeadingBlanks(text)) >= 1 /\ ~Blank(WithoutLeadingBlanks(text)[1])
<1> DEFINE written == {i \in DOMAIN text : ~Blank(text[i])}
<1>1. DOMAIN text = 1..Len(text) /\ Len(text) \in Nat
    BY LinesOf
<1>2. CASE written = {}
    <2>1. WithoutLeadingBlanks(text) = <<>>
        BY <1>2 DEF WithoutLeadingBlanks
    <2> QED BY <2>1, <1>2 DEF TextsOver
<1>3. CASE written # {}
    <2>1. Min(written) \in written
        BY <1>1, <1>3, LeastMember
    <2>2. Min(written) \in 1..Len(text) /\ ~Blank(text[Min(written)])
        BY <2>1, <1>1
    <2>3. WithoutLeadingBlanks(text) = SubSeq(text, Min(written), Len(text))
        BY <1>3 DEF WithoutLeadingBlanks
    <2> HIDE DEF written
    <2> DEFINE m == Min(written)
    <2>4. m \in 1..Len(text) /\ ~Blank(text[m]) /\ WithoutLeadingBlanks(text) = SubSeq(text, m, Len(text))
        BY <2>2, <2>3
    <2> HIDE DEF m
    <2>5. /\ SubSeq(text, m, Len(text)) \in TextsOver(S)
          /\ Len(SubSeq(text, m, Len(text))) = Len(text) - m + 1
          /\ SubSeq(text, m, Len(text))[1] = text[m]
        BY <2>4, <1>1, TailOfText
    <2> QED BY <2>4, <2>5, <1>1
<1> QED BY <1>2, <1>3

\* A text that starts with something is read from its first line.
LEMMA StartsAtOnce ==
    ASSUME NEW S, NEW text \in TextsOver(S), Len(text) >= 1, ~Blank(text[1])
    PROVE  WithoutLeadingBlanks(text) = text
<1> DEFINE written == {i \in DOMAIN text : ~Blank(text[i])}
<1>1. DOMAIN text = 1..Len(text) /\ Len(text) \in Nat
    BY LinesOf
<1>2. 1 \in written
    BY <1>1
<1>3. Min(written) = 1
    BY <1>1, <1>2 DEF Min
<1>4. WithoutLeadingBlanks(text) = SubSeq(text, 1, Len(text))
    BY <1>2, <1>3 DEF WithoutLeadingBlanks
<1> QED BY <1>1, <1>4 DEF TextsOver

\* What parseMessage() takes for the header.
HeadOf(lines) ==
    LET empty == {i \in DOMAIN lines : isEmpty(lines[i])}
    IN IF empty = {} THEN lines ELSE SubSeq(lines, 1, Min(empty) - 1)

LEMMA HeadIsText ==
    ASSUME NEW S, NEW lines \in TextsOver(S)
    PROVE  /\ HeadOf(lines) \in TextsOver(S)
           /\ Len(lines) >= 1 /\ ~Blank(lines[1]) =>
                  Len(HeadOf(lines)) >= 1 /\ HeadOf(lines)[1] = lines[1]
<1> DEFINE empty == {i \in DOMAIN lines : isEmpty(lines[i])}
<1>1. DOMAIN lines = 1..Len(lines) /\ Len(lines) \in Nat
    BY LinesOf
<1>2. CASE empty = {}
    BY <1>2 DEF HeadOf
<1>3. CASE empty # {}
    <2>1. Min(empty) \in empty
        BY <1>1, <1>3, LeastMember
    <2> DEFINE m == Min(empty)
    <2>2. m \in 1..Len(lines) /\ isEmpty(lines[m])
        BY <2>1, <1>1
    <2>3. HeadOf(lines) = SubSeq(lines, 1, m - 1)
        BY <1>3, Zenon DEF HeadOf
    <2> HIDE DEF m
    <2>4. /\ SubSeq(lines, 1, m - 1) \in TextsOver(S) /\ Len(SubSeq(lines, 1, m - 1)) = m - 1
          /\ \A i \in 1..(m - 1) : SubSeq(lines, 1, m - 1)[i] = lines[i]
        BY <2>2, <1>1, HeadOfText
    <2>5. ~Blank(lines[1]) => m # 1
        BY <2>2, EmptyIsBlank
    <2> QED BY <1>1, <2>2, <2>3, <2>4, <2>5
<1> QED BY <1>2, <1>3

\* A header has two parts in each line.
LEMMA HeaderTyped ==
    ASSUME NEW S, NEW text \in TextsOver(S)
    PROVE  parseMessage(text).header \in HeadersOver(S)
<1> DEFINE lines == WithoutLeadingBlanks(text)
<1> DEFINE head == HeadOf(lines)
<1> DEFINE pairs == [i \in DOMAIN head |-> <<head[i][1], head[i][2]>>]
<1>1. parseMessage(text).header = IF \A i \in DOMAIN head : Len(head[i]) >= 2 THEN pairs ELSE <<>>
    BY Zenon DEF parseMessage, HeadOf
<1>2. head \in TextsOver(S)
    BY StartsWritten, HeadIsText
<1> HIDE DEF head
<1>3. Len(head) \in Nat /\ DOMAIN head = 1..Len(head) /\ \A i \in 1..Len(head) : head[i] \in Seq(S)
    BY <1>2, LinesOf
<1>4. ASSUME \A i \in DOMAIN head : Len(head[i]) >= 2
      PROVE  pairs \in HeadersOver(S)
    <2>1. ASSUME NEW i \in 1..Len(head) PROVE <<head[i][1], head[i][2]>> \in S \X S
        <3>1. head[i] \in Seq(S) /\ Len(head[i]) \in Nat /\ 1 \in 1..Len(head[i]) /\ 2 \in 1..Len(head[i])
            BY <1>3, <1>4
        <3>2. head[i][1] \in S /\ head[i][2] \in S
            BY <3>1, ElementOfSeq
        <3> QED BY <3>2
    <2> QED BY <2>1, <1>3 DEF HeadersOver
<1>5. <<>> \in HeadersOver(S)
    BY DEF HeadersOver
<1> QED BY <1>1, <1>4, <1>5

\* A value is found in a header.
LEMMA ValueTyped ==
    ASSUME NEW S, NEW text \in TextsOver(S), NEW key
    PROVE  getHeaderValue(text, key) \in S \cup {None}
<1> DEFINE header == parseMessage(text).header
<1> DEFINE found == {i \in DOMAIN header : header[i][1] = key}
<1>1. header \in HeadersOver(S)
    BY HeaderTyped
<1>2. getHeaderValue(text, key) = IF found = {} THEN None ELSE header[Min(found)][2]
    BY DEF getHeaderValue, FirstValue
<1> HIDE DEF header
<1>3. header \in Seq(S \X S) /\ DOMAIN header = 1..Len(header) /\ Len(header) \in Nat
    BY <1>1 DEF HeadersOver
<1>4. CASE found # {}
    <2>1. Min(found) \in found
        <3>1. found \in SUBSET Nat
            BY <1>3
        <3> QED BY <3>1, <1>4, LeastMember
    <2>2. header[Min(found)] \in S \X S
        BY <2>1, <1>3, ElementOfSeq
    <2> QED BY <2>2, <1>2, <1>4
<1> QED BY <1>2, <1>4

\* A text that names its writer is read as it was put together.
LEMMA NamedIsRead ==
    ASSUME NEW u \in Users, NEW body \in Bodies, \E i \in DOMAIN body : ~Blank(body[i])
    PROVE  parseMessage(makeTextMessage(body, <<<<"From", u>>>>)) =
               [header |-> <<<<"From", u>>>>, message |-> body]
<1> DEFINE from == <<"From", u>>
<1>1. body \in TextsOver(Parts) /\ Len(body) \in Nat /\ Len(body) >= 1
    <2>1. body \in TextsOver(STRING) /\ STRING \subseteq Parts
        BY MailConstants, Zenon DEF Parts
    <2>2. \A i \in 1..Len(body) : body[i] \in LinesOver(Parts)
        <3> SUFFICES ASSUME NEW i \in 1..Len(body) PROVE body[i] \in LinesOver(Parts)
            OBVIOUS
        <3>1. body[i] \in Seq(STRING) /\ body[i] # <<>>
            BY <2>1, LinesOf
        <3>2. body[i] \in Seq(Parts)
            BY <2>1, <3>1, SeqOfMore
        <3> QED BY <3>1, <3>2 DEF LinesOver
    <2>3. Len(body) \in Nat /\ DOMAIN body = 1..Len(body)
        BY <2>1, LinesOf
    <2> QED BY <2>1, <2>2, <2>3 DEF TextsOver
<1>2. from \in LinesOver(Parts) /\ ~Blank(from) /\ Len(from) = 2 /\ from = <<from[1], from[2]>>
    <2>1. u \in STRING
        BY MailConstants
    <2>2. from = <<from[1], from[2]>>
        OBVIOUS
    <2> QED BY <2>1, <2>2, FromLine, Zenon
<1>3. EmptyLine \in LinesOver(Parts) /\ isEmpty(EmptyLine)
    BY FromLine, MailConstants
<1> HIDE DEF from
<1> DEFINE text == <<from, EmptyLine>> \o body
<1>4. makeTextMessage(body, <<from>>) = text
    BY <1>2, PutTogether
<1>5. /\ text \in TextsOver(Parts) /\ Len(text) = Len(body) + 2
      /\ text[1] = from /\ text[2] = EmptyLine
      /\ \A i \in 1..Len(body) : text[i + 2] = body[i]
    BY <1>1, <1>2, <1>3, AfterTwo DEF TextsOver
<1> HIDE DEF text
<1>6. ~Blank(text[1]) /\ ~isEmpty(text[1]) /\ isEmpty(text[2])
    BY <1>2, <1>3, <1>5, EmptyIsBlank
<1>7. WithoutLeadingBlanks(text) = text
    BY <1>1, <1>5, <1>6, StartsAtOnce
<1> DEFINE empty == {i \in DOMAIN text : isEmpty(text[i])}
<1>8. empty # {} /\ Min(empty) = 2
    <2>1. DOMAIN text = 1..Len(text)
        BY <1>5, LinesOf
    <2>2. empty \subseteq Nat \ {0, 1} /\ 2 \in empty
        BY <2>1, <1>1, <1>5, <1>6
    <2> QED BY <2>2 DEF Min
<1>9. HeadOf(text) = SubSeq(text, 1, 1)
    <2>1. HeadOf(text) = SubSeq(text, 1, Min(empty) - 1)
        BY <1>8, Zenon DEF HeadOf
    <2>2. Min(empty) - 1 = 1
        BY <1>8
    <2> QED BY <2>1, <2>2
<1>10. SubSeq(text, 1, 1) = <<from>>
    <2>1. /\ SubSeq(text, 1, 1) \in Seq(LinesOver(Parts)) /\ Len(SubSeq(text, 1, 1)) = 1
          /\ SubSeq(text, 1, 1)[1] = from
        BY <1>1, <1>5, HeadOfText DEF TextsOver
    <2> QED BY <2>1, SingleIs
<1>11. SubSeq(text, 3, Len(text)) = body
    <2>1. /\ SubSeq(text, 3, Len(text)) \in Seq(LinesOver(Parts))
          /\ Len(SubSeq(text, 3, Len(text))) = Len(body)
          /\ \A i \in 1..Len(body) : SubSeq(text, 3, Len(text))[i] = body[i]
        BY <1>1, <1>5, TailOfText DEF TextsOver
    <2> QED BY <2>1, <1>1, SeqEqual DEF TextsOver
<1> DEFINE head == HeadOf(text)
<1> DEFINE isHeader == \A i \in DOMAIN head : Len(head[i]) >= 2
<1>12. parseMessage(text) =
           [header |-> IF isHeader THEN [i \in DOMAIN head |-> <<head[i][1], head[i][2]>>] ELSE <<>>,
            message |-> IF isHeader /\ empty # {} /\ Min(empty) < Len(text)
                        THEN SubSeq(text, Min(empty) + 1, Len(text)) ELSE text]
    BY <1>7, Zenon DEF parseMessage, HeadOf
<1>13. head = <<from>>
    BY <1>9, <1>10
<1>14. isHeader /\ [i \in DOMAIN head |-> <<head[i][1], head[i][2]>>] = <<from>>
    <2>1. DOMAIN <<from>> = {1} /\ <<from>>[1] = from
        OBVIOUS
    <2>2. [i \in {1} |-> <<<<from>>[i][1], <<from>>[i][2]>>] = <<from>>
        BY <1>2, <2>1
    <2>3. isHeader
        <3> SUFFICES ASSUME NEW i \in DOMAIN head PROVE Len(head[i]) >= 2
            OBVIOUS
        <3>1. i = 1 /\ head[i] = from
            BY <1>13, <2>1
        <3> QED BY <3>1, <1>2
    <2>4. [i \in DOMAIN head |-> <<head[i][1], head[i][2]>>] = [i \in {1} |-> <<<<from>>[i][1], <<from>>[i][2]>>]
        BY <1>13, <2>1
    <2> QED BY <2>2, <2>3, <2>4
<1>15. Min(empty) + 1 = 3 /\ Min(empty) < Len(text)
    BY <1>1, <1>5, <1>8
<1> HIDE DEF head, empty, isHeader
<1>16. parseMessage(text) = [header |-> <<from>>, message |-> body]
    BY <1>8, <1>11, <1>12, <1>14, <1>15
<1> QED BY <1>4, <1>16, Zenon DEF from

\* A text without the writer's address is read as it is when its first line has no colon.
LEMMA UnnamedIsRead ==
    ASSUME NEW body \in Bodies, \E i \in DOMAIN body : ~Blank(body[i]), ~HasHeader(body)
    PROVE  parseMessage(makeTextMessage(body, <<>>)) = [header |-> <<>>, message |-> body]
<1> DEFINE lines == WithoutLeadingBlanks(body)
<1> DEFINE empty == {i \in DOMAIN lines : isEmpty(lines[i])}
<1> DEFINE head == HeadOf(lines)
<1> DEFINE isHeader == \A i \in DOMAIN head : Len(head[i]) >= 2
<1>1. body \in TextsOver(STRING)
    BY MailConstants
<1>2. lines \in TextsOver(STRING) /\ Len(lines) >= 1 /\ ~Blank(lines[1])
    BY <1>1, StartsWritten
<1>3. makeTextMessage(body, <<>>) = body
    BY Zenon DEF makeTextMessage
<1>4. parseMessage(body) =
           [header |-> IF isHeader THEN [i \in DOMAIN head |-> <<head[i][1], head[i][2]>>] ELSE <<>>,
            message |-> IF isHeader /\ empty # {} /\ Min(empty) < Len(lines)
                        THEN SubSeq(lines, Min(empty) + 1, Len(lines)) ELSE body]
    BY Zenon DEF parseMessage, HeadOf
<1>5. ~(Len(lines[1]) >= 2)
    BY DEF HasHeader
<1>6. head \in TextsOver(STRING) /\ Len(head) >= 1 /\ head[1] = lines[1]
    BY <1>2, HeadIsText
<1>7. 1 \in DOMAIN head
    BY <1>6, LinesOf
<1>8. ~isHeader
    BY <1>5, <1>6, <1>7
<1> QED BY <1>3, <1>4, <1>8


-----------------------------------------------------------------------------
\* What sendClicked() made of the text.
Sent ==
    /\ mail.writer \in Users /\ mail.reader \in Addresses \ {mail.writer}
    /\ mail.body \in Bodies /\ mail.named \in BOOLEAN
    /\ \E i \in DOMAIN mail.body : ~Blank(mail.body[i])
    /\ mail.text = makeTextMessage(mail.body, IF mail.named THEN <<<<"From", mail.writer>>>> ELSE <<>>)

\* The header can be told from the text.
IsTold == mail.named \/ ~HasHeader(mail.body)

\* An answer goes from one of the two to the other.
Answered == (answer # NoAnswer /\ mail # NoMail /\ IsTold) => {answer.by, answer.to} = {mail.writer, mail.reader}

UserAnswers == answer = NoAnswer \/ answer.by \in Users

MailInv == MailTypeOK /\ (mail = NoMail \/ Sent) /\ UserAnswers /\ Answered

\* What is read of a message is what was written.
LEMMA SentIsRead ==
    ASSUME Sent, IsTold
    PROVE  /\ getMessage(mail.text) = mail.body /\ getFullMessage(mail.text) = mail.text
           /\ getHeaderValue(mail.text, "From") = IF mail.named THEN mail.writer ELSE None
<1> DEFINE header == IF mail.named THEN <<<<"From", mail.writer>>>> ELSE <<>>
<1>1. parseMessage(mail.text) = [header |-> header, message |-> mail.body]
    <2>1. CASE mail.named
        BY <2>1, NamedIsRead DEF Sent
    <2>2. CASE ~mail.named
        BY <2>2, UnnamedIsRead DEF Sent, IsTold
    <2> QED BY <2>1, <2>2
<1>2. getMessage(mail.text) = mail.body
    BY <1>1 DEF getMessage
<1>3. getFullMessage(mail.text) = mail.text
    BY <1>1, <1>2 DEF getFullMessage, Sent
<1>4. getHeaderValue(mail.text, "From") = FirstValue(header, "From")
    BY <1>1 DEF getHeaderValue
<1>5. FirstValue(<<>>, "From") = None
    BY DEF FirstValue
<1>6. FirstValue(<<<<"From", mail.writer>>>>, "From") = mail.writer
    <2> DEFINE line == <<<<"From", mail.writer>>>>
    <2>1. DOMAIN line = {1} /\ line[1][1] = "From" /\ line[1][2] = mail.writer
        OBVIOUS
    <2> HIDE DEF line
    <2>2. {i \in DOMAIN line : line[i][1] = "From"} = {1}
        BY <2>1
    <2>3. Min({1}) = 1
        BY DEF Min
    <2>4. FirstValue(line, "From") = line[1][2]
        BY <2>2, <2>3 DEF FirstValue
    <2> QED BY <2>1, <2>4 DEF line
<1> QED BY <1>2, <1>3, <1>4, <1>5, <1>6

\* Whatever a text starts with, its reader is named a string.
LEMMA SenderTyped ==
    ASSUME Sent
    PROVE  getHeaderValue(mail.text, "From") \in STRING
<1>1. CASE IsTold
    BY <1>1, SentIsRead, MailConstants DEF Sent
<1>2. CASE ~IsTold
    <2>1. mail.text = mail.body
        BY <1>2, Zenon DEF Sent, IsTold, makeTextMessage
    <2>2. mail.text \in TextsOver(STRING)
        BY <2>1, MailConstants DEF Sent
    <2> QED BY <2>2, ValueTyped, MailConstants
<1> QED BY <1>1, <1>2

\* The ends of a message, as user u is told of them.
LEMMA RolesAre ==
    ASSUME NEW u \in Users
    PROVE  /\ Roles(u).from = getHeaderValue(mail.text, "From") /\ Roles(u).message = getMessage(mail.text)
           /\ Roles(u).to = IF u = mail.writer THEN mail.reader ELSE u
           /\ Roles(u).fromLabel = IF Roles(u).from = u THEN "Me" ELSE getName(u, Roles(u).from)
           /\ Roles(u).toLabel = IF u = mail.writer THEN getName(u, mail.reader) ELSE "Me"
BY DEF Roles

\* Only a message that was sent is seen.
LEMMA SeenIsSent ==
    ASSUME MailInv, NEW u \in Users, Sees(u)
    PROVE  Sent /\ u \in {mail.writer, mail.reader}
<1>1. mail # NoMail
    BY DEF Sees, NoMail
<1> QED BY <1>1 DEF MailInv, Sees

LEMMA WriteKeeps ==
    ASSUME MailInv, NEW u \in Users, NEW to \in STRING, NEW body \in Bodies, NEW named \in BOOLEAN,
           Write(u, to, body, named)
    PROVE  MailInv'
<1>1. Sent'
    BY DEF Write, Sent, Addresses
<1>2. MailTypeOK'
    BY MailConstants DEF MailInv, MailTypeOK, Write, NoAnswer
<1>3. Answered'
    BY DEF Answered, Write
<1> QED BY <1>1, <1>2, <1>3 DEF MailInv, Write, UserAnswers

LEMMA ReplyKeeps ==
    ASSUME MailInv, NEW u \in Users, replyClicked(u)
    PROVE  MailInv'
<1>1. Sent /\ u \in {mail.writer, mail.reader}
    BY SeenIsSent DEF replyClicked
<1>2. /\ UNCHANGED <<mail, friends>>
      /\ answer' = [by |-> u, to |-> Correspondent(u, Roles(u))]
      /\ Roles(u).from \notin {u, None}
    BY DEF replyClicked, replyTo, ReplyEnabled
<1>3. mail.reader \in STRING /\ u \in STRING /\ Roles(u).from \in STRING /\ None \in STRING
    BY <1>1, SenderTyped, RolesAre, MailConstants DEF Sent
<1>4. Correspondent(u, Roles(u)) \in STRING
    BY <1>3, RolesAre, Zenon DEF Correspondent
<1>5. MailTypeOK'
    BY <1>2, <1>4 DEF MailInv, MailTypeOK
<1>6. ASSUME IsTold PROVE {u, Correspondent(u, Roles(u))} = {mail.writer, mail.reader}
    <2>1. mail.named /\ Roles(u).from = mail.writer
        BY <1>1, <1>2, <1>6, SentIsRead, RolesAre
    <2>2. u # mail.writer /\ u = mail.reader
        BY <1>1, <1>2, <2>1
    <2>3. Roles(u).to = u
        BY <2>2, RolesAre
    <2>4. Correspondent(u, Roles(u)) = mail.writer
        BY <2>1, <2>2, <2>3, Zenon DEF Correspondent
    <2> QED BY <2>2, <2>4
<1>7. Answered'
    BY <1>2, <1>6 DEF Answered, IsTold
<1>8. (mail = NoMail \/ Sent)'
    BY <1>1, <1>2 DEF Sent
<1>9. UserAnswers'
    BY <1>2 DEF UserAnswers
<1> QED BY <1>5, <1>7, <1>8, <1>9 DEF MailInv

LEMMA SaveKeeps ==
    ASSUME MailInv, NEW u \in Users, saveContact(u)
    PROVE  MailInv'
<1>1. Sent
    BY SeenIsSent DEF saveContact
<1>2. /\ UNCHANGED <<mail, answer>>
      /\ friends' = [friends EXCEPT ![u] = friends[u] \cup {extractContact(u)}]
    BY DEF saveContact
<1>3. Roles(u).from \in STRING /\ Roles(u).to \in STRING
    BY <1>1, SenderTyped, RolesAre, MailConstants DEF Sent
<1>4. extractContact(u) \in STRING
    BY <1>3, Zenon DEF extractContact
<1>5. friends' \in [Users -> SUBSET STRING]
    BY <1>2, <1>4 DEF MailInv, MailTypeOK
<1> QED BY <1>1, <1>2, <1>5 DEF MailInv, MailTypeOK, Sent, UserAnswers, Answered, IsTold

LEMMA MailKept == ASSUME MailInv, [MailNext]_mailVars PROVE MailInv'
<1>1. CASE UNCHANGED mailVars
    BY <1>1 DEF MailInv, MailTypeOK, Sent, UserAnswers, Answered, IsTold, mailVars
<1>2. ASSUME NEW u \in Users, NEW to \in Addresses, NEW body \in Bodies, NEW named \in BOOLEAN,
             Write(u, to, body, named)
      PROVE  MailInv'
    BY <1>2, WriteKeeps, MailConstants
<1>3. ASSUME NEW u \in Users, replyClicked(u) \/ messageDoubleClicked(u) PROVE MailInv'
    BY <1>3, ReplyKeeps DEF messageDoubleClicked
<1>4. ASSUME NEW u \in Users, saveContact(u) PROVE MailInv'
    BY <1>4, SaveKeeps
<1>5. ASSUME NEW body \in Bodies, SendAnswer(body) PROVE MailInv'
    <2>1. answer.by \in Users \cup {None} /\ answer.to \in STRING
        BY DEF MailInv, MailTypeOK
    <2>2. answer.by \in Users
        BY <1>5 DEF SendAnswer, MailInv, UserAnswers, NoAnswer
    <2> QED BY <1>5, <2>1, <2>2, WriteKeeps DEF SendAnswer
<1> QED BY <1>1, <1>2, <1>3, <1>4, <1>5 DEF MailNext

LEMMA MailHolds == MailSpec => []MailInv
<1>1. MailInit => MailInv
    BY MailConstants DEF MailInit, MailInv, MailTypeOK, UserAnswers, Answered, NoMail, NoAnswer
<1> QED BY <1>1, MailKept, PTL DEF MailSpec

\* A name in the list of user u is that of a contact, or none.
LEMMA NamesAre ==
    ASSUME NEW u \in Users, NEW address \in Addresses, MailTypeOK
    PROVE  OrDash(getName(u, address)) # "Me" /\ OrDash(None) # "Me"
<1>1. address # "Me" /\ None # "Me"
    BY MailConstants
<1>2. OrDash(address) # "Me" /\ OrDash(None) # "Me"
    BY <1>1 DEF OrDash
<1> QED BY <1>2, Zenon DEF getName

\* What is written is read, and answered.
LEMMA InvUnderstood == MailInv => MailIsUnderstood
<1> SUFFICES ASSUME MailInv, mail # NoMail, IsTold
             PROVE  /\ getFullMessage(mail.text) = mail.text
                    /\ \A u \in {mail.writer, mail.reader} \cap Users :
                           /\ Row(u).message = mail.body
                           /\ Row(u).hasReplyTo = mail.named
                           /\ (Row(u).from = "Me") = (mail.named /\ u = mail.writer)
                           /\ (Row(u).to = "Me") = (u = mail.reader)
                    /\ answer # NoAnswer => {answer.by, answer.to} = {mail.writer, mail.reader}
    BY Zenon DEF MailIsUnderstood, IsTold
<1>1. Sent /\ MailTypeOK
    BY DEF MailInv
<1>2. /\ getMessage(mail.text) = mail.body /\ getFullMessage(mail.text) = mail.text
      /\ getHeaderValue(mail.text, "From") = IF mail.named THEN mail.writer ELSE None
    BY <1>1, SentIsRead
<1>3. ASSUME NEW u \in {mail.writer, mail.reader} \cap Users
      PROVE  /\ Row(u).message = mail.body /\ Row(u).hasReplyTo = mail.named
             /\ (Row(u).from = "Me") = (mail.named /\ u = mail.writer)
             /\ (Row(u).to = "Me") = (u = mail.reader)
    <2> DEFINE role == Roles(u)
    <2>1. /\ Row(u).message = role.message /\ Row(u).hasReplyTo = (role.from # None)
          /\ Row(u).from = OrDash(role.fromLabel) /\ Row(u).to = OrDash(role.toLabel)
        BY DEF Row, Columns
    <2>2. /\ role.from = (IF mail.named THEN mail.writer ELSE None) /\ role.message = mail.body
          /\ role.fromLabel = IF role.from = u THEN "Me" ELSE getName(u, role.from)
          /\ role.toLabel = IF u = mail.writer THEN getName(u, mail.reader) ELSE "Me"
        BY <1>2, RolesAre
    <2> HIDE DEF role
    <2>3. /\ mail.writer \in Addresses /\ mail.reader \in Addresses /\ mail.writer # mail.reader
          /\ None # mail.writer /\ None # u /\ mail.named \in BOOLEAN
        BY <1>1, MailConstants DEF Sent
    <2>4. OrDash("Me") = "Me" /\ getName(u, None) = None
        BY MailConstants, Zenon DEF OrDash, getName
    <2>5. /\ OrDash(getName(u, mail.writer)) # "Me" /\ OrDash(getName(u, mail.reader)) # "Me"
          /\ OrDash(None) # "Me"
        BY <1>1, <2>3, NamesAre
    <2>6. Row(u).hasReplyTo = mail.named
        <3>1. CASE mail.named
            BY <3>1, <2>1, <2>2, <2>3
        <3>2. CASE ~mail.named
            BY <3>2, <2>1, <2>2, <2>3
        <3> QED BY <3>1, <3>2
    <2>7. (Row(u).from = "Me") = (mail.named /\ u = mail.writer)
        <3>1. CASE mail.named /\ u = mail.writer
            BY <3>1, <2>1, <2>2, <2>4, Zenon
        <3>2. CASE mail.named /\ u # mail.writer
            BY <3>2, <2>1, <2>2, <2>5
        <3>3. CASE ~mail.named
            BY <3>3, <2>1, <2>2, <2>3, <2>4, <2>5
        <3> QED BY <3>1, <3>2, <3>3, <2>3
    <2>8. (Row(u).to = "Me") = (u = mail.reader)
        <3>1. CASE u = mail.writer
            BY <3>1, <2>1, <2>2, <2>3, <2>5
        <3>2. CASE u # mail.writer
            BY <3>2, <2>1, <2>2, <2>4
        <3> QED BY <3>1, <3>2
    <2> QED BY <2>1, <2>2, <2>6, <2>7, <2>8
<1>4. answer # NoAnswer => {answer.by, answer.to} = {mail.writer, mail.reader}
    BY Zenon DEF MailInv, Answered
<1> QED BY <1>2, <1>3, <1>4

(* The variables of the messages have the values their definition names:   *)
(* nothing a text starts with gets into the contacts or into an answer     *)
(* that is not a piece of it.                                              *)
THEOREM MailTyped == MailSpec => []MailTypeOK
<1>1. MailInv => MailTypeOK
    BY DEF MailInv
<1> QED BY <1>1, MailHolds, PTL

(* A message is read as it was written, in the lists of both its ends, and *)
(* answered to the one who wrote it, for any users, addresses and texts,   *)
(* when the header can be told from the text.                              *)
THEOREM MailUnderstood == MailSpec => []MailIsUnderstood
<1> QED BY InvUnderstood, MailHolds, PTL
=============================================================================
