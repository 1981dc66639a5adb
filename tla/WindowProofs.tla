---------------------------- MODULE WindowProofs ----------------------------
(***************************************************************************)
(* The invariants of WalletWindow, Tray and Balances, proved for all       *)
(* wallets, passwords, contacts, pools, balances and limits, each for the  *)
(* component's own specification, whatever the others do.                  *)
(*                                                                         *)
(* The window: WindowInv has one part for each thing that a property needs *)
(* to know of the queue of posted events.  OpeningInv orders the steps in  *)
(* which a wallet is opened; the contacts shown (BookInv), the password    *)
(* (PasswordInv), the messages (ReceivedInv), what of them was on the      *)
(* screen (SeenInv) and the number on the button (BadgeInv) are what they  *)
(* should be, or the event that makes them so is still in the queue.       *)
(*                                                                         *)
(* The tray: TrayInv says that the settings file has what the program has  *)
(* and that the menu and the user's choice agree with it.                  *)
(*                                                                         *)
(* The balances: BalancesInv says that of each kind of balance the last    *)
(* post in the queue carries the newest value, and that the total is       *)
(* computed after both of its parts.                                       *)
(***************************************************************************)
EXTENDS WalletWindow, Tray, Balances, SequenceTheorems, WellFoundedInduction, TLAPS

\* What is in a queue, and what is not.
In(q) == {q[i] : i \in 1..Len(q)}
Without(q, kinds) == \A e \in In(q) : e.kind \notin kinds

\* The steps in which a wallet is opened, and those that come after one another.
Steps == {"open", "keys", "init", "book", "opened", "ask"}
Precede(kind, next) ==
    \/ kind = "init" /\ next \in {"book", "opened", "ask"}
    \/ kind = "book" /\ next \in {"opened", "ask"}
    \/ kind = "opened" /\ next = "ask"
Ordered(q) ==
    \A i, j \in 1..Len(q) :
        i < j /\ q[i].kind \in Steps /\ q[j].kind \in Steps => Precede(q[i].kind, q[j].kind)

\* The last number of messages that is told is n.
LastCount(q, n) ==
    \A i \in 1..Len(q) :
        q[i].kind = "count" /\ (\A j \in (i + 1)..Len(q) : q[j].kind # "count") => q[i].count = n

Events == [kind : {"open", "keys", "init", "book", "opened", "ask", "reload", "created", "count"},
           result : {"", "ok", "wrong", "failed"}, count : 0..MessageLimit]

\* Events are posted at the end.
LEMMA PostedIs ==
    ASSUME NEW q \in Seq(Events), NEW es \in Seq(Events)
    PROVE  /\ q \o es \in Seq(Events)
           /\ In(q \o es) = In(q) \cup In(es)
           /\ /\ Ordered(q) /\ Ordered(es)
              /\ \A d \in In(q), e \in In(es) :
                     d.kind \in Steps /\ e.kind \in Steps => Precede(d.kind, e.kind)
              => Ordered(q \o es)
           /\ \A n : Without(es, {"count"}) /\ LastCount(q, n) => LastCount(q \o es, n)
           /\ \A n : ~Without(es, {"count"}) /\ LastCount(es, n) => LastCount(q \o es, n)
<1> DEFINE r == q \o es
           m == Len(q)
           k == Len(es)
<1>1. m \in Nat /\ k \in Nat
    OBVIOUS
<1>2. r \in Seq(Events) /\ Len(r) = m + k
    BY ConcatProperties
<1>3. \A i \in 1..m : r[i] = q[i]
    <2>1. \A i \in 1..(m + k) : r[i] = IF i <= m THEN q[i] ELSE es[i - m]
        BY ConcatProperties
    <2> HIDE DEF r, m, k
    <2> QED BY <1>1, <2>1
<1>4. \A i \in 1..k : r[m + i] = es[i]
    <2>1. \A i \in 1..(m + k) : r[i] = IF i <= m THEN q[i] ELSE es[i - m]
        BY ConcatProperties
    <2> HIDE DEF r, m, k
    <2>2. \A i \in 1..k : m + i \in 1..(m + k) /\ ~(m + i <= m) /\ (m + i) - m = i
        BY <1>1
    <2> QED BY <2>1, <2>2
<1> HIDE DEF r
<1>5. \A i \in 1..(m + k) : i \in 1..m \/ (i - m \in 1..k /\ m + (i - m) = i)
    BY <1>1
<1>6. \A i \in 1..m : i \in 1..(m + k)
    BY <1>1
<1>7. \A i \in 1..k : m + i \in 1..(m + k)
    BY <1>1
<1>8. In(r) = In(q) \cup In(es)
    <2>1. ASSUME NEW e \in In(r) PROVE e \in In(q) \cup In(es)
        <3>1. PICK i \in 1..(m + k) : r[i] = e
            BY <1>2, <2>1 DEF In
        <3>2. CASE i \in 1..m
            BY <1>3, <3>1, <3>2 DEF In
        <3>3. CASE i - m \in 1..k /\ m + (i - m) = i
            BY <1>4, <3>1, <3>3 DEF In
        <3> QED BY <1>5, <3>2, <3>3
    <2>2. ASSUME NEW e \in In(q) PROVE e \in In(r)
        BY <1>2, <1>3, <1>6, <2>2 DEF In
    <2>3. ASSUME NEW e \in In(es) PROVE e \in In(r)
        <3>1. PICK i \in 1..k : es[i] = e
            BY <2>3 DEF In
        <3> QED BY <1>2, <1>4, <1>7, <3>1 DEF In
    <2> QED BY <2>1, <2>2, <2>3
<1>9. ASSUME Ordered(q), Ordered(es),
             \A d \in In(q), e \in In(es) :
                 d.kind \in Steps /\ e.kind \in Steps => Precede(d.kind, e.kind)
      PROVE  Ordered(r)
    <2> SUFFICES ASSUME NEW i \in 1..(m + k), NEW j \in 1..(m + k), i < j,
                        r[i].kind \in Steps, r[j].kind \in Steps
                 PROVE  Precede(r[i].kind, r[j].kind)
        BY <1>2 DEF Ordered
    <2>1. CASE j \in 1..m
        <3>1. i \in 1..m
            BY <1>1, <2>1
        <3> QED BY <1>3, <1>9, <2>1, <3>1 DEF Ordered
    <2>2. CASE i \in 1..m /\ j - m \in 1..k /\ m + (j - m) = j
        <3>1. r[i] = q[i] /\ r[j] = es[j - m]
            BY <1>3, <1>4, <2>2
        <3>2. q[i] \in In(q) /\ es[j - m] \in In(es)
            BY <2>2 DEF In
        <3> QED BY <1>9, <3>1, <3>2
    <2>3. CASE i - m \in 1..k /\ m + (i - m) = i /\ j - m \in 1..k /\ m + (j - m) = j
        <3>1. r[i] = es[i - m] /\ r[j] = es[j - m] /\ i - m < j - m
            BY <1>1, <1>4, <2>3
        <3> QED BY <1>9, <2>3, <3>1 DEF Ordered
    <2>4. j \notin 1..m => i \in 1..m \/ (i - m \in 1..k /\ m + (i - m) = i)
        BY <1>5
    <2> QED BY <1>5, <2>1, <2>2, <2>3, <2>4
<1>10. ASSUME NEW n, Without(es, {"count"}), LastCount(q, n)
       PROVE  LastCount(r, n)
    <2> SUFFICES ASSUME NEW i \in 1..(m + k), r[i].kind = "count",
                        \A j \in (i + 1)..(m + k) : r[j].kind # "count"
                 PROVE  r[i].count = n
        BY <1>2 DEF LastCount
    <2>1. CASE i \in 1..m
        <3>1. \A j \in (i + 1)..m : j \in 1..m /\ j \in (i + 1)..(m + k)
            BY <1>1, <2>1
        <3>2. \A j \in (i + 1)..m : q[j].kind # "count"
            BY <1>3, <3>1
        <3> QED BY <1>3, <1>10, <2>1, <3>2 DEF LastCount
    <2>2. CASE i - m \in 1..k /\ m + (i - m) = i
        BY <1>4, <1>10, <2>2 DEF Without, In
    <2> QED BY <1>5, <2>1, <2>2
<1>11. ASSUME NEW n, ~Without(es, {"count"}), LastCount(es, n)
       PROVE  LastCount(r, n)
    <2> SUFFICES ASSUME NEW i \in 1..(m + k), r[i].kind = "count",
                        \A j \in (i + 1)..(m + k) : r[j].kind # "count"
                 PROVE  r[i].count = n
        BY <1>2 DEF LastCount
    <2>1. CASE i \in 1..m
        <3>1. PICK j \in 1..k : es[j].kind = "count"
            BY <1>11 DEF Without, In
        <3>2. m + j \in (i + 1)..(m + k) /\ r[m + j] = es[j]
            BY <1>1, <1>4, <2>1
        <3> QED BY <3>1, <3>2
    <2>2. CASE i - m \in 1..k /\ m + (i - m) = i
        <3> DEFINE l == i - m
        <3>1. r[i] = es[l] /\ l \in 1..k
            BY <1>4, <2>2
        <3>2. \A j \in (l + 1)..k : m + j \in (i + 1)..(m + k) /\ j \in 1..k
            BY <1>1, <2>2
        <3>3. \A j \in (l + 1)..k : es[j].kind # "count"
            BY <1>4, <3>2
        <3> HIDE DEF l
        <3> QED BY <1>11, <3>1, <3>3 DEF LastCount
    <2> QED BY <1>5, <2>1, <2>2
<1> QED BY <1>2, <1>8, <1>9, <1>10, <1>11 DEF r

\* The first event is taken.
LEMMA TakenIs ==
    ASSUME NEW q \in Seq(Events), q # <<>>
    PROVE  /\ Head(q) \in Events /\ Tail(q) \in Seq(Events)
           /\ In(q) = {Head(q)} \cup In(Tail(q))
           /\ Len(q) <= 1 => Tail(q) = <<>>
           /\ Ordered(q) => /\ Ordered(Tail(q))
                            /\ \A e \in In(Tail(q)) :
                                   Head(q).kind \in Steps /\ e.kind \in Steps => Precede(Head(q).kind, e.kind)
           /\ \A n : LastCount(q, n) =>
                         /\ LastCount(Tail(q), n)
                         /\ Head(q).kind = "count" /\ Without(Tail(q), {"count"}) => Head(q).count = n
<1> DEFINE r == Tail(q)
           m == Len(q)
<1>1. m \in Nat /\ m > 0 /\ Head(q) = q[1]
    BY EmptySeq DEF Head
<1>2. /\ r \in Seq(Events) /\ Len(r) = m - 1 /\ Head(q) \in Events
      /\ \A i \in 1..(m - 1) : r[i] = q[i + 1]
    <2>1. /\ Head(q) \in Events /\ r \in Seq(Events) /\ Len(r) = m - 1
          /\ \A i \in 1..Len(r) : r[i] = q[i + 1]
        BY HeadTailProperties
    <2> HIDE DEF r, m
    <2> QED BY <2>1
<1> HIDE DEF r
<1>3. \A i \in 1..m : i = 1 \/ (i - 1 \in 1..(m - 1) /\ (i - 1) + 1 = i)
    BY <1>1
<1>4. 1 \in 1..m /\ \A i \in 1..(m - 1) : i + 1 \in 1..m
    BY <1>1
<1>5. In(q) = {Head(q)} \cup In(r)
    <2>1. ASSUME NEW e \in In(q) PROVE e = Head(q) \/ e \in In(r)
        <3>1. PICK i \in 1..m : q[i] = e
            BY <2>1 DEF In
        <3>2. CASE i = 1
            BY <1>1, <3>1, <3>2
        <3>3. CASE i - 1 \in 1..(m - 1) /\ (i - 1) + 1 = i
            <4>1. r[i - 1] = e
                BY <1>2, <3>1, <3>3
            <4> QED BY <1>2, <3>3, <4>1 DEF In
        <3> QED BY <1>3, <3>2, <3>3
    <2>2. ASSUME NEW e \in In(r) PROVE e \in In(q)
        <3>1. PICK i \in 1..(m - 1) : r[i] = e
            BY <1>2, <2>2 DEF In
        <3> QED BY <1>2, <1>4, <3>1 DEF In
    <2>3. Head(q) \in In(q)
        BY <1>1, <1>4 DEF In
    <2> QED BY <2>1, <2>2, <2>3
<1>6. m <= 1 => r = <<>>
    BY <1>1, <1>2, EmptySeq
<1>7. ASSUME Ordered(q)
      PROVE  /\ Ordered(r)
             /\ \A e \in In(r) :
                    Head(q).kind \in Steps /\ e.kind \in Steps => Precede(Head(q).kind, e.kind)
    <2>1. ASSUME NEW i \in 1..(m - 1), NEW j \in 1..(m - 1), i < j,
                 r[i].kind \in Steps, r[j].kind \in Steps
          PROVE  Precede(r[i].kind, r[j].kind)
        <3>1. i + 1 < j + 1 /\ i + 1 \in 1..m /\ j + 1 \in 1..m
            BY <1>4, <2>1
        <3>2. r[i] = q[i + 1] /\ r[j] = q[j + 1]
            BY <1>2
        <3> QED BY <1>7, <2>1, <3>1, <3>2 DEF Ordered
    <2>2. ASSUME NEW e \in In(r), Head(q).kind \in Steps, e.kind \in Steps
          PROVE  Precede(Head(q).kind, e.kind)
        <3>1. PICK i \in 1..(m - 1) : r[i] = e
            BY <1>2, <2>2 DEF In
        <3>2. 1 < i + 1 /\ i + 1 \in 1..m /\ q[i + 1] = e
            BY <1>2, <1>4, <3>1
        <3> QED BY <1>1, <1>4, <1>7, <2>2, <3>2 DEF Ordered
    <2> QED BY <1>2, <2>1, <2>2 DEF Ordered
<1>8. ASSUME NEW n, LastCount(q, n) PROVE LastCount(r, n)
    <2> SUFFICES ASSUME NEW i \in 1..(m - 1), r[i].kind = "count",
                        \A j \in (i + 1)..(m - 1) : r[j].kind # "count"
                 PROVE  r[i].count = n
        BY <1>2 DEF LastCount
    <2>1. r[i] = q[i + 1] /\ i + 1 \in 1..m
        BY <1>2, <1>4
    <2>2. \A j \in ((i + 1) + 1)..m : j - 1 \in (i + 1)..(m - 1) /\ j - 1 \in 1..(m - 1) /\ (j - 1) + 1 = j
        BY <1>1
    <2>3. ASSUME NEW j \in ((i + 1) + 1)..m PROVE q[j].kind # "count"
        <3>1. r[j - 1] = q[j] /\ r[j - 1].kind # "count"
            BY <1>2, <2>2
        <3> QED BY <3>1
    <2> QED BY <1>8, <2>1, <2>3 DEF LastCount
<1>9. ASSUME NEW n, LastCount(q, n), Head(q).kind = "count", Without(r, {"count"})
      PROVE  Head(q).count = n
    <2>1. \A j \in (1 + 1)..m : j - 1 \in 1..(m - 1) /\ (j - 1) + 1 = j
        BY <1>1
    <2>2. ASSUME NEW j \in (1 + 1)..m PROVE q[j].kind # "count"
        <3>1. r[j - 1] = q[j] /\ r[j - 1] \in In(r)
            BY <1>2, <2>1 DEF In
        <3> QED BY <1>9, <3>1 DEF Without
    <2> QED BY <1>1, <1>4, <1>9, <2>2 DEF LastCount
<1> QED BY <1>2, <1>5, <1>6, <1>7, <1>8, <1>9 DEF r

\* No event, and a single one.
LEMMA NothingIs == /\ <<>> \in Seq(Events) /\ In(<<>>) = {} /\ Ordered(<<>>)
                   /\ Len(<<>>) = 0 /\ \A n : LastCount(<<>>, n)
BY DEF In, Ordered, LastCount

\* A queue of one event that counts nothing.
LEMMA SingleIs ==
    ASSUME NEW e \in Events, e.kind # "count"
    PROVE  <<e>> \in Seq(Events) /\ In(<<e>>) = {e} /\ Ordered(<<e>>) /\ Len(<<e>>) = 1 /\ \A n : LastCount(<<e>>, n)
<1>1. <<e>> \in Seq(Events) /\ Len(<<e>>) = 1 /\ <<e>>[1] = e
    OBVIOUS
<1>2. 1..1 = {1}
    OBVIOUS
<1>3. Ordered(<<e>>) /\ \A n : LastCount(<<e>>, n)
    BY <1>1, <1>2 DEF Ordered, LastCount
<1>4. In(<<e>>) = {e}
    BY <1>1, <1>2 DEF In
<1> QED BY <1>1, <1>3, <1>4

\* What the proofs use of the assumptions.
LEMMA WindowConstants ==
    /\ First \in Wallets /\ \A k \in KeysFiles : ImportedTo[k] \in Wallets
    /\ Files = Wallets \cup KeysFiles /\ \A k \in KeysFiles : k \notin Wallets
    /\ "" \notin Files
    /\ "" \in Passwords /\ "absent" \notin Passwords /\ "broken" \notin Passwords
BY WindowAssumption DEF WindowAssumption, Files

\* The bounds are numbers.
LEMMA Limits == MessageLimit \in Nat /\ BadgeLimit \in Nat
BY WindowAssumption DEF WindowAssumption

\* The larger of two numbers.
LEMMA MaxIs == ASSUME NEW a \in Int, NEW b \in Int PROVE Max({a, b}) = IF a >= b THEN a ELSE b
BY DEF Max

\* The smaller of two numbers.
LEMMA MinIs == ASSUME NEW a \in Int, NEW b \in Int PROVE Min({a, b}) = IF a <= b THEN a ELSE b
BY DEF Min

\* The number on the button is within its limit.
LEMMA BadgeIs ==
    ASSUME NEW n \in Int
    PROVE  Min({Max({n, 0}), BadgeLimit}) \in 0..BadgeLimit /\ Min({0, BadgeLimit}) = 0
           /\ (n <= 0 => Min({Max({n, 0}), BadgeLimit}) = 0)
<1>1. Max({n, 0}) = (IF n >= 0 THEN n ELSE 0) /\ BadgeLimit \in Nat
    BY MaxIs, Limits
<1> DEFINE m == Max({n, 0})
<1>2. m \in Nat
    BY <1>1
<1> HIDE DEF m
<1>3. /\ Min({m, BadgeLimit}) = (IF m <= BadgeLimit THEN m ELSE BadgeLimit)
      /\ Min({0, BadgeLimit}) = (IF 0 <= BadgeLimit THEN 0 ELSE BadgeLimit)
    BY <1>1, <1>2, MinIs
<1>4. n <= 0 => m = 0
    BY <1>1 DEF m
<1>5. Min({m, BadgeLimit}) \in 0..BadgeLimit /\ Min({0, BadgeLimit}) = 0 /\ (n <= 0 => Min({m, BadgeLimit}) = 0)
    BY <1>1, <1>2, <1>3, <1>4
<1> QED BY <1>5 DEF m

\* An event is one of Events.
LEMMA EventIs ==
    ASSUME NEW kind \in {"open", "keys", "init", "book", "opened", "ask", "reload", "created", "count"}
    PROVE  /\ Event(kind) \in Events /\ Event(kind).kind = kind
           /\ \A result \in {"ok", "wrong", "failed"} :
                  Told(kind, result) \in Events /\ Told(kind, result).kind = kind /\ Told(kind, result).result = result
           /\ \A count \in 0..MessageLimit :
                  /\ Counted(kind, count) \in Events /\ Counted(kind, count).kind = kind
                  /\ Counted(kind, count).count = count
<1>1. 0 \in 0..MessageLimit
    BY Limits
<1> QED BY <1>1 DEF Event, Told, Counted, Events

\* The numbers that MessagesModel tells, one for each message it appends.
Tells(first, last) == [i \in 1..(last + 1 - first) |-> Counted("count", first + i - 1)]

\* What is told of a run of appended messages: numbers only, the last of them last.
LEMMA TellsIs ==
    ASSUME NEW first \in 1..(MessageLimit + 1), NEW last \in 0..MessageLimit, first <= last + 1
    PROVE  /\ Tells(first, last) \in Seq(Events)
           /\ \A e \in In(Tells(first, last)) : e.kind = "count"
           /\ Ordered(Tells(first, last)) /\ LastCount(Tells(first, last), last)
           /\ first = last + 1 => Tells(first, last) = <<>>
           /\ first <= last => ~Without(Tells(first, last), {"count"})
<1> DEFINE t == Tells(first, last)
           n == last + 1 - first
           c(i) == Counted("count", first + i - 1)
<1>1. n \in Nat /\ MessageLimit \in Nat /\ first \in Nat /\ last \in Nat
    BY Limits
<1>2. \A i \in 1..n : first + i - 1 \in 0..MessageLimit /\ (i = n => first + i - 1 = last)
    BY <1>1
<1>3. \A i \in 1..n : c(i) \in Events /\ c(i).kind = "count" /\ (i = n => c(i).count = last)
    <2> SUFFICES ASSUME NEW i \in 1..n
                 PROVE  c(i) \in Events /\ c(i).kind = "count" /\ (i = n => c(i).count = last)
        OBVIOUS
    <2> DEFINE k == first + i - 1
    <2>1. k \in 0..MessageLimit /\ (i = n => k = last)
        BY <1>2
    <2> HIDE DEF k
    <2>2. Counted("count", k) \in Events /\ Counted("count", k).kind = "count" /\ Counted("count", k).count = k
        BY <2>1, EventIs
    <2> QED BY <2>1, <2>2 DEF k
<1> HIDE DEF c, n
<1>4. t = [i \in 1..n |-> c(i)]
    BY DEF Tells, c, n
<1> HIDE DEF t
<1>5. t \in Seq(Events) /\ Len(t) = n /\ \A i \in 1..n : t[i] = c(i)
    BY <1>1, <1>3, <1>4
<1>6. \A e \in In(t) : e.kind = "count"
    BY <1>3, <1>5 DEF In
<1>7. Ordered(t)
    BY <1>3, <1>5 DEF Ordered, Steps
<1>8. LastCount(t, last)
    <2> SUFFICES ASSUME NEW i \in 1..n, \A j \in (i + 1)..n : t[j].kind # "count" PROVE t[i].count = last
        BY <1>5 DEF LastCount
    <2>1. CASE i = n
        BY <1>3, <1>5, <2>1
    <2>2. CASE i # n
        <3>1. i + 1 \in (i + 1)..n /\ i + 1 \in 1..n
            BY <1>1, <2>2
        <3> QED BY <1>3, <1>5, <3>1
    <2> QED BY <2>1, <2>2
<1>9. first = last + 1 => t = <<>>
    BY <1>1, <1>5, EmptySeq DEF n
<1>10. first <= last => ~Without(t, {"count"})
    <2>1. first <= last => 1 \in 1..n
        BY <1>1 DEF n
    <2> QED BY <1>3, <1>5, <2>1 DEF Without, In
<1> QED BY <1>5, <1>6, <1>7, <1>8, <1>9, <1>10 DEF t

\* MessagesModel appends messages.
LEMMA AppendUpToIs ==
    ASSUME WindowTypeOK, queue # <<>>, NEW first \in 1..(MessageLimit + 1), NEW last \in 0..MessageLimit,
           first <= last + 1, AppendUpTo(first, last)
    PROVE  /\ queue' \in Seq(Events) /\ messageRows' = last
           /\ In(Tail(queue)) \subseteq In(queue')
           /\ \A e \in In(queue') : e \in In(Tail(queue)) \/ e.kind = "count"
           /\ Ordered(queue) => Ordered(queue')
           /\ first <= last => ~Without(queue', {"count"}) /\ LastCount(queue', last)
           /\ first = last + 1 => queue' = Tail(queue)
<1> DEFINE q == Tail(queue)
           t == Tells(first, last)
<1>1. queue \in Seq(Events)
    BY DEF WindowTypeOK, Events
<1>2. q \in Seq(Events) /\ (Ordered(queue) => Ordered(q))
    BY <1>1, TakenIs
<1>3. queue' = q \o t /\ messageRows' = last
    BY DEF AppendUpTo, Tells
<1>4. /\ t \in Seq(Events) /\ \A e \in In(t) : e.kind = "count"
      /\ Ordered(t) /\ LastCount(t, last)
      /\ first = last + 1 => t = <<>>
      /\ first <= last => ~Without(t, {"count"})
    BY TellsIs
<1> HIDE DEF q, t
<1>5. /\ q \o t \in Seq(Events) /\ In(q \o t) = In(q) \cup In(t)
      /\ /\ Ordered(q) /\ Ordered(t)
         /\ \A d \in In(q), e \in In(t) : d.kind \in Steps /\ e.kind \in Steps => Precede(d.kind, e.kind)
         => Ordered(q \o t)
      /\ \A n : ~Without(t, {"count"}) /\ LastCount(t, n) => LastCount(q \o t, n)
    BY <1>2, <1>4, PostedIs
<1>6. Ordered(q) => Ordered(q \o t)
    BY <1>4, <1>5 DEF Steps
<1>7. first <= last => ~Without(q \o t, {"count"})
    BY <1>4, <1>5 DEF Without
<1>8. first = last + 1 => q \o t = q
    BY <1>2, <1>4, ConcatEmptySeq
<1> QED BY <1>2, <1>3, <1>4, <1>5, <1>6, <1>7, <1>8 DEF q

-----------------------------------------------------------------------------
(* The inductive invariant. *)

\* Where the opening of a wallet is.  A .keys file is only there to be imported.
OpeningInv ==
    /\ Ordered(queue)
    /\ Without(queue, {"open", "keys"}) \/ Len(queue) = 1
    /\ Without(queue, {"open", "keys", "ask"}) \/ wallet = "none"
    /\ Without(queue, {"init"}) \/ wallet = "open"
    /\ wallet \in {"loading", "generating"} => Without(queue, Steps)
    /\ enabled => Without(queue, Steps) /\ wallet = "open"
    /\ walletFile \notin Wallets =>
           /\ wallet = "none" /\ messageRows = 0 /\ Len(queue) <= 1
           /\ \A e \in In(queue) : e.kind \in {"open", "ask"}
    /\ addressBookFile = walletFile

\* The contacts that are the user's are in the model once the file has been read, and until another
\* is opened.
BookInv ==
    enabled \/ (~Without(queue, {"opened"}) /\ Without(queue, {"book"})) => added[walletFile] \subseteq contacts

Opens(q) == \E e \in In(q) : e.kind = "opened" /\ e.result = "ok"

\* What Settings say of the password of a wallet that is loaded or open.
PasswordInv ==
    /\ wallet \in {"loading", "generating"} \/ Opens(queue) \/ enabled => encrypted = (pass # "")
    /\ Opens(queue) => wallet = "open" /\ \A e \in In(queue) : e.kind = "init" => e.result = "ok"
    /\ enabled => (encryptShown # encrypted => saveFailed)

\* MessagesModel has the messages of the wallet, or is told of the last of them.
ReceivedInv ==
    /\ walletFile \in Wallets => messageRows <= received[walletFile]
    /\ \A e \in In(queue) : e.kind = "created" => e.count <= received[walletFile]
    /\ wallet = "open" /\ Without(queue, {"init", "reload"}) =>
           \/ messageRows = received[walletFile]
           \/ \E e \in In(queue) : e.kind = "created" /\ e.count = received[walletFile]

\* MESSAGES_READ_COUNT is the number of messages that were on the screen last.
SeenInv ==
    /\ page # "none" => enabled
    /\ page = "messages" => Without(queue, {"reload"}) /\ seen = <<walletFile, messageRows>>
    /\ seen # NotSeen => seen[2] <= received[seen[1]]
    /\ seen # NotSeen /\ (page = "messages" => Without(queue, {"count"})) => readCount = seen[2]

\* The button shows what is not read, when it has got the last number.
BadgeInv ==
    /\ LastCount(queue, messageRows)
    /\ messageRows > 0 /\ Without(queue, {"count"}) =>
           badge = Min({Max({messageRows - readCount, 0}), BadgeLimit})

\* The types of the variables that most steps read.
LEMMA WindowTypes ==
    ASSUME WindowTypeOK
    PROVE  /\ queue \in Seq(Events) /\ walletFile \in Files /\ wallet \in {"none", "loading", "generating", "open"}
           /\ enabled \in BOOLEAN /\ pass \in Passwords
BY DEF WindowTypeOK, Events

\* What an event that is taken says of the others.
LEMMA TakesIs ==
    ASSUME WindowTypeOK, OpeningInv, NEW kind, Takes(kind)
    PROVE  /\ queue \in Seq(Events) /\ queue # <<>>
           /\ Head(queue) \in Events /\ Head(queue).kind = kind /\ Head(queue) \in In(queue)
           /\ Tail(queue) \in Seq(Events) /\ Ordered(Tail(queue)) /\ In(queue) = {Head(queue)} \cup In(Tail(queue))
           /\ kind \in {"open", "keys"} => Tail(queue) = <<>> /\ wallet = "none"
           /\ kind = "ask" => Without(Tail(queue), Steps) /\ wallet = "none"
           /\ kind = "opened" => Without(Tail(queue), {"open", "keys", "init", "book", "opened"})
           /\ kind = "book" => Without(Tail(queue), {"open", "keys", "init", "book"})
           /\ kind = "init" => Without(Tail(queue), {"open", "keys", "init", "ask"}) /\ wallet = "open"
           /\ kind \in Steps => ~enabled /\ wallet \in {"none", "open"}
           /\ walletFile \notin Wallets => kind \in {"open", "ask"} /\ Tail(queue) = <<>> /\ wallet = "none" /\ messageRows = 0
           /\ \A n : LastCount(queue, n) => LastCount(Tail(queue), n)
<1>1. queue \in Seq(Events) /\ queue # <<>> /\ Head(queue).kind = kind /\ wallet \in {"none", "loading", "generating", "open"}
      /\ enabled \in BOOLEAN
    BY WindowTypes DEF Takes
<1>2. /\ Head(queue) \in Events /\ Tail(queue) \in Seq(Events) /\ Ordered(Tail(queue))
      /\ In(queue) = {Head(queue)} \cup In(Tail(queue))
      /\ Len(queue) <= 1 => Tail(queue) = <<>>
      /\ \A e \in In(Tail(queue)) : Head(queue).kind \in Steps /\ e.kind \in Steps => Precede(Head(queue).kind, e.kind)
      /\ \A n : LastCount(queue, n) => LastCount(Tail(queue), n)
    BY <1>1, TakenIs DEF OpeningInv
<1> DEFINE h == Head(queue)
           q == Tail(queue)
<1>3. h.kind = kind /\ h \in In(queue) /\ (Len(queue) = 1 => q = <<>>)
    <2>1. Len(queue) = 1 => Len(queue) <= 1
        OBVIOUS
    <2> QED BY <1>1, <1>2, <2>1
<1>4. \A e \in In(q) : kind \in Steps /\ e.kind \in Steps => Precede(kind, e.kind)
    BY <1>1, <1>2
<1> HIDE DEF h, q
<1>5. kind \in {"open", "keys"} => q = <<>> /\ wallet = "none"
    BY <1>3 DEF OpeningInv, Without
<1>6. kind = "ask" => Without(q, Steps) /\ wallet = "none"
    <2>1. kind = "ask" => wallet = "none"
        BY <1>3 DEF OpeningInv, Without
    <2> QED BY <1>4, <2>1 DEF Without, Steps, Precede
<1>7. kind = "opened" => Without(q, {"open", "keys", "init", "book", "opened"})
    BY <1>4 DEF Without, Steps, Precede
<1>8. kind = "book" => Without(q, {"open", "keys", "init", "book"})
    BY <1>4 DEF Without, Steps, Precede
<1>9. kind = "init" => Without(q, {"open", "keys", "init", "ask"}) /\ wallet = "open"
    <2>1. kind = "init" => wallet = "open"
        BY <1>3 DEF OpeningInv, Without
    <2>2. kind = "init" => Without(queue, {"ask"})
        BY <2>1 DEF OpeningInv, Without
    <2>3. kind = "init" => Without(q, {"open", "keys", "init"})
        BY <1>4 DEF Without, Steps, Precede
    <2>4. \A e \in In(q) : e \in In(queue)
        BY <1>2 DEF q
    <2> QED BY <2>1, <2>2, <2>3, <2>4 DEF Without
<1>10. kind \in Steps => ~enabled /\ wallet \in {"none", "open"}
    BY <1>1, <1>3 DEF OpeningInv, Without
<1>11. walletFile \notin Wallets => kind \in {"open", "ask"} /\ q = <<>> /\ wallet = "none" /\ messageRows = 0
    BY <1>2, <1>3 DEF OpeningInv, q
<1> QED BY <1>1, <1>2, <1>3, <1>5, <1>6, <1>7, <1>8, <1>9, <1>10, <1>11 DEF h, q

\* WalletAdapter opens a wallet, or asks for the password of a .keys file.
LEMMA OpenIs ==
    ASSUME WindowTypeOK, OpeningInv, NEW given \in Passwords, Takes("open") \/ Takes("ask"), open(given)
    PROVE  /\ \/ /\ queue' = Tail(queue) /\ wallet' \in {"loading", "generating"}
                 /\ walletFile' \in Wallets /\ encrypted' = (pass' # "")
              \/ /\ walletFile \notin Wallets /\ UNCHANGED walletFile /\ wallet' = "none"
                 /\ queue' = <<Event("ask")>> /\ encrypted' \in BOOLEAN
           /\ pass' \in Passwords /\ walletFile' \in Files /\ addressBookFile' = walletFile' /\ saveFailed' = FALSE
           /\ password' \in [Files -> Passwords \cup {"absent", "broken"}]
           /\ walletFile' # walletFile => walletFile \notin Wallets
           /\ Without(Tail(queue), Steps) /\ wallet = "none" /\ ~enabled
           /\ walletFile \notin Wallets => Tail(queue) = <<>> /\ messageRows = 0
           /\ UNCHANGED <<book, readMessages, received, contacts, enabled, encryptShown, unread, added>>
<1>1. /\ password \in [Files -> Passwords \cup {"absent", "broken"}] /\ walletFile \in Files
      /\ addressBookFile = walletFile
    BY DEF WindowTypeOK, OpeningInv
<1>2. Tail(queue) \in Seq(Events)
    BY TakesIs
<1>3. /\ Without(Tail(queue), Steps) /\ wallet = "none" /\ ~enabled
      /\ walletFile \notin Wallets => Tail(queue) = <<>> /\ messageRows = 0
    <2>1. CASE Takes("open")
        <3>1. /\ Tail(queue) = <<>> /\ wallet = "none" /\ ~enabled
              /\ walletFile \notin Wallets => Tail(queue) = <<>> /\ messageRows = 0
            BY <2>1, TakesIs DEF Steps
        <3>2. Without(<<>>, Steps)
            BY NothingIs DEF Without
        <3> QED BY <3>1, <3>2
    <2>2. CASE Takes("ask")
        BY <2>2, TakesIs DEF Steps
    <2> QED BY <2>1, <2>2
<1>4. UNCHANGED <<book, readMessages, received, contacts, enabled, encryptShown, unread, added>> /\ saveFailed' = FALSE
    BY DEF open
<1>5. CASE walletFile \in KeysFiles
    <2>1. importLegacyWallet(walletFile, given)
          /\ pass' = IF password[walletFile] = "absent" THEN "" ELSE given
        BY <1>5 DEF open
    <2>2. ImportedTo[walletFile] \in Wallets /\ walletFile \notin Wallets
        BY <1>5, WindowConstants
    <2>3. CASE password[walletFile] = given
        <3>1. given # "absent" /\ pass' = given
            BY <2>1, <2>3, WindowConstants
        <3>2. /\ walletFile' = ImportedTo[walletFile] /\ addressBookFile' = walletFile' /\ queue' = Tail(queue)
              /\ wallet' = "loading" /\ encrypted' = (given # "")
              /\ password' = [password EXCEPT ![ImportedTo[walletFile]] = given]
            BY <2>1, <2>3 DEF importLegacyWallet, setWalletFile
        <3>3. password' \in [Files -> Passwords \cup {"absent", "broken"}] /\ walletFile' \in Files
            BY <1>1, <2>2, <3>2, WindowConstants
        <3> QED BY <1>3, <1>4, <2>2, <3>1, <3>2, <3>3
    <2>4. CASE password[walletFile] # given
        <3>1. /\ UNCHANGED <<walletFile, addressBookFile>> /\ queue' = Append(Tail(queue), Event("ask"))
              /\ wallet' = "none" /\ encrypted' = TRUE
              /\ password' = [password EXCEPT ![ImportedTo[walletFile]] = "broken"]
            BY <2>1, <2>4 DEF importLegacyWallet
        <3>2. Append(<<>>, Event("ask")) = <<Event("ask")>>
            OBVIOUS
        <3>3. queue' = <<Event("ask")>>
            BY <1>3, <2>2, <3>1, <3>2
        <3>4. password' \in [Files -> Passwords \cup {"absent", "broken"}] /\ pass' \in Passwords
            BY <1>1, <2>1, <2>2, <3>1, WindowConstants
        <3> QED BY <1>1, <1>3, <1>4, <2>2, <3>1, <3>3, <3>4
    <2> QED BY <2>3, <2>4
<1>6. CASE walletFile \notin KeysFiles
    <2>1. /\ walletFile \in Wallets
          /\ wallet' \in {"loading", "generating"} /\ queue' = Tail(queue)
          /\ UNCHANGED <<password, walletFile, addressBookFile>>
        BY <1>1, <1>6, WindowConstants DEF open
    <2>2. pass' \in Passwords /\ encrypted' = (pass' # "")
        BY <1>6, WindowConstants DEF open
    <2> QED BY <1>1, <1>3, <1>4, <2>1, <2>2
<1> QED BY <1>5, <1>6

\* An event is posted.
LEMMA AppendedIs ==
    ASSUME NEW q \in Seq(Events), NEW e \in Events, e.kind # "count"
    PROVE  /\ Append(q, e) \in Seq(Events) /\ In(Append(q, e)) = In(q) \cup {e}
           /\ Ordered(q) /\ (\A d \in In(q) : d.kind \in Steps /\ e.kind \in Steps => Precede(d.kind, e.kind))
              => Ordered(Append(q, e))
           /\ \A n : LastCount(q, n) => LastCount(Append(q, e), n)
<1> DEFINE es == <<e>>
<1>1. es \in Seq(Events) /\ In(es) = {e} /\ Ordered(es) /\ Append(q, e) = q \o es
    BY SingleIs
<1>2. Without(es, {"count"})
    BY <1>1 DEF Without
<1> HIDE DEF es
<1>3. /\ q \o es \in Seq(Events) /\ In(q \o es) = In(q) \cup In(es)
      /\ /\ Ordered(q) /\ Ordered(es)
         /\ \A d \in In(q), f \in In(es) : d.kind \in Steps /\ f.kind \in Steps => Precede(d.kind, f.kind)
         => Ordered(q \o es)
      /\ \A n : Without(es, {"count"}) /\ LastCount(q, n) => LastCount(q \o es, n)
    BY <1>1, PostedIs
<1> QED BY <1>1, <1>2, <1>3

\* The end of a load is posted.
LEMMA LoadEndsIs ==
    ASSUME WindowTypeOK, OpeningInv, LoadEnds
    PROVE  \E result \in {"ok", "wrong", "failed"} :
               /\ queue' \in Seq(Events) /\ Ordered(queue') /\ Without(queue, Steps)
               /\ In(queue') = In(queue) \cup {Told("init", result), Event("book"), Told("opened", result)}
               /\ \A n : LastCount(queue, n) => LastCount(queue', n)
<1> DEFINE r == IF wallet = "generating" \/ password[walletFile] = pass THEN "ok"
                ELSE IF password[walletFile] = "broken" THEN "failed" ELSE "wrong"
<1>1. r \in {"ok", "wrong", "failed"} /\ queue' = queue \o <<Told("init", r), Event("book"), Told("opened", r)>>
      /\ wallet \in {"loading", "generating"}
    BY DEF LoadEnds
<1> HIDE DEF r
<1> DEFINE a == Told("init", r)
           b == Event("book")
           c == Told("opened", r)
           es == <<a, b, c>>
<1>2. /\ a \in Events /\ a.kind = "init" /\ b \in Events /\ b.kind = "book"
      /\ c \in Events /\ c.kind = "opened"
    BY <1>1, EventIs
<1>3. queue \in Seq(Events) /\ Ordered(queue) /\ Without(queue, Steps)
    BY <1>1, WindowTypes DEF OpeningInv
<1>4. queue' = queue \o es
    BY <1>1
<1> HIDE DEF a, b, c
<1>5. es \in Seq(Events) /\ Len(es) = 3 /\ es[1] = a /\ es[2] = b /\ es[3] = c
    BY <1>2
<1> HIDE DEF es
<1>6. 1..3 = {1, 2, 3}
    OBVIOUS
<1>7. In(es) = {a, b, c}
    BY <1>5, <1>6 DEF In
<1>8. Ordered(es)
    BY <1>2, <1>5, <1>6 DEF Ordered, Precede
<1>9. Without(es, {"count"})
    BY <1>2, <1>7 DEF Without
<1>10. /\ queue \o es \in Seq(Events) /\ In(queue \o es) = In(queue) \cup In(es)
       /\ /\ Ordered(queue) /\ Ordered(es)
          /\ \A d \in In(queue), f \in In(es) : d.kind \in Steps /\ f.kind \in Steps => Precede(d.kind, f.kind)
          => Ordered(queue \o es)
       /\ \A n : Without(es, {"count"}) /\ LastCount(queue, n) => LastCount(queue \o es, n)
    BY <1>3, <1>5, PostedIs
<1>11. Ordered(queue \o es)
    BY <1>3, <1>8, <1>10 DEF Without
<1> QED BY <1>1, <1>3, <1>4, <1>7, <1>9, <1>10, <1>11 DEF a, b, c

\* WalletAdapter has initialised a wallet, or asks for its password, or gives up.
LEMMA InitIs ==
    ASSUME WindowTypeOK, OpeningInv, onWalletInitCompleted
    PROVE  /\ Takes("init")
           /\ \/ /\ Result = "ok" /\ queue' = Append(Tail(queue), Event("reload"))
                 /\ UNCHANGED <<encrypted, wallet>>
              \/ /\ Result = "wrong" /\ queue' = Append(Tail(queue), Event("ask"))
                 /\ encrypted' = TRUE /\ wallet' = "none" /\ UNCHANGED password
              \/ Result = "failed" /\ queue' = Tail(queue) /\ wallet' = "none" /\ UNCHANGED <<password, encrypted>>
           /\ password' \in [Files -> Passwords \cup {"absent", "broken"}]
           /\ queue' \in Seq(Events) /\ Ordered(queue') /\ walletFile \in Wallets
           /\ \A n : LastCount(queue, n) => LastCount(queue', n)
           /\ In(Tail(queue)) \subseteq In(queue')
           /\ \A e \in In(queue') : e \in In(Tail(queue)) \/ (e = Event("reload") /\ Result = "ok") \/ (e = Event("ask") /\ Result = "wrong")
           /\ UNCHANGED <<book, walletFile, readMessages, received, addressBookFile, pass, saveFailed,
                   contacts, enabled, encryptShown, unread, added>>
<1>1. Takes("init") /\ UNCHANGED <<book, walletFile, readMessages, received, addressBookFile, pass, saveFailed,
                   contacts, enabled, encryptShown, unread, added>>
    BY DEF onWalletInitCompleted
<1>2. /\ Tail(queue) \in Seq(Events) /\ Ordered(Tail(queue)) /\ Without(Tail(queue), {"open", "keys", "init", "ask"})
      /\ walletFile \in Wallets
      /\ \A n : LastCount(queue, n) => LastCount(Tail(queue), n)
    BY <1>1, TakesIs
<1> DEFINE q == Tail(queue)
<1>3. \/ /\ Result = "ok" /\ queue' = Append(q, Event("reload"))
         /\ UNCHANGED <<encrypted, wallet>>
      \/ /\ Result = "wrong" /\ queue' = Append(q, Event("ask"))
         /\ encrypted' = TRUE /\ wallet' = "none" /\ UNCHANGED password
      \/ Result = "failed" /\ queue' = q /\ wallet' = "none" /\ UNCHANGED <<password, encrypted>>
    BY DEF onWalletInitCompleted
<1>4. password' \in [Files -> Passwords \cup {"absent", "broken"}]
    <2>1. password \in [Files -> Passwords \cup {"absent", "broken"}] /\ pass \in Passwords
        BY DEF WindowTypeOK
    <2>2. password' = password \/ \E saved \in BOOLEAN : Save(pass, saved)
        BY DEF onWalletInitCompleted
    <2> QED BY <2>1, <2>2 DEF Save
<1>5. Event("reload") \in Events /\ Event("reload").kind = "reload" /\ Event("ask") \in Events /\ Event("ask").kind = "ask"
    BY EventIs
<1> DEFINE reload == Event("reload")
           ask == Event("ask")
<1> HIDE DEF q, reload, ask
<1>6. /\ Append(q, reload) \in Seq(Events) /\ In(Append(q, reload)) = In(q) \cup {reload}
      /\ \A n : LastCount(q, n) => LastCount(Append(q, reload), n)
    BY <1>2, <1>5, AppendedIs DEF q, reload
<1>7. /\ Append(q, ask) \in Seq(Events) /\ In(Append(q, ask)) = In(q) \cup {ask}
      /\ \A n : LastCount(q, n) => LastCount(Append(q, ask), n)
    BY <1>2, <1>5, AppendedIs DEF q, ask
<1>8. Ordered(Append(q, reload))
    <2>1. "reload" \notin Steps
        BY DEF Steps
    <2> QED BY <1>2, <1>5, <2>1, AppendedIs DEF q, reload
<1>9. Ordered(Append(q, ask))
    <2>1. \A d \in In(q) : d.kind \in Steps => Precede(d.kind, ask.kind)
        BY <1>2, <1>5 DEF Without, Steps, Precede, q, ask
    <2> QED BY <1>2, <1>5, <2>1, AppendedIs DEF q, ask
<1>10. queue' \in Seq(Events) /\ Ordered(queue') /\ In(q) \subseteq In(queue')
    BY <1>2, <1>3, <1>6, <1>7, <1>8, <1>9 DEF q, reload, ask
<1>11. \A n : LastCount(queue, n) => LastCount(queue', n)
    BY <1>2, <1>3, <1>6, <1>7 DEF q, reload, ask
<1>12. \A e \in In(queue') : e \in In(q) \/ (e = reload /\ Result = "ok") \/ (e = ask /\ Result = "wrong")
    BY <1>3, <1>6, <1>7 DEF reload, ask
<1> QED BY <1>1, <1>2, <1>3, <1>4, <1>10, <1>11, <1>12 DEF q, reload, ask

\* The user, or a restart, is about to open a wallet.
TurnsTo(wf) ==
    /\ wf \in Files /\ walletFile' = wf /\ addressBookFile' = wf /\ wallet' = "none" /\ enabled' = FALSE
    /\ page' = "none" /\ messageRows' = 0
    /\ queue' = <<Event("open")>> \/ (queue' = <<Event("keys")>> /\ wf \in Wallets)
    /\ UNCHANGED <<readMessages, received>>

Closes == \E file \in Files, saved \in BOOLEAN :
              createWallet(file, saved) \/ openWallet(file, saved) \/ importKey(file, saved) \/ resetWallet(saved)

\* When a wallet is closed nothing is queued, and the window turns to the wallet that is opened next.
LEMMA ClosesIs ==
    ASSUME WindowTypeOK, OpeningInv, Closes
    PROVE  /\ queue = <<>> /\ wallet \in {"none", "open"}
           /\ \E wf \in Files : TurnsTo(wf)
           /\ password' \in [Files -> Passwords \cup {"absent", "broken"}]
           /\ UNCHANGED <<book, added, encrypted, pass, saveFailed, contacts, encryptShown, readCount, badge,
                          seen>>
<1>1. PICK how \in {"open", "keys"}, wf \in Files, saved \in BOOLEAN :
          /\ CloseThen(how, saved) /\ walletFile' = wf /\ addressBookFile' = wf
          /\ how = "keys" => wf \in Wallets
    <2>1. PICK file \in Files, saved \in BOOLEAN :
              createWallet(file, saved) \/ openWallet(file, saved) \/ importKey(file, saved) \/ resetWallet(saved)
        BY DEF Closes
    <2>2. CASE createWallet(file, saved) \/ openWallet(file, saved) \/ importKey(file, saved)
        BY <2>2 DEF createWallet, openWallet, importKey, setWalletFile
    <2>3. CASE resetWallet(saved)
        BY <2>3 DEF resetWallet, OpeningInv, WindowTypeOK
    <2> QED BY <2>1, <2>2, <2>3
<1>2. /\ queue = <<>> /\ wallet \in {"none", "open"} /\ wallet' = "none" /\ walletClosed /\ queue' = <<Event(how)>>
      /\ UNCHANGED <<book, readMessages, received, encrypted, pass, saveFailed, contacts,
                   encryptShown, readCount, badge, seen, added>>
      /\ password' = password \/ Save(pass, saved)
    BY <1>1 DEF CloseThen
<1>3. password' \in [Files -> Passwords \cup {"absent", "broken"}]
    <2>1. password \in [Files -> Passwords \cup {"absent", "broken"}] /\ pass \in Passwords
        BY DEF WindowTypeOK
    <2> QED BY <1>2, <2>1 DEF Save
<1>4. TurnsTo(wf)
    BY <1>1, <1>2 DEF TurnsTo, walletClosed
<1> QED BY <1>2, <1>3, <1>4

\* What is written to the address book of a wallet.
LEMMA LeavesIs ==
    ASSUME WindowTypeOK, OpeningInv, walletFile \in Wallets, NEW left \in SUBSET Contacts, NEW mine \in SUBSET Friends,
           Leaves(left, mine)
    PROVE  /\ book' \in [Files -> SUBSET Contacts] /\ added' \in [Wallets -> SUBSET Friends]
           /\ added'[walletFile] = mine
           /\ ContactsKept /\ mine \subseteq left => ContactsKept'
<1>1. /\ book \in [Files -> SUBSET Contacts] /\ added \in [Wallets -> SUBSET Friends] /\ walletFile \in Files
      /\ book' = [book EXCEPT ![walletFile] = left] /\ added' = [added EXCEPT ![walletFile] = mine]
    BY DEF WindowTypeOK, OpeningInv, Leaves
<1>2. ASSUME ContactsKept, mine \subseteq left PROVE ContactsKept'
    <2>1. \A w \in Wallets : added'[w] \subseteq book'[w]
        BY <1>1, <1>2, WindowConstants DEF ContactsKept
    <2>2. \A k \in KeysFiles : book'[k] = {}
        BY <1>1, <1>2, WindowConstants DEF ContactsKept
    <2> QED BY <2>1, <2>2 DEF ContactsKept
<1> QED BY <1>1, <1>2

\* What a load, or the end of one, may leave in the file are contacts.
LEMMA LoadedIs ==
    ASSUME WindowTypeOK, walletFile = addressBookFile, walletFile \in Wallets
    PROVE  /\ Loaded \in SUBSET Contacts /\ contacts \in SUBSET Contacts /\ book[addressBookFile] \in SUBSET Contacts
           /\ PartlyLoaded \subseteq SUBSET Contacts
           /\ Mine \in SUBSET Friends
           /\ ContactsKept => Mine \subseteq Loaded /\ Mine \subseteq book[addressBookFile]
<1>1. contacts \in SUBSET Contacts /\ book[addressBookFile] \in SUBSET Contacts /\ Mine \in SUBSET Friends
    BY DEF WindowTypeOK, Mine
<1>2. Loaded \in SUBSET Contacts
    BY <1>1 DEF Loaded, Contacts
<1>3. PartlyLoaded \subseteq SUBSET Contacts
    BY <1>1, <1>2 DEF PartlyLoaded, Unsaved
<1>4. ContactsKept => Mine \subseteq Loaded /\ Mine \subseteq book[addressBookFile]
    BY DEF ContactsKept, Mine, Loaded
<1> QED BY <1>1, <1>2, <1>3, <1>4

\* A load changes the address book of the wallet that is open, and what was the user's and is not
\* lost is in the model.
LEMMA LoadsIs ==
    ASSUME WindowTypeOK, OpeningInv, loadAddressBook
    PROVE  /\ walletFile \in Wallets /\ contacts' \in SUBSET Contacts
           /\ \E left \in SUBSET Contacts, mine \in SUBSET Friends :
                  Leaves(left, mine) /\ (ContactsKept => mine \subseteq left /\ mine \subseteq contacts')
<1> DEFINE P(left, mine) == Leaves(left, mine) /\ (ContactsKept => mine \subseteq left /\ mine \subseteq contacts')
<1>1. walletFile \in Wallets /\ walletFile = addressBookFile
    BY TakesIs DEF loadAddressBook, OpeningInv
<1>2. /\ Loaded \in SUBSET Contacts /\ contacts \in SUBSET Contacts /\ book[addressBookFile] \in SUBSET Contacts
      /\ PartlyLoaded \subseteq SUBSET Contacts /\ Mine \in SUBSET Friends
      /\ ContactsKept => Mine \subseteq Loaded /\ Mine \subseteq book[addressBookFile]
    BY <1>1, LoadedIs
<1>3. ASSUME contacts' = contacts \cup Loaded, Leaves(contacts \cup Loaded, Mine)
      PROVE  /\ contacts' \in SUBSET Contacts
             /\ \E l \in SUBSET Contacts, m \in SUBSET Friends : P(l, m)
    <2>1. contacts \cup Loaded \in SUBSET Contacts /\ P(contacts \cup Loaded, Mine)
        BY <1>2, <1>3
    <2> QED BY <1>2, <1>3, <2>1
<1>4. ASSUME contacts' = contacts \cup Loaded, NEW left \in PartlyLoaded, Leaves(left, Mine \cap left)
      PROVE  /\ contacts' \in SUBSET Contacts
             /\ \E l \in SUBSET Contacts, m \in SUBSET Friends : P(l, m)
    <2>1. left \in SUBSET Contacts /\ Mine \cap left \in SUBSET Friends /\ P(left, Mine \cap left)
        BY <1>2, <1>4
    <2>2. contacts' \in SUBSET Contacts
        BY <1>2, <1>4
    <2> QED BY <2>1, <2>2
<1>5. ASSUME contacts' = contacts, Leaves(book[addressBookFile], Mine \cap contacts)
      PROVE  /\ contacts' \in SUBSET Contacts
             /\ \E l \in SUBSET Contacts, m \in SUBSET Friends : P(l, m)
    <2>1. Mine \cap contacts \in SUBSET Friends /\ P(book[addressBookFile], Mine \cap contacts)
        BY <1>2, <1>5
    <2> QED BY <1>2, <1>5, <2>1
<1> HIDE DEF P
<1>6. contacts' \in SUBSET Contacts /\ \E l \in SUBSET Contacts, m \in SUBSET Friends : P(l, m)
    BY <1>3, <1>4, <1>5 DEF loadAddressBook
<1> QED BY <1>1, <1>6 DEF P

\* So does the user who adds or removes a contact.
LEMMA EditsIs ==
    ASSUME WindowTypeOK, OpeningInv, NEW contact \in Contacts, addEntry(contact) \/ removeRows(contact)
    PROVE  /\ walletFile \in Wallets /\ contacts' \in SUBSET Contacts
           /\ \E left \in SUBSET Contacts, mine \in SUBSET Friends :
                  Leaves(left, mine) /\ (BookInv => mine \subseteq left /\ mine \subseteq contacts')
<1> DEFINE P(left, mine) == Leaves(left, mine) /\ (BookInv => mine \subseteq left /\ mine \subseteq contacts')
<1>1. walletFile \in Wallets /\ walletFile = addressBookFile /\ enabled
    BY DEF addEntry, removeRows, UserMayClick, OpeningInv
<1>2. /\ contacts \in SUBSET Contacts /\ Mine \in SUBSET Friends /\ Unsaved \subseteq SUBSET Contacts
      /\ BookInv => Mine \subseteq contacts
    BY <1>1 DEF WindowTypeOK, Mine, Unsaved, BookInv
<1>3. ASSUME NEW list \in SUBSET Contacts, NEW mine \in SUBSET Friends, saveAddressBook(list, mine),
             BookInv => mine \subseteq list
      PROVE  /\ contacts' \in SUBSET Contacts
             /\ \E l \in SUBSET Contacts, m \in SUBSET Friends : P(l, m)
    <2>1. contacts' = list
        BY <1>3 DEF saveAddressBook
    <2>2. CASE Leaves(list, mine)
        <3>1. P(list, mine)
            BY <1>3, <2>1, <2>2
        <3> QED BY <2>1, <3>1
    <2>3. ASSUME NEW left \in Unsaved, Leaves(left, mine \cap left)
          PROVE  \E l \in SUBSET Contacts, m \in SUBSET Friends : P(l, m)
        <3>1. left \in SUBSET Contacts /\ mine \cap left \in SUBSET Friends /\ P(left, mine \cap left)
            BY <1>2, <1>3, <2>1, <2>3
        <3> QED BY <3>1
    <2> HIDE DEF P
    <2> QED BY <1>3, <2>1, <2>2, <2>3 DEF saveAddressBook
<1> HIDE DEF P
<1>4. contacts' \in SUBSET Contacts /\ \E l \in SUBSET Contacts, m \in SUBSET Friends : P(l, m)
    <2>1. CASE addEntry(contact)
        <3>1. /\ contacts \cup {contact} \in SUBSET Contacts /\ Mine \cup {contact} \in SUBSET Friends
              /\ saveAddressBook(contacts \cup {contact}, Mine \cup {contact})
              /\ BookInv => Mine \cup {contact} \subseteq contacts \cup {contact}
            BY <1>2, <2>1 DEF addEntry
        <3> QED BY <1>3, <3>1
    <2>2. CASE removeRows(contact)
        <3>1. /\ contacts \ {contact} \in SUBSET Contacts /\ Mine \ {contact} \in SUBSET Friends
              /\ saveAddressBook(contacts \ {contact}, Mine \ {contact})
              /\ BookInv => Mine \ {contact} \subseteq contacts \ {contact}
            BY <1>2, <2>2 DEF removeRows
        <3> QED BY <1>3, <3>1
    <2> QED BY <2>1, <2>2
<1> QED BY <1>1, <1>4 DEF P

\* A restart turns to the wallet of Settings, with nothing seen; it may cut a save off.
LEMMA RestartIs ==
    ASSUME WindowTypeOK, OpeningInv, Restart
    PROVE  /\ TurnsTo(walletFile) /\ seen' = NotSeen
           /\ \/ UNCHANGED <<book, added>>
              \/ /\ walletFile \in Wallets
                 /\ \E left \in SUBSET Contacts, mine \in SUBSET Friends : Leaves(left, mine) /\ mine \subseteq left
<1> DEFINE P(left, mine) == Leaves(left, mine) /\ mine \subseteq left
<1>1. TurnsTo(walletFile) /\ seen' = NotSeen
    BY DEF Restart, StartWith, TurnsTo, WindowTypeOK
<1>2. ASSUME Takes("book"), NEW left \in PartlyLoaded, Leaves(left, Mine \cap left)
      PROVE  walletFile \in Wallets /\ \E l \in SUBSET Contacts, m \in SUBSET Friends : P(l, m)
    <2>1. walletFile \in Wallets /\ walletFile = addressBookFile
        BY <1>2, TakesIs DEF OpeningInv
    <2>2. left \in SUBSET Contacts /\ Mine \cap left \in SUBSET Friends /\ P(left, Mine \cap left)
        BY <1>2, <2>1, LoadedIs
    <2> QED BY <2>1, <2>2
<1>3. CASE UserMayClick /\ Leaves({}, {})
    <2>1. walletFile \in Wallets
        BY <1>3 DEF UserMayClick, OpeningInv
    <2>2. P({}, {})
        BY <1>3
    <2> QED BY <1>1, <2>1, <2>2
<1> QED BY <1>1, <1>2, <1>3 DEF Restart

-----------------------------------------------------------------------------
(* The steps of the window. *)

\* What the slots and the user do.
LEMMA WindowActions ==
    ASSUME [WindowNext]_windowVars
    PROVE  \/ \E given \in Passwords : (Takes("open") \/ Takes("ask")) /\ open(given)
           \/ createWithKeys \/ LoadEnds \/ onWalletInitCompleted \/ loadAddressBook \/ walletOpened
           \/ reloadMessages \/ appendMessage \/ messagesCountUpdated
           \/ RefusePassword \/ Closes \/ Restart
           \/ \E new \in Passwords, saved \in BOOLEAN : encryptWallet(new, saved)
           \/ SaveNow
           \/ \E contact \in Contacts : addEntry(contact) \/ removeRows(contact)
           \/ Receive \/ (\E to \in {"overview", "messages"} : switchMenu(to))
           \/ UNCHANGED windowVars
<1>1. CASE Opening
    <2>1. CASE Open
        BY <2>1, WindowConstants DEF Open
    <2>2. CASE WalletUser
        <3>1. CASE \E given \in Passwords : askForWalletPassword(given)
            BY <3>1 DEF askForWalletPassword
        <3>2. CASE (\E file \in Files, saved \in BOOLEAN :
                        createWallet(file, saved) \/ openWallet(file, saved) \/ importKey(file, saved))
                   \/ \E saved \in BOOLEAN : resetWallet(saved)
            <4>1. First \in Files
                BY WindowConstants
            <4> QED BY <3>2, <4>1 DEF Closes
        <3> QED BY <2>2, <3>1, <3>2 DEF WalletUser
    <2> QED BY <1>1, <2>1, <2>2 DEF Opening, Slots
<1>2. CASE PasswordUser \/ ContactsUser \/ MessagesUser
    BY <1>2 DEF PasswordUser, ContactsUser, MessagesUser
<1> QED BY <1>1, <1>2 DEF WindowNext

\* The wallet file that is open has messages.
LEMMA WalletIs ==
    ASSUME WindowTypeOK, walletFile \in Wallets
    PROVE  received[walletFile] \in 0..MessageLimit
BY DEF WindowTypeOK

\* MessagesModel appends what it has not: the steps of both slots.
LEMMA AppendsIs ==
    ASSUME WindowTypeOK, OpeningInv, ReceivedInv, reloadMessages \/ appendMessage
    PROVE  \E kind \in {"reload", "created"}, first \in 1..(MessageLimit + 1), last \in 0..MessageLimit :
               /\ Takes(kind) /\ walletFile \in Wallets
               /\ first <= last + 1 /\ last <= received[walletFile] /\ messageRows <= last
               /\ AppendUpTo(first, last)
               /\ kind = "reload" => first = 1 /\ last = received[walletFile]
               /\ kind = "created" => first = messageRows + 1 /\ last >= Count
<1>1. CASE reloadMessages
    <2>1. Takes("reload") /\ AppendUpTo(1, received[walletFile])
        BY <1>1 DEF reloadMessages
    <2>2. walletFile \in Wallets
        BY <2>1, TakesIs
    <2>3. received[walletFile] \in 0..MessageLimit /\ MessageLimit \in Nat
        BY <2>2, WalletIs, Limits
    <2> DEFINE last == received[walletFile]
    <2>4. 1 \in 1..(MessageLimit + 1) /\ 1 <= last + 1 /\ last \in 0..MessageLimit /\ messageRows <= last
        BY <2>2, <2>3 DEF ReceivedInv
    <2>5. last <= received[walletFile]
        BY <2>4
    <2> QED BY <2>1, <2>2, <2>4, <2>5
<1>2. CASE appendMessage
    <2>1. Takes("created") /\ AppendUpTo(messageRows + 1, Max({Count, messageRows}))
        BY <1>2 DEF appendMessage
    <2>2. walletFile \in Wallets /\ Head(queue) \in Events /\ Head(queue) \in In(queue) /\ Head(queue).kind = "created"
        BY <2>1, TakesIs
    <2>3. received[walletFile] \in 0..MessageLimit /\ MessageLimit \in Nat
        BY <2>2, WalletIs, Limits
    <2>4. Count \in 0..MessageLimit /\ Count <= received[walletFile]
        BY <2>2 DEF ReceivedInv, Events, Count
    <2>5. messageRows \in 0..MessageLimit /\ messageRows <= received[walletFile]
        BY <2>2 DEF WindowTypeOK, ReceivedInv
    <2> DEFINE last == Max({Count, messageRows})
    <2>6. last = IF Count >= messageRows THEN Count ELSE messageRows
        BY <2>4, <2>5, MaxIs
    <2> HIDE DEF last
    <2>7. /\ messageRows + 1 \in 1..(MessageLimit + 1) /\ messageRows + 1 <= last + 1 /\ last \in 0..MessageLimit
          /\ last <= received[walletFile] /\ messageRows <= last /\ last >= Count
        BY <2>3, <2>4, <2>5, <2>6
    <2>8. AppendUpTo(messageRows + 1, last)
        BY <2>1 DEF last
    <2> QED BY <2>1, <2>2, <2>7, <2>8
<1> QED BY <1>1, <1>2

\* Every step keeps the types.
LEMMA TypesKept ==
    ASSUME WindowTypeOK, OpeningInv, ReceivedInv, [WindowNext]_windowVars
    PROVE  WindowTypeOK'
<1>0. /\ queue \in Seq(Events) /\ walletFile \in Files /\ pass \in Passwords
      /\ Contacts = Friends \cup {"Me", "xDrop Dev"} /\ walletFile = addressBookFile
    BY WindowTypes DEF Contacts, OpeningInv
<1>a. \A kind \in {"ask", "open", "keys"} : <<Event(kind)>> \in Seq(Events)
    BY EventIs, SingleIs
<1>b. \A count \in 0..MessageLimit : Append(queue, Counted("created", count)) \in Seq(Events)
    BY <1>0, EventIs, AppendedIs
<1> USE DEF Events
<1>1. ASSUME NEW given \in Passwords, Takes("open") \/ Takes("ask"), open(given)
      PROVE  WindowTypeOK'
    <2>1. queue' \in Seq(Events)
        <3>1. Tail(queue) \in Seq(Events)
            BY <1>1, TakesIs
        <3>2. <<Event("ask")>> \in Seq(Events)
            BY <1>a
        <3> QED BY <1>1, <3>1, <3>2, OpenIs
    <2>2. /\ walletFile' \in Files /\ addressBookFile' \in Files /\ pass' \in Passwords /\ saveFailed' = FALSE
          /\ encrypted' \in BOOLEAN /\ wallet' \in {"none", "loading", "generating"}
          /\ password' \in [Files -> Passwords \cup {"absent", "broken"}]
          /\ UNCHANGED <<book, readMessages, received, contacts, enabled, encryptShown, unread, added>>
        BY <1>1, OpenIs
    <2> QED BY <2>1, <2>2 DEF WindowTypeOK, unread
<1>2. CASE createWithKeys
    <2>1. Tail(queue) \in Seq(Events) /\ "" \in Passwords
        BY <1>2, TakesIs, WindowConstants DEF createWithKeys
    <2> QED BY <1>2, <2>1 DEF createWithKeys, WindowTypeOK, disk, unread
<1>3. CASE LoadEnds
    <2>1. queue' \in Seq(Events)
        BY <1>3, LoadEndsIs
    <2> QED BY <1>3, <2>1 DEF LoadEnds, WindowTypeOK, disk, unread
<1>4. CASE onWalletInitCompleted
    <2>1. /\ queue' \in Seq(Events) /\ password' \in [Files -> Passwords \cup {"absent", "broken"}]
          /\ UNCHANGED <<book, walletFile, readMessages, received, addressBookFile, pass, saveFailed,
                   contacts, enabled, encryptShown, unread, added>>
        BY <1>4, InitIs
    <2>2. wallet' \in {wallet, "none"} /\ encrypted' \in {encrypted, TRUE}
        BY <1>4, InitIs
    <2> QED BY <2>1, <2>2, ZenonT(40) DEF WindowTypeOK, unread
<1>5. CASE loadAddressBook
    <2>1. Tail(queue) \in Seq(Events)
        BY <1>5, TakesIs DEF loadAddressBook
    <2>2. /\ contacts' \subseteq Contacts /\ book' \in [Files -> SUBSET Contacts]
          /\ added' \in [Wallets -> SUBSET Friends]
        BY <1>5, LoadsIs, LeavesIs
    <2>3. /\ queue' = Tail(queue)
          /\ UNCHANGED <<password, walletFile, readMessages, received, adapter, enabled, encryptShown, unread>>
        BY <1>5 DEF loadAddressBook
    <2> QED BY <2>1, <2>2, <2>3 DEF WindowTypeOK, adapter, unread
<1>6. CASE walletOpened
    <2>1. Tail(queue) \in Seq(Events)
        BY <1>6, TakesIs DEF walletOpened
    <2> QED BY <1>6, <2>1 DEF walletOpened, WindowTypeOK, disk, adapter
<1>7. CASE reloadMessages \/ appendMessage
    <2>1. PICK kind \in {"reload", "created"}, first \in 1..(MessageLimit + 1), last \in 0..MessageLimit :
              /\ Takes(kind) /\ walletFile \in Wallets
              /\ first <= last + 1 /\ AppendUpTo(first, last)
        BY <1>7, AppendsIs
    <2>2. queue' \in Seq(Events) /\ messageRows' = last
        BY <2>1, AppendUpToIs DEF Takes
    <2>3. seen' \in {NotSeen} \cup (Wallets \X (0..MessageLimit))
        BY <2>1, <2>2 DEF AppendUpTo, Look, WindowTypeOK
    <2> QED BY <2>1, <2>2, <2>3 DEF AppendUpTo, WindowTypeOK, disk, adapter
<1>8. CASE messagesCountUpdated
    <2>1. Tail(queue) \in Seq(Events) /\ Head(queue) \in Events
        BY <1>8, TakesIs DEF messagesCountUpdated
    <2>2. Count \in Int /\ readCount \in Int
        <3>1. Count \in 0..MessageLimit /\ readCount \in 0..MessageLimit /\ MessageLimit \in Nat
            BY <2>1, Limits DEF WindowTypeOK, Count
        <3> QED BY <3>1
    <2>3. badge' \in 0..BadgeLimit
        <3>1. Min({Max({Count - readCount, 0}), BadgeLimit}) \in 0..BadgeLimit /\ Min({0, BadgeLimit}) = 0 /\ 0 \in 0..BadgeLimit
            BY <2>2, BadgeIs, Limits
        <3> QED BY <1>8, <3>1 DEF messagesCountUpdated, showUnread
    <2>4. readCount' \in {readCount, messageRows}
        BY <1>8 DEF messagesCountUpdated
    <2> QED BY <1>8, <2>1, <2>3, <2>4, ZenonT(40) DEF messagesCountUpdated, WindowTypeOK, disk, adapter
<1>9. CASE RefusePassword
    <2>1. Tail(queue) \in Seq(Events)
        BY <1>9, TakesIs DEF RefusePassword
    <2> QED BY <1>9, <2>1 DEF RefusePassword, WindowTypeOK, disk, adapter, unread
<1>10. ASSUME NEW wf \in Files, TurnsTo(wf), password' \in [Files -> Passwords \cup {"absent", "broken"}],
              encrypted' \in BOOLEAN, pass' \in Passwords, contacts' \subseteq Contacts, encryptShown' \in BOOLEAN,
              saveFailed' \in BOOLEAN, readCount' \in 0..MessageLimit, badge' \in 0..BadgeLimit,
              seen' \in {NotSeen} \cup (Wallets \X (0..MessageLimit)),
              book' \in [Files -> SUBSET Contacts], added' \in [Wallets -> SUBSET Friends]
       PROVE  WindowTypeOK'
    <2>1. <<Event("open")>> \in Seq(Events) /\ <<Event("keys")>> \in Seq(Events)
        BY <1>a
    <2>2. queue' \in Seq(Events) /\ 0 \in 0..MessageLimit
        <3>1. 0 \in 0..MessageLimit
            BY Limits
        <3> QED BY <1>10, <2>1, <3>1 DEF TurnsTo
    <2> QED BY <1>10, <2>2 DEF TurnsTo, WindowTypeOK
<1>11. CASE Closes
    <2>1. PICK wf \in Files : TurnsTo(wf)
        BY <1>11, ClosesIs
    <2>2. /\ password' \in [Files -> Passwords \cup {"absent", "broken"}]
          /\ UNCHANGED <<book, added, encrypted, pass, saveFailed, contacts, encryptShown, readCount, badge, seen>>
        BY <1>11, ClosesIs
    <2> QED BY <1>10, <2>1, <2>2 DEF WindowTypeOK
<1>12. CASE Restart
    <2>1. TurnsTo(walletFile)
        BY <1>12, RestartIs
    <2>2. "" \in Passwords /\ 0 \in 0..BadgeLimit
        <3>1. "" \in Passwords
            BY WindowConstants
        <3>2. 0 \in 0..BadgeLimit
            BY Limits
        <3> QED BY <3>1, <3>2
    <2>3. book' \in [Files -> SUBSET Contacts] /\ added' \in [Wallets -> SUBSET Friends]
        <3>1. CASE UNCHANGED <<book, added>>
            BY <3>1 DEF WindowTypeOK
        <3> QED BY <1>12, <3>1, RestartIs, LeavesIs
    <2> QED BY <1>0, <1>10, <1>12, <2>1, <2>2, <2>3 DEF Restart, StartWith, WindowTypeOK
<1>13. CASE \E new \in Passwords, saved \in BOOLEAN : encryptWallet(new, saved)
    <2>1. PICK new \in Passwords, saved \in BOOLEAN : encryptWallet(new, saved)
        BY <1>13
    <2>2. /\ pass' = new /\ encrypted' \in BOOLEAN /\ encryptShown' \in BOOLEAN /\ saveFailed' \in BOOLEAN
          /\ UNCHANGED <<book, walletFile, readMessages, received, addressBookFile, wallet, queue,
                   contacts, enabled, unread, added>>
        BY <2>1 DEF encryptWallet, changePassword, WindowTypeOK
    <2>3. password' \in [Files -> Passwords \cup {"absent", "broken"}]
        BY <1>0, <2>1 DEF encryptWallet, changePassword, Save, WindowTypeOK
    <2> QED BY <2>1, <2>2, <2>3 DEF WindowTypeOK, unread
<1>14. CASE SaveNow
    <2>1. password' \in [Files -> Passwords \cup {"absent", "broken"}]
        BY <1>0, <1>14 DEF SaveNow, Save, WindowTypeOK
    <2> QED BY <1>14, <2>1 DEF SaveNow, WindowTypeOK, adapter, unread
<1>15. CASE \E contact \in Contacts : addEntry(contact) \/ removeRows(contact)
    <2>1. PICK contact \in Contacts : addEntry(contact) \/ removeRows(contact)
        BY <1>15
    <2>2. /\ contacts' \subseteq Contacts /\ book' \in [Files -> SUBSET Contacts]
          /\ added' \in [Wallets -> SUBSET Friends]
        BY <2>1, EditsIs, LeavesIs
    <2>3. UNCHANGED <<password, walletFile, readMessages, received, adapter, queue, enabled, encryptShown, unread>>
        BY <2>1 DEF addEntry, removeRows
    <2> QED BY <2>2, <2>3 DEF WindowTypeOK, adapter, unread
<1>16. CASE Receive
    <2>1. /\ walletFile \in Wallets /\ received' = [received EXCEPT ![walletFile] = @ + 1]
          /\ received[walletFile] < MessageLimit /\ received[walletFile] \in 0..MessageLimit
          /\ queue' = Append(queue, Counted("created", received'[walletFile]))
        BY <1>16, WalletIs DEF Receive
    <2>2. received' \in [Wallets -> 0..MessageLimit] /\ received'[walletFile] \in 0..MessageLimit
        <3>1. received[walletFile] + 1 \in 0..MessageLimit
            BY <2>1, Limits
        <3> QED BY <2>1, <3>1 DEF WindowTypeOK
    <2>3. queue' \in Seq(Events)
        BY <1>b, <2>1, <2>2
    <2> QED BY <1>16, <2>2, <2>3 DEF Receive, WindowTypeOK, adapter, unread
<1>17. CASE \E to \in {"overview", "messages"} : switchMenu(to)
    <2>1. PICK to \in {"overview", "messages"} : switchMenu(to)
        BY <1>17
    <2>2. Min({0, BadgeLimit}) = 0 /\ 0 \in 0..BadgeLimit
        <3>1. 0 \in Int /\ 0 \in 0..BadgeLimit
            BY Limits
        <3> QED BY <3>1, BadgeIs
    <2>3. badge' \in 0..BadgeLimit /\ readCount' \in 0..MessageLimit /\ readMessages' \in 0..MessageLimit
        BY <2>1, <2>2 DEF switchMenu, showUnread, setReadMessages, WindowTypeOK
    <2>4. walletFile \in Wallets
        BY <2>1 DEF switchMenu, UserMayClick, OpeningInv
    <2>5. seen' \in {NotSeen} \cup (Wallets \X (0..MessageLimit))
        BY <2>1, <2>4 DEF switchMenu, Look, WindowTypeOK
    <2> QED BY <2>1, <2>3, <2>5 DEF switchMenu, WindowTypeOK, adapter
<1>18. CASE UNCHANGED windowVars
    BY <1>18 DEF windowVars, WindowTypeOK, disk, adapter, unread
<1> QED BY <1>1, <1>2, <1>3, <1>4, <1>5, <1>6, <1>7, <1>8, <1>9, <1>11, <1>12, <1>13, <1>14, <1>15,
           <1>16, <1>17, <1>18, WindowActions

\* The parts of OpeningInv that only depend on the queue and the wallet follow from these.
LEMMA OpeningFollows ==
    ASSUME Ordered(queue'), enabled' \in BOOLEAN, walletFile' \in Wallets,
           wallet' \in {"loading", "generating"} => Without(queue', Steps),
           Without(queue', {"open", "keys"}), Without(queue', {"ask"}) \/ wallet' = "none",
           Without(queue', {"init"}) \/ wallet' = "open",
           enabled' => Without(queue', Steps) /\ wallet' = "open", addressBookFile' = walletFile'
    PROVE  OpeningInv'
<1>1. Without(queue', {"open", "keys", "ask"}) \/ wallet' = "none"
    BY DEF Without
<1> QED BY <1>1 DEF OpeningInv, Without, In, Ordered

\* Fewer steps, or events that are not steps, leave it as it is.
LEMMA OpeningStays ==
    ASSUME WindowTypeOK, OpeningInv, Ordered(queue'), Without(queue', {"open", "keys"}),
           \A e \in In(queue') : e.kind \in Steps => e \in In(queue),
           UNCHANGED <<wallet, walletFile, addressBookFile, enabled>>, walletFile \in Wallets
    PROVE  OpeningInv'
<1>1. \A kinds \in SUBSET Steps : Without(queue, kinds) => Without(queue', kinds)
    BY DEF Without
<1>2. /\ wallet' \in {"loading", "generating"} => Without(queue', Steps)
      /\ Without(queue', {"ask"}) \/ wallet' = "none"
      /\ Without(queue', {"init"}) \/ wallet' = "open"
      /\ enabled' => Without(queue', Steps) /\ wallet' = "open"
    <2>1. {"ask"} \in SUBSET Steps /\ {"init"} \in SUBSET Steps /\ Steps \in SUBSET Steps
        BY DEF Steps
    <2>2. Without(queue, {"ask"}) \/ wallet = "none"
        BY DEF OpeningInv, Without
    <2> QED BY <1>1, <2>1, <2>2 DEF OpeningInv
<1>3. enabled' \in BOOLEAN
    BY WindowTypes
<1> QED BY <1>2, <1>3, OpeningFollows DEF OpeningInv

\* Every step keeps the order in which a wallet is opened.
LEMMA OpeningKept ==
    ASSUME WindowTypeOK, OpeningInv, PasswordInv, ReceivedInv, [WindowNext]_windowVars
    PROVE  OpeningInv'
<1>0. queue \in Seq(Events) /\ Ordered(queue) /\ addressBookFile = walletFile /\ walletFile \in Files /\ enabled \in BOOLEAN
    BY WindowTypes DEF OpeningInv
<1>1. ASSUME NEW given \in Passwords, Takes("open") \/ Takes("ask"), open(given)
      PROVE  OpeningInv'
    <2>1. Ordered(Tail(queue)) /\ Without(Tail(queue), Steps)
        BY <1>1, TakesIs, OpenIs
    <2>2. ~enabled' /\ enabled' \in BOOLEAN /\ addressBookFile' = walletFile'
        BY <1>0, <1>1, OpenIs
    <2>3. CASE queue' = Tail(queue) /\ wallet' \in {"loading", "generating"} /\ walletFile' \in Wallets
        <3>1. /\ Ordered(queue') /\ Without(queue', Steps) /\ Without(queue', {"open", "keys"})
              /\ Without(queue', {"ask"}) /\ Without(queue', {"init"})
            BY <2>1, <2>3 DEF Without, Steps
        <3> QED BY <2>2, <2>3, <3>1, OpeningFollows
    <2>4. CASE queue' = <<Event("ask")>> /\ wallet' = "none" /\ walletFile' = walletFile /\ walletFile \notin Wallets
        <3>1. Event("ask") \in Events /\ Event("ask").kind = "ask"
            BY EventIs
        <3>2. In(queue') = {Event("ask")} /\ Ordered(queue') /\ Len(queue') = 1
            BY <2>4, <3>1, SingleIs
        <3>3. Without(queue', {"open", "keys"}) /\ Without(queue', {"init"})
            BY <3>1, <3>2 DEF Without
        <3>4. messageRows' = 0
            BY <1>1, <2>4, OpenIs DEF unread
        <3>5. \A e \in In(queue') : e.kind \in {"open", "ask"}
            BY <3>1, <3>2
        <3> QED BY <2>2, <2>4, <3>2, <3>3, <3>4, <3>5 DEF OpeningInv, Without, In, Ordered
    <2> QED BY <1>1, <2>3, <2>4, OpenIs
<1>2. CASE createWithKeys
    <2>1. Takes("keys") /\ queue' = Tail(queue) /\ wallet' = "generating"
          /\ UNCHANGED <<walletFile, addressBookFile, enabled>>
        BY <1>2 DEF createWithKeys, disk
    <2>2. Tail(queue) = <<>> /\ ~enabled /\ walletFile \in Wallets
        BY <2>1, TakesIs DEF Steps
    <2>3. /\ Ordered(queue') /\ Without(queue', Steps) /\ Without(queue', {"open", "keys"})
          /\ Without(queue', {"ask"}) /\ Without(queue', {"init"})
        BY <2>1, <2>2, NothingIs DEF Without
    <2> QED BY <1>0, <2>1, <2>2, <2>3, OpeningFollows
<1>3. CASE LoadEnds
    <2>1. wallet' = "open" /\ UNCHANGED <<walletFile, addressBookFile, enabled>> /\ wallet \in {"loading", "generating"}
        BY <1>3 DEF LoadEnds, disk
    <2>2. walletFile \in Wallets /\ ~enabled
        BY <2>1 DEF OpeningInv
    <2>3. PICK result \in {"ok", "wrong", "failed"} :
               /\ Ordered(queue') /\ Without(queue, Steps)
               /\ In(queue') = In(queue) \cup {Told("init", result), Event("book"), Told("opened", result)}
        BY <1>3, LoadEndsIs
    <2>4. Told("init", result).kind = "init" /\ Event("book").kind = "book" /\ Told("opened", result).kind = "opened"
        BY EventIs
    <2>5. Without(queue', {"open", "keys"}) /\ Without(queue', {"ask"})
        BY <2>3, <2>4 DEF Without, Steps
    <2> QED BY <1>0, <2>1, <2>2, <2>3, <2>5, OpeningFollows
<1>4. CASE onWalletInitCompleted
    <2>1. /\ Takes("init") /\ Ordered(queue') /\ walletFile \in Wallets
          /\ \A e \in In(queue') : e \in In(Tail(queue)) \/ (e = Event("reload") /\ Result = "ok") \/ (e = Event("ask") /\ Result = "wrong")
          /\ UNCHANGED <<walletFile, addressBookFile, enabled>>
        BY <1>4, InitIs
    <2>2. Without(Tail(queue), {"open", "keys", "init", "ask"}) /\ wallet = "open" /\ ~enabled
        BY <2>1, TakesIs DEF Steps
    <2>3. Event("reload").kind = "reload" /\ Event("ask").kind = "ask"
        BY EventIs
    <2>4. Without(queue', {"open", "keys"}) /\ Without(queue', {"init"})
        BY <2>1, <2>2, <2>3 DEF Without
    <2>5. Without(queue', {"ask"}) \/ wallet' = "none"
        <3>1. Result # "wrong" \/ wallet' = "none"
            BY <1>4, InitIs
        <3> QED BY <2>1, <2>2, <2>3, <3>1 DEF Without
    <2>6. wallet' \in {"open", "none"}
        BY <1>4, <2>2, InitIs
    <2> QED BY <1>0, <2>1, <2>2, <2>4, <2>5, <2>6, OpeningFollows
<1>5. CASE loadAddressBook
    <2>1. Takes("book") /\ queue' = Tail(queue) /\ UNCHANGED <<wallet, walletFile, addressBookFile, enabled>>
        BY <1>5 DEF loadAddressBook, adapter
    <2>2. /\ Ordered(Tail(queue)) /\ In(Tail(queue)) \subseteq In(queue)
          /\ Without(Tail(queue), {"open", "keys"}) /\ walletFile \in Wallets
        BY <2>1, TakesIs DEF Without
    <2> QED BY <2>1, <2>2, OpeningStays
<1>6. CASE walletOpened
    <2>1. /\ Takes("opened") /\ queue' = Tail(queue) /\ UNCHANGED <<wallet, walletFile, addressBookFile>>
          /\ enabled' = (Result = "ok")
        BY <1>6 DEF walletOpened, adapter, disk
    <2>2. /\ Ordered(Tail(queue)) /\ In(Tail(queue)) \subseteq In(queue) /\ Head(queue) \in In(queue)
          /\ Without(Tail(queue), {"open", "keys", "init", "book", "opened"}) /\ walletFile \in Wallets
          /\ Head(queue).kind = "opened" /\ wallet \in {"none", "open"}
        BY <2>1, TakesIs DEF Steps
    <2>3. enabled' => wallet = "open"
        BY <2>1, <2>2 DEF PasswordInv, Opens, Result
    <2>4. Without(queue, {"ask"}) \/ wallet = "none"
        BY DEF OpeningInv, Without
    <2>5. Without(queue', {"init"}) /\ Without(queue', {"open", "keys"}) /\ (Without(queue', {"ask"}) \/ wallet' = "none")
        BY <2>1, <2>2, <2>4 DEF Without
    <2>6. enabled' => Without(queue', Steps)
        BY <2>1, <2>2, <2>3, <2>5 DEF Without, Steps
    <2> QED BY <1>0, <2>1, <2>2, <2>3, <2>5, <2>6, OpeningFollows
<1>7. CASE reloadMessages \/ appendMessage
    <2>1. PICK kind \in {"reload", "created"}, first \in 1..(MessageLimit + 1), last \in 0..MessageLimit :
              /\ Takes(kind) /\ walletFile \in Wallets
              /\ first <= last + 1 /\ AppendUpTo(first, last)
        BY <1>7, AppendsIs
    <2>2. /\ Ordered(queue') /\ \A e \in In(queue') : e \in In(Tail(queue)) \/ e.kind = "count"
          /\ UNCHANGED <<wallet, walletFile, addressBookFile, enabled>>
        BY <1>0, <2>1, AppendUpToIs DEF Takes, AppendUpTo, adapter, disk
    <2>3. In(Tail(queue)) \subseteq In(queue) /\ (kind \in {"open", "keys"} \/ Without(queue, {"open", "keys"}))
        <3>1. In(queue) = {Head(queue)} \cup In(Tail(queue)) /\ Head(queue).kind = kind
            BY <2>1, TakesIs
        <3>2. Len(queue) <= 1 => Tail(queue) = <<>>
            BY <1>0, <2>1, TakenIs DEF Takes
        <3>3. Len(queue) = 1 => In(queue) = {Head(queue)}
            <4>1. Len(queue) = 1 => Len(queue) <= 1
                OBVIOUS
            <4>2. Tail(queue) = <<>> => In(Tail(queue)) = {}
                BY NothingIs
            <4> QED BY <3>1, <3>2, <4>1, <4>2
        <3> QED BY <2>1, <3>1, <3>3 DEF OpeningInv, Without
    <2>4. Without(queue', {"open", "keys"})
        BY <2>2, <2>3 DEF Without
    <2>5. \A e \in In(queue') : e.kind \in Steps => e \in In(queue)
        BY <2>2, <2>3 DEF Steps
    <2> QED BY <2>1, <2>2, <2>4, <2>5, OpeningStays
<1>8. CASE messagesCountUpdated
    <2>1. Takes("count") /\ queue' = Tail(queue) /\ UNCHANGED <<wallet, walletFile, addressBookFile, enabled>>
        BY <1>8 DEF messagesCountUpdated, adapter, disk
    <2>2. /\ Ordered(queue') /\ In(queue) = {Head(queue)} \cup In(queue') /\ Head(queue).kind = "count"
          /\ walletFile \in Wallets
        BY <2>1, TakesIs
    <2>3. Len(queue) <= 1 => queue' = <<>>
        BY <1>0, <2>1, TakenIs DEF Takes
    <2>4. Without(queue', {"open", "keys"})
        <3>1. Len(queue) = 1 => In(queue') = {}
            BY <2>3, NothingIs
        <3> QED BY <2>2, <3>1 DEF OpeningInv, Without
    <2> QED BY <2>1, <2>2, <2>4, OpeningStays
<1>9. CASE RefusePassword
    <2>1. Takes("ask") /\ queue' = Tail(queue) /\ UNCHANGED <<wallet, walletFile, addressBookFile, enabled, messageRows>>
        BY <1>9 DEF RefusePassword, adapter, disk, unread
    <2>2. /\ Ordered(queue') /\ Without(queue', Steps) /\ wallet = "none" /\ ~enabled
          /\ walletFile \notin Wallets => queue' = <<>> /\ messageRows = 0
        BY <2>1, TakesIs DEF Steps
    <2>3. Without(queue', {"open", "keys"}) /\ Without(queue', {"ask"}) /\ Without(queue', {"init"})
        BY <2>2 DEF Without, Steps
    <2>4. CASE walletFile \in Wallets
        BY <1>0, <2>1, <2>2, <2>3, <2>4, OpeningFollows
    <2>5. CASE walletFile \notin Wallets
        <3>1. Len(queue') = 0 /\ In(queue') = {}
            BY <2>2, <2>5, NothingIs
        <3>2. Len(queue') <= 1
            BY <3>1
        <3> QED BY <1>0, <2>1, <2>2, <2>3, <2>5, <3>1, <3>2 DEF OpeningInv, Without, In, Ordered
    <2> QED BY <2>4, <2>5
<1>10. ASSUME NEW wf \in Files, TurnsTo(wf)
       PROVE  OpeningInv'
    <2>1. PICK how \in {"open", "keys"} : queue' = <<Event(how)>> /\ (how = "keys" => wf \in Wallets)
        BY <1>10 DEF TurnsTo
    <2>2. Event(how) \in Events /\ Event(how).kind = how
        BY EventIs
    <2>3. In(queue') = {Event(how)} /\ Ordered(queue') /\ Len(queue') = 1
        BY <2>1, <2>2, SingleIs
    <2>4. Without(queue', {"init"}) /\ (wf \notin Wallets => \A e \in In(queue') : e.kind \in {"open", "ask"})
        BY <2>1, <2>2, <2>3 DEF Without
    <2>5. Len(queue') <= 1
        BY <2>3
    <2> QED BY <1>10, <2>3, <2>4, <2>5 DEF TurnsTo, OpeningInv, Without, In, Ordered
<1>11. CASE Closes \/ Restart
    BY <1>0, <1>10, <1>11, ClosesIs, RestartIs
<1>12. ASSUME UNCHANGED <<queue, wallet, walletFile, addressBookFile, enabled, messageRows>>
       PROVE  OpeningInv'
    BY <1>12 DEF OpeningInv, Without, In, Ordered
<1>13. CASE \/ \E new \in Passwords, saved \in BOOLEAN : encryptWallet(new, saved)
            \/ SaveNow
            \/ \E contact \in Contacts : addEntry(contact) \/ removeRows(contact)
            \/ \E to \in {"overview", "messages"} : switchMenu(to)
            \/ UNCHANGED windowVars
    <2>1. UNCHANGED <<queue, wallet, walletFile, addressBookFile, enabled, messageRows>>
        BY <1>13 DEF encryptWallet, SaveNow, addEntry, removeRows, switchMenu, windowVars, adapter, disk, unread
    <2> QED BY <1>12, <2>1
<1>14. CASE Receive
    <2>1. /\ walletFile \in Wallets /\ wallet = "open" /\ UNCHANGED <<wallet, walletFile, addressBookFile, enabled>>
          /\ queue' = Append(queue, Counted("created", received'[walletFile]))
          /\ received'[walletFile] = received[walletFile] + 1 /\ received[walletFile] < MessageLimit
        BY <1>14 DEF Receive, adapter, WindowTypeOK
    <2>2. received'[walletFile] \in 0..MessageLimit
        <3>1. received[walletFile] \in 0..MessageLimit
            BY <2>1, WalletIs
        <3> QED BY <2>1, <3>1, Limits
    <2> DEFINE e == Counted("created", received'[walletFile])
    <2>3. e \in Events /\ e.kind = "created"
        BY <2>2, EventIs
    <2> HIDE DEF e
    <2>4. queue' = Append(queue, e)
        BY <2>1 DEF e
    <2>5. In(queue') = In(queue) \cup {e} /\ Ordered(queue')
        BY <1>0, <2>3, <2>4, AppendedIs DEF Steps
    <2>6. Without(queue', {"open", "keys"}) /\ \A f \in In(queue') : f.kind \in Steps => f \in In(queue)
        BY <2>1, <2>3, <2>5 DEF OpeningInv, Without, Steps
    <2> QED BY <2>1, <2>5, <2>6, OpeningStays
<1> QED BY <1>1, <1>2, <1>3, <1>4, <1>5, <1>6, <1>7, <1>8, <1>9, <1>11, <1>13, <1>14, WindowActions

\* What the slots leave in the queue.
LEMMA TailIs ==
    ASSUME WindowTypeOK, OpeningInv,
           createWithKeys \/ loadAddressBook \/ walletOpened \/ messagesCountUpdated \/ RefusePassword
    PROVE  \E kind \in {"keys", "book", "opened", "count", "ask"} :
               /\ Takes(kind) /\ Head(queue).kind = kind /\ queue' = Tail(queue)
               /\ In(queue) = {Head(queue)} \cup In(queue')
               /\ \A n : LastCount(queue, n) => LastCount(queue', n)
               /\ createWithKeys => kind = "keys"
               /\ loadAddressBook => kind = "book"
               /\ walletOpened => kind = "opened"
               /\ messagesCountUpdated => kind = "count"
               /\ RefusePassword => kind = "ask"
<1> DEFINE P(kind) == /\ Takes(kind) /\ Head(queue).kind = kind /\ queue' = Tail(queue)
                      /\ In(queue) = {Head(queue)} \cup In(queue')
                      /\ \A n : LastCount(queue, n) => LastCount(queue', n)
<1>1. ASSUME NEW kind, Takes(kind), queue' = Tail(queue) PROVE P(kind)
    <2>1. /\ Head(queue).kind = kind /\ In(queue) = {Head(queue)} \cup In(Tail(queue))
          /\ \A n : LastCount(queue, n) => LastCount(Tail(queue), n)
        BY <1>1, TakesIs
    <2> QED BY <1>1, <2>1
<1>2. \A a, b \in {"keys", "book", "opened", "count", "ask"} : Takes(a) /\ Takes(b) => a = b
    BY DEF Takes
<1>3. /\ createWithKeys => Takes("keys") /\ queue' = Tail(queue)
      /\ loadAddressBook => Takes("book") /\ queue' = Tail(queue)
      /\ walletOpened => Takes("opened") /\ queue' = Tail(queue)
      /\ messagesCountUpdated => Takes("count") /\ queue' = Tail(queue)
      /\ RefusePassword => Takes("ask") /\ queue' = Tail(queue)
    BY DEF createWithKeys, loadAddressBook, walletOpened, messagesCountUpdated, RefusePassword
<1>4. PICK kind \in {"keys", "book", "opened", "count", "ask"} : Takes(kind) /\ queue' = Tail(queue)
    BY <1>3
<1>5. P(kind)
    BY <1>1, <1>4
<1> QED BY <1>2, <1>3, <1>4, <1>5

\* What MessagesModel leaves in the queue.
LEMMA AppendsLeave ==
    ASSUME WindowTypeOK, OpeningInv, ReceivedInv, reloadMessages \/ appendMessage
    PROVE  \E kind \in {"reload", "created"} :
               /\ Takes(kind) /\ Head(queue).kind = kind
               /\ In(queue) = {Head(queue)} \cup In(Tail(queue))
               /\ In(Tail(queue)) \subseteq In(queue')
               /\ \A e \in In(queue') : e \in In(queue) \/ e.kind = "count"
<1>1. PICK kind \in {"reload", "created"}, first \in 1..(MessageLimit + 1), last \in 0..MessageLimit :
          Takes(kind) /\ first <= last + 1 /\ AppendUpTo(first, last)
    BY AppendsIs
<1>2. /\ queue # <<>> /\ Head(queue).kind = kind
      /\ In(queue) = {Head(queue)} \cup In(Tail(queue))
    BY <1>1, TakesIs
<1>3. In(Tail(queue)) \subseteq In(queue') /\ \A e \in In(queue') : e \in In(Tail(queue)) \/ e.kind = "count"
    BY <1>1, <1>2, AppendUpToIs
<1> QED BY <1>1, <1>2, <1>3

\* A message that comes is announced.
LEMMA ReceiveIs ==
    ASSUME WindowTypeOK, Receive
    PROVE  /\ wallet = "open" /\ walletFile \in Wallets
           /\ received' = [received EXCEPT ![walletFile] = @ + 1]
           /\ received' \in [Wallets -> 0..MessageLimit]
           /\ received[walletFile] \in Nat /\ received'[walletFile] = received[walletFile] + 1
           /\ In(queue') = In(queue) \cup {Counted("created", received'[walletFile])}
           /\ Counted("created", received'[walletFile]).kind = "created"
           /\ Counted("created", received'[walletFile]).count = received'[walletFile]
           /\ \A n : LastCount(queue, n) => LastCount(queue', n)
           /\ UNCHANGED <<password, book, walletFile, readMessages, adapter, contacts, enabled,
                   encryptShown, unread, added>>
<1>1. /\ walletFile \in Wallets /\ wallet = "open"
      /\ queue' = Append(queue, Counted("created", received'[walletFile]))
      /\ received' = [received EXCEPT ![walletFile] = @ + 1] /\ received[walletFile] < MessageLimit
      /\ UNCHANGED <<password, book, walletFile, readMessages, adapter, contacts, enabled,
                   encryptShown, unread, added>>
    BY DEF Receive
<1>2. received[walletFile] \in 0..MessageLimit /\ received \in [Wallets -> 0..MessageLimit]
    BY <1>1 DEF WindowTypeOK
<1>3. received[walletFile] + 1 \in 0..MessageLimit /\ received[walletFile] \in Nat
    BY <1>1, <1>2, Limits
<1>4. received' \in [Wallets -> 0..MessageLimit] /\ received'[walletFile] = received[walletFile] + 1
    BY <1>1, <1>2, <1>3
<1> DEFINE e == Counted("created", received'[walletFile])
<1>5. e \in Events /\ e.kind = "created" /\ e.count = received'[walletFile]
    BY <1>3, <1>4, EventIs
<1> HIDE DEF e
<1>6. queue' = Append(queue, e) /\ queue \in Seq(Events)
    BY <1>1, WindowTypes DEF e
<1>7. In(queue') = In(queue) \cup {e} /\ \A n : LastCount(queue, n) => LastCount(queue', n)
    BY <1>5, <1>6, AppendedIs
<1> QED BY <1>1, <1>3, <1>4, <1>5, <1>7 DEF e

\* Whoever turns to another wallet leaves nothing of the one before in the queue.
LEMMA TurnsLeave ==
    ASSUME NEW wf \in Files, TurnsTo(wf)
    PROVE  (\A e \in In(queue') : e.kind \in {"open", "keys"}) /\ \A n : LastCount(queue', n)
<1>1. PICK how \in {"open", "keys"} : queue' = <<Event(how)>>
    BY DEF TurnsTo
<1>2. Event(how) \in Events /\ Event(how).kind = how
    BY EventIs
<1> QED BY <1>1, <1>2, SingleIs

\* What a step of the opening leaves.
LEMMA OpenLeaves ==
    ASSUME WindowTypeOK, OpeningInv, NEW given \in Passwords, Takes("open") \/ Takes("ask"), open(given)
    PROVE  /\ \A e \in In(queue') : e.kind \in Steps => e.kind = "ask"
           /\ \A e \in In(queue') : e \in In(queue) \/ e.kind = "ask"
           /\ \A e \in In(queue) : e \in In(queue') \/ e.kind \in {"open", "ask"}
           /\ \A n : LastCount(queue, n) => LastCount(queue', n)
<1>1. /\ In(queue) = {Head(queue)} \cup In(Tail(queue)) /\ Head(queue).kind \in {"open", "ask"}
      /\ \A n : LastCount(queue, n) => LastCount(Tail(queue), n)
    BY TakesIs
<1>2. Without(Tail(queue), Steps) /\ (walletFile \notin Wallets => Tail(queue) = <<>>)
    BY OpenIs
<1>3. CASE queue' = Tail(queue)
    BY <1>1, <1>2, <1>3 DEF Without
<1>4. CASE queue' = <<Event("ask")>> /\ walletFile \notin Wallets
    <2>1. Event("ask") \in Events /\ Event("ask").kind = "ask"
        BY EventIs
    <2>2. In(queue') = {Event("ask")} /\ \A n : LastCount(queue', n)
        BY <1>4, <2>1, SingleIs
    <2>3. In(Tail(queue)) = {}
        BY <1>2, <1>4, NothingIs
    <2> QED BY <1>1, <2>1, <2>2, <2>3
<1>5. (queue' = <<Event("ask")>> /\ walletFile \notin Wallets) \/ queue' = Tail(queue)
    BY OpenIs
<1> QED BY <1>3, <1>4, <1>5

-----------------------------------------------------------------------------
(* The contacts. *)

\* The contacts stay, and so does what is queued of the opening.
LEMMA BookStays ==
    ASSUME BookInv, UNCHANGED <<contacts, added, walletFile, enabled>>,
           \A e \in In(queue') : e.kind = "opened" => e \in In(queue),
           \A e \in In(queue) : e.kind = "book" => e \in In(queue')
    PROVE  BookInv'
<1>1. (~Without(queue, {"opened"}) /\ Without(queue, {"book"})) \/ ~(~Without(queue', {"opened"}) /\ Without(queue', {"book"}))
    BY DEF Without
<1> QED BY <1>1 DEF BookInv, Without, In

\* Every step keeps the contacts shown, and each wallet's contacts in the file of that wallet.
LEMMA BookKept ==
    ASSUME WindowTypeOK, OpeningInv, PasswordInv, BookInv, ContactsKept, ReceivedInv, [WindowNext]_windowVars
    PROVE  BookInv' /\ ContactsKept'
<1>0. /\ book \in [Files -> SUBSET Contacts] /\ added \in [Wallets -> SUBSET Friends] /\ walletFile \in Files
      /\ addressBookFile = walletFile
    BY DEF WindowTypeOK, OpeningInv
<1>1. ASSUME UNCHANGED <<book, added>> PROVE ContactsKept'
    BY <1>1 DEF ContactsKept
<1>2. ASSUME ~enabled', \A e \in In(queue') : e.kind # "opened" PROVE BookInv'
    <2>1. Without(queue', {"opened"})
        BY <1>2 DEF Without
    <2> QED BY <1>2, <2>1 DEF BookInv, Without, In
<1>3. ASSUME NEW given \in Passwords, Takes("open") \/ Takes("ask"), open(given)
      PROVE  BookInv' /\ ContactsKept'
    <2>1. ~enabled' /\ UNCHANGED <<book, added>>
        BY <1>3, OpenIs
    <2>2. \A e \in In(queue') : e.kind # "opened"
        BY <1>3, OpenLeaves DEF Steps
    <2> QED BY <1>1, <1>2, <2>1, <2>2
<1>4. CASE createWithKeys \/ messagesCountUpdated \/ RefusePassword
    <2>1. /\ In(queue) = {Head(queue)} \cup In(queue') /\ Head(queue).kind \in {"keys", "count", "ask"}
        BY <1>4, TailIs
    <2>2. UNCHANGED <<book, added, contacts, walletFile, enabled>>
        BY <1>4 DEF createWithKeys, messagesCountUpdated, RefusePassword, disk
    <2>3. BookInv'
        BY <2>1, <2>2, BookStays
    <2> QED BY <1>1, <2>2, <2>3
<1>5. CASE LoadEnds
    <2>1. UNCHANGED <<book, added, enabled>> /\ ~enabled
        BY <1>5 DEF LoadEnds, disk, OpeningInv
    <2>2. PICK result \in {"ok", "wrong", "failed"} :
              In(queue') = In(queue) \cup {Told("init", result), Event("book"), Told("opened", result)}
        BY <1>5, LoadEndsIs
    <2>3. ~Without(queue', {"book"})
        BY <2>2, EventIs DEF Without
    <2>4. BookInv'
        BY <2>1, <2>3 DEF BookInv, Without, In
    <2> QED BY <1>1, <2>1, <2>4
<1>6. CASE onWalletInitCompleted
    <2>1. /\ In(Tail(queue)) \subseteq In(queue')
          /\ \A e \in In(queue') : e \in In(Tail(queue)) \/ (e = Event("reload") /\ Result = "ok") \/ (e = Event("ask") /\ Result = "wrong")
          /\ UNCHANGED <<book, walletFile, contacts, enabled, added>> /\ Takes("init")
        BY <1>6, InitIs
    <2>2. In(queue) = {Head(queue)} \cup In(Tail(queue)) /\ Head(queue).kind = "init"
        BY <2>1, TakesIs
    <2>3. Event("reload").kind = "reload" /\ Event("ask").kind = "ask"
        BY EventIs
    <2>4. BookInv'
        <3>1. \A e \in In(queue') : e.kind = "opened" => e \in In(queue)
            BY <2>1, <2>2, <2>3
        <3>2. \A e \in In(queue) : e.kind = "book" => e \in In(queue')
            BY <2>1, <2>2
        <3> QED BY <2>1, <3>1, <3>2, BookStays
    <2> QED BY <1>1, <2>1, <2>4
<1>7. CASE loadAddressBook
    <2>1. PICK left \in SUBSET Contacts, mine \in SUBSET Friends :
              Leaves(left, mine) /\ mine \subseteq left /\ mine \subseteq contacts'
        BY <1>7, LoadsIs
    <2>2. added'[walletFile] = mine /\ ContactsKept'
        BY <1>7, <2>1, LoadsIs, LeavesIs
    <2>3. walletFile' = walletFile
        BY <1>7 DEF loadAddressBook
    <2> QED BY <2>1, <2>2, <2>3 DEF BookInv
<1>8. CASE walletOpened
    <2>1. Takes("opened") /\ UNCHANGED <<book, contacts, walletFile, added>> /\ queue' = Tail(queue)
        BY <1>8 DEF walletOpened, disk
    <2>2. In(queue) = {Head(queue)} \cup In(Tail(queue)) /\ Head(queue).kind = "opened"
          /\ Without(Tail(queue), {"open", "keys", "init", "book", "opened"})
        BY <2>1, TakesIs
    <2>3. ~Without(queue, {"opened"}) /\ Without(queue, {"book"})
        BY <2>2 DEF Without
    <2>4. added'[walletFile'] \subseteq contacts'
        BY <2>1, <2>3 DEF BookInv
    <2> QED BY <1>1, <2>1, <2>4 DEF BookInv
<1>9. CASE reloadMessages \/ appendMessage
    <2>1. PICK kind \in {"reload", "created"} :
              /\ Takes(kind) /\ Head(queue).kind = kind
              /\ In(queue) = {Head(queue)} \cup In(Tail(queue))
              /\ In(Tail(queue)) \subseteq In(queue')
              /\ \A e \in In(queue') : e \in In(queue) \/ e.kind = "count"
        BY <1>9, AppendsLeave
    <2>2. UNCHANGED <<book, added, contacts, walletFile, enabled>>
        BY <1>9 DEF reloadMessages, appendMessage, AppendUpTo, disk
    <2>3. BookInv'
        <3>1. \A e \in In(queue') : e.kind = "opened" => e \in In(queue)
            BY <2>1
        <3>2. \A e \in In(queue) : e.kind = "book" => e \in In(queue')
            BY <2>1
        <3> QED BY <2>2, <3>1, <3>2, BookStays
    <2> QED BY <1>1, <2>2, <2>3
<1>10. ASSUME NEW wf \in Files, TurnsTo(wf) PROVE BookInv'
    <2>1. \A e \in In(queue') : e.kind # "opened"
        BY <1>10, TurnsLeave
    <2>2. ~enabled'
        BY <1>10 DEF TurnsTo
    <2> QED BY <1>2, <2>1, <2>2
<1>11. CASE Closes \/ Restart
    <2>1. BookInv'
        BY <1>0, <1>10, <1>11, ClosesIs, RestartIs
    <2>2. CASE UNCHANGED <<book, added>>
        BY <1>1, <2>1, <2>2
    <2>3. CASE Restart /\ ~UNCHANGED <<book, added>>
        BY <2>1, <2>3, RestartIs, LeavesIs
    <2> QED BY <1>11, <2>2, <2>3, ClosesIs
<1>12. CASE \/ \E new \in Passwords, saved \in BOOLEAN : encryptWallet(new, saved)
            \/ SaveNow
            \/ \E to \in {"overview", "messages"} : switchMenu(to)
            \/ UNCHANGED windowVars
    <2>1. UNCHANGED <<queue, book, added, contacts, walletFile, enabled>>
        BY <1>12 DEF encryptWallet, SaveNow, switchMenu, windowVars, adapter, disk, unread
    <2>2. BookInv'
        BY <2>1 DEF BookInv, Without, In
    <2> QED BY <1>1, <2>1, <2>2
<1>13. CASE Receive
    <2>1. /\ In(queue') = In(queue) \cup {Counted("created", received'[walletFile])}
          /\ Counted("created", received'[walletFile]).kind = "created"
          /\ UNCHANGED <<book, walletFile, contacts, enabled, added>>
        BY <1>13, ReceiveIs
    <2>2. BookInv'
        <3>1. \A e \in In(queue') : e.kind = "opened" => e \in In(queue)
            BY <2>1
        <3>2. \A e \in In(queue) : e.kind = "book" => e \in In(queue')
            BY <2>1
        <3> QED BY <2>1, <3>1, <3>2, BookStays
    <2> QED BY <1>1, <2>1, <2>2
<1>14. CASE \E contact \in Contacts : addEntry(contact) \/ removeRows(contact)
    <2>1. PICK contact \in Contacts : addEntry(contact) \/ removeRows(contact)
        BY <1>14
    <2>2. PICK left \in SUBSET Contacts, mine \in SUBSET Friends :
              Leaves(left, mine) /\ mine \subseteq left /\ mine \subseteq contacts'
        BY <2>1, EditsIs
    <2>3. added'[walletFile] = mine /\ ContactsKept'
        BY <2>1, <2>2, EditsIs, LeavesIs
    <2>4. walletFile' = walletFile
        BY <2>1 DEF addEntry, removeRows
    <2> QED BY <2>2, <2>3, <2>4 DEF BookInv
<1> QED BY <1>3, <1>4, <1>5, <1>6, <1>7, <1>8, <1>9, <1>11, <1>12, <1>13, <1>14, WindowActions

-----------------------------------------------------------------------------
(* The password. *)

\* What is known of the password stays while no load ends.
LEMMA PasswordStays ==
    ASSUME PasswordInv, UNCHANGED <<wallet, enabled, encrypted, pass, encryptShown, saveFailed>>,
           \A e \in In(queue') : e.kind \in {"opened", "init"} => e \in In(queue)
    PROVE  PasswordInv'
<1>1. Opens(queue') => Opens(queue)
    BY DEF Opens
<1> QED BY <1>1 DEF PasswordInv, Opens, In

\* Nothing is known without a wallet.
LEMMA NoPassword ==
    ASSUME wallet' = "none", ~enabled', \A e \in In(queue') : e.kind # "opened"
    PROVE  PasswordInv'
<1>1. ~Opens(queue')
    BY DEF Opens
<1> QED BY <1>1 DEF PasswordInv, Opens, In

\* Every step keeps what Settings say of the password.
LEMMA PasswordKept ==
    ASSUME WindowTypeOK, OpeningInv, PasswordInv, ReceivedInv, [WindowNext]_windowVars
    PROVE  PasswordInv'
<1>1. ASSUME NEW given \in Passwords, Takes("open") \/ Takes("ask"), open(given)
      PROVE  PasswordInv'
    <2>1. ~enabled' /\ (wallet' = "none" \/ (wallet' \in {"loading", "generating"} /\ encrypted' = (pass' # "")))
        BY <1>1, OpenIs
    <2>2. \A e \in In(queue') : e.kind # "opened"
        BY <1>1, OpenLeaves DEF Steps
    <2>3. ~Opens(queue')
        BY <2>2 DEF Opens
    <2> QED BY <2>1, <2>3 DEF PasswordInv, Opens, In
<1>2. CASE createWithKeys
    <2>1. ~enabled /\ UNCHANGED enabled /\ encrypted' = FALSE /\ pass' = "" /\ queue' = <<>>
        BY <1>2, TakesIs DEF createWithKeys, Steps
    <2>2. ~Opens(queue')
        BY <2>1, NothingIs DEF Opens
    <2> QED BY <2>1, <2>2 DEF PasswordInv, Opens, In
<1>3. CASE LoadEnds
    <2>1. /\ wallet \in {"loading", "generating"} /\ wallet' = "open"
          /\ UNCHANGED <<enabled, encrypted, pass, saveFailed, encryptShown>>
        BY <1>3 DEF LoadEnds
    <2>2. PICK result \in {"ok", "wrong", "failed"} :
              /\ Without(queue, Steps)
              /\ In(queue') = In(queue) \cup {Told("init", result), Event("book"), Told("opened", result)}
        BY <1>3, LoadEndsIs
    <2>3. /\ Told("init", result).kind = "init" /\ Told("init", result).result = result
          /\ Told("opened", result).kind = "opened" /\ Told("opened", result).result = result
          /\ Event("book").kind = "book"
        BY EventIs
    <2>4. Opens(queue') => \A e \in In(queue') : e.kind = "init" => e.result = "ok"
        BY <2>2, <2>3 DEF Opens, Without, Steps
    <2>5. ~enabled
        BY <2>1 DEF OpeningInv
    <2> QED BY <2>1, <2>4, <2>5 DEF PasswordInv, Opens, In
<1>4. CASE onWalletInitCompleted
    <2>1. /\ \A e \in In(queue') : e \in In(Tail(queue)) \/ (e = Event("reload") /\ Result = "ok") \/ (e = Event("ask") /\ Result = "wrong")
          /\ UNCHANGED <<pass, saveFailed, enabled, encryptShown>> /\ Takes("init")
          /\ (Result = "ok" /\ UNCHANGED <<encrypted, wallet>>) \/ (Result # "ok" /\ wallet' = "none")
        BY <1>4, InitIs
    <2>2. /\ In(queue) = {Head(queue)} \cup In(Tail(queue)) /\ Head(queue).kind = "init" /\ ~enabled
        BY <2>1, TakesIs DEF Steps
    <2>3. Event("reload").kind = "reload" /\ Event("ask").kind = "ask"
        BY EventIs
    <2>4. \A e \in In(queue') : e.kind \in {"opened", "init"} => e \in In(queue)
        BY <2>1, <2>2, <2>3
    <2>5. CASE Result = "ok"
        BY <2>1, <2>4, <2>5, PasswordStays
    <2>6. CASE Result # "ok"
        <3>1. ~Opens(queue)
            BY <2>2, <2>6 DEF PasswordInv, Result
        <3>2. ~Opens(queue')
            BY <2>4, <3>1 DEF Opens
        <3> QED BY <2>1, <2>2, <2>6, <3>2 DEF PasswordInv, Opens, In
    <2> QED BY <2>5, <2>6
<1>5. CASE loadAddressBook \/ messagesCountUpdated \/ RefusePassword
    <2>1. In(queue) = {Head(queue)} \cup In(queue')
        BY <1>5, TailIs
    <2>2. UNCHANGED <<wallet, enabled, encrypted, pass, encryptShown, saveFailed>>
        BY <1>5 DEF loadAddressBook, messagesCountUpdated, RefusePassword, adapter
    <2> QED BY <2>1, <2>2, PasswordStays
<1>6. CASE walletOpened
    <2>1. /\ Takes("opened") /\ UNCHANGED <<wallet, encrypted, pass, saveFailed>> /\ queue' = Tail(queue)
          /\ (Result = "ok" /\ enabled' /\ encryptShown' = encrypted) \/ (Result # "ok" /\ ~enabled')
        BY <1>6 DEF walletOpened, adapter
    <2>2. /\ In(queue) = {Head(queue)} \cup In(Tail(queue)) /\ Head(queue).kind = "opened"
          /\ Without(Tail(queue), {"open", "keys", "init", "book", "opened"})
          /\ wallet \in {"none", "open"}
        BY <2>1, TakesIs DEF Steps
    <2>3. ~Opens(queue')
        BY <2>1, <2>2 DEF Opens, Without
    <2>4. Result = "ok" => encrypted = (pass # "")
        BY <2>2 DEF PasswordInv, Opens, Result
    <2> QED BY <2>1, <2>2, <2>3, <2>4 DEF PasswordInv, Opens, In
<1>7. CASE reloadMessages \/ appendMessage
    <2>1. \A e \in In(queue') : e \in In(queue) \/ e.kind = "count"
        BY <1>7, AppendsLeave
    <2>2. UNCHANGED <<wallet, enabled, encrypted, pass, encryptShown, saveFailed>>
        BY <1>7 DEF reloadMessages, appendMessage, AppendUpTo, adapter
    <2>3. \A e \in In(queue') : e.kind \in {"opened", "init"} => e \in In(queue)
        BY <2>1
    <2> QED BY <2>2, <2>3, PasswordStays
<1>8. ASSUME NEW wf \in Files, TurnsTo(wf) PROVE PasswordInv'
    <2>1. \A e \in In(queue') : e.kind # "opened"
        BY <1>8, TurnsLeave
    <2> QED BY <1>8, <2>1, NoPassword DEF TurnsTo
<1>9. CASE Closes \/ Restart
    <2>1. walletFile \in Files
        BY WindowTypes
    <2> QED BY <1>8, <1>9, <2>1, ClosesIs, RestartIs
<1>10. CASE \E new \in Passwords, saved \in BOOLEAN : encryptWallet(new, saved)
    <2>1. PICK new \in Passwords, saved \in BOOLEAN : encryptWallet(new, saved)
        BY <1>10
    <2>2. /\ new # "" /\ pass' = new /\ encrypted' = TRUE /\ enabled /\ queue = <<>>
          /\ UNCHANGED <<wallet, enabled, queue>>
          /\ IF encrypted THEN UNCHANGED <<encryptShown, saveFailed>>
             ELSE encryptShown' = saved /\ saveFailed' = ~saved
        BY <2>1 DEF encryptWallet, changePassword, UserMayClick
    <2>3. ~Opens(queue')
        BY <2>2, NothingIs DEF Opens
    <2>4. encryptShown' # encrypted' => saveFailed'
        <3>1. encryptShown # encrypted => saveFailed
            BY <2>2 DEF PasswordInv
        <3>2. encrypted \in BOOLEAN /\ encryptShown \in BOOLEAN /\ saved \in BOOLEAN
            BY DEF WindowTypeOK
        <3> QED BY <2>2, <3>1, <3>2
    <2> QED BY <2>2, <2>3, <2>4 DEF PasswordInv, Opens, In
<1>11. CASE \/ SaveNow
            \/ \E contact \in Contacts : addEntry(contact) \/ removeRows(contact)
            \/ \E to \in {"overview", "messages"} : switchMenu(to)
            \/ UNCHANGED windowVars
    <2>1. UNCHANGED <<queue, wallet, enabled, encrypted, pass, encryptShown, saveFailed>>
        BY <1>11 DEF SaveNow, addEntry, removeRows, switchMenu, windowVars, adapter
    <2> QED BY <2>1 DEF PasswordInv, Opens, In
<1>12. CASE Receive
    <2>1. /\ In(queue') = In(queue) \cup {Counted("created", received'[walletFile])}
          /\ Counted("created", received'[walletFile]).kind = "created"
          /\ UNCHANGED <<wallet, enabled, encrypted, pass, encryptShown, saveFailed>>
        BY <1>12, ReceiveIs DEF adapter
    <2>2. \A e \in In(queue') : e.kind \in {"opened", "init"} => e \in In(queue)
        BY <2>1
    <2> QED BY <2>1, <2>2, PasswordStays
<1> QED BY <1>1, <1>2, <1>3, <1>4, <1>5, <1>6, <1>7, <1>9, <1>10, <1>11, <1>12, WindowActions

-----------------------------------------------------------------------------
(* The messages. *)

\* No message comes, none is appended, and no message that was announced is forgotten.
LEMMA ReceivedStays ==
    ASSUME ReceivedInv, UNCHANGED <<received, walletFile, messageRows>>,
           \A e \in In(queue') : e.kind = "created" => e \in In(queue),
           \/ wallet' # "open"
           \/ ~Without(queue', {"init", "reload"})
           \/ wallet = "open" /\ \A e \in In(queue) : e.kind \in {"created", "init", "reload"} => e \in In(queue')
    PROVE  ReceivedInv'
<1>1. ASSUME wallet = "open", \A e \in In(queue) : e.kind \in {"created", "init", "reload"} => e \in In(queue'),
             Without(queue', {"init", "reload"})
      PROVE  \/ messageRows = received[walletFile]
             \/ \E e \in In(queue') : e.kind = "created" /\ e.count = received[walletFile]
    <2>1. Without(queue, {"init", "reload"})
        BY <1>1 DEF Without
    <2> QED BY <1>1, <2>1 DEF ReceivedInv
<1>2. wallet' = "open" /\ Without(queue', {"init", "reload"}) =>
          \/ messageRows = received[walletFile]
          \/ \E e \in In(queue') : e.kind = "created" /\ e.count = received[walletFile]
    BY <1>1
<1>3. \A e \in In(queue') : e.kind = "created" => e.count <= received[walletFile]
    BY DEF ReceivedInv
<1> QED BY <1>2, <1>3 DEF ReceivedInv, Without, In

\* Every step keeps the messages of the wallet in MessagesModel, or on their way to it.
LEMMA ReceivedKept ==
    ASSUME WindowTypeOK, OpeningInv, ReceivedInv, [WindowNext]_windowVars
    PROVE  ReceivedInv'
<1>0. walletFile \in Files /\ messageRows \in Nat /\ received \in [Wallets -> 0..MessageLimit]
    <2>1. walletFile \in Files /\ messageRows \in 0..MessageLimit /\ received \in [Wallets -> 0..MessageLimit]
        BY DEF WindowTypeOK
    <2> QED BY <2>1, Limits
<1>1. ASSUME NEW wf \in Wallets PROVE received[wf] \in Nat
    BY <1>0, <1>1
<1>2. ASSUME NEW given \in Passwords, Takes("open") \/ Takes("ask"), open(given)
      PROVE  ReceivedInv'
    <2>1. wallet' # "open" /\ UNCHANGED <<received, messageRows>>
        BY <1>2, OpenIs DEF unread
    <2>2. \A e \in In(queue') : e.kind = "created" => e \in In(queue)
        BY <1>2, OpenLeaves
    <2>3. CASE walletFile' = walletFile
        BY <2>1, <2>2, <2>3, ReceivedStays
    <2>4. CASE walletFile' # walletFile
        <3>1. walletFile \notin Wallets /\ messageRows = 0 /\ walletFile' \in Wallets
            BY <1>2, <2>4, OpenIs
        <3>2. \A e \in In(queue') : e.kind # "created"
            BY <2>2, <3>1 DEF OpeningInv
        <3>3. messageRows' <= received'[walletFile']
            BY <1>1, <2>1, <3>1
        <3> QED BY <2>1, <3>2, <3>3 DEF ReceivedInv, Without, In
    <2> QED BY <2>3, <2>4
<1>3. CASE createWithKeys \/ loadAddressBook \/ walletOpened \/ messagesCountUpdated \/ RefusePassword
    <2>1. /\ In(queue) = {Head(queue)} \cup In(queue') /\ Head(queue).kind \in {"keys", "book", "opened", "count", "ask"}
        BY <1>3, TailIs
    <2>2. UNCHANGED <<received, walletFile, messageRows>> /\ wallet' \in {wallet, "generating"}
        BY <1>3 DEF createWithKeys, loadAddressBook, walletOpened, messagesCountUpdated, RefusePassword, disk, unread, adapter
    <2>3. \A e \in In(queue) : e.kind \in {"created", "init", "reload"} => e \in In(queue')
        BY <2>1
    <2>4. wallet' # "open" \/ wallet = "open"
        BY <2>2
    <2> QED BY <2>1, <2>2, <2>3, <2>4, ReceivedStays
<1>4. CASE LoadEnds
    <2>1. PICK result \in {"ok", "wrong", "failed"} :
              In(queue') = In(queue) \cup {Told("init", result), Event("book"), Told("opened", result)}
        BY <1>4, LoadEndsIs
    <2>2. Told("init", result).kind = "init" /\ Told("opened", result).kind = "opened" /\ Event("book").kind = "book"
        BY EventIs
    <2>3. UNCHANGED <<received, walletFile, messageRows>>
        BY <1>4 DEF LoadEnds, disk, unread
    <2>4. (\A e \in In(queue') : e.kind = "created" => e \in In(queue)) /\ ~Without(queue', {"init", "reload"})
        BY <2>1, <2>2 DEF Without
    <2> QED BY <2>3, <2>4, ReceivedStays
<1>5. CASE onWalletInitCompleted
    <2>1. /\ In(Tail(queue)) \subseteq In(queue') /\ Takes("init")
          /\ \A e \in In(queue') : e \in In(Tail(queue)) \/ (e = Event("reload") /\ Result = "ok") \/ (e = Event("ask") /\ Result = "wrong")
        BY <1>5, InitIs
    <2>2. In(queue) = {Head(queue)} \cup In(Tail(queue)) /\ Tail(queue) \in Seq(Events)
        BY <2>1, TakesIs
    <2>3. Event("reload") \in Events /\ Event("reload").kind = "reload" /\ Event("ask").kind = "ask"
        BY EventIs
    <2>4. \A e \in In(queue') : e.kind = "created" => e \in In(queue)
        BY <2>1, <2>2, <2>3
    <2>5. queue' = Append(Tail(queue), Event("reload")) => ~Without(queue', {"init", "reload"})
        <3>1. In(Append(Tail(queue), Event("reload"))) = In(Tail(queue)) \cup {Event("reload")}
            BY <2>2, <2>3, AppendedIs
        <3> QED BY <2>3, <3>1 DEF Without
    <2>6. UNCHANGED <<received, walletFile, messageRows>>
        BY <1>5, InitIs DEF unread
    <2>7. ~Without(queue', {"init", "reload"}) \/ wallet' # "open"
        BY <1>5, <2>5, InitIs
    <2> QED BY <2>4, <2>6, <2>7, ReceivedStays
<1>6. CASE reloadMessages \/ appendMessage
    <2>1. PICK kind \in {"reload", "created"}, first \in 1..(MessageLimit + 1), last \in 0..MessageLimit :
               /\ Takes(kind) /\ walletFile \in Wallets
               /\ first <= last + 1 /\ last <= received[walletFile] /\ messageRows <= last
               /\ AppendUpTo(first, last)
               /\ kind = "reload" => first = 1 /\ last = received[walletFile]
               /\ kind = "created" => first = messageRows + 1 /\ last >= Count
        BY <1>6, AppendsIs
    <2>2. /\ In(queue) = {Head(queue)} \cup In(Tail(queue)) /\ Head(queue).kind = kind /\ queue # <<>>
          /\ Head(queue) \in Events
        BY <2>1, TakesIs
    <2>3. /\ messageRows' = last /\ In(Tail(queue)) \subseteq In(queue')
          /\ \A e \in In(queue') : e \in In(Tail(queue)) \/ e.kind = "count"
        BY <2>1, <2>2, AppendUpToIs
    <2>4. UNCHANGED <<received, walletFile, wallet>>
        BY <2>1 DEF AppendUpTo, disk, adapter
    <2>5. \A e \in In(queue') : e.kind = "created" => e.count <= received[walletFile]
        BY <2>2, <2>3 DEF ReceivedInv
    <2>6. ASSUME wallet = "open", Without(queue', {"init", "reload"})
          PROVE  last = received[walletFile] \/ \E e \in In(queue') : e.kind = "created" /\ e.count = received[walletFile]
        <3>1. CASE kind = "reload"
            BY <2>1, <3>1
        <3>2. CASE kind = "created"
            <4>1. Without(queue, {"init", "reload"})
                BY <2>2, <2>3, <2>6, <3>2 DEF Without
            <4>2. CASE messageRows = received[walletFile]
                <5>1. received[walletFile] \in Nat /\ last \in Nat
                    BY <1>1, <2>1, Limits
                <5> QED BY <2>1, <4>2, <5>1
            <4>3. CASE \E e \in In(queue) : e.kind = "created" /\ e.count = received[walletFile]
                <5>1. PICK e \in In(queue) : e.kind = "created" /\ e.count = received[walletFile]
                    BY <4>3
                <5>2. CASE e \in In(Tail(queue))
                    BY <2>3, <5>1, <5>2
                <5>3. CASE e = Head(queue)
                    <6>1. last >= received[walletFile]
                        BY <2>1, <3>2, <5>1, <5>3 DEF Count
                    <6>2. received[walletFile] \in Nat /\ last \in Nat
                        BY <1>1, <2>1, Limits
                    <6> QED BY <2>1, <6>1, <6>2
                <5> QED BY <2>2, <5>1, <5>2, <5>3
            <4> QED BY <2>6, <4>1, <4>2, <4>3 DEF ReceivedInv
        <3> QED BY <3>1, <3>2
    <2> QED BY <2>1, <2>3, <2>4, <2>5, <2>6 DEF ReceivedInv, Without, In
<1>7. ASSUME NEW wf \in Files, TurnsTo(wf) PROVE ReceivedInv'
    <2>1. \A e \in In(queue') : e.kind # "created"
        BY <1>7, TurnsLeave
    <2>2. /\ walletFile' = wf /\ wallet' = "none" /\ messageRows' = 0 /\ received' = received
        BY <1>7 DEF TurnsTo
    <2>3. wf \in Wallets => 0 <= received[wf]
        BY <1>1
    <2> QED BY <2>1, <2>2, <2>3 DEF ReceivedInv, Without, In
<1>8. CASE Closes \/ Restart
    BY <1>0, <1>7, <1>8, ClosesIs, RestartIs
<1>9. CASE \/ \E new \in Passwords, saved \in BOOLEAN : encryptWallet(new, saved)
           \/ SaveNow
           \/ \E contact \in Contacts : addEntry(contact) \/ removeRows(contact)
           \/ \E to \in {"overview", "messages"} : switchMenu(to)
           \/ UNCHANGED windowVars
    <2>1. UNCHANGED <<queue, wallet, walletFile, received, messageRows>>
        BY <1>9 DEF encryptWallet, SaveNow, addEntry, removeRows, switchMenu, windowVars, adapter, disk, unread
    <2> QED BY <2>1 DEF ReceivedInv, Without, In
<1>10. CASE Receive
    <2> DEFINE e == Counted("created", received'[walletFile])
               n == received[walletFile]
    <2>1. /\ walletFile \in Wallets /\ In(queue') = In(queue) \cup {e} /\ e.kind = "created"
          /\ e.count = received'[walletFile] /\ n \in Nat /\ received'[walletFile] = n + 1
          /\ UNCHANGED <<walletFile, messageRows>>
        BY <1>10, ReceiveIs DEF unread
    <2>2. \A d \in In(queue) : d.kind = "created" => d.count <= n + 1
        <3>1. ASSUME NEW d \in In(queue), d.kind = "created" PROVE d.count <= n + 1
            <4>1. d.count <= n /\ d \in Events
                <5>1. \A i \in 1..Len(queue) : queue[i] \in Events
                    BY WindowTypes
                <5> QED BY <3>1, <5>1 DEF ReceivedInv, In
            <4>2. d.count \in 0..MessageLimit
                BY <4>1 DEF Events
            <4> QED BY <2>1, <4>1, <4>2, Limits
        <3> QED BY <3>1
    <2>3. messageRows <= n + 1
        BY <1>0, <2>1 DEF ReceivedInv
    <2> HIDE DEF e, n
    <2>4. n + 1 <= n + 1
        BY <2>1
    <2>5. \A d \in In(queue') : d.kind = "created" => d.count <= received'[walletFile]
        BY <2>1, <2>2, <2>4
    <2> QED BY <2>1, <2>3, <2>5 DEF ReceivedInv, Without, In
<1> QED BY <1>2, <1>3, <1>4, <1>5, <1>6, <1>8, <1>9, <1>10, WindowActions

-----------------------------------------------------------------------------
(* The unread messages. *)

\* While the buttons do not work no message is seen.
LEMMA SeenStays ==
    ASSUME SeenInv, ~enabled, UNCHANGED <<seen, readCount, received>>,
           page' # "messages", page' # "none" => enabled'
    PROVE  SeenInv'
<1>1. page # "messages"
    BY DEF SeenInv
<1> QED BY <1>1 DEF SeenInv, Without, In

\* Every step keeps MESSAGES_READ_COUNT.
LEMMA SeenKept ==
    ASSUME WindowTypeOK, OpeningInv, ReceivedInv, SeenInv, [WindowNext]_windowVars
    PROVE  SeenInv'
<1>0. /\ seen \in {NotSeen} \cup (Wallets \X (0..MessageLimit)) /\ received \in [Wallets -> 0..MessageLimit]
      /\ messageRows \in 0..MessageLimit /\ walletFile \in Files /\ enabled \in BOOLEAN
      /\ page \in {"none", "overview", "messages"}
    BY DEF WindowTypeOK
<1>1. ASSUME ~enabled PROVE page = "none"
    BY <1>0, <1>1 DEF SeenInv
<1>2. ASSUME NEW given \in Passwords, Takes("open") \/ Takes("ask"), open(given)
      PROVE  SeenInv'
    <2>1. ~enabled /\ UNCHANGED <<seen, readCount, received, page>>
        BY <1>2, OpenIs DEF unread
    <2> QED BY <1>1, <2>1, SeenStays
<1>3. CASE createWithKeys \/ loadAddressBook \/ RefusePassword \/ LoadEnds
    <2>1. ~enabled
        <3>1. Takes("keys") \/ Takes("book") \/ Takes("ask") => ~enabled
            BY TakesIs DEF Steps
        <3> QED BY <1>3, <3>1 DEF createWithKeys, loadAddressBook, RefusePassword, LoadEnds, OpeningInv
    <2>2. UNCHANGED <<seen, readCount, received, page>>
        BY <1>3 DEF createWithKeys, loadAddressBook, RefusePassword, LoadEnds, disk, unread
    <2> QED BY <1>1, <2>1, <2>2, SeenStays
<1>4. CASE onWalletInitCompleted
    <2>1. Takes("init") /\ UNCHANGED <<seen, readCount, received, page>>
        BY <1>4, InitIs DEF unread
    <2>2. ~enabled
        BY <2>1, TakesIs DEF Steps
    <2> QED BY <1>1, <2>1, <2>2, SeenStays
<1>5. CASE walletOpened
    <2>1. /\ UNCHANGED <<seen, readCount, received>> /\ Takes("opened")
          /\ (enabled' /\ page' = "overview") \/ page' = "none"
        BY <1>5 DEF walletOpened, disk
    <2>2. ~enabled
        BY <2>1, TakesIs DEF Steps
    <2> QED BY <2>1, <2>2, SeenStays
<1>6. CASE reloadMessages \/ appendMessage
    <2>1. PICK kind \in {"reload", "created"}, first \in 1..(MessageLimit + 1), last \in 0..MessageLimit :
               /\ Takes(kind) /\ walletFile \in Wallets
               /\ first <= last + 1 /\ last <= received[walletFile] /\ messageRows <= last
               /\ AppendUpTo(first, last)
               /\ kind = "reload" => first = 1 /\ last = received[walletFile]
               /\ kind = "created" => first = messageRows + 1 /\ last >= Count
        BY <1>6, AppendsIs
    <2>2. /\ In(queue) = {Head(queue)} \cup In(Tail(queue)) /\ Head(queue).kind = kind /\ queue # <<>>
        BY <2>1, TakesIs
    <2>3. /\ messageRows' = last /\ In(Tail(queue)) \subseteq In(queue')
          /\ \A e \in In(queue') : e \in In(Tail(queue)) \/ e.kind = "count"
          /\ first <= last => ~Without(queue', {"count"})
        BY <2>1, <2>2, AppendUpToIs
    <2>4. /\ UNCHANGED <<received, walletFile, page, readCount, enabled>>
          /\ seen' = IF page = "messages" THEN <<walletFile, messageRows'>> ELSE seen
        BY <2>1 DEF AppendUpTo, disk, Look
    <2>5. CASE page # "messages"
        BY <2>4, <2>5 DEF SeenInv, Without, In
    <2>6. CASE page = "messages"
        <3>1. kind = "created"
            BY <2>1, <2>2, <2>6 DEF SeenInv, Without
        <3>2. Without(queue', {"reload"})
            BY <2>2, <2>3, <2>6 DEF SeenInv, Without
        <3>3. seen = <<walletFile, messageRows>> /\ seen' = <<walletFile, last>> /\ seen # NotSeen
            <4>1. seen = <<walletFile, messageRows>> /\ seen' = <<walletFile, last>>
                BY <2>3, <2>4, <2>6 DEF SeenInv
            <4>2. walletFile # ""
                BY <1>0, WindowConstants
            <4> QED BY <4>1, <4>2 DEF NotSeen
        <3>4. Without(queue', {"count"}) => readCount = last
            <4>1. Without(queue', {"count"}) => first = last + 1
                BY <2>1, <2>3, Limits
            <4>2. first = messageRows + 1 /\ messageRows \in Nat /\ last \in Nat
                BY <1>0, <2>1, <3>1, Limits
            <4>3. Without(queue', {"count"}) => messageRows = last
                BY <4>1, <4>2
            <4>4. Without(queue', {"count"}) => Without(queue, {"count"})
                BY <2>2, <2>3, <3>1 DEF Without
            <4> QED BY <3>3, <4>3, <4>4 DEF SeenInv
        <3> QED BY <2>1, <2>3, <2>4, <2>6, <3>2, <3>3, <3>4 DEF SeenInv, Without, In
    <2> QED BY <2>5, <2>6
<1>7. CASE messagesCountUpdated
    <2>1. In(queue) = {Head(queue)} \cup In(queue')
        BY <1>7, TailIs
    <2>2. UNCHANGED <<received, walletFile, page, enabled, messageRows, seen>>
          /\ readCount' = IF page = "messages" THEN messageRows ELSE readCount
        BY <1>7 DEF messagesCountUpdated, disk
    <2>3. CASE page = "messages"
        <3>1. Without(queue', {"reload"}) /\ seen[2] = messageRows
            BY <2>1, <2>3 DEF SeenInv, Without
        <3> QED BY <2>2, <2>3, <3>1 DEF SeenInv, Without, In
    <2>4. CASE page # "messages"
        BY <2>2, <2>4 DEF SeenInv, Without, In
    <2> QED BY <2>3, <2>4
<1>8. CASE Closes
    <2>1. /\ queue = <<>> /\ \E wf \in Files : TurnsTo(wf)
          /\ UNCHANGED <<readCount, seen>>
        BY <1>8, ClosesIs
    <2>2. page' = "none" /\ UNCHANGED received
        BY <2>1 DEF TurnsTo
    <2>3. Without(queue, {"count"})
        BY <2>1, NothingIs DEF Without
    <2> QED BY <2>1, <2>2, <2>3 DEF SeenInv, Without, In
<1>9. CASE Restart
    <2>1. seen' = NotSeen /\ page' = "none"
        BY <1>9, RestartIs DEF TurnsTo
    <2> QED BY <2>1 DEF SeenInv, Without, In, NotSeen
<1>10. CASE \/ \E new \in Passwords, saved \in BOOLEAN : encryptWallet(new, saved)
            \/ SaveNow
            \/ \E contact \in Contacts : addEntry(contact) \/ removeRows(contact)
            \/ UNCHANGED windowVars
    <2>1. UNCHANGED <<queue, received, walletFile, page, enabled, messageRows, seen, readCount>>
        BY <1>10 DEF encryptWallet, SaveNow, addEntry, removeRows, windowVars, disk, unread
    <2> QED BY <2>1 DEF SeenInv, Without, In
<1>11. CASE \E to \in {"overview", "messages"} : switchMenu(to)
    <2>1. PICK to \in {"overview", "messages"} : switchMenu(to)
        BY <1>11
    <2>2. /\ UserMayClick /\ page' = to /\ UNCHANGED <<queue, received, walletFile, enabled, messageRows>>
          /\ readCount' = (IF to = "messages" THEN messageRows ELSE readCount)
          /\ seen' = (IF to = "messages" THEN <<walletFile, messageRows>> ELSE seen)
        BY <2>1 DEF switchMenu, Look
    <2>3. enabled /\ Without(queue, {"count"}) /\ Without(queue, {"reload"}) /\ walletFile \in Wallets
        BY <2>2, NothingIs DEF UserMayClick, Without, OpeningInv
    <2>4. messageRows <= received[walletFile]
        BY <2>3 DEF ReceivedInv
    <2>5. CASE to = "messages"
        BY <2>2, <2>3, <2>4, <2>5 DEF SeenInv, Without, In
    <2>6. CASE to = "overview"
        BY <2>2, <2>3, <2>6 DEF SeenInv, Without, In
    <2> QED BY <2>5, <2>6
<1>12. CASE Receive
    <2>1. /\ walletFile \in Wallets /\ received[walletFile] \in Nat /\ received'[walletFile] = received[walletFile] + 1
          /\ received' = [received EXCEPT ![walletFile] = @ + 1]
          /\ In(queue') = In(queue) \cup {Counted("created", received'[walletFile])}
          /\ Counted("created", received'[walletFile]).kind = "created"
          /\ UNCHANGED <<walletFile, enabled, page, messageRows, seen, readCount>>
        BY <1>12, ReceiveIs DEF unread
    <2>2. seen # NotSeen => seen[2] <= received'[seen[1]]
        <3>1. ASSUME seen # NotSeen PROVE seen[2] <= received'[seen[1]]
            <4>1. seen[1] \in Wallets /\ seen[2] \in 0..MessageLimit
                BY <1>0, <3>1
            <4>2. seen[2] <= received[seen[1]] /\ received[seen[1]] \in 0..MessageLimit
                BY <1>0, <3>1, <4>1 DEF SeenInv
            <4>3. seen[2] \in Nat /\ received[seen[1]] \in Nat
                BY <4>1, <4>2, Limits
            <4>4. received'[seen[1]] \in {received[seen[1]], received[seen[1]] + 1}
                BY <1>0, <2>1, <4>1
            <4> QED BY <4>2, <4>3, <4>4
        <3> QED BY <3>1
    <2>3. /\ Without(queue, {"reload"}) => Without(queue', {"reload"})
          /\ Without(queue', {"count"}) => Without(queue, {"count"})
        BY <2>1 DEF Without
    <2> QED BY <2>1, <2>2, <2>3 DEF SeenInv, Without, In
<1> QED BY <1>2, <1>3, <1>4, <1>5, <1>6, <1>7, <1>8, <1>9, <1>10, <1>11, <1>12, WindowActions

\* The button stays as it is while no number comes.
LEMMA BadgeStays ==
    ASSUME BadgeInv, UNCHANGED <<messageRows, readCount, badge>>, LastCount(queue', messageRows),
           \A e \in In(queue) : e.kind = "count" => e \in In(queue')
    PROVE  BadgeInv'
<1>1. Without(queue', {"count"}) => Without(queue, {"count"})
    BY DEF Without
<1>2. LastCount(queue', messageRows')
    BY DEF LastCount
<1> QED BY <1>1, <1>2 DEF BadgeInv, LastCount, Without, In

\* Every step keeps the number on the button, or on its way to it.
LEMMA BadgeKept ==
    ASSUME WindowTypeOK, OpeningInv, ReceivedInv, BadgeInv, [WindowNext]_windowVars
    PROVE  BadgeInv'
<1>0. /\ LastCount(queue, messageRows) /\ messageRows \in Int /\ walletFile \in Files
    <2>1. messageRows \in 0..MessageLimit /\ walletFile \in Files
        BY DEF WindowTypeOK
    <2> QED BY <2>1, Limits DEF BadgeInv
<1>1. ASSUME NEW given \in Passwords, Takes("open") \/ Takes("ask"), open(given)
      PROVE  BadgeInv'
    <2>1. UNCHANGED <<messageRows, readCount, badge>>
        BY <1>1, OpenIs DEF unread
    <2>2. /\ \A e \in In(queue) : e.kind = "count" => e \in In(queue')
          /\ LastCount(queue', messageRows)
        BY <1>0, <1>1, OpenLeaves
    <2> QED BY <2>1, <2>2, BadgeStays
<1>2. CASE createWithKeys \/ loadAddressBook \/ walletOpened \/ RefusePassword
    <2>1. /\ LastCount(queue', messageRows) /\ In(queue) = {Head(queue)} \cup In(queue')
          /\ Head(queue).kind \in {"keys", "book", "opened", "ask"}
        BY <1>0, <1>2, TailIs DEF Takes, createWithKeys, loadAddressBook, walletOpened, RefusePassword
    <2>2. UNCHANGED <<messageRows, readCount, badge>>
        BY <1>2 DEF createWithKeys, loadAddressBook, walletOpened, RefusePassword, unread
    <2>3. \A e \in In(queue) : e.kind = "count" => e \in In(queue')
        BY <2>1
    <2> QED BY <2>1, <2>2, <2>3, BadgeStays
<1>3. CASE LoadEnds
    <2>1. LastCount(queue', messageRows) /\ In(queue) \subseteq In(queue')
        BY <1>0, <1>3, LoadEndsIs
    <2>2. UNCHANGED <<messageRows, readCount, badge>>
        BY <1>3 DEF LoadEnds, unread
    <2> QED BY <2>1, <2>2, BadgeStays
<1>4. CASE onWalletInitCompleted
    <2>1. /\ LastCount(queue', messageRows) /\ In(Tail(queue)) \subseteq In(queue') /\ Takes("init")
          /\ UNCHANGED <<messageRows, readCount, badge>>
        BY <1>0, <1>4, InitIs DEF unread
    <2>2. In(queue) = {Head(queue)} \cup In(Tail(queue)) /\ Head(queue).kind = "init"
        BY <2>1, TakesIs
    <2>3. \A e \in In(queue) : e.kind = "count" => e \in In(queue')
        BY <2>1, <2>2
    <2> QED BY <2>1, <2>3, BadgeStays
<1>5. CASE reloadMessages \/ appendMessage
    <2>1. PICK kind \in {"reload", "created"}, first \in 1..(MessageLimit + 1), last \in 0..MessageLimit :
               /\ Takes(kind) /\ first <= last + 1 /\ messageRows <= last
               /\ AppendUpTo(first, last)
               /\ kind = "reload" => first = 1
               /\ kind = "created" => first = messageRows + 1
        BY <1>5, AppendsIs
    <2>2. /\ In(queue) = {Head(queue)} \cup In(Tail(queue)) /\ Head(queue).kind = kind /\ queue # <<>>
          /\ \A n : LastCount(queue, n) => LastCount(Tail(queue), n)
        BY <2>1, TakesIs
    <2>3. /\ messageRows' = last /\ In(Tail(queue)) \subseteq In(queue')
          /\ first <= last => ~Without(queue', {"count"}) /\ LastCount(queue', last)
          /\ first = last + 1 => queue' = Tail(queue)
        BY <2>1, <2>2, AppendUpToIs
    <2>4. UNCHANGED <<readCount, badge>>
        BY <2>1 DEF AppendUpTo
    <2>5. CASE first <= last
        BY <2>3, <2>4, <2>5 DEF BadgeInv, LastCount, Without, In
    <2>6. CASE first = last + 1
        <3>1. last = messageRows
            <4>1. messageRows \in 0..MessageLimit /\ MessageLimit \in Nat
                BY Limits DEF WindowTypeOK
            <4> QED BY <2>1, <2>6, <4>1
        <3>2. LastCount(queue', messageRows)
            BY <1>0, <2>2, <2>3, <2>6
        <3>3. \A e \in In(queue) : e.kind = "count" => e \in In(queue')
            BY <2>1, <2>2, <2>3
        <3> QED BY <2>3, <2>4, <3>1, <3>2, <3>3, BadgeStays
    <2>7. first <= last \/ first = last + 1
        BY <2>1, Limits
    <2> QED BY <2>5, <2>6, <2>7
<1>6. CASE messagesCountUpdated
    <2>1. Takes("count") /\ queue' = Tail(queue) /\ UNCHANGED messageRows
          /\ readCount' = (IF page = "messages" THEN messageRows ELSE readCount)
          /\ badge' = (IF page = "messages" THEN Min({0, BadgeLimit})
                       ELSE Min({Max({Count - readCount, 0}), BadgeLimit}))
        BY <1>6 DEF messagesCountUpdated, showUnread
    <2>2. queue \in Seq(Events) /\ queue # <<>> /\ Head(queue).kind = "count"
        BY <2>1, TakesIs
    <2>3. LastCount(Tail(queue), messageRows) /\ (Without(Tail(queue), {"count"}) => Count = messageRows)
        BY <1>0, <2>2, TakenIs DEF Count
    <2>4. messageRows - messageRows = 0 /\ 0 \in Int /\ 0 <= 0
        BY <1>0
    <2>5. Min({Max({messageRows - messageRows, 0}), BadgeLimit}) = Min({0, BadgeLimit})
        BY <2>4, BadgeIs
    <2>6. LastCount(queue', messageRows')
        BY <2>1, <2>3
    <2> QED BY <2>1, <2>3, <2>5, <2>6 DEF BadgeInv, LastCount, Without, In
<1>7. ASSUME NEW wf \in Files, TurnsTo(wf) PROVE BadgeInv'
    <2>1. messageRows' = 0 /\ \A n : LastCount(queue', n)
        BY <1>7, TurnsLeave DEF TurnsTo
    <2>2. LastCount(queue', messageRows')
        BY <2>1
    <2>3. ~(messageRows' > 0)
        BY <2>1
    <2> QED BY <2>2, <2>3 DEF BadgeInv, LastCount, Without, In
<1>8. CASE Closes \/ Restart
    BY <1>0, <1>7, <1>8, ClosesIs, RestartIs
<1>9. CASE \/ \E new \in Passwords, saved \in BOOLEAN : encryptWallet(new, saved)
           \/ SaveNow
           \/ \E contact \in Contacts : addEntry(contact) \/ removeRows(contact)
           \/ UNCHANGED windowVars
    <2>1. UNCHANGED <<queue, messageRows, badge, readCount>>
        BY <1>9 DEF encryptWallet, SaveNow, addEntry, removeRows, windowVars, unread
    <2> QED BY <2>1 DEF BadgeInv, LastCount, Without, In
<1>10. CASE \E to \in {"overview", "messages"} : switchMenu(to)
    <2>1. PICK to \in {"overview", "messages"} : switchMenu(to)
        BY <1>10
    <2>2. UNCHANGED <<queue, messageRows>>
        BY <2>1 DEF switchMenu
    <2>3. CASE to = "messages"
        <3>1. readCount' = messageRows /\ badge' = Min({0, BadgeLimit})
            BY <2>1, <2>3 DEF switchMenu, showUnread
        <3>2. messageRows - messageRows = 0 /\ 0 \in Int /\ 0 <= 0
            BY <1>0
        <3>3. Min({Max({messageRows - messageRows, 0}), BadgeLimit}) = Min({0, BadgeLimit})
            BY <3>2, BadgeIs
        <3> QED BY <2>2, <3>1, <3>3 DEF BadgeInv, LastCount, Without, In
    <2>4. CASE to = "overview"
        <3>1. UNCHANGED <<readCount, badge>>
            BY <2>1, <2>4 DEF switchMenu
        <3> QED BY <2>2, <3>1 DEF BadgeInv, LastCount, Without, In
    <2> QED BY <2>3, <2>4
<1>11. CASE Receive
    <2>1. /\ In(queue) \subseteq In(queue') /\ LastCount(queue', messageRows)
          /\ UNCHANGED <<messageRows, readCount, badge>>
        BY <1>0, <1>11, ReceiveIs DEF unread
    <2> QED BY <2>1, BadgeStays
<1> QED BY <1>1, <1>2, <1>3, <1>4, <1>5, <1>6, <1>8, <1>9, <1>10, <1>11, WindowActions

-----------------------------------------------------------------------------
(* The theorems about the window. *)
WindowInv ==
    /\ WindowTypeOK /\ OpeningInv /\ BookInv /\ ContactsKept /\ PasswordInv /\ ReceivedInv /\ SeenInv
    /\ BadgeInv

\* The process starts, and will open a wallet.
LEMMA WindowInitially == WindowInit => WindowInv
<1> SUFFICES ASSUME WindowInit PROVE WindowInv
    OBVIOUS
<1>1. /\ book = [f \in Files |-> {}] /\ walletFile = First /\ addressBookFile = First /\ readMessages = 0
      /\ readCount = 0 /\ received = [w \in Wallets |-> 0] /\ wallet = "none" /\ pass = "" /\ encrypted = FALSE
      /\ queue = <<Event("open")>> /\ contacts = {} /\ enabled = FALSE /\ page = "none" /\ messageRows = 0
      /\ badge = 0 /\ seen = NotSeen /\ added = [w \in Wallets |-> {}] /\ encryptShown = FALSE /\ saveFailed = FALSE
      /\ password \in [Files -> Passwords \cup {"absent"}]
    BY DEF WindowInit
<1>2. Event("open") \in Events /\ Event("open").kind = "open"
    BY EventIs
<1>3. /\ queue \in Seq(Events) /\ In(queue) = {Event("open")} /\ Ordered(queue) /\ Len(queue) = 1
      /\ \A n : LastCount(queue, n)
    BY <1>1, <1>2, SingleIs
<1>4. First \in Wallets /\ First \in Files /\ "" \in Passwords
    BY WindowConstants
<1>5. 0 \in 0..MessageLimit /\ 0 \in 0..BadgeLimit
    BY Limits
<1>6. WindowTypeOK
    BY <1>1, <1>3, <1>4, <1>5 DEF WindowTypeOK, Events, Contacts, NotSeen
<1>7. Without(queue, {"init"}) /\ Without(queue, {"opened"})
    BY <1>2, <1>3 DEF Without
<1>8. OpeningInv
    BY <1>1, <1>2, <1>3, <1>4, <1>7 DEF OpeningInv
<1>9. BookInv /\ ContactsKept
    BY <1>1, <1>7, WindowConstants DEF BookInv, ContactsKept
<1>10. PasswordInv
    BY <1>1, <1>2, <1>3 DEF PasswordInv, Opens
<1>11. ReceivedInv
    <2>1. \A e \in In(queue) : e.kind # "created"
        BY <1>2, <1>3
    <2>2. messageRows <= received[walletFile]
        <3>1. received[walletFile] = 0 /\ messageRows = 0
            BY <1>1, <1>4
        <3> QED BY <3>1
    <2> QED BY <1>1, <2>1, <2>2 DEF ReceivedInv
<1>12. SeenInv
    BY <1>1 DEF SeenInv
<1>13. BadgeInv
    <2>1. ~(messageRows > 0)
        <3>1. messageRows = 0
            BY <1>1
        <3> QED BY <3>1
    <2>2. LastCount(queue, messageRows)
        BY <1>3
    <2> QED BY <2>1, <2>2 DEF BadgeInv
<1> QED BY <1>6, <1>8, <1>9, <1>10, <1>11, <1>12, <1>13 DEF WindowInv

\* WindowInv is inductive.
LEMMA WindowInductive == WindowInv /\ [WindowNext]_windowVars => WindowInv'
<1> SUFFICES ASSUME WindowInv, [WindowNext]_windowVars PROVE WindowInv'
    OBVIOUS
<1>1. WindowTypeOK /\ OpeningInv /\ BookInv /\ ContactsKept /\ PasswordInv /\ ReceivedInv /\ SeenInv /\ BadgeInv
    BY DEF WindowInv
<1>2. WindowTypeOK' /\ OpeningInv'
    BY <1>1, TypesKept, OpeningKept
<1>3. BookInv' /\ ContactsKept' /\ PasswordInv'
    BY <1>1, BookKept, PasswordKept
<1>4. ReceivedInv' /\ SeenInv' /\ BadgeInv'
    BY <1>1, ReceivedKept, SeenKept, BadgeKept
<1> QED BY <1>2, <1>3, <1>4 DEF WindowInv

\* The inductive invariant holds always.
LEMMA WindowAlways == WindowSpec => []WindowInv
BY WindowInitially, WindowInductive, PTL DEF WindowSpec

(* The variables of the window have the values their definitions name,     *)
(* whatever wallets, passwords and contacts there are.                     *)
THEOREM WindowTyped == WindowSpec => []WindowTypeOK
<1>1. WindowInv => WindowTypeOK
    BY DEF WindowInv
<1> QED BY <1>1, WindowAlways, PTL

(* loadAddressBook() and the menu of the address book keep the contacts of *)
(* each wallet in its own file, but for those that a failed or cut save,   *)
(* or a failed load, of that file loses, and write nothing over a .keys    *)
(* file: for any number of wallets and contacts, and a process that ends   *)
(* between or in any of the saves of a load.                               *)
THEOREM WindowContactsKept == WindowSpec => []ContactsKept
<1>1. WindowInv => ContactsKept
    BY DEF WindowInv
<1> QED BY <1>1, WindowAlways, PTL

(* Settings and the menu say of an open wallet whether it has a password,  *)
(* unless changePassword() could not save it.                              *)
THEOREM WindowEncryptionTold == WindowSpec => []EncryptionTold
<1>1. WindowInv => EncryptionTold
    BY DEF WindowInv, PasswordInv, EncryptionTold, UserMayClick
<1> QED BY <1>1, WindowAlways, PTL

(* The Messages button shows the number of messages that came since those  *)
(* of the wallet were on the screen, once all was told, for any number of  *)
(* messages.                                                               *)
THEOREM WindowUnreadIsCounted == WindowSpec => []UnreadIsCounted
<1>1. ASSUME WindowInv PROVE UnreadIsCounted
    <2> SUFFICES ASSUME queue = <<>>, wallet = "open", messageRows > 0, seen[1] = walletFile
                 PROVE  badge = Min({messageRows - seen[2], BadgeLimit})
        BY DEF UnreadIsCounted
    <2>1. /\ seen \in {NotSeen} \cup (Wallets \X (0..MessageLimit)) /\ received \in [Wallets -> 0..MessageLimit]
          /\ messageRows \in 0..MessageLimit /\ walletFile \in Files /\ enabled \in BOOLEAN
        BY <1>1 DEF WindowInv, WindowTypeOK
    <2>2. In(queue) = {}
        BY NothingIs
    <2>3. walletFile \in Wallets
        BY <1>1 DEF WindowInv, OpeningInv
    <2>4. messageRows = received[walletFile]
        BY <1>1, <2>2 DEF WindowInv, ReceivedInv, Without
    <2>5. seen # NotSeen
        <3>1. walletFile # ""
            BY <2>1, WindowConstants
        <3>2. NotSeen[1] = ""
            BY DEF NotSeen
        <3> QED BY <3>1, <3>2
    <2>6. readCount = seen[2] /\ seen[2] <= received[walletFile]
        BY <1>1, <2>2, <2>5 DEF WindowInv, SeenInv, Without
    <2>7. badge = Min({Max({messageRows - seen[2], 0}), BadgeLimit})
        BY <1>1, <2>2, <2>6 DEF WindowInv, BadgeInv, Without
    <2>8. seen[2] \in 0..MessageLimit
        BY <2>1, <2>5
    <2> DEFINE n == messageRows - seen[2]
    <2>9. n \in Int /\ n >= 0
        BY <2>1, <2>4, <2>6, <2>8, Limits
    <2> HIDE DEF n
    <2>10. Max({n, 0}) = n
        BY <2>9, MaxIs
    <2> QED BY <2>7, <2>10 DEF n
<1> QED BY <1>1, WindowAlways, PTL

-----------------------------------------------------------------------------
(* The tray, the menu and the pools. *)

\* What the program will do is in the settings file while it runs, and when it has one.
TraySaved ==
    /\ process # "off" => cfg # NoSettings
    /\ cfg # NoSettings => /\ cfg.switches = switches /\ cfg.pools = pools
                           /\ ToSet(pools) = ToSet(DefaultPools) \cup pooled
    /\ cfg = NoSettings => pooled = {} /\ (~torn => switches = Defaults)

\* On Windows the menu shows what the program will do, and what the user set.
TraySwitches == os = "windows" => \A s \in Switches : menu[s] = switches[s] /\ (~torn => chosen[s] = switches[s])

\* The entry is as the user set it, and the menu shows it.
TrayLogin ==
    /\ ~torn => chosen["startOnLogin"] = isStartOnLoginEnabled(entry)
    /\ process # "off" => menu["startOnLogin"] = isStartOnLoginEnabled(entry)

TrayInv == TrayTypeOK /\ TraySaved /\ TraySwitches /\ TrayLogin

\* A way to the window is left, not counting the dialog.
WayBack == process = "runs" => visible \/ icon \/ leftInTray

\* A set of numbers with 0 that has the next of each of its members is all of Nat.
LEMMA SetInduction ==
    ASSUME NEW S \in SUBSET Nat, 0 \in S, \A n \in S : n + 1 \in S
    PROVE  S = Nat
<1> DEFINE R == {pair \in Nat \X Nat : pair[1] < pair[2]}
<1>1. IsWellFoundedOn(R, Nat)
    BY NatLessThanWellFounded, Zenon DEF OpToRel
<1>2. IsWellFoundedOn(R, Nat \ S)
    BY <1>1, IsWellFoundedOnSubset
<1> SUFFICES ASSUME Nat \ S # {} PROVE FALSE
    OBVIOUS
<1> HIDE DEF R
<1>3. PICK x \in Nat \ S : \A y \in Nat \ S : ~(<<y, x>> \in R)
    BY <1>2, WFMin
<1>4. x - 1 \in Nat
    BY <1>3
<1>5. <<x - 1, x>> \in R
    BY <1>4 DEF R
<1>6. x - 1 \in S
    BY <1>3, <1>4, <1>5
<1> QED BY <1>3, <1>6

\* What the proofs use of the assumption on pools.
LEMMA Pools ==
    /\ DefaultPools \in Seq(ToSet(DefaultPools)) /\ DefaultPools \in Seq(ToSet(DefaultPools) \cup OtherPools)
    /\ Len(DefaultPools) \in Nat /\ Len(DefaultPools) <= PoolLimit /\ PoolLimit \in Nat
    /\ \A i \in 1..Len(DefaultPools) : DefaultPools[i] \in ToSet(DefaultPools)
    /\ \A pool \in OtherPools : pool \notin ToSet(DefaultPools)
<1>1. DefaultPools \in Seq(ToSet(DefaultPools)) /\ ToSet(DefaultPools) \cap OtherPools = {}
      /\ PoolLimit \in Nat /\ Len(DefaultPools) <= PoolLimit
    BY TrayAssumption DEF TrayAssumption
<1> DEFINE D == ToSet(DefaultPools)
<1> HIDE DEF D
<1>2. DefaultPools \in Seq(D)
    BY <1>1 DEF D
<1>3. DefaultPools \in Seq(D \cup OtherPools)
    <2>1. D \subseteq D \cup OtherPools
        OBVIOUS
    <2> QED BY <1>2, <2>1, SeqMonotonic
<1>4. Len(DefaultPools) \in Nat /\ \A i \in 1..Len(DefaultPools) : DefaultPools[i] \in D
    BY <1>2
<1> QED BY <1>1, <1>3, <1>4 DEF D

\* No pool is missing from a list that has the default pools: nothing is added.
LEMMA NoneMissing ==
    ASSUME NEW list, ToSet(DefaultPools) \subseteq ToSet(list)
    PROVE  AddMissing(list) = list
<1> DEFINE n == Len(DefaultPools)
           body(f) == [i \in 0..n |-> IF i = 0 THEN list
                                      ELSE IF DefaultPools[i] \in ToSet(f[i - 1]) THEN f[i - 1]
                                      ELSE Append(f[i - 1], DefaultPools[i])]
           g == [i \in 0..n |-> list]
           after == CHOOSE f : f = body(f)
<1>1. n \in Nat /\ \A i \in 1..n : DefaultPools[i] \in ToSet(list)
    BY Pools
<1>2. AddMissing(list) = after[n]
    BY DEF AddMissing
<1> HIDE DEF n
<1>3. g = body(g)
    <2>1. ASSUME NEW i \in 0..n, i # 0 PROVE DefaultPools[i] \in ToSet(g[i - 1]) /\ g[i - 1] = list
        <3>1. i \in 1..n /\ i - 1 \in 0..n
            BY <1>1, <2>1
        <3> QED BY <1>1, <3>1
    <2> QED BY <2>1
<1>4. after = body(after)
    <2>1. \E f : f = body(f)
        BY <1>3
    <2> HIDE DEF body
    <2> QED BY <2>1
<1> HIDE DEF after
<1> DEFINE S == {i \in Nat : i <= n => after[i] = list}
<1>5. 0 \in S
    <2>1. 0 \in 0..n
        BY <1>1
    <2> QED BY <1>4, <2>1
<1>6. ASSUME NEW i \in S PROVE i + 1 \in S
    <2> SUFFICES ASSUME i + 1 <= n PROVE after[i + 1] = list
        OBVIOUS
    <2>1. i + 1 \in 0..n /\ i + 1 # 0 /\ i + 1 \in 1..n /\ (i + 1) - 1 = i /\ i <= n
        BY <1>1
    <2>2. after[i] = list
        BY <2>1
    <2>3. after[i + 1] = IF DefaultPools[i + 1] \in ToSet(after[i]) THEN after[i]
                         ELSE Append(after[i], DefaultPools[i + 1])
        BY <1>4, <2>1
    <2> QED BY <1>1, <2>1, <2>2, <2>3
<1>7. S \in SUBSET Nat
    OBVIOUS
<1>8. n \in S
    <2> HIDE DEF S
    <2> QED BY <1>1, <1>5, <1>6, <1>7, SetInduction
<1> QED BY <1>1, <1>2, <1>8

\* A pool that is added is in the list from then on.
LEMMA PoolAdded ==
    ASSUME NEW S, NEW list \in Seq(S), NEW pool
    PROVE  ToSet(Append(list, pool)) = ToSet(list) \cup {pool}
<1> DEFINE longer == Append(list, pool)
           n == Len(list)
<1>1. /\ n \in Nat /\ DOMAIN list = 1..n /\ DOMAIN longer = 1..(n + 1)
      /\ longer[n + 1] = pool /\ \A i \in 1..n : longer[i] = list[i]
    OBVIOUS
<1> HIDE DEF longer, n
<1>2. \A i \in 1..(n + 1) : i \in 1..n \/ i = n + 1
    BY <1>1
<1>3. n + 1 \in 1..(n + 1) /\ \A i \in 1..n : i \in 1..(n + 1)
    BY <1>1
<1>4. ToSet(longer) \subseteq ToSet(list) \cup {pool}
    BY <1>1, <1>2 DEF ToSet
<1>5. ToSet(list) \cup {pool} \subseteq ToSet(longer)
    BY <1>1, <1>3 DEF ToSet
<1> QED BY <1>4, <1>5 DEF longer


\* A file that is written is not one that has nothing.
LEMMA SettingsThere == ASSUME NEW a, NEW b PROVE [switches |-> a, pools |-> b] # NoSettings
<1>1. DOMAIN [switches |-> a, pools |-> b] = {"switches", "pools"}
    OBVIOUS
<1>2. DOMAIN NoSettings = {}
    BY DEF NoSettings
<1> QED BY <1>1, <1>2

\* Types that hold of what is set, and of what is shown.
LEMMA SettingsTypes ==
    /\ Defaults \in [Switches -> BOOLEAN]
    /\ \A by : isStartOnLoginEnabled(by) \in BOOLEAN
    /\ \A m \in Switches : m \in Marks /\ m # "startOnLogin"
    /\ "startOnLogin" \in Marks /\ \A m \in Marks : m \in Switches \/ m = "startOnLogin"
<1>1. Defaults \in [Switches -> BOOLEAN]
    BY DEF Defaults
<1>2. \A by : isStartOnLoginEnabled(by) \in BOOLEAN
    BY DEF isStartOnLoginEnabled
<1> QED BY <1>1, <1>2 DEF Marks, Switches

\* The program begins without a file.
LEMMA TrayStart == TrayInit => TrayInv /\ WayBack
<1> SUFFICES ASSUME TrayInit PROVE TrayInv /\ WayBack
    OBVIOUS
<1> USE DEF TrayInit
<1>1. WayBack
    BY DEF WayBack
<1>2. menu \in [Marks -> BOOLEAN]
    <2>1. switches \in [Switches -> BOOLEAN]
        BY SettingsTypes
    <2> QED BY <2>1, SettingsTypes
<1>3. pools \in Seq(ToSet(DefaultPools) \cup OtherPools) /\ Len(pools) <= PoolLimit
    <2>1. pools = << >> /\ Len(pools) = 0
        OBVIOUS
    <2> QED BY <2>1, Pools
<1>4. TrayTypeOK
    BY <1>2, <1>3, SettingsTypes DEF TrayTypeOK
<1>5. TraySaved
    BY DEF TraySaved
<1>6. TraySwitches /\ TrayLogin
    BY SettingsTypes DEF TraySwitches, TrayLogin
<1> QED BY <1>1, <1>4, <1>5, <1>6 DEF TrayInv

\* The steps that show and hide the window, and those of the wallet, change no setting.
LEMMA ShowingKept ==
    ASSUME TrayInv,
           \/ quit \/ ProcessEnds \/ closeEvent \/ trayActivated \/ OpenAnother
           \/ \E state \in {"normal", "minimized", "maximized"} : changeEvent(state)
           \/ \E hasMessages \in BOOLEAN : transactionCreated(hasMessages)
           \/ \E result \in {"open", "asking", "none"} : LoadCompleted(result)
           \/ \E accepted \in BOOLEAN : askForPassword(accepted)
    PROVE  TrayInv'
<1>1. TrayTypeOK
    BY DEF TrayInv
<1>2. /\ UNCHANGED <<os, switches, pools, cfg, menu, entry, chosen, pooled, torn>>
      /\ process' \in {"off", "runs", "quits"} /\ (process' # "off" => process # "off")
    BY <1>1 DEF TrayTypeOK, quit, ProcessEnds, closeEvent, trayActivated, OpenAnother, changeEvent,
                transactionCreated, LoadCompleted, askForPassword, KeepsAllBut
<1> DEFINE Shown ==
        /\ visible \in BOOLEAN /\ icon \in BOOLEAN /\ leftInTray \in BOOLEAN
        /\ shape \in {"normal", "minimized", "maximized"}
        /\ purse \in {"none", "loading", "asking", "open"}
<1>3. Shown'
    <2>1. /\ visible \in BOOLEAN /\ icon \in BOOLEAN /\ leftInTray \in BOOLEAN
          /\ shape \in {"normal", "minimized", "maximized"}
          /\ purse \in {"none", "loading", "asking", "open"}
        BY <1>1 DEF TrayTypeOK
    <2>2. CASE quit
        BY <2>1, <2>2 DEF quit
    <2>3. CASE ProcessEnds
        BY <2>1, <2>3 DEF ProcessEnds
    <2>4. CASE closeEvent
        BY <2>1, <2>4 DEF closeEvent, minimizeToTray, KeepsAllBut, quit
    <2>5. CASE trayActivated
        BY <2>1, <2>5 DEF trayActivated, ShowNormal, KeepsAllBut
    <2>6. CASE OpenAnother
        BY <2>1, <2>6 DEF OpenAnother, HideIcon
    <2>7. ASSUME NEW state \in {"normal", "minimized", "maximized"}, changeEvent(state) PROVE Shown'
        BY <2>1, <2>7 DEF changeEvent, minimizeToTray, ShowNormal, KeepsAllBut
    <2>8. ASSUME NEW hasMessages \in BOOLEAN, transactionCreated(hasMessages) PROVE Shown'
        BY <2>1, <2>8 DEF transactionCreated, KeepsAllBut
    <2>9. ASSUME NEW result \in {"open", "asking", "none"}, LoadCompleted(result) PROVE Shown'
        BY <2>1, <2>9 DEF LoadCompleted, HideIcon
    <2>10. ASSUME NEW accepted \in BOOLEAN, askForPassword(accepted) PROVE Shown'
        BY <2>1, <2>10 DEF askForPassword
    <2> QED BY <2>2, <2>3, <2>4, <2>5, <2>6, <2>7, <2>8, <2>9, <2>10
<1>4. TrayTypeOK'
    BY <1>1, <1>2, <1>3 DEF TrayTypeOK
<1>5. TraySaved'
    BY <1>2 DEF TrayInv, TraySaved, Defaults
<1>6. TraySwitches' /\ TrayLogin'
    BY <1>2 DEF TrayInv, TraySwitches, TrayLogin, isStartOnLoginEnabled
<1> QED BY <1>4, <1>5, <1>6 DEF TrayInv

\* Settings::load(): what the file has, or the defaults, which are saved at once.
LEMMA StartKept == ASSUME TrayInv, StartProgram PROVE TrayInv'
<1>1. TrayTypeOK /\ TraySaved /\ TraySwitches /\ TrayLogin
    BY DEF TrayInv
<1>2. /\ process = "off" /\ process' = "runs" /\ visible' = TRUE /\ shape' = "normal" /\ icon' = FALSE
      /\ purse' = "loading" /\ leftInTray' = FALSE
      /\ os' = os /\ entry' = entry /\ chosen' = chosen /\ pooled' = pooled /\ torn' = torn
      /\ switches' = (IF cfg = NoSettings THEN Defaults ELSE cfg.switches)
      /\ pools' = (IF cfg = NoSettings THEN DefaultPools ELSE AddMissing(cfg.pools))
      /\ cfg' = [switches |-> switches', pools |-> pools']
      /\ menu' = [m \in Marks |-> IF m = "startOnLogin" THEN isStartOnLoginEnabled(entry) ELSE switches'[m]]
    BY DEF StartProgram, load, loadPools, saveSettings, initUi
<1>3. /\ pools' \in Seq(ToSet(DefaultPools) \cup OtherPools) /\ Len(pools') <= PoolLimit
      /\ ToSet(pools') = ToSet(DefaultPools) \cup pooled
    <2>1. CASE cfg = NoSettings
        <3>1. pools' = DefaultPools /\ pooled = {}
            BY <1>1, <1>2, <2>1 DEF TraySaved
        <3> QED BY <3>1, Pools
    <2>2. CASE cfg # NoSettings
        <3>1. cfg.pools = pools /\ ToSet(pools) = ToSet(DefaultPools) \cup pooled
            BY <1>1, <2>2 DEF TraySaved
        <3>2. AddMissing(pools) = pools
            BY <3>1, NoneMissing
        <3>3. pools' = pools
            BY <1>2, <2>2, <3>1, <3>2
        <3> QED BY <1>1, <3>1, <3>3 DEF TrayTypeOK
    <2> QED BY <2>1, <2>2
<1>4. switches' \in [Switches -> BOOLEAN] /\ (cfg # NoSettings => switches' = switches)
    <2>1. CASE cfg = NoSettings
        BY <1>2, <2>1, SettingsTypes
    <2>2. CASE cfg # NoSettings
        BY <1>1, <1>2, <2>2 DEF TraySaved, TrayTypeOK
    <2> QED BY <2>1, <2>2
<1>5. cfg' \in {NoSettings} \cup [switches : [Switches -> BOOLEAN], pools : {pools'}]
    BY <1>2, <1>4
<1>6. menu' \in [Marks -> BOOLEAN] /\ menu'["startOnLogin"] = isStartOnLoginEnabled(entry)
      /\ \A s \in Switches : menu'[s] = switches'[s]
    <2>1. \A m \in Marks : m # "startOnLogin" => switches'[m] \in BOOLEAN
        BY <1>4, SettingsTypes
    <2> QED BY <1>2, <2>1, SettingsTypes
<1>7. TrayTypeOK'
    <2>1. os' \in {"windows", "linux"} /\ pooled' \subseteq OtherPools /\ chosen' \in [Marks -> BOOLEAN]
          /\ entry' \in {"none", "empty", "this", "other"} /\ torn' \in BOOLEAN
        BY <1>1, <1>2 DEF TrayTypeOK
    <2> QED BY <1>2, <1>3, <1>4, <1>5, <1>6, <2>1 DEF TrayTypeOK
<1>8. TraySaved'
    <2>1. cfg' # NoSettings /\ cfg'.switches = switches' /\ cfg'.pools = pools'
        BY <1>2, SettingsThere
    <2>2. NoSettings' = NoSettings
        BY DEF NoSettings
    <2> QED BY <1>2, <1>3, <2>1, <2>2 DEF TraySaved
<1>9. TraySwitches'
    <2> SUFFICES ASSUME os = "windows", NEW s \in Switches
                 PROVE  menu'[s] = switches'[s] /\ (~torn => chosen[s] = switches'[s])
        BY <1>2 DEF TraySwitches
    <2>1. ~torn => switches' = switches
        BY <1>1, <1>2, <1>4 DEF TraySaved
    <2> QED BY <1>1, <1>6, <2>1 DEF TraySwitches
<1>10. TrayLogin'
    <2>1. isStartOnLoginEnabled(entry)' = isStartOnLoginEnabled(entry)
        BY <1>2 DEF isStartOnLoginEnabled
    <2> QED BY <1>1, <1>2, <1>6, <2>1 DEF TrayLogin
<1> QED BY <1>7, <1>8, <1>9, <1>10 DEF TrayInv

\* A switch is set and saved, and the menu shows it.
LEMMA SwitchKept ==
    ASSUME TrayInv, NEW s \in Switches, NEW on \in BOOLEAN, SetSwitch(s, on)
    PROVE  TrayInv'
<1>1. TrayTypeOK /\ TraySaved /\ TraySwitches /\ TrayLogin
    BY DEF TrayInv
<1>2. /\ process = "runs" /\ menu' = [menu EXCEPT ![s] = on]
      /\ UNCHANGED <<os, process, visible, shape, icon, purse, entry, pooled, torn, leftInTray>>
    BY DEF SetSwitch, UserSees
<1>3. s \in Marks /\ s # "startOnLogin" /\ "startOnLogin" \in Marks
    BY SettingsTypes
<1>4. menu \in [Marks -> BOOLEAN] /\ chosen \in [Marks -> BOOLEAN] /\ switches \in [Switches -> BOOLEAN]
    BY <1>1 DEF TrayTypeOK
<1>5. /\ menu' \in [Marks -> BOOLEAN] /\ menu'["startOnLogin"] = menu["startOnLogin"]
      /\ menu'[s] = on /\ \A t \in Marks : t # s => menu'[t] = menu[t]
    BY <1>2, <1>3, <1>4
<1>6. NoSettings' = NoSettings /\ isStartOnLoginEnabled(entry)' = isStartOnLoginEnabled(entry)
      /\ (Defaults = Defaults)'
    BY <1>2 DEF NoSettings, isStartOnLoginEnabled
<1>7. CASE os = "windows"
    <2>1. /\ switches' = [switches EXCEPT ![s] = on] /\ chosen' = [chosen EXCEPT ![s] = on]
          /\ pools' = pools /\ cfg' = [switches |-> switches', pools |-> pools']
        BY <1>7 DEF SetSwitch, saveSettings
    <2>2. /\ switches' \in [Switches -> BOOLEAN] /\ chosen' \in [Marks -> BOOLEAN]
          /\ chosen'["startOnLogin"] = chosen["startOnLogin"] /\ switches'[s] = on /\ chosen'[s] = on
          /\ \A t \in Switches : t # s => switches'[t] = switches[t] /\ chosen'[t] = chosen[t]
        BY <1>3, <1>4, <2>1, SettingsTypes
    <2>3. cfg' # NoSettings /\ cfg'.switches = switches' /\ cfg'.pools = pools'
        BY <2>1, SettingsThere
    <2>4. cfg' \in {NoSettings} \cup [switches : [Switches -> BOOLEAN], pools : {pools'}]
        BY <2>1, <2>2
    <2>5. TrayTypeOK'
        BY <1>1, <1>2, <1>5, <2>1, <2>2, <2>4 DEF TrayTypeOK
    <2>6. ToSet(pools) = ToSet(DefaultPools) \cup pooled
        BY <1>1, <1>2 DEF TraySaved
    <2>7. TraySaved'
        BY <1>2, <1>6, <2>1, <2>3, <2>6 DEF TraySaved
    <2>8. TraySwitches'
        <3> SUFFICES ASSUME NEW t \in Switches
                     PROVE  menu'[t] = switches'[t] /\ (~torn => chosen'[t] = switches'[t])
            BY <1>2 DEF TraySwitches
        <3>1. t \in Marks
            BY SettingsTypes
        <3> QED BY <1>1, <1>5, <1>7, <2>2, <3>1 DEF TraySwitches
    <2>9. TrayLogin'
        BY <1>1, <1>2, <1>5, <1>6, <2>2 DEF TrayLogin
    <2> QED BY <2>5, <2>7, <2>8, <2>9 DEF TrayInv
<1>8. CASE os # "windows"
    <2>1. UNCHANGED <<switches, pools, cfg, chosen>>
        BY <1>8 DEF SetSwitch
    <2>2. TrayTypeOK'
        BY <1>1, <1>2, <1>5, <2>1 DEF TrayTypeOK
    <2>3. TraySaved'
        BY <1>1, <1>2, <2>1 DEF TraySaved, Defaults, NoSettings
    <2>4. TraySwitches'
        BY <1>2, <1>8 DEF TraySwitches
    <2>5. TrayLogin'
        BY <1>1, <1>2, <1>5, <1>6, <2>1 DEF TrayLogin
    <2> QED BY <2>2, <2>3, <2>4, <2>5 DEF TrayInv
<1> QED BY <1>7, <1>8

\* The entry is written, and the mark shows whether it is there.
LEMMA LoginKept ==
    ASSUME TrayInv, NEW on \in BOOLEAN, NEW writable \in BOOLEAN, setStartOnLogin(on, writable)
    PROVE  TrayInv'
<1>1. TrayTypeOK /\ TraySaved /\ TraySwitches /\ TrayLogin
    BY DEF TrayInv
<1>2. UNCHANGED <<os, process, visible, shape, icon, purse, switches, pools, cfg, pooled, torn, leftInTray>>
    BY DEF setStartOnLogin
<1>3. menu \in [Marks -> BOOLEAN] /\ chosen \in [Marks -> BOOLEAN]
    BY <1>1 DEF TrayTypeOK
<1>4. /\ entry' \in {"none", "empty", "this", "other"}
      /\ menu' = [menu EXCEPT !["startOnLogin"] = isStartOnLoginEnabled(entry')]
      /\ chosen' = [chosen EXCEPT !["startOnLogin"] = menu'["startOnLogin"]]
    BY <1>1 DEF setStartOnLogin, TrayTypeOK
<1> DEFINE there == isStartOnLoginEnabled(entry')
<1>5. there \in BOOLEAN
    BY SettingsTypes
<1>6. isStartOnLoginEnabled(entry)' = there
    BY <1>2 DEF isStartOnLoginEnabled
<1> HIDE DEF there
<1>7. /\ menu' \in [Marks -> BOOLEAN] /\ menu'["startOnLogin"] = there
      /\ \A m \in Switches : menu'[m] = menu[m]
    BY <1>3, <1>4, <1>5, SettingsTypes DEF there
<1>8. /\ chosen' \in [Marks -> BOOLEAN] /\ chosen'["startOnLogin"] = there
      /\ \A m \in Switches : chosen'[m] = chosen[m]
    BY <1>3, <1>4, <1>5, <1>7, SettingsTypes
<1>9. TrayTypeOK'
    BY <1>1, <1>2, <1>4, <1>7, <1>8 DEF TrayTypeOK
<1>10. TraySaved'
    BY <1>1, <1>2 DEF TraySaved, Defaults, NoSettings
<1>11. TraySwitches'
    BY <1>1, <1>2, <1>7, <1>8 DEF TraySwitches
<1>12. TrayLogin'
    BY <1>6, <1>7, <1>8 DEF TrayLogin
<1> QED BY <1>9, <1>10, <1>11, <1>12 DEF TrayInv

\* A pool is added to the list and saved with it.
LEMMA PoolKept ==
    ASSUME TrayInv, NEW pool \in ToSet(DefaultPools) \cup OtherPools, addPool(pool)
    PROVE  TrayInv'
<1>1. TrayTypeOK /\ TraySaved /\ TraySwitches /\ TrayLogin
    BY DEF TrayInv
<1>2. /\ process = "runs" /\ Len(pools) < PoolLimit /\ pools' = Append(pools, pool)
      /\ switches' = switches /\ cfg' = [switches |-> switches', pools |-> pools']
      /\ pooled' = pooled \cup ({pool} \cap OtherPools)
      /\ UNCHANGED <<os, process, visible, shape, icon, purse, menu, entry, chosen, torn, leftInTray>>
    BY DEF addPool, UserSees, saveSettings
<1> DEFINE All == ToSet(DefaultPools) \cup OtherPools
<1>3. pools \in Seq(All) /\ pool \in All /\ switches \in [Switches -> BOOLEAN] /\ pooled \subseteq OtherPools
    BY <1>1 DEF TrayTypeOK
<1> HIDE DEF All
<1>4. pools' \in Seq(All) /\ Len(pools') = Len(pools) + 1 /\ Len(pools) \in Nat
    BY <1>2, <1>3
<1>5. Len(pools') <= PoolLimit
    BY <1>2, <1>4, Pools
<1>6. ToSet(pools') = ToSet(pools) \cup {pool}
    BY <1>2, <1>3, PoolAdded
<1>7. cfg # NoSettings /\ ToSet(pools) = ToSet(DefaultPools) \cup pooled
    BY <1>1, <1>2 DEF TraySaved
<1>8. ToSet(pools') = ToSet(DefaultPools) \cup pooled'
    <2>1. pool \in ToSet(DefaultPools) \/ pool \in OtherPools
        BY <1>3 DEF All
    <2> HIDE DEF All
    <2> QED BY <1>2, <1>6, <1>7, <2>1
<1>9. cfg' \in {NoSettings} \cup [switches : [Switches -> BOOLEAN], pools : {pools'}]
    BY <1>2, <1>3
<1>10. cfg' # NoSettings /\ cfg'.switches = switches' /\ cfg'.pools = pools'
    BY <1>2, SettingsThere
<1>11. TrayTypeOK'
    BY <1>1, <1>2, <1>3, <1>4, <1>5, <1>9 DEF TrayTypeOK, All
<1>12. TraySaved'
    <2>1. NoSettings' = NoSettings
        BY DEF NoSettings
    <2> QED BY <1>2, <1>8, <1>10, <2>1 DEF TraySaved
<1>13. TraySwitches'
    BY <1>1, <1>2 DEF TraySwitches
<1>14. TrayLogin'
    BY <1>1, <1>2 DEF TrayLogin, isStartOnLoginEnabled
<1> QED BY <1>11, <1>12, <1>13, <1>14 DEF TrayInv

\* A file that was being written is empty, and the program does not run any more.
LEMMA KilledKept ==
    ASSUME TrayInv, NEW file \in {"none", "cfg", "entry"}, KilledIn(file)
    PROVE  TrayInv'
<1>1. TrayTypeOK /\ TraySaved /\ TraySwitches /\ TrayLogin
    BY DEF TrayInv
<1>2. /\ process = "runs" /\ process' = "off" /\ visible' = FALSE /\ icon' = FALSE /\ purse' = "none"
      /\ cfg' = (IF file = "cfg" THEN NoSettings ELSE cfg)
      /\ entry' = (IF file = "entry" THEN "empty" ELSE entry)
      /\ torn' = (torn \/ file # "none")
      /\ pooled' = (IF file = "cfg" THEN {} ELSE pooled)
      /\ UNCHANGED <<os, shape, switches, pools, menu, chosen, leftInTray>>
    BY DEF KilledIn
<1>3. NoSettings' = NoSettings /\ Defaults' = Defaults
    BY <1>2 DEF NoSettings, Defaults
<1>4. TrayTypeOK'
    <2>1. cfg' \in {NoSettings} \cup [switches : [Switches -> BOOLEAN], pools : {pools'}]
        BY <1>1, <1>2 DEF TrayTypeOK
    <2>2. entry' \in {"none", "empty", "this", "other"} /\ torn' \in BOOLEAN /\ pooled' \subseteq OtherPools
        BY <1>1, <1>2 DEF TrayTypeOK
    <2> QED BY <1>1, <1>2, <1>3, <2>1, <2>2 DEF TrayTypeOK
<1>5. TraySaved'
    <2>1. CASE file = "cfg"
        BY <1>2, <1>3, <2>1 DEF TraySaved
    <2>2. CASE file # "cfg"
        BY <1>1, <1>2, <1>3, <2>2 DEF TraySaved
    <2> QED BY <2>1, <2>2
<1>6. TraySwitches'
    BY <1>1, <1>2 DEF TraySwitches
<1>7. TrayLogin'
    BY <1>1, <1>2 DEF TrayLogin, isStartOnLoginEnabled
<1> QED BY <1>4, <1>5, <1>6, <1>7 DEF TrayInv

\* A step that changes nothing keeps the invariant.
LEMMA TrayStutter == ASSUME TrayInv, UNCHANGED trayVars PROVE TrayInv'
BY DEF trayVars, TrayInv, TrayTypeOK, TraySaved, TraySwitches, TrayLogin, Defaults, isStartOnLoginEnabled

\* Every step keeps the invariant.
LEMMA TrayKept == ASSUME TrayInv, [TrayNext]_trayVars PROVE TrayInv'
<1>1. ASSUME NEW s \in Switches, NEW on \in BOOLEAN, SetSwitch(s, on) PROVE TrayInv'
    BY <1>1, SwitchKept
<1>2. ASSUME NEW on \in BOOLEAN, NEW writable \in BOOLEAN, setStartOnLogin(on, writable) PROVE TrayInv'
    BY <1>2, LoginKept
<1>3. ASSUME NEW pool \in ToSet(DefaultPools) \cup OtherPools, addPool(pool) PROVE TrayInv'
    BY <1>3, PoolKept
<1>4. ASSUME NEW file \in {"none", "cfg", "entry"}, KilledIn(file) PROVE TrayInv'
    BY <1>4, KilledKept
<1>5. CASE StartProgram
    BY <1>5, StartKept
<1>6. CASE UNCHANGED trayVars
    BY <1>6, TrayStutter
<1> QED BY <1>1, <1>2, <1>3, <1>4, <1>5, <1>6, ShowingKept DEF TrayNext

\* Whatever hides the window shows the icon, or ends the program; whatever hides the icon shows the
\* window, or is a wallet that goes away.
LEMMA WayBackKept == ASSUME WayBack, TrayTypeOK, [TrayNext]_trayVars PROVE WayBack'
<1> USE DEF WayBack
<1>1. CASE UNCHANGED trayVars
    BY <1>1 DEF trayVars
<1>2. CASE StartProgram \/ quit \/ ProcessEnds
    BY <1>2 DEF StartProgram, quit, ProcessEnds
<1>3. CASE closeEvent
    BY <1>3 DEF closeEvent, minimizeToTray, KeepsAllBut, quit
<1>4. CASE trayActivated
    BY <1>4 DEF trayActivated, ShowNormal
<1>5. CASE OpenAnother
    BY <1>5 DEF OpenAnother, HideIcon
<1>6. ASSUME NEW state, changeEvent(state) PROVE WayBack'
    BY <1>6 DEF changeEvent, minimizeToTray, ShowNormal, KeepsAllBut
<1>7. ASSUME NEW hasMessages, transactionCreated(hasMessages) PROVE WayBack'
    BY <1>7 DEF transactionCreated
<1>8. ASSUME NEW result, LoadCompleted(result) PROVE WayBack'
    BY <1>8 DEF LoadCompleted, HideIcon, TrayTypeOK
<1>9. ASSUME NEW accepted, askForPassword(accepted) PROVE WayBack'
    BY <1>9 DEF askForPassword
<1>10. ASSUME NEW s, NEW on, SetSwitch(s, on) PROVE WayBack'
    BY <1>10 DEF SetSwitch
<1>11. ASSUME NEW on, NEW writable, setStartOnLogin(on, writable) PROVE WayBack'
    BY <1>11 DEF setStartOnLogin
<1>12. ASSUME NEW pool, addPool(pool) PROVE WayBack'
    BY <1>12 DEF addPool
<1>13. ASSUME NEW file, KilledIn(file) PROVE WayBack'
    BY <1>13 DEF KilledIn
<1> QED BY <1>1, <1>2, <1>3, <1>4, <1>5, <1>6, <1>7, <1>8, <1>9, <1>10, <1>11, <1>12, <1>13 DEF TrayNext

\* The invariant holds of every state the window, its icon and the settings can be in.
LEMMA TrayInvariant == TraySpec => [](TrayInv /\ WayBack)
<1>1. TrayInit => TrayInv /\ WayBack
    BY TrayStart
<1>2. TrayInv /\ WayBack /\ [TrayNext]_trayVars => (TrayInv /\ WayBack)'
    BY TrayKept, WayBackKept DEF TrayInv
<1> QED BY <1>1, <1>2, PTL DEF TraySpec

\* The variables of the tray have their types, for any pools: the window, its icon, the switches, the
\* list of pools within its bound, and the settings file, which has what the program has or nothing.
THEOREM TrayTyped == TraySpec => []TrayTypeOK
<1>1. TrayInv => TrayTypeOK
    BY DEF TrayInv
<1> QED BY <1>1, TrayInvariant, PTL

\* The user is never left without a way to the window, however it is closed, minimized and shown,
\* switches are changed, notifications come and wallets are opened, except by a wallet that is closed
\* while the window is hidden.
THEOREM TrayWindowReachable == TraySpec => []WindowReachable
<1>1. WayBack => WindowReachable
    BY DEF WayBack, WindowReachable
<1> QED BY <1>1, TrayInvariant, PTL

\* The check marks and the pools that the program shows are what it will do, what the user set, and
\* what the settings file has, however often it was started and killed, for any pools.
THEOREM TrayMenuIsTrue == TraySpec => []MenuIsTrue
<1>1. TrayInv => MenuIsTrue
    <2> SUFFICES ASSUME TrayInv, process = "runs" PROVE MenuIsTrue
        BY DEF MenuIsTrue
    <2>1. TrayTypeOK /\ TraySaved /\ TraySwitches /\ TrayLogin
        BY DEF TrayInv
    <2>2. ToSet(pools) = ToSet(DefaultPools) \cup pooled
        BY <2>1 DEF TraySaved
    <2>3. os = "windows" => \A s \in Switches : menu[s] = switches[s] /\ (~torn => menu[s] = chosen[s])
        BY <2>1 DEF TraySwitches
    <2>4. menu["startOnLogin"] = isStartOnLoginEnabled(entry)
          /\ (~torn => chosen["startOnLogin"] = isStartOnLoginEnabled(entry))
        BY <2>1 DEF TrayLogin
    <2>5. entry \in {"none", "empty", "this", "other"} /\ os \in {"windows", "linux"}
        BY <2>1 DEF TrayTypeOK
    <2>6. menu["startOnLogin"] => entry \in {"this"} \cup IF os = "linux" THEN {"other", "empty"} ELSE {}
        BY <2>4, <2>5 DEF isStartOnLoginEnabled
    <2>7. entry = "this" => menu["startOnLogin"]
        BY <2>4 DEF isStartOnLoginEnabled
    <2> QED BY <2>2, <2>3, <2>4, <2>6, <2>7 DEF MenuIsTrue
<1> QED BY <1>1, TrayInvariant, PTL

-----------------------------------------------------------------------------
(* The balances. *)

\* Only a wallet that is open tells its balances, and what was posted for the wallet before it is gone.
BalancesOrder ==
    /\ stage # "ready" => told = 4 /\ reading = NothingRead
    /\ told = 4 => reading = NothingRead
    /\ stage = "loaded" => posts # <<>> /\ posts[1].kind = "loaded"
    /\ \A i \in 1..Len(posts) : posts[i].kind = "loaded" => stage = "loaded" /\ i = 1
    /\ stage \in {"none", "loading"} =>
           /\ posts = <<>> /\ untold = {}
           /\ \A l \in {"actual", "pending", "unlocked", "locked"} : labels[l] = 0

LabelsOf(k) ==
    CASE k = "actual" -> {"actual", "send", "message", "deposit"} [] k = "pending" -> {"pending"}
      [] k = "actualDeposit" -> {"unlocked"} [] OTHER -> {"locked"}

Settled(k) == k \notin untold /\ k \notin overtaken
NoPost(k) == \A i \in 1..Len(posts) : posts[i].kind # k

\* The last value posted for a balance, or else the one its labels show, is the one the wallet has.
Newest(k) ==
    /\ \A i \in 1..Len(posts) :
           posts[i].kind = k /\ (\A j \in 1..Len(posts) : j > i => posts[j].kind # k)
               => posts[i].value = owned[k]
    /\ NoPost(k) => \A l \in LabelsOf(k) : labels[l] = owned[k]

\* It is so of the balances that onWalletInitCompleted() has told.
BalancesNewest == stage = "ready" => \A n \in 1..told : Settled(Kinds[n]) => Newest(Kinds[n])

\* The total is the sum of the deposits once the last value of either has been taken.
BalancesTotal ==
    stage = "ready" /\ Idle /\ Settled("actualDeposit") /\ Settled("pendingDeposit")
        /\ NoPost("actualDeposit") /\ NoPost("pendingDeposit")
        => labels["total"] = owned["actualDeposit"] + owned["pendingDeposit"]

BalancesInv == BalancesTypeOK /\ BalancesOrder /\ BalancesNewest /\ BalancesTotal

Post == [kind : Kind \cup {"loaded"}, value : 0..MaxBalance]
Shown == [Labels -> 0..2 * MaxBalance]

\* The four balances, and the fifth post.
LEMMA KindsAre ==
    /\ Kind = {"actual", "pending", "actualDeposit", "pendingDeposit"}
    /\ Kinds[1] = "actual" /\ Kinds[2] = "pending" /\ Kinds[3] = "actualDeposit" /\ Kinds[4] = "pendingDeposit"
    /\ "loaded" \notin Kind
<1>1. Kinds[1] = "actual" /\ Kinds[2] = "pending" /\ Kinds[3] = "actualDeposit" /\ Kinds[4] = "pendingDeposit"
      /\ DOMAIN Kinds = 1..4
    BY DEF Kinds
<1>2. 1..4 = {1, 2, 3, 4}
    OBVIOUS
<1>3. Kind = {Kinds[1], Kinds[2], Kinds[3], Kinds[4]}
    <2> HIDE DEF Kinds
    <2>1. Kind = {Kinds[n] : n \in {1, 2, 3, 4}}
        BY <1>1, <1>2, Zenon DEF Kind, Range
    <2> QED BY <2>1
<1>4. "loaded" \notin {"actual", "pending", "actualDeposit", "pendingDeposit"}
    OBVIOUS
<1> QED BY <1>1, <1>3, <1>4

\* The numbers 1 to 4 are the kinds, each once.
LEMMA KindNumbers ==
    /\ \A n \in 1..4 : Kinds[n] \in Kind
    /\ \A k \in Kind : \E n \in 1..4 : k = Kinds[n]
    /\ \A m, n \in 1..4 : m # n => Kinds[m] # Kinds[n]
<1>1. \A n \in 1..4 : n = 1 \/ n = 2 \/ n = 3 \/ n = 4
    OBVIOUS
<1>2. 1 \in 1..4 /\ 2 \in 1..4 /\ 3 \in 1..4 /\ 4 \in 1..4
    OBVIOUS
<1>3. \A n \in 1..4 : Kinds[n] \in Kind
    BY <1>1, KindsAre, Zenon
<1>4. \A k \in Kind : \E n \in 1..4 : k = Kinds[n]
    BY <1>2, KindsAre, Zenon
<1>5. \A m, n \in 1..4 : m # n => Kinds[m] # Kinds[n]
    BY <1>1, KindsAre
<1> QED BY <1>3, <1>4, <1>5

\* Balances and their sums are within their bounds.
LEMMA BalanceBound ==
    /\ MaxBalance \in Nat /\ MaxBalance > 0 /\ 2 * MaxBalance \in Nat /\ 0 \in 0..MaxBalance
    /\ 0 \in 0..(2 * MaxBalance)
    /\ \A v \in 0..MaxBalance : v \in Nat /\ v \in 0..(2 * MaxBalance)
    /\ \A v, w \in 0..MaxBalance : v + w \in 0..(2 * MaxBalance)
<1>1. MaxBalance \in Nat /\ MaxBalance > 0
    BY BalancesAssumption DEF BalancesAssumption
<1> QED BY <1>1

\* What a post does to the labels: it sets those of its kind, and no other but the total.
LEMMA SlotIs ==
    ASSUME NEW l \in Shown, NEW post \in Post, owned \in [Kind -> 0..MaxBalance]
    PROVE  /\ Slot(l, post) \in Shown
           /\ \A k \in Kind : post.kind = k => \A x \in LabelsOf(k) : Slot(l, post)[x] = post.value
           /\ \A k \in Kind : post.kind # k => \A x \in LabelsOf(k) : Slot(l, post)[x] = l[x]
           /\ post.kind = "actualDeposit" => Slot(l, post)["total"] = post.value + Balance("pendingDeposit")
           /\ post.kind = "pendingDeposit" => Slot(l, post)["total"] = post.value + Balance("actualDeposit")
           /\ post.kind \notin {"actualDeposit", "pendingDeposit"} => Slot(l, post)["total"] = l["total"]
<1> DEFINE v == post.value
           r == Slot(l, post)
           V == 0..(2 * MaxBalance)
<1>1. v \in V /\ v \in 0..MaxBalance /\ l \in [Labels -> V]
    BY BalanceBound DEF Post, Shown
<1>2. Balance("actualDeposit") \in 0..MaxBalance /\ Balance("pendingDeposit") \in 0..MaxBalance
    BY KindsAre, BalanceBound DEF Balance
<1>3. v + Balance("actualDeposit") \in V /\ v + Balance("pendingDeposit") \in V
    BY <1>1, <1>2, BalanceBound
<1>4. post.kind \in {"actual", "pending", "actualDeposit", "pendingDeposit", "loaded"}
    BY KindsAre DEF Post
<1>5. Shown = [Labels -> V]
    BY DEF Shown
<1> HIDE DEF v, V
<1>6. CASE post.kind = "actual"
    <2>1. r = [[[[l EXCEPT !["actual"] = v] EXCEPT !["send"] = v] EXCEPT !["message"] = v] EXCEPT !["deposit"] = v]
        BY <1>6 DEF Slot, actualBalanceUpdated, sendBalanceUpdated, messageBalanceUpdated, walletActualBalanceUpdated, v
    <2> HIDE DEF r
    <2>2. r \in [Labels -> V]
        BY <1>1, <2>1
    <2>3. r["actual"] = v /\ r["send"] = v /\ r["message"] = v /\ r["deposit"] = v
          /\ r["pending"] = l["pending"] /\ r["unlocked"] = l["unlocked"] /\ r["locked"] = l["locked"]
          /\ r["total"] = l["total"]
        BY <1>1, <2>1 DEF Labels
    <2> QED BY <1>5, <1>6, <2>2, <2>3, KindsAre DEF LabelsOf, r, v
<1>7. CASE post.kind = "pending"
    <2>1. r = [l EXCEPT !["pending"] = v]
        BY <1>7 DEF Slot, pendingBalanceUpdated, v
    <2> HIDE DEF r
    <2>2. r \in [Labels -> V]
        BY <1>1, <2>1
    <2>3. r["pending"] = v
          /\ \A x \in {"actual", "send", "message", "deposit", "unlocked", "locked", "total"} : r[x] = l[x]
        BY <1>1, <2>1 DEF Labels
    <2> QED BY <1>5, <1>7, <2>2, <2>3, KindsAre DEF LabelsOf, r, v
<1>8. CASE post.kind = "actualDeposit"
    <2>1. r = [l EXCEPT !["unlocked"] = v, !["total"] = v + Balance("pendingDeposit")]
        BY <1>8 DEF Slot, actualDepositBalanceUpdated, v
    <2> HIDE DEF r
    <2>2. r \in [Labels -> V]
        BY <1>1, <1>3, <2>1
    <2>3. r["unlocked"] = v /\ r["total"] = v + Balance("pendingDeposit")
          /\ \A x \in {"actual", "send", "message", "deposit", "pending", "locked"} : r[x] = l[x]
        BY <1>1, <2>1 DEF Labels
    <2> QED BY <1>5, <1>8, <2>2, <2>3, KindsAre DEF LabelsOf, r, v
<1>9. CASE post.kind = "pendingDeposit"
    <2>1. r = [l EXCEPT !["locked"] = v, !["total"] = v + Balance("actualDeposit")]
        BY <1>9 DEF Slot, pendingDepositBalanceUpdated, v
    <2> HIDE DEF r
    <2>2. r \in [Labels -> V]
        BY <1>1, <1>3, <2>1
    <2>3. r["locked"] = v /\ r["total"] = v + Balance("actualDeposit")
          /\ \A x \in {"actual", "send", "message", "deposit", "pending", "unlocked"} : r[x] = l[x]
        BY <1>1, <2>1 DEF Labels
    <2> QED BY <1>5, <1>9, <2>2, <2>3, KindsAre DEF LabelsOf, r, v
<1>10. CASE post.kind = "loaded"
    <2>1. r = l
        BY <1>10 DEF Slot
    <2> QED BY <1>10, <2>1, KindsAre
<1> QED BY <1>4, <1>6, <1>7, <1>8, <1>9, <1>10

\* The recursive function that AllSlots evaluates.
After(l, list) ==
    CHOOSE f : f = [i \in 0..Len(list) |-> IF i = 0 THEN l ELSE Slot(f[i - 1], list[i])]

\* The slots of all that is posted leave labels of their types.
LEMMA AllSlotsTyped ==
    ASSUME NEW l \in Shown, NEW list \in Seq(Post), owned \in [Kind -> 0..MaxBalance]
    PROVE  AllSlots(l, list) \in Shown
<1> DEFINE n == Len(list)
           Next1(f, i) == IF i = 0 THEN l ELSE Slot(f[i - 1], list[i])
           P(m) == m <= n => \E f : f = [i \in 0..m |-> Next1(f, i)] /\ f[m] \in Shown
           S == {m \in Nat : P(m)}
<1>1. n \in Nat /\ \A i \in 1..n : list[i] \in Post
    OBVIOUS
<1> HIDE DEF n
<1>2. P(0)
    <2> DEFINE f == [i \in 0..0 |-> l]
    <2>1. f = [i \in 0..0 |-> Next1(f, i)] /\ f[0] = l
        OBVIOUS
    <2> QED BY <2>1
<1>3. ASSUME NEW m \in Nat, P(m) PROVE P(m + 1)
    <2> SUFFICES ASSUME m + 1 <= n PROVE \E f : f = [i \in 0..(m + 1) |-> Next1(f, i)] /\ f[m + 1] \in Shown
        OBVIOUS
    <2>1. PICK f : f = [i \in 0..m |-> Next1(f, i)] /\ f[m] \in Shown
        BY <1>1, <1>3
    <2> DEFINE last == Slot(f[m], list[m + 1])
               g == [i \in 0..(m + 1) |-> IF i = m + 1 THEN last ELSE f[i]]
    <2>2. last \in Shown
        <3>1. list[m + 1] \in Post
            BY <1>1
        <3> QED BY <2>1, <3>1, SlotIs
    <2> HIDE DEF last
    <2>3. ASSUME NEW i \in 0..(m + 1) PROVE g[i] = Next1(g, i)
        <3>1. CASE i = m + 1
            <4>1. (m + 1) - 1 = m /\ m # m + 1 /\ m \in 0..(m + 1) /\ m + 1 \in 0..(m + 1) /\ m + 1 # 0
                OBVIOUS
            <4>2. g[m] = f[m] /\ g[m + 1] = last
                BY <4>1
            <4> HIDE DEF g
            <4> QED BY <3>1, <4>1, <4>2 DEF last
        <3>2. CASE i \in 0..m
            <4>1. f[i] = Next1(f, i) /\ g[i] = f[i]
                BY <2>1, <3>2
            <4>2. i = 0 \/ (i - 1 \in 0..m /\ g[i - 1] = f[i - 1])
                BY <3>2
            <4> QED BY <4>1, <4>2
        <3> QED BY <3>1, <3>2
    <2>4. g = [i \in 0..(m + 1) |-> Next1(g, i)]
        BY <2>3
    <2>5. g[m + 1] \in Shown
        BY <2>2
    <2> QED BY <2>4, <2>5
<1>4. n \in S
    <2> HIDE DEF P
    <2>1. 0 \in S /\ \A m \in S : m + 1 \in S
        BY <1>2, <1>3
    <2>2. S \in SUBSET Nat
        OBVIOUS
    <2> HIDE DEF S
    <2> QED BY <1>1, <2>1, <2>2, SetInduction
<1>5. PICK f : f = [i \in 0..n |-> Next1(f, i)] /\ f[n] \in Shown
    BY <1>1, <1>4
<1>6. After(l, list) = [i \in 0..n |-> Next1(After(l, list), i)]
    BY <1>5 DEF After, n
<1>7. AllSlots(l, list) = After(l, list)[n]
    BY DEF AllSlots, After, n
<1> DEFINE h == After(l, list)
           T == {m \in Nat : m <= n => h[m] \in Shown}
<1>8. h = [i \in 0..n |-> Next1(h, i)]
    BY <1>6
<1> HIDE DEF h
<1>9. 0 \in T
    <2>1. 0 \in 0..n
        BY <1>1
    <2>2. h[0] = l
        BY <1>8, <2>1
    <2> QED BY <2>2
<1>10. ASSUME NEW m \in T PROVE m + 1 \in T
    <2> SUFFICES ASSUME m + 1 <= n PROVE h[m + 1] \in Shown
        OBVIOUS
    <2>1. m + 1 \in 0..n /\ m + 1 # 0 /\ (m + 1) - 1 = m /\ m + 1 \in 1..n
        BY <1>1
    <2>2. h[m] \in Shown
        BY <1>1
    <2>3. h[m + 1] = Slot(h[m], list[m + 1])
        BY <1>8, <2>1
    <2>4. list[m + 1] \in Post
        BY <1>1, <2>1
    <2> QED BY <2>2, <2>3, <2>4, SlotIs
<1>11. n \in T
    <2>1. T \in SUBSET Nat
        OBVIOUS
    <2> HIDE DEF T
    <2> QED BY <1>1, <1>9, <1>10, <2>1, SetInduction
<1> QED BY <1>1, <1>7, <1>11 DEF h

\* A value that is posted is the last one of its kind.
LEMMA NewestPosted ==
    ASSUME NEW k \in Kind, NEW v, posts \in Seq(Post), posts' = Append(posts, [kind |-> k, value |-> v]),
           v = owned'[k]
    PROVE  Newest(k)' /\ ~NoPost(k)'
<1> DEFINE n == Len(posts)
           p == [kind |-> k, value |-> v]
<1>1. /\ n \in Nat /\ Len(posts') = n + 1 /\ posts'[n + 1] = p
      /\ \A i \in 1..n : posts'[i] = posts[i]
    OBVIOUS
<1>2. p.kind = k /\ p.value = v
    OBVIOUS
<1> HIDE DEF n, p
<1>3. n + 1 \in 1..(n + 1) /\ \A i \in 1..(n + 1) : i = n + 1 \/ n + 1 > i
    BY <1>1
<1>4. ~NoPost(k)'
    BY <1>1, <1>2, <1>3 DEF NoPost
<1>5. \A i \in 1..Len(posts') :
          posts'[i].kind = k /\ (\A j \in 1..Len(posts') : j > i => posts'[j].kind # k)
              => posts'[i].value = owned'[k]
    BY <1>1, <1>2, <1>3
<1> QED BY <1>4, <1>5 DEF Newest

\* What is posted of another kind changes nothing for this one.
LEMMA NewestOther ==
    ASSUME NEW k \in Kind, NEW p, posts \in Seq(Post), posts' = Append(posts, p), p.kind # k,
           labels' = labels, owned'[k] = owned[k], Newest(k)
    PROVE  Newest(k)'
<1> DEFINE n == Len(posts)
<1>1. /\ n \in Nat /\ Len(posts') = n + 1 /\ posts'[n + 1] = p
      /\ \A i \in 1..n : posts'[i] = posts[i]
    OBVIOUS
<1>2. \A i \in 1..n : posts[i].kind = k /\ (\A j \in 1..n : j > i => posts[j].kind # k)
                          => posts[i].value = owned[k]
    BY DEF Newest
<1>3. (\A i \in 1..n : posts[i].kind # k) => \A l \in LabelsOf(k) : labels[l] = owned[k]
    BY DEF Newest, NoPost
<1> HIDE DEF n
<1>4. \A i \in 1..(n + 1) : i \in 1..n \/ i = n + 1
    BY <1>1
<1>5. \A i \in 1..n : i \in 1..(n + 1)
    BY <1>1
<1>6. \A i \in 1..Len(posts') :
          posts'[i].kind = k /\ (\A j \in 1..Len(posts') : j > i => posts'[j].kind # k)
              => posts'[i].value = owned'[k]
    BY <1>1, <1>2, <1>4, <1>5
<1>7. NoPost(k)' => \A l \in LabelsOf(k) : labels'[l] = owned'[k]
    BY <1>1, <1>3, <1>5 DEF NoPost
<1>8. LabelsOf(k)' = LabelsOf(k)
    BY DEF LabelsOf
<1> QED BY <1>6, <1>7, <1>8 DEF Newest

\* The value that is taken is shown, and what is left in the queue is still the newest.
LEMMA NewestTaken ==
    ASSUME NEW k \in Kind, posts \in Seq(Post), posts # <<>>, posts' = Tail(posts), labels \in Shown,
           labels' = Slot(labels, posts[1]), owned' = owned, owned \in [Kind -> 0..MaxBalance], Newest(k)
    PROVE  Newest(k)'
<1> DEFINE n == Len(posts)
<1>1. /\ n \in Nat /\ n >= 1 /\ Len(posts') = n - 1 /\ posts[1] \in Post
      /\ \A i \in 1..(n - 1) : posts'[i] = posts[i + 1]
    OBVIOUS
<1>2. \A i \in 1..n : posts[i].kind = k /\ (\A j \in 1..n : j > i => posts[j].kind # k)
                          => posts[i].value = owned[k]
    BY DEF Newest
<1>3. (\A i \in 1..n : posts[i].kind # k) => \A l \in LabelsOf(k) : labels[l] = owned[k]
    BY DEF Newest, NoPost
<1> HIDE DEF n
<1>4. \A j \in 1..n : j > 1 => j - 1 \in 1..(n - 1) /\ (j - 1) + 1 = j
    BY <1>1
<1>5. \A i \in 1..Len(posts') :
          posts'[i].kind = k /\ (\A j \in 1..Len(posts') : j > i => posts'[j].kind # k)
              => posts'[i].value = owned'[k]
    <2> SUFFICES ASSUME NEW i \in 1..(n - 1), posts'[i].kind = k,
                        \A j \in 1..(n - 1) : j > i => posts'[j].kind # k
                 PROVE  posts'[i].value = owned[k]
        BY <1>1
    <2>1. i + 1 \in 1..n /\ posts'[i] = posts[i + 1]
        BY <1>1
    <2>2. ASSUME NEW j \in 1..n, j > i + 1 PROVE posts[j].kind # k
        <3>1. j > 1 /\ j - 1 > i /\ j - 1 \in 1..(n - 1) /\ (j - 1) + 1 = j
            BY <1>1, <2>2
        <3>2. posts'[j - 1] = posts[j]
            BY <1>1, <3>1
        <3> QED BY <3>1, <3>2
    <2> QED BY <1>2, <2>1, <2>2
<1>6. LabelsOf(k)' = LabelsOf(k)
    BY DEF LabelsOf
<1>7. ASSUME NoPost(k)', NEW l \in LabelsOf(k) PROVE labels'[l] = owned[k]
    <2>1. \A j \in 1..n : j > 1 => posts[j].kind # k
        <3> SUFFICES ASSUME NEW j \in 1..n, j > 1 PROVE posts[j].kind # k
            OBVIOUS
        <3>1. j - 1 \in 1..(n - 1) /\ posts'[j - 1] = posts[j]
            BY <1>1, <1>4
        <3> QED BY <1>1, <1>7, <3>1 DEF NoPost
    <2>2. CASE posts[1].kind = k
        <3>1. posts[1].value = owned[k]
            BY <1>1, <1>2, <2>1, <2>2
        <3>2. labels'[l] = posts[1].value
            BY <1>1, <1>7, <2>2, SlotIs
        <3> QED BY <3>1, <3>2
    <2>3. CASE posts[1].kind # k
        <3>1. \A i \in 1..n : i = 1 \/ i > 1
            BY <1>1
        <3>2. labels[l] = owned[k]
            BY <1>3, <1>7, <2>1, <2>3, <3>1
        <3>3. labels'[l] = labels[l]
            BY <1>1, <1>7, <2>3, SlotIs
        <3> QED BY <3>2, <3>3
    <2> QED BY <2>2, <2>3
<1> QED BY <1>5, <1>6, <1>7 DEF Newest

\* A balance that does not change stays the newest.
LEMMA NewestStays ==
    ASSUME NEW k \in Kind, posts' = posts, labels' = labels, owned'[k] = owned[k], Newest(k)
    PROVE  Newest(k)'
BY DEF Newest, NoPost, LabelsOf

\* The types of the variables that most steps read.
LEMMA BalancesTyped0 ==
    ASSUME BalancesTypeOK
    PROVE  /\ posts \in Seq(Post) /\ labels \in Shown /\ owned \in [Kind -> 0..MaxBalance]
           /\ told \in 0..4 /\ untold \subseteq Kind /\ overtaken \subseteq Kind
BY DEF BalancesTypeOK, Post, Shown

\* No wallet is open, and all labels show zero.
LEMMA BalancesStart == BalancesInit => BalancesInv
<1> SUFFICES ASSUME BalancesInit PROVE BalancesInv
    OBVIOUS
<1> USE DEF BalancesInit
<1>1. posts \in Seq(Post) /\ Len(posts) = 0
    OBVIOUS
<1>2. owned \in [Kind -> 0..MaxBalance] /\ labels \in Shown
    BY BalanceBound DEF Zero, Shown
<1>3. BalancesTypeOK
    <2>1. told \in 0..4
        OBVIOUS
    <2> QED BY <1>1, <1>2, <2>1 DEF BalancesTypeOK, Post, Shown
<1>4. BalancesOrder
    BY <1>1 DEF BalancesOrder, Labels
<1>5. BalancesNewest /\ BalancesTotal
    BY DEF BalancesNewest, BalancesTotal
<1> QED BY <1>3, <1>4, <1>5 DEF BalancesInv

\* The wallet's file is read: "loaded" is the first that is posted.
LEMMA LoadsKept ==
    ASSUME BalancesInv, NEW balances \in [Kind -> 0..MaxBalance], LibraryLoads(balances)
    PROVE  BalancesInv'
<1>1. BalancesTypeOK /\ BalancesOrder
    BY DEF BalancesInv
<1>2. /\ stage = "loading" /\ stage' = "loaded" /\ owned' = balances
      /\ posts' = Append(posts, [kind |-> "loaded", value |-> 0])
      /\ UNCHANGED <<untold, told, reading, labels, overtaken>>
    BY DEF LibraryLoads
<1>3. [kind |-> "loaded", value |-> 0] \in Post
    BY BalanceBound DEF Post
<1>4. posts = <<>>
    BY <1>1, <1>2 DEF BalancesOrder
<1>5. posts' \in Seq(Post) /\ Len(posts') = 1 /\ posts'[1].kind = "loaded" /\ posts' # <<>>
    BY <1>2, <1>3, <1>4
<1>6. BalancesTypeOK'
    BY <1>1, <1>2, <1>5 DEF BalancesTypeOK, Post
<1>7. BalancesOrder'
    <2>1. \A i \in 1..Len(posts') : i = 1
        BY <1>5
    <2> QED BY <1>1, <1>2, <1>5, <2>1 DEF BalancesOrder
<1>8. BalancesNewest' /\ BalancesTotal'
    BY <1>2 DEF BalancesNewest, BalancesTotal
<1> QED BY <1>6, <1>7, <1>8 DEF BalancesInv

\* A wallet begins to open, or cannot be read.
LEMMA OpensKept == ASSUME BalancesInv, LibraryFails \/ OpensWallet PROVE BalancesInv'
<1>1. BalancesTypeOK /\ BalancesOrder
    BY DEF BalancesInv
<1>2. /\ stage \in {"none", "loading"} /\ stage' \in {"none", "loading"}
      /\ UNCHANGED <<owned, untold, posts, told, reading, labels, overtaken>>
    BY DEF LibraryFails, OpensWallet
<1>3. BalancesTypeOK'
    BY <1>1, <1>2 DEF BalancesTypeOK
<1>4. BalancesOrder'
    BY <1>1, <1>2 DEF BalancesOrder
<1>5. BalancesNewest' /\ BalancesTotal'
    BY <1>2 DEF BalancesNewest, BalancesTotal
<1> QED BY <1>3, <1>4, <1>5 DEF BalancesInv

\* A balance that the library changes is not settled until it has been told.
LEMMA ChangesKept ==
    ASSUME BalancesInv, NEW kind \in Kind, NEW value \in 0..MaxBalance, LibraryChanges(kind, value)
    PROVE  BalancesInv'
<1>1. BalancesTypeOK /\ BalancesOrder /\ BalancesNewest /\ BalancesTotal
    BY DEF BalancesInv
<1>2. /\ stage \in {"loaded", "ready"} /\ owned' = [owned EXCEPT ![kind] = value]
      /\ untold' = untold \cup {kind}
      /\ UNCHANGED <<stage, posts, told, reading, labels, overtaken>>
    BY DEF LibraryChanges
<1>3. owned' \in [Kind -> 0..MaxBalance] /\ \A k \in Kind : k # kind => owned'[k] = owned[k]
    BY <1>1, <1>2, BalancesTyped0
<1>4. BalancesTypeOK'
    BY <1>1, <1>2, <1>3 DEF BalancesTypeOK
<1>5. BalancesOrder'
    BY <1>1, <1>2 DEF BalancesOrder
<1>6. \A k \in Kind : Settled(k)' => Settled(k) /\ owned'[k] = owned[k]
    BY <1>2, <1>3 DEF Settled
<1>7. BalancesNewest'
    <2> SUFFICES ASSUME stage = "ready", NEW n \in 1..told, Settled(Kinds[n])' PROVE Newest(Kinds[n])'
        BY <1>2 DEF BalancesNewest
    <2>1. n \in 1..4
        BY <1>1, BalancesTyped0
    <2>2. Kinds[n] \in Kind
        BY <2>1, KindNumbers
    <2>3. Settled(Kinds[n]) /\ owned'[Kinds[n]] = owned[Kinds[n]]
        BY <1>6, <2>2
    <2>4. Newest(Kinds[n])
        BY <1>1, <2>3 DEF BalancesNewest
    <2> QED BY <1>2, <2>2, <2>3, <2>4, NewestStays
<1>8. BalancesTotal'
    <2>1. "actualDeposit" \in Kind /\ "pendingDeposit" \in Kind
        BY KindsAre
    <2>2. \A k : NoPost(k)' = NoPost(k)
        BY <1>2 DEF NoPost
    <2> QED BY <1>1, <1>2, <1>6, <2>1, <2>2 DEF BalancesTotal, Idle
<1> QED BY <1>4, <1>5, <1>7, <1>8 DEF BalancesInv

\* Order and types with one more value posted.
LEMMA OneMorePosted ==
    ASSUME BalancesTypeOK, BalancesOrder, NEW k \in Kind, NEW v \in 0..MaxBalance, stage \in {"loaded", "ready"},
           posts' = Append(posts, [kind |-> k, value |-> v]), stage' = stage
    PROVE  /\ posts' \in Seq(Post) /\ Len(posts') = Len(posts) + 1
           /\ stage' = "loaded" => posts' # <<>> /\ posts'[1].kind = "loaded"
           /\ \A i \in 1..Len(posts') : posts'[i].kind = "loaded" => stage' = "loaded" /\ i = 1
           /\ \A other : NoPost(other)' => NoPost(other) /\ other # k
<1> DEFINE p == [kind |-> k, value |-> v]
           n == Len(posts)
<1>1. p \in Post /\ p.kind = k /\ k # "loaded"
    BY KindsAre DEF Post
<1> HIDE DEF p
<1>2. posts \in Seq(Post) /\ posts' = Append(posts, p)
    BY BalancesTyped0 DEF p
<1>3. n \in Nat /\ posts' \in Seq(Post) /\ Len(posts') = n + 1 /\ posts'[n + 1] = p
      /\ \A i \in 1..n : posts'[i] = posts[i]
    BY <1>1, <1>2
<1>4. posts # <<>> => n >= 1
    BY <1>2
<1>5. posts' # <<>>
    BY <1>2
<1> HIDE DEF n
<1>6. stage' = "loaded" => posts' # <<>> /\ posts'[1].kind = "loaded"
    <2> SUFFICES ASSUME stage = "loaded" PROVE posts'[1].kind = "loaded"
        BY <1>5
    <2>1. posts # <<>> /\ posts[1].kind = "loaded"
        BY DEF BalancesOrder
    <2>2. 1 \in 1..n
        BY <1>3, <1>4, <2>1
    <2> QED BY <1>3, <2>1, <2>2
<1>7. \A i \in 1..(n + 1) : i \in 1..n \/ i = n + 1
    BY <1>3
<1>8. \A i \in 1..n : posts[i].kind = "loaded" => stage = "loaded" /\ i = 1
    BY DEF BalancesOrder, n
<1>9. \A i \in 1..Len(posts') : posts'[i].kind = "loaded" => stage' = "loaded" /\ i = 1
    BY <1>1, <1>3, <1>7, <1>8
<1>10. \A other : NoPost(other)' => NoPost(other) /\ other # k
    <2> SUFFICES ASSUME NEW other, NoPost(other)' PROVE NoPost(other) /\ other # k
        OBVIOUS
    <2>1. \A i \in 1..(n + 1) : posts'[i].kind # other
        BY <1>3 DEF NoPost
    <2>2. n + 1 \in 1..(n + 1) /\ \A i \in 1..n : i \in 1..(n + 1)
        BY <1>3
    <2>3. other # k
        BY <1>1, <1>3, <2>1, <2>2
    <2>4. \A i \in 1..n : posts[i].kind # other
        BY <1>3, <2>1, <2>2
    <2> QED BY <2>3, <2>4 DEF NoPost, n
<1> QED BY <1>3, <1>6, <1>9, <1>10 DEF n

\* A value that the library tells is the one the wallet has.
LEMMA LibraryTellsKept ==
    ASSUME BalancesInv, NEW kind \in Kind, LibraryTells(kind)
    PROVE  BalancesInv'
<1>1. BalancesTypeOK /\ BalancesOrder /\ BalancesNewest /\ BalancesTotal
    BY DEF BalancesInv
<1>2. /\ kind \in untold /\ untold' = untold \ {kind}
      /\ posts' = Append(posts, [kind |-> kind, value |-> owned[kind]])
      /\ overtaken' = overtaken \ {kind}
      /\ UNCHANGED <<stage, owned, told, reading, labels>>
    BY DEF LibraryTells
<1>3. owned[kind] \in 0..MaxBalance /\ posts \in Seq(Post)
    BY <1>1, BalancesTyped0
<1>4. stage \in {"loaded", "ready"}
    BY <1>1, <1>2 DEF BalancesOrder, BalancesTypeOK
<1>5. /\ posts' \in Seq(Post)
      /\ stage' = "loaded" => posts' # <<>> /\ posts'[1].kind = "loaded"
      /\ \A i \in 1..Len(posts') : posts'[i].kind = "loaded" => stage' = "loaded" /\ i = 1
      /\ \A other : NoPost(other)' => NoPost(other) /\ other # kind
    BY <1>1, <1>2, <1>3, <1>4, OneMorePosted
<1>6. BalancesTypeOK'
    BY <1>1, <1>2, <1>5 DEF BalancesTypeOK, Post
<1>7. BalancesOrder'
    BY <1>1, <1>2, <1>4, <1>5 DEF BalancesOrder
<1>8. BalancesNewest'
    <2> SUFFICES ASSUME stage = "ready", NEW n \in 1..told, Settled(Kinds[n])' PROVE Newest(Kinds[n])'
        BY <1>2 DEF BalancesNewest
    <2>1. n \in 1..4
        BY <1>1, BalancesTyped0
    <2>2. Kinds[n] \in Kind
        BY <2>1, KindNumbers
    <2>3. CASE Kinds[n] = kind
        BY <1>2, <1>3, <2>2, <2>3, NewestPosted
    <2>4. CASE Kinds[n] # kind
        <3>1. Settled(Kinds[n])
            BY <1>2, <2>4 DEF Settled
        <3>2. Newest(Kinds[n])
            BY <1>1, <3>1 DEF BalancesNewest
        <3> DEFINE p == [kind |-> kind, value |-> owned[kind]]
        <3>3. p.kind # Kinds[n]
            BY <2>4
        <3>4. posts' = Append(posts, p)
            BY <1>2
        <3> HIDE DEF p
        <3> QED BY <1>2, <1>3, <2>2, <3>2, <3>3, <3>4, NewestOther
    <2> QED BY <2>3, <2>4
<1>9. BalancesTotal'
    <2> SUFFICES ASSUME stage = "ready", Idle, Settled("actualDeposit")', Settled("pendingDeposit")',
                        NoPost("actualDeposit")', NoPost("pendingDeposit")'
                 PROVE  labels["total"] = owned["actualDeposit"] + owned["pendingDeposit"]
        BY <1>2 DEF BalancesTotal, Idle
    <2>1. NoPost("actualDeposit") /\ NoPost("pendingDeposit")
          /\ kind # "actualDeposit" /\ kind # "pendingDeposit"
        BY <1>5
    <2>2. Settled("actualDeposit") /\ Settled("pendingDeposit")
        BY <1>2, <2>1 DEF Settled
    <2> QED BY <1>1, <2>1, <2>2 DEF BalancesTotal
<1> QED BY <1>6, <1>7, <1>8, <1>9 DEF BalancesInv

\* onWalletInitCompleted() reads a balance.
LEMMA ReadsKept == ASSUME BalancesInv, ReadsBalance PROVE BalancesInv'
<1>1. BalancesTypeOK /\ BalancesOrder /\ BalancesNewest /\ BalancesTotal
    BY DEF BalancesInv
<1>2. /\ told < 4 /\ reading' = {owned[Kinds[told + 1]]}
      /\ UNCHANGED <<stage, owned, untold, posts, told, labels, overtaken>>
    BY DEF ReadsBalance
<1>3. told + 1 \in 1..4 /\ told # 4
    BY <1>1, <1>2, BalancesTyped0
<1>4. owned[Kinds[told + 1]] \in 0..MaxBalance
    BY <1>1, <1>3, KindNumbers, BalancesTyped0
<1>5. BalancesTypeOK'
    BY <1>1, <1>2, <1>4 DEF BalancesTypeOK
<1>6. BalancesOrder'
    BY <1>1, <1>2, <1>3 DEF BalancesOrder
<1>7. BalancesNewest' /\ BalancesTotal'
    BY <1>1, <1>2 DEF BalancesNewest, BalancesTotal, Newest, NoPost, Settled, Idle, LabelsOf
<1> QED BY <1>5, <1>6, <1>7 DEF BalancesInv

\* onWalletInitCompleted() tells what it has read: a value that is not the wallet's any more will be
\* told by the library, or has been overtaken.
LEMMA TellsKept == ASSUME BalancesInv, TellsBalance PROVE BalancesInv'
<1>1. BalancesTypeOK /\ BalancesOrder /\ BalancesNewest /\ BalancesTotal
    BY DEF BalancesInv
<1>0. PICK kind : kind = Kinds[told + 1]
    OBVIOUS
<1>2. PICK value \in reading :
          /\ posts' = Append(posts, [kind |-> kind, value |-> value])
          /\ overtaken' = IF value # owned[kind] /\ kind \notin untold THEN overtaken \cup {kind}
                          ELSE overtaken
    BY <1>0, Zenon DEF TellsBalance
<1>3. told' = told + 1 /\ reading' = NothingRead /\ UNCHANGED <<stage, owned, untold, labels>>
    BY DEF TellsBalance
<1>4. reading # NothingRead
    BY <1>2 DEF NothingRead
<1>5. stage = "ready" /\ told # 4
    BY <1>1, <1>4 DEF BalancesOrder
<1>6. told \in 0..3 /\ told + 1 \in 1..4
    BY <1>1, <1>5, BalancesTyped0
<1>7. kind \in Kind
    BY <1>0, <1>6, KindNumbers
<1>8. value \in 0..MaxBalance
    <2>1. reading \in {NothingRead} \cup {{v} : v \in 0..MaxBalance}
        BY <1>1 DEF BalancesTypeOK
    <2>2. PICK v \in 0..MaxBalance : reading = {v}
        BY <1>4, <2>1
    <2> QED BY <1>2, <2>2
<1>9. /\ posts' \in Seq(Post)
      /\ stage' = "loaded" => posts' # <<>> /\ posts'[1].kind = "loaded"
      /\ \A i \in 1..Len(posts') : posts'[i].kind = "loaded" => stage' = "loaded" /\ i = 1
      /\ \A other : NoPost(other)' => NoPost(other) /\ other # kind
    BY <1>1, <1>2, <1>3, <1>5, <1>7, <1>8, OneMorePosted
<1>10. BalancesTypeOK'
    <2>1. told' \in 0..4 /\ overtaken' \subseteq Kind
        BY <1>2, <1>3, <1>6, <1>7, <1>1, BalancesTyped0
    <2> QED BY <1>1, <1>3, <1>9, <2>1 DEF BalancesTypeOK, Post
<1>11. BalancesOrder'
    BY <1>3, <1>5, <1>9 DEF BalancesOrder
<1>12. posts \in Seq(Post)
    BY <1>1, BalancesTyped0
<1>13. BalancesNewest'
    <2> SUFFICES ASSUME NEW n \in 1..told', Settled(Kinds[n])' PROVE Newest(Kinds[n])'
        BY DEF BalancesNewest
    <2>1. n \in 1..4 /\ (n \in 1..told \/ n = told + 1)
        BY <1>3, <1>6
    <2>2. Kinds[n] \in Kind
        BY <2>1, KindNumbers
    <2>3. CASE n = told + 1
        <3>1. Kinds[n] = kind
            BY <1>0, <2>3
        <3>2. value = owned[kind]
            BY <1>2, <1>3, <3>1 DEF Settled
        <3>3. value = owned'[kind]
            BY <1>3, <3>2
        <3>4. Newest(kind)'
            BY <1>2, <1>7, <1>12, <3>3, NewestPosted
        <3> QED BY <3>1, <3>4
    <2>4. CASE n \in 1..told
        <3>1. n # told + 1
            BY <1>6, <2>4
        <3>2. Kinds[n] # kind
            BY <1>0, <1>6, <2>1, <3>1, KindNumbers
        <3>3. Settled(Kinds[n])
            BY <1>2, <1>3 DEF Settled
        <3>4. Newest(Kinds[n])
            BY <1>1, <1>5, <2>4, <3>3 DEF BalancesNewest
        <3> DEFINE p == [kind |-> kind, value |-> value]
        <3>5. p.kind # Kinds[n] /\ posts' = Append(posts, p)
            BY <1>2, <3>2
        <3> HIDE DEF p
        <3> QED BY <1>3, <1>12, <2>2, <3>4, <3>5, NewestOther
    <2> QED BY <2>1, <2>3, <2>4
<1>14. BalancesTotal'
    <2> SUFFICES ASSUME told' = 4, NoPost("actualDeposit")', NoPost("pendingDeposit")' PROVE FALSE
        BY DEF BalancesTotal, Idle
    <2>1. told = 3
        BY <1>3, <1>6
    <2>2. kind = "pendingDeposit"
        BY <1>0, <2>1, KindsAre
    <2> QED BY <1>9, <2>2
<1> QED BY <1>10, <1>11, <1>13, <1>14 DEF BalancesInv

\* The GUI thread takes a value, or hears that the wallet is loaded.
LEMMA TakesKept == ASSUME BalancesInv, TakesPost PROVE BalancesInv'
<1>1. BalancesTypeOK /\ BalancesOrder /\ BalancesNewest /\ BalancesTotal
    BY DEF BalancesInv
<1>2. /\ told = 4 /\ posts # <<>> /\ posts' = Tail(posts) /\ labels' = Slot(labels, posts[1])
      /\ IF posts[1].kind = "loaded" THEN told' = 0 /\ stage' = "ready" ELSE told' = told /\ stage' = stage
      /\ UNCHANGED <<owned, untold, reading, overtaken>>
    BY DEF TakesPost, Idle
<1>3. posts \in Seq(Post) /\ labels \in Shown /\ owned \in [Kind -> 0..MaxBalance]
    BY <1>1, BalancesTyped0
<1> DEFINE n == Len(posts)
<1>4. /\ n \in Nat /\ n >= 1 /\ posts[1] \in Post /\ posts' \in Seq(Post) /\ Len(posts') = n - 1
      /\ \A i \in 1..(n - 1) : posts'[i] = posts[i + 1]
    BY <1>2, <1>3
<1> HIDE DEF n
<1>5. labels' \in Shown
    BY <1>2, <1>3, <1>4, SlotIs
<1>6. stage \in {"loaded", "ready"}
    BY <1>1, <1>2 DEF BalancesOrder, BalancesTypeOK
<1>7. stage' = "ready"
    BY <1>1, <1>2, <1>6 DEF BalancesOrder
<1>8. reading = NothingRead
    BY <1>1, <1>2 DEF BalancesOrder
<1>9. BalancesTypeOK'
    <2>1. told' \in 0..4
        BY <1>2
    <2> QED BY <1>1, <1>2, <1>4, <1>5, <1>7, <2>1 DEF BalancesTypeOK, Post, Shown
<1>10. BalancesOrder'
    <2>1. ASSUME NEW i \in 1..Len(posts') PROVE posts'[i].kind # "loaded"
        <3>1. i + 1 \in 1..n /\ i + 1 # 1 /\ posts'[i] = posts[i + 1]
            BY <1>4
        <3> QED BY <1>1, <3>1 DEF BalancesOrder, n
    <2> QED BY <1>2, <1>7, <1>8, <2>1 DEF BalancesOrder
<1>11. CASE posts[1].kind = "loaded"
    <2>1. told' = 0
        BY <1>2, <1>11
    <2>2. BalancesNewest'
        BY <2>1 DEF BalancesNewest
    <2>3. BalancesTotal'
        BY <2>1 DEF BalancesTotal, Idle
    <2> QED BY <1>9, <1>10, <2>2, <2>3 DEF BalancesInv
<1>12. CASE posts[1].kind # "loaded"
    <2>1. told' = told /\ stage = "ready"
        BY <1>2, <1>7, <1>12
    <2>2. \A k : Settled(k)' = Settled(k)
        BY <1>2 DEF Settled
    <2>3. \A k \in Kind : Settled(k) => Newest(k)
        <3> SUFFICES ASSUME NEW k \in Kind, Settled(k) PROVE Newest(k)
            OBVIOUS
        <3>1. PICK m \in 1..4 : k = Kinds[m]
            BY KindNumbers
        <3>2. m \in 1..told
            BY <1>2
        <3> QED BY <1>1, <2>1, <3>1, <3>2 DEF BalancesNewest
    <2>4. \A k \in Kind : Settled(k) => Newest(k)'
        BY <1>2, <1>3, <2>3, NewestTaken
    <2>5. BalancesNewest'
        <3> SUFFICES ASSUME NEW m \in 1..told', Settled(Kinds[m])' PROVE Newest(Kinds[m])'
            BY DEF BalancesNewest
        <3>1. m \in 1..4
            BY <1>2, <2>1
        <3>2. Kinds[m] \in Kind
            BY <3>1, KindNumbers
        <3> QED BY <2>2, <2>4, <3>2
    <2>6. BalancesTotal'
        <3> DEFINE a == "actualDeposit"
                   b == "pendingDeposit"
        <3> SUFFICES ASSUME Settled(a), Settled(b), NoPost(a)', NoPost(b)'
                     PROVE  labels'["total"] = owned[a] + owned[b]
            BY <1>2, <2>2 DEF BalancesTotal
        <3>1. a \in Kind /\ b \in Kind
            BY KindsAre
        <3>2. owned[a] \in Nat /\ owned[b] \in Nat
            BY <1>3, <3>1, BalanceBound
        <3>3. Balance(a) = owned[a] /\ Balance(b) = owned[b]
            BY <2>1 DEF Balance
        <3>4. 1 \in 1..n /\ \A j \in 1..n : j > 1 => j - 1 \in 1..(n - 1) /\ (j - 1) + 1 = j
            BY <1>4
        <3>5. \A k : NoPost(k)' => \A j \in 1..n : j > 1 => posts[j].kind # k
            <4> SUFFICES ASSUME NEW k, NoPost(k)', NEW j \in 1..n, j > 1 PROVE posts[j].kind # k
                OBVIOUS
            <4>1. j - 1 \in 1..(n - 1) /\ posts'[j - 1] = posts[j]
                BY <1>4, <3>4
            <4> QED BY <1>4, <4>1 DEF NoPost
        <3>6. \A k \in Kind : Settled(k) /\ NoPost(k)' /\ posts[1].kind = k => posts[1].value = owned[k]
            BY <2>3, <3>4, <3>5 DEF Newest, n
        <3>7. CASE posts[1].kind = a
            <4>1. posts[1].value = owned[a]
                BY <3>1, <3>6, <3>7
            <4>2. labels'["total"] = posts[1].value + Balance(b)
                BY <1>2, <1>3, <1>4, <3>7, SlotIs
            <4> QED BY <3>3, <4>1, <4>2
        <3>8. CASE posts[1].kind = b
            <4>1. posts[1].value = owned[b]
                BY <3>1, <3>6, <3>8
            <4>2. labels'["total"] = posts[1].value + Balance(a)
                BY <1>2, <1>3, <1>4, <3>8, SlotIs
            <4>3. labels'["total"] = owned[b] + owned[a]
                BY <3>3, <4>1, <4>2
            <4> HIDE DEF a, b
            <4> QED BY <3>2, <4>3
        <3>9. CASE posts[1].kind \notin {a, b}
            <4>1. labels'["total"] = labels["total"]
                BY <1>2, <1>3, <1>4, <3>9, SlotIs
            <4>2. \A j \in 1..n : j = 1 \/ j > 1
                BY <1>4
            <4>3. NoPost(a) /\ NoPost(b)
                BY <3>5, <3>9, <4>2 DEF NoPost, n
            <4> QED BY <1>1, <1>2, <2>1, <4>1, <4>3 DEF BalancesTotal, Idle
        <3> QED BY <3>7, <3>8, <3>9
    <2> QED BY <1>9, <1>10, <2>5, <2>6 DEF BalancesInv
<1> QED BY <1>11, <1>12

\* What was posted for the wallet is taken before it goes, and its labels are set to 0.
LEMMA ClosesKept == ASSUME BalancesInv, ClosesWallet PROVE BalancesInv'
<1>1. BalancesTypeOK /\ BalancesOrder
    BY DEF BalancesInv
<1> DEFINE l == AllSlots(labels, posts)
           V == 0..(2 * MaxBalance)
<1>2. /\ told = 4 /\ stage' = "none" /\ posts' = <<>> /\ untold' = {} /\ overtaken' = {} /\ owned' = Zero
      /\ labels' = resetDepositsFrame(resetOverview(l)) /\ UNCHANGED <<told, reading>>
    BY DEF ClosesWallet, Idle
<1>3. l \in [Labels -> V]
    <2>1. AllSlots(labels, posts) \in Shown
        BY <1>1, AllSlotsTyped, BalancesTyped0
    <2> QED BY <2>1 DEF Shown
<1>4. 0 \in V /\ 0 + Balance("actualDeposit") \in V /\ 0 + Balance("pendingDeposit") \in V
    <2>1. Balance("actualDeposit") \in 0..MaxBalance /\ Balance("pendingDeposit") \in 0..MaxBalance
        BY <1>1, KindsAre, BalanceBound, BalancesTyped0 DEF Balance
    <2> QED BY <2>1, BalanceBound
<1> DEFINE x == 0 + Balance("pendingDeposit")
           y == 0 + Balance("actualDeposit")
           l1 == [l EXCEPT !["actual"] = 0]
           l2 == [l1 EXCEPT !["pending"] = 0]
           l3 == [l2 EXCEPT !["unlocked"] = 0, !["total"] = x]
           l4 == [l3 EXCEPT !["locked"] = 0, !["total"] = y]
<1>5. labels' = l4
    BY <1>2 DEF resetDepositsFrame, resetOverview, actualBalanceUpdated, pendingBalanceUpdated,
                actualDepositBalanceUpdated, pendingDepositBalanceUpdated
<1>6. x \in V /\ y \in V
    BY <1>4
<1> HIDE DEF l, V, x, y
<1>7. l2 \in [Labels -> V] /\ l2["actual"] = 0 /\ l2["pending"] = 0
    BY <1>3, <1>4 DEF Labels
<1> HIDE DEF l2
<1>8. l3 \in [Labels -> V] /\ l3["actual"] = 0 /\ l3["pending"] = 0 /\ l3["unlocked"] = 0
    BY <1>4, <1>6, <1>7 DEF Labels
<1> HIDE DEF l3
<1>9. l4 \in [Labels -> V] /\ \A z \in {"actual", "pending", "unlocked", "locked"} : l4[z] = 0
    BY <1>4, <1>6, <1>8 DEF Labels
<1> HIDE DEF l4
<1>10. posts' \in Seq(Post) /\ Len(posts') = 0
    BY <1>2
<1>11. Zero \in [Kind -> 0..MaxBalance]
    BY BalanceBound DEF Zero
<1>12. BalancesTypeOK'
    <2>1. labels' \in Shown
        BY <1>5, <1>9 DEF Shown, V
    <2> QED BY <1>1, <1>2, <1>10, <1>11, <2>1 DEF BalancesTypeOK, Post, Shown
<1>13. BalancesOrder'
    BY <1>1, <1>2, <1>5, <1>9, <1>10 DEF BalancesOrder
<1>14. BalancesNewest' /\ BalancesTotal'
    BY <1>2 DEF BalancesNewest, BalancesTotal
<1> QED BY <1>12, <1>13, <1>14 DEF BalancesInv

\* A step that changes nothing keeps the invariant.
LEMMA BalancesStutter == ASSUME BalancesInv, UNCHANGED balancesVars PROVE BalancesInv'
BY DEF balancesVars, BalancesInv, BalancesTypeOK, BalancesOrder, BalancesNewest, BalancesTotal, Newest,
       NoPost, Settled, Idle, LabelsOf

\* The invariant of the balances holds of every state.
LEMMA BalancesInvariant == BalancesSpec => []BalancesInv
<1>1. ASSUME BalancesInv, [BalancesNext]_balancesVars PROVE BalancesInv'
    <2>1. CASE LibraryFails \/ OpensWallet
        BY <1>1, <2>1, OpensKept
    <2>2. CASE TakesPost
        BY <1>1, <2>2, TakesKept
    <2>3. CASE ReadsBalance
        BY <1>1, <2>3, ReadsKept
    <2>4. CASE TellsBalance
        BY <1>1, <2>4, TellsKept
    <2>5. CASE ClosesWallet
        BY <1>1, <2>5, ClosesKept
    <2>6. ASSUME NEW balances \in [Kind -> 0..MaxBalance], LibraryLoads(balances) PROVE BalancesInv'
        BY <1>1, <2>6, LoadsKept
    <2>7. ASSUME NEW kind \in Kind, NEW value \in 0..MaxBalance, LibraryChanges(kind, value) PROVE BalancesInv'
        BY <1>1, <2>7, ChangesKept
    <2>8. ASSUME NEW kind \in Kind, LibraryTells(kind) PROVE BalancesInv'
        BY <1>1, <2>8, LibraryTellsKept
    <2>9. CASE UNCHANGED balancesVars
        BY <1>1, <2>9, BalancesStutter
    <2> QED BY <1>1, <2>1, <2>2, <2>3, <2>4, <2>5, <2>6, <2>7, <2>8, <2>9 DEF BalancesNext
<1> QED BY <1>1, BalancesStart, PTL DEF BalancesSpec

\* When nothing is on its way any more the labels show the balances of the wallet that is open, and the
\* total of its deposits, for any balances and any length of the queue, however the library's thread and
\* the reads of onWalletInitCompleted() interleave.
THEOREM BalancesAreShown == BalancesSpec => []BalancesShown
<1>1. BalancesInv => BalancesShown
    <2> SUFFICES ASSUME BalancesInv, posts = <<>>, Idle, untold = {} PROVE BalancesShown
        BY DEF BalancesShown
    <2>1. BalancesOrder /\ BalancesNewest /\ BalancesTotal
        BY DEF BalancesInv
    <2>2. Len(posts) = 0
        OBVIOUS
    <2>3. \A k : NoPost(k)
        BY <2>2 DEF NoPost
    <2>4. ASSUME stage = "ready", NEW k \in Kind, k \notin overtaken
          PROVE  \A l \in LabelsOf(k) : labels[l] = owned[k]
        <3>1. PICK n \in 1..4 : k = Kinds[n]
            BY KindNumbers
        <3>2. Settled(k) /\ n \in 1..told
            BY <2>4 DEF Settled, Idle
        <3> QED BY <2>1, <2>3, <2>4, <3>1, <3>2 DEF BalancesNewest, Newest
    <2>5. ASSUME stage = "ready", "actual" \notin overtaken
          PROVE  \A l \in {"actual", "send", "message", "deposit"} : labels[l] = owned["actual"]
        BY <2>4, <2>5, KindsAre DEF LabelsOf
    <2>6. ASSUME stage = "ready", "pending" \notin overtaken PROVE labels["pending"] = owned["pending"]
        BY <2>4, <2>6, KindsAre DEF LabelsOf
    <2>7. ASSUME stage = "ready", {"actualDeposit", "pendingDeposit"} \cap overtaken = {}
          PROVE  /\ labels["unlocked"] = owned["actualDeposit"]
                 /\ labels["locked"] = owned["pendingDeposit"]
                 /\ labels["total"] = owned["actualDeposit"] + owned["pendingDeposit"]
        <3>1. "actualDeposit" \notin overtaken /\ "pendingDeposit" \notin overtaken
            BY <2>7
        <3>2. labels["unlocked"] = owned["actualDeposit"]
            BY <2>4, <2>7, <3>1, KindsAre DEF LabelsOf
        <3>3. labels["locked"] = owned["pendingDeposit"]
            BY <2>4, <2>7, <3>1, KindsAre DEF LabelsOf
        <3>4. labels["total"] = owned["actualDeposit"] + owned["pendingDeposit"]
            BY <2>1, <2>3, <2>7, <3>1 DEF BalancesTotal, Settled
        <3> QED BY <3>2, <3>3, <3>4
    <2>8. stage = "none" => \A l \in {"actual", "pending", "unlocked", "locked"} : labels[l] = 0
        BY <2>1 DEF BalancesOrder
    <2> QED BY <2>5, <2>6, <2>7, <2>8 DEF BalancesShown
<1> QED BY <1>1, BalancesInvariant, PTL
=============================================================================
