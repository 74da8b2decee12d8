------------------------- MODULE DelayQueueProofs -------------------------
(***************************************************************************)
(* What the base-delay half of CellularQueue keeps true, whatever the      *)
(* trace, the size offsets and the times at which packets are read.  The   *)
(* lemmas speak of single steps, so that the loop that uses the queue can  *)
(* cite them.  The theorems are about the queue under a clock and arrivals *)
(* (DelayService): its searches are the loops of the code, and its light   *)
(* opportunities hold the light packets.                                   *)
(***************************************************************************)
EXTENDS DelayService, SequenceTheorems, FiniteSetTheorems, WellFoundedInduction, TLAPS

\* A set of naturals has a least element: the searches of the code stop at the
\* first line, opportunity or packet that qualifies.
LEMMA LeastNatural ==
  ASSUME NEW T, T \subseteq Nat, T # {}
  PROVE  \E x \in T : \A y \in T : x <= y
<1> DEFINE R == OpToRel(<, Nat)
<1>1. IsWellFoundedOn(R, Nat)
  BY NatLessThanWellFounded, Zenon
<1>2. \A x, y \in Nat : <<y, x>> \in R <=> y < x
  BY DEF OpToRel
<1> HIDE DEF R
<1>3. PICK x \in T : \A y \in T : ~ (<<y, x>> \in R)
  BY <1>1, WFMin
<1>4. ASSUME NEW y \in T
      PROVE  x <= y
  <2>1. x \in Nat /\ y \in Nat
    OBVIOUS
  <2>2. ~ (y < x)
    BY <1>2, <1>3, <2>1, Zenon
  <2> QED
    BY <2>1, <2>2
<1> QED
  BY <1>4

\* The first of an interval of naturals that lies in S.
LEMMA FirstInInterval ==
  ASSUME NEW S, NEW from \in Nat, NEW to \in Nat, NEW w \in from..to, w \in S
  PROVE  \E i \in from..to : i \in S /\ \A j \in from..(i - 1) : j \notin S
<1> DEFINE T == {i \in from..to : i \in S}
<1>1. T \subseteq Nat /\ T # {}
  OBVIOUS
<1> HIDE DEF T
<1>2. PICK i \in T : \A j \in T : i <= j
  BY <1>1, LeastNatural
<1>3. i \in from..to /\ i \in S
  BY DEF T
<1>4. ASSUME NEW j \in from..(i - 1)
      PROVE  j \notin S
  <2>1. j \in from..to /\ j < i /\ j \in Int /\ i \in Int
    BY <1>3
  <2>2. j \notin T
    BY <1>2, <2>1
  <2> QED
    BY <2>1, <2>2 DEF T
<1> QED
  BY <1>3, <1>4

\* Integer division and remainder by a positive number.
LEMMA DivisionBounds ==
  ASSUME NEW a \in Int, NEW b \in Nat \ {0}
  PROVE  /\ a \div b \in Int
         /\ (a \div b) * b <= a
         /\ a < (a \div b) * b + b
BY Z3T(30)

\* A remainder is smaller than the divisor.
LEMMA RemainderBounds ==
  ASSUME NEW a \in Int, NEW b \in Nat \ {0}
  PROVE  a % b \in 0..(b - 1)
BY Z3T(30)

\* Quotient and remainder make up the dividend.
LEMMA QuotientAndRemainder ==
  ASSUME NEW a \in Int, NEW b \in Nat \ {0}
  PROVE  a = (a \div b) * b + (a % b)
BY Z3T(30)

\* Dividing a natural gives a natural.
LEMMA QuotientOfNatural ==
  ASSUME NEW a \in Nat, NEW b \in Nat \ {0}
  PROVE  a \div b \in Nat
BY Z3T(30)

\* Products stay in Int, and in Nat.
LEMMA ProductType ==
  ASSUME NEW a \in Int, NEW b \in Int
  PROVE  a * b \in Int /\ (a \in Nat /\ b \in Nat => a * b \in Nat)
BY Z3T(30)

\* A common positive factor can be dropped from an inequality.
LEMMA CancelFactor ==
  ASSUME NEW x \in Int, NEW y \in Int, NEW d \in Nat \ {0}, x * d < y * d
  PROVE  x < y
BY Z3T(30)

\* uint64_t values are naturals, and the conversion changes none that fits.
LEMMA U64Type ==
  ASSUME NEW n \in Int
  PROVE  /\ U64(n) \in Nat
         /\ n \in 0..(WORD - 1) => U64(n) = n
<1>1. WORD \in Nat \ {0}
  BY TraceAssumption
<1>2. n % WORD \in 0..(WORD - 1)
  BY <1>1, RemainderBounds
<1>3. ASSUME n \in 0..(WORD - 1)
      PROVE  n % WORD = n
  BY <1>1, <1>3, Z3T(30)
<1> QED
  BY <1>1, <1>2, <1>3 DEF U64

-----------------------------------------------------------------------------
(* The trace *)

\* What the constructor has checked, in the code's numbering of lines.
LEMMA TraceFacts ==
  /\ NumLines \in Nat /\ NumLines > 2
  /\ \A i \in 0..(NumLines - 1) :
       /\ Line(i).time \in Nat
       /\ Line(i).delay \in Nat
       /\ Line(i).pdo \in Seq(Nat)
       /\ Len(Line(i).pdo) \in Nat \ {0}
  /\ \A i, j \in 0..(NumLines - 1) : i <= j => Line(i).time <= Line(j).time
  /\ TraceLength \in Nat \ {0}
<1> DEFINE R == [time : Nat, delay : Nat, pdo : Seq(Nat)]
<1>1. /\ delay_pdo_traces_ \in Seq(R)
      /\ Len(delay_pdo_traces_) > 2
      /\ \A i, j \in 1..Len(delay_pdo_traces_) :
           i <= j => delay_pdo_traces_[i].time <= delay_pdo_traces_[j].time
      /\ delay_pdo_traces_[Len(delay_pdo_traces_)].time > 0
      /\ \A i \in 1..Len(delay_pdo_traces_) : delay_pdo_traces_[i].pdo # <<>>
  BY TraceAssumption
<1>2. \A r \in R : r.time \in Nat /\ r.delay \in Nat /\ r.pdo \in Seq(Nat)
  OBVIOUS
<1> HIDE DEF R
<1>3. NumLines \in Nat /\ NumLines > 2
  BY <1>1, LenProperties DEF NumLines
<1>4. ASSUME NEW i \in 0..(NumLines - 1)
      PROVE  /\ i + 1 \in 1..Len(delay_pdo_traces_)
             /\ Line(i) = delay_pdo_traces_[i + 1]
             /\ Line(i) \in R
  BY <1>1, <1>3, <1>4, ElementOfSeq DEF NumLines, Line
<1>5. ASSUME NEW i \in 0..(NumLines - 1)
      PROVE  /\ Line(i).time \in Nat
             /\ Line(i).delay \in Nat
             /\ Line(i).pdo \in Seq(Nat)
             /\ Len(Line(i).pdo) \in Nat \ {0}
  <2>1. Line(i).time \in Nat /\ Line(i).delay \in Nat /\ Line(i).pdo \in Seq(Nat)
    BY <1>2, <1>4
  <2>2. Line(i).pdo # <<>>
    BY <1>1, <1>4
  <2> QED
    BY <2>1, <2>2, EmptySeq
<1>6. ASSUME NEW i \in 0..(NumLines - 1), NEW j \in 0..(NumLines - 1), i <= j
      PROVE  Line(i).time <= Line(j).time
  <2>1. i + 1 <= j + 1
    BY <1>6
  <2> QED
    BY <1>1, <1>4, <1>6, <2>1
<1>7. TraceLength \in Nat \ {0}
  <2>1. NumLines - 1 \in 0..(NumLines - 1) /\ (NumLines - 1) + 1 = NumLines
    BY <1>3
  <2>2. TraceLength = delay_pdo_traces_[Len(delay_pdo_traces_)].time
    BY <2>1 DEF TraceLength, Line, NumLines
  <2>3. TraceLength \in Nat
    BY <1>5, <2>1 DEF TraceLength
  <2> QED
    BY <1>1, <2>2, <2>3
<1> QED
  BY <1>3, <1>5, <1>6, <1>7

\* The opportunities of a line, in order.
LEMMA PdoFacts ==
  ASSUME NEW i \in 0..(NumLines - 1)
  PROVE  /\ \A j \in 0..(Len(Line(i).pdo) - 1) : Pdo(i, j) \in Nat
         /\ \A j, k \in 0..(Len(Line(i).pdo) - 1) : j <= k => Pdo(i, j) <= Pdo(i, k)
<1> DEFINE s == Line(i).pdo
<1>1. s \in Seq(Nat) /\ Len(s) \in Nat /\ NumLines \in Nat
  BY TraceFacts
<1>2. i + 1 \in 1..Len(delay_pdo_traces_)
  BY <1>1 DEF NumLines
<1>3. \A j, k \in 1..Len(s) : j <= k => s[j] <= s[k]
  BY <1>2, TraceAssumption DEF Line
<1>4. \A j : Pdo(i, j) = s[j + 1]
  BY DEF Pdo
<1> HIDE DEF s
<1>5. ASSUME NEW j \in 0..(Len(s) - 1) PROVE s[j + 1] \in Nat
  <2>1. j + 1 \in 1..Len(s)
    BY <1>1
  <2> QED
    BY <1>1, <2>1, ElementOfSeq
<1>6. ASSUME NEW j \in 0..(Len(s) - 1), NEW k \in 0..(Len(s) - 1), j <= k
      PROVE  s[j + 1] <= s[k + 1]
  <2>1. j + 1 \in 1..Len(s) /\ k + 1 \in 1..Len(s) /\ j + 1 <= k + 1
    BY <1>1, <1>6
  <2> QED
    BY <1>3, <2>1
<1> QED
  BY <1>4, <1>5, <1>6 DEF s

\* The base after the search: whole laps of the trace ahead of the old one, and
\* less than a lap behind the packet.
LEMMA SearchedBaseBounds ==
  ASSUME NEW time \in Nat, NEW base \in Nat, base <= time
  PROVE  /\ Laps(time, base) \in Nat
         /\ SearchedBase(time, base) \in Nat
         /\ base <= SearchedBase(time, base)
         /\ SearchedBase(time, base) <= time
         /\ time - SearchedBase(time, base) \in Nat
         /\ time - SearchedBase(time, base) < TraceLength
         /\ Laps(time, base) = 0 => SearchedBase(time, base) = base
<1> DEFINE TL == TraceLength
           n  == (time - base) \div TL
<1>1. TL \in Nat \ {0} /\ time - base \in Nat
  BY TraceFacts
<1> HIDE DEF TL
<1>2. n \in Nat /\ n * TL <= time - base /\ time - base < n * TL + TL
  BY <1>1, DivisionBounds, QuotientOfNatural
<1> HIDE DEF n
<1>3. n * TL \in Nat /\ (n = 0 => n * TL = 0)
  BY <1>1, <1>2, ProductType
<1>4. Laps(time, base) = n /\ SearchedBase(time, base) = base + n * TL
  BY DEF n, TL, Laps, SearchedBase
<1>5. TraceLength = TL
  BY DEF TL
<1> HIDE DEF n
<1> QED
  BY <1>1, <1>2, <1>3, <1>4, <1>5

\* The search for a line ends inside the trace, at a line that has not been
\* left behind: its successor lies in the future and it does not itself, unless
\* it is the line the search started from.
LEMMA SearchedLineFound ==
  ASSUME NEW time \in Nat, NEW base \in Nat, base <= time,
         current_delay_pdo_idx_ \in 0..(NumLines - 2)
  PROVE  LET i    == SearchedLine(time, base)
             rel  == time - SearchedBase(time, base)
             from == IF Laps(time, base) = 0 THEN current_delay_pdo_idx_ ELSE 0
         IN  /\ i \in 0..(NumLines - 2)
             /\ rel < Line(i + 1).time
             /\ i = from \/ Line(i).time <= rel
<1> DEFINE rel  == time - SearchedBase(time, base)
           from == IF Laps(time, base) = 0 THEN current_delay_pdo_idx_ ELSE 0
           to   == NumLines - 2
           S    == {i \in 0..to : Line(i + 1).time > rel}
           Stops(i) == /\ Line(i + 1).time > rel
                       /\ \A j \in from..(i - 1) : Line(j + 1).time <= rel
<1>1. rel \in Nat /\ rel < TraceLength
  BY SearchedBaseBounds
<1>2. NumLines \in Nat /\ NumLines > 2 /\ to \in Nat /\ from \in 0..to
  BY TraceFacts
<1>3. Line(to + 1).time = TraceLength
  <2>1. to + 1 = NumLines - 1
    BY <1>2
  <2> QED
    BY <2>1 DEF TraceLength
<1>4. SearchedLine(time, base) = CHOOSE i \in from..to : Stops(i)
  BY DEF SearchedLine
<1>5. \A i \in 0..to : Line(i + 1).time \in Nat
  <2>1. \A i \in 0..to : i + 1 \in 0..(NumLines - 1)
    BY <1>2
  <2> QED
    BY <2>1, TraceFacts
<1> HIDE DEF rel, from, to
<1>6. to \in from..to /\ to \in S /\ from \in Nat
  BY <1>1, <1>2, <1>3
<1>7. \E i \in from..to : Stops(i)
  <2> HIDE DEF S
  <2>1. PICK i \in from..to : i \in S /\ \A j \in from..(i - 1) : j \notin S
    BY <1>2, <1>6, FirstInInterval
  <2>2. Line(i + 1).time > rel
    BY <2>1 DEF S
  <2>3. ASSUME NEW j \in from..(i - 1)
        PROVE  Line(j + 1).time <= rel
    <3>1. j \in 0..to /\ j \notin S
      BY <1>2, <1>6, <2>1
    <3> QED
      BY <1>1, <1>5, <3>1 DEF S
  <2> QED
    BY <2>2, <2>3
<1> DEFINE i == SearchedLine(time, base)
<1>8. i \in from..to /\ Stops(i)
  <2> HIDE DEF Stops
  <2> QED
    BY <1>4, <1>7
<1> HIDE DEF i
<1>9. i \in 0..to /\ rel < Line(i + 1).time
  BY <1>1, <1>2, <1>5, <1>8
<1>10. ASSUME i # from
       PROVE  Line(i).time <= rel
  <2>1. i - 1 \in from..(i - 1) /\ (i - 1) + 1 = i
    BY <1>2, <1>6, <1>8, <1>10
  <2>2. Line((i - 1) + 1).time <= rel
    BY <1>8, <2>1
  <2> QED
    BY <2>1, <2>2
<1> QED
  BY <1>9, <1>10 DEF i, rel, from, to

\* The search for an opportunity ends at one that is not before ts, or at the
\* end of the line.
LEMMA DueOpportunityFound ==
  ASSUME current_delay_pdo_idx_ \in 0..(NumLines - 2),
         current_pdo_idx_ \in Nat, current_pdo_size_ \in Nat,
         current_pdo_size_ <= Len(Line(current_delay_pdo_idx_).pdo),
         NEW ts \in Int
  PROVE  /\ DueOpportunity(ts) \in Nat
         /\ DueOpportunity(ts) >= current_pdo_idx_
         /\ DueOpportunity(ts) < current_pdo_size_ =>
              ts <= Pdo(current_delay_pdo_idx_, DueOpportunity(ts))
<1> DEFINE l == current_delay_pdo_idx_
           a == current_pdo_idx_
           b == current_pdo_size_
           Stops(j) == /\ j < b => ts <= Pdo(l, j)
                       /\ \A k \in a..(j - 1) : ts > Pdo(l, k)
           S == {j \in 0..b : j < b => ts <= Pdo(l, j)}
<1>1. CASE a >= b
  <2>1. DueOpportunity(ts) = a
    BY <1>1 DEF DueOpportunity
  <2> QED
    BY <1>1, <2>1
<1>2. CASE ~ (a >= b)
  <2>1. DueOpportunity(ts) = CHOOSE j \in a..b : Stops(j)
    BY <1>2 DEF DueOpportunity
  <2>2. \A k \in 0..(b - 1) : Pdo(l, k) \in Nat
    <3>1. l \in 0..(NumLines - 1) /\ Len(Line(l).pdo) \in Nat
      BY TraceFacts
    <3>2. \A k \in 0..(b - 1) : k \in 0..(Len(Line(l).pdo) - 1)
      BY <3>1
    <3> QED
      BY <3>1, <3>2, PdoFacts
  <2>3. b \in a..b /\ b \in S
    BY <1>2
  <2>4. \E j \in a..b : Stops(j)
    <3> HIDE DEF S
    <3>1. PICK j \in a..b : j \in S /\ \A k \in a..(j - 1) : k \notin S
      BY <2>3, FirstInInterval
    <3>2. j < b => ts <= Pdo(l, j)
      BY <3>1 DEF S
    <3>3. ASSUME NEW k \in a..(j - 1)
          PROVE  ts > Pdo(l, k)
      <4>1. k \in 0..(b - 1) /\ k \in 0..b /\ k < b /\ k \notin S
        BY <3>1
      <4>2. ~ (ts <= Pdo(l, k))
        BY <4>1 DEF S
      <4> QED
        BY <2>2, <4>1, <4>2
    <3> QED
      BY <3>2, <3>3
  <2> DEFINE j == DueOpportunity(ts)
  <2>5. j \in a..b /\ Stops(j)
    <3> HIDE DEF Stops
    <3> QED
      BY <2>1, <2>4
  <2> HIDE DEF j
  <2>6. j \in Nat /\ j >= a /\ (j < b => ts <= Pdo(l, j))
    BY <1>2, <2>5
  <2> QED
    BY <2>6 DEF j
<1> QED
  BY <1>1, <1>2

\* The numbers from a to b, whichever is larger.
Between(a, b) == IF a <= b THEN a..b ELSE b..a

\* Linear interpolation stays between its two ends, and strictly inside them
\* where the code's float arithmetic may lose one more.
LEMMA Interpolation ==
  ASSUME NEW a \in Nat, NEW b \in Nat, NEW den \in Nat \ {0}, NEW num \in 0..(den - 1),
         NEW sum, sum = a * den + num * (b - a)
  PROVE  /\ sum \in Int
         /\ sum \div den \in Between(a, b)
         /\ a # b /\ num # 0 /\ sum % den = 0 => sum \div den - 1 \in Between(a, b)
<1> DEFINE q == sum \div den
<1>1. b - a \in Int /\ a * den \in Int /\ b * den \in Int /\ num * (b - a) \in Int
  BY ProductType
<1>2. sum \in Int
  BY <1>1
<1>3. q \in Int /\ q * den <= sum /\ sum < q * den + den /\ sum = q * den + (sum % den)
  BY <1>2, DivisionBounds, QuotientAndRemainder
<1>4. q * den + den = (q + 1) * den
  BY <1>3, Z3T(30)
<1>5. q * den \in Int /\ (q + 1) * den \in Int
  BY <1>3, ProductType
<1> HIDE DEF q
<1>6. CASE a <= b
  <2>1. /\ a * den <= sum
        /\ sum < b * den \/ sum = a * den
        /\ a # b /\ num # 0 => a * den < sum
    BY <1>6, Z3T(30)
  <2>2. a < q + 1
    BY <1>1, <1>2, <1>3, <1>4, <1>5, <2>1, CancelFactor
  <2>3. q <= b
    <3>1. CASE sum < b * den
      <4>1. q * den < b * den
        BY <1>1, <1>2, <1>3, <1>5, <3>1
      <4> QED
        BY <1>3, <4>1, CancelFactor
    <3>2. CASE sum = a * den
      <4>1. q * den < (a + 1) * den
        <5>1. (a + 1) * den = a * den + den
          BY Z3T(30)
        <5> QED
          BY <1>1, <1>2, <1>3, <1>5, <3>2, <5>1
      <4>2. q < a + 1
        BY <1>3, <4>1, CancelFactor
      <4> QED
        BY <1>3, <1>6, <4>2
    <3> QED
      BY <2>1, <3>1, <3>2
  <2>4. ASSUME a # b, num # 0, sum % den = 0
        PROVE  a < q
    <3>1. a * den < q * den
      BY <1>1, <1>2, <1>3, <1>5, <2>1, <2>4
    <3> QED
      BY <1>3, <3>1, CancelFactor
  <2> QED
    BY <1>2, <1>3, <1>6, <2>2, <2>3, <2>4 DEF q, Between
<1>7. CASE ~ (a <= b)
  <2>1. b * den < sum /\ sum <= a * den
    BY <1>7, Z3T(30)
  <2>2. b < q + 1
    BY <1>1, <1>2, <1>3, <1>4, <1>5, <2>1, CancelFactor
  <2>3. q < a + 1
    <3>1. (a + 1) * den = a * den + den
      BY Z3T(30)
    <3>2. q * den < (a + 1) * den
      BY <1>1, <1>2, <1>3, <1>5, <2>1, <3>1
    <3> QED
      BY <1>3, <3>2, CancelFactor
  <2>4. ASSUME sum % den = 0
        PROVE  b < q
    <3>1. b * den < q * den
      BY <1>1, <1>2, <1>3, <1>5, <2>1, <2>4
    <3> QED
      BY <1>3, <3>1, CancelFactor
  <2> QED
    BY <1>2, <1>3, <1>7, <2>2, <2>3, <2>4 DEF q, Between
<1> QED
  BY <1>6, <1>7

\* The interpolated delay is an int, and lies between the delays of the two
\* lines once the first of them has been reached.
LEMMA InterpolatedDelayBounds ==
  ASSUME NEW i \in 0..(NumLines - 2), NEW rel \in Nat, rel < Line(i + 1).time,
         NEW d \in InterpolatedDelay(i, rel)
  PROVE  /\ d \in Int
         /\ Line(i).time <= rel => d \in Between(Line(i).delay, Line(i + 1).delay)
<1> DEFINE a   == Line(i).delay
           b   == Line(i + 1).delay
           num == rel - Line(i).time
           den == Line(i + 1).time - Line(i).time
           sum == a * den + num * (b - a)
<1>1. i \in 0..(NumLines - 1) /\ i + 1 \in 0..(NumLines - 1) /\ i <= i + 1
  BY TraceFacts
<1>2. /\ a \in Nat /\ b \in Nat /\ Line(i).time \in Nat /\ Line(i + 1).time \in Nat
      /\ den \in Nat /\ num \in Int
  <2>1. /\ a \in Nat /\ b \in Nat /\ Line(i).time \in Nat /\ Line(i + 1).time \in Nat
        /\ Line(i).time <= Line(i + 1).time
    BY <1>1, TraceFacts
  <2> QED
    BY <2>1
<1>3. d \in IF num >= 0
            THEN {sum \div den} \cup
                   (IF b - a # 0 /\ num # 0 /\ sum % den = 0 THEN {sum \div den - 1} ELSE {})
            ELSE IF b - a = 0 /\ den # 0 THEN {a} ELSE {INT_MIN, INT_MAX}
  BY DEF InterpolatedDelay
<1>4. CASE num >= 0
  <2>1. den \in Nat \ {0} /\ num \in 0..(den - 1)
    BY <1>2, <1>4
  <2>2. d = sum \div den \/ (a # b /\ num # 0 /\ sum % den = 0 /\ d = sum \div den - 1)
    <3> HIDE DEF sum, num, den, a, b
    <3> QED
      BY <1>2, <1>3, <1>4
  <2>3. d \in Between(a, b)
    <3> HIDE DEF num, den, a, b
    <3> QED
      BY <1>2, <2>1, <2>2, Interpolation
  <2>4. Between(a, b) \subseteq Int
    BY <1>2 DEF Between
  <2> QED
    BY <2>3, <2>4
<1>5. CASE ~ (num >= 0)
  <2>1. d \in {a, INT_MIN, INT_MAX}
    <3> HIDE DEF sum, num, den, a, b
    <3> QED
      BY <1>3, <1>5
  <2>2. INT_MIN \in Int /\ INT_MAX \in Int
    BY TraceAssumption DEF INT_MIN
  <2>3. ~ (Line(i).time <= rel)
    BY <1>2, <1>5
  <2> QED
    BY <1>2, <2>1, <2>2, <2>3
<1> QED
  BY <1>4, <1>5

\* The size offset is an int, for every size and every table of offsets.
LEMMA LatencyOffsetType ==
  ASSUME NEW size \in Nat
  PROVE  latency_offset(size) \in Int
<1> DEFINE n      == Len(psize_latency_offset_)
           idx    == (size \div 100) - 1
           off(k) == psize_latency_offset_[k + 1]
           h      == 100 * off(idx) + (size % 100) * (off(idx + 1) - off(idx))
<1>1. psize_latency_offset_ \in Seq(Int) /\ n \in Nat
  BY TraceAssumption, LenProperties
<1>2. \A k \in 0..(n - 1) : off(k) \in Int
  <2>1. \A k \in 0..(n - 1) : k + 1 \in 1..n
    BY <1>1
  <2> QED
    BY <1>1, <2>1, ElementOfSeq
<1>3. idx \in Int /\ size % 100 \in Int
  <2>1. 100 \in Nat \ {0} /\ size \in Int
    OBVIOUS
  <2>2. size \div 100 \in Int /\ size % 100 \in 0..99
    BY <2>1, DivisionBounds, RemainderBounds
  <2> QED
    BY <2>2
<1>4. latency_offset(size) =
        IF n = 0 THEN 0
        ELSE IF idx < 0 THEN off(0)
        ELSE IF idx >= n - 1 THEN off(n - 1)
        ELSE IF h >= 0 THEN (h + 50) \div 100
                       ELSE - ((50 - h) \div 100)
  BY DEF latency_offset
<1> HIDE DEF idx, off, n
<1>5. CASE n = 0 \/ idx < 0 \/ idx >= n - 1
  <2>1. n = 0 \/ (0 \in 0..(n - 1) /\ n - 1 \in 0..(n - 1))
    BY <1>1
  <2>2. latency_offset(size) = 0 \/ (n # 0 /\ latency_offset(size) \in {off(0), off(n - 1)})
    <3> HIDE DEF h
    <3> QED
      BY <1>4, <1>5
  <2> QED
    BY <1>2, <2>1, <2>2
<1>6. CASE ~ (n = 0 \/ idx < 0 \/ idx >= n - 1)
  <2>1. idx \in 0..(n - 1) /\ idx + 1 \in 0..(n - 1)
    BY <1>1, <1>3, <1>6
  <2>2. off(idx) \in Int /\ off(idx + 1) \in Int
    BY <1>2, <2>1
  <2>3. h \in Int
    BY <1>3, <2>2, ProductType
  <2> HIDE DEF h
  <2>4. (h + 50) \div 100 \in Int /\ (50 - h) \div 100 \in Int
    BY <2>3, DivisionBounds
  <2>5. latency_offset(size) = IF h >= 0 THEN (h + 50) \div 100 ELSE - ((50 - h) \div 100)
    BY <1>4, <1>6
  <2> QED
    BY <2>4, <2>5
<1> QED
  BY <1>5, <1>6

-----------------------------------------------------------------------------
(* The inductive invariant *)

\* The line in use has the opportunities the code believes it has, no line is
\* in use before the trace has started, and a line other than the first one is
\* in use only once its time has come.
LineSound ==
  /\ current_pdo_size_ <= Len(Line(current_delay_pdo_idx_).pdo)
  /\ ~ start_tick_ => current_base_delay_ < 0
  /\ current_delay_pdo_idx_ # 0 =>
       start_tick_ /\ Line(current_delay_pdo_idx_).time <= pdo_base_timestamp_

\* The packets of the queue have different numbers, all of them used up.
QueueNumbered ==
  /\ \A p \in delay_packet_queue_ : p.sequence_number < pkt_counter_
  /\ \A p, q \in delay_packet_queue_ : p.sequence_number = q.sequence_number => p = q

DelayInv ==
  /\ DelayTypeOK
  /\ LineSound
  /\ QueueNumbered
  /\ ReleaseOrder

\* The short PDO trace in use did not start after time now.
TraceStartedBy(now) == start_tick_ => delay_base_timestamp_ + pdo_base_timestamp_ <= now

\* The trace starts with the line of time 0.
FirstLineAtZero == Line(0).time = 0

\* The empty queue of a link that has not started satisfies the invariant.
LEMMA DelayInitInv ==
  ASSUME DelayInit
  PROVE  /\ DelayInv
         /\ BaseDelayInterpolated
         /\ \A t : TraceStartedBy(t)
<1>1. DelayTypeOK
  <2>1. PACKET_SIZE \in 0..PACKET_SIZE /\ 0 \in 0..(NumLines - 2)
    BY TraceFacts, PacketAssumption
  <2>2. {} \subseteq DelayQueuePackets
    OBVIOUS
  <2>3. 0 \in Nat /\ -1 \in Int /\ 1 \in Nat \ {0}
    OBVIOUS
  <2> QED
    BY <2>1, <2>2, <2>3, Zenon DEF DelayInit, DelayTypeOK
<1>2. LineSound
  <2>1. Len(Line(0).pdo) \in Nat \ {0}
    BY TraceFacts
  <2> QED
    BY <2>1 DEF DelayInit, LineSound
<1>3. QueueNumbered /\ ReleaseOrder
  BY DEF DelayInit, QueueNumbered, ReleaseOrder
<1>4. BaseDelayInterpolated /\ \A t : TraceStartedBy(t)
  BY DEF DelayInit, BaseDelayInterpolated, TraceStartedBy
<1> QED
  BY <1>1, <1>2, <1>3, <1>4 DEF DelayInv

\* The packet that store_packet adds comes last, in number and in time.
LEMMA StoreKeepsOrder ==
  ASSUME DelayInv, NEW size, ValidSize(size), NEW release \in Nat, NEW light \in BOOLEAN,
         store_packet(size, release, light)
  PROVE  /\ end_release_time_' \in Nat
         /\ bypass_link_pdo_' \in BOOLEAN
         /\ delay_packet_queue_' \subseteq DelayQueuePackets
         /\ pkt_counter_' = pkt_counter_ + 1
         /\ pkt_counter_' \in Nat
         /\ QueueNumbered' /\ ReleaseOrder'
         /\ \E p \in DelayQueuePackets :
              /\ delay_packet_queue_' = delay_packet_queue_ \cup {p}
              /\ p.sequence_number = pkt_counter_
              /\ p.release_time >= release
<1> DEFINE held == release < end_release_time_
           time == IF held THEN end_release_time_ ELSE release
           flag == light /\ ~ held
           p    == [sequence_number |-> pkt_counter_, size |-> size, release_time |-> time,
                    is_bypass_link_queue |-> flag]
<1>1. /\ end_release_time_ \in Nat /\ pkt_counter_ \in Nat
      /\ delay_packet_queue_ \subseteq DelayQueuePackets
      /\ QueueNumbered /\ ReleaseOrder
  BY DEF DelayInv, DelayTypeOK
<1>2. /\ end_release_time_' = time
      /\ bypass_link_pdo_' = flag
      /\ delay_packet_queue_' = delay_packet_queue_ \cup {p}
      /\ pkt_counter_' = pkt_counter_ + 1
  BY DEF store_packet
<1>3. flag \in BOOLEAN
  OBVIOUS
<1>4. time \in Nat /\ time >= release /\ time >= end_release_time_
  BY <1>1
<1>5. size \in 1..PACKET_SIZE
  BY PacketAssumption, TraceAssumption DEF ValidSize
<1> HIDE DEF time, flag
<1>6. /\ p \in DelayQueuePackets
      /\ p.sequence_number = pkt_counter_ /\ p.release_time = time
  BY <1>1, <1>3, <1>4, <1>5 DEF DelayQueuePackets
<1>7. \A q \in delay_packet_queue_ : q.sequence_number \in Nat /\ q.release_time \in Nat
  BY <1>1 DEF DelayQueuePackets
<1> HIDE DEF p
<1>8. QueueNumbered'
  <2>1. ASSUME NEW q \in delay_packet_queue_' PROVE q.sequence_number < pkt_counter_'
    BY <1>1, <1>2, <1>6, <1>7 DEF QueueNumbered
  <2>2. ASSUME NEW q \in delay_packet_queue_', NEW r \in delay_packet_queue_',
               q.sequence_number = r.sequence_number
        PROVE  q = r
    BY <1>1, <1>2, <1>6, <1>7, <2>2 DEF QueueNumbered
  <2> QED
    BY <2>1, <2>2 DEF QueueNumbered
<1>9. ReleaseOrder'
  <2>1. ASSUME NEW q \in delay_packet_queue_' PROVE q.release_time <= end_release_time_'
    BY <1>1, <1>2, <1>4, <1>6, <1>7 DEF ReleaseOrder
  <2>2. ASSUME NEW q \in delay_packet_queue_', NEW r \in delay_packet_queue_',
               q.sequence_number < r.sequence_number
        PROVE  q.release_time <= r.release_time
    <3>1. q # p
      BY <1>1, <1>2, <1>6, <1>7, <2>2 DEF QueueNumbered
    <3>2. q \in delay_packet_queue_ /\ q.release_time <= end_release_time_
      BY <1>1, <1>2, <3>1 DEF ReleaseOrder
    <3>3. CASE r = p
      BY <1>1, <1>4, <1>6, <1>7, <3>2, <3>3
    <3>4. CASE r # p
      BY <1>1, <1>2, <2>2, <3>2, <3>4 DEF ReleaseOrder
    <3> QED
      BY <3>3, <3>4
  <2> QED
    BY <2>1, <2>2 DEF ReleaseOrder
<1> QED
  BY <1>1, <1>2, <1>3, <1>4, <1>6, <1>8, <1>9

\* A new short PDO trace: the line in use contains the time of the packet.
LEMMA NewTraceStep ==
  ASSUME DelayInv, NEW now \in Nat, NEW base \in Nat, base <= now,
         start_tick_ => base = delay_base_timestamp_,
         TraceStartedBy(now), NEW size, ValidSize(size),
         NEW d \in InterpolatedDelay(SearchedLine(now, base), now - SearchedBase(now, base)),
         new_short_pdo_trace(now, base, size, d), start_tick_' = TRUE
  PROVE  /\ d \in Int
         /\ FirstLineAtZero => BaseDelayInterpolated'
         /\ delay_base_timestamp_' \in Nat
         /\ curr_delivery_opportunity_' \in 0..PACKET_SIZE
         /\ current_delay_pdo_idx_' \in 0..(NumLines - 2)
         /\ current_pdo_idx_' \in Nat
         /\ current_pdo_size_' \in Nat \ {0}
         /\ pdo_base_timestamp_' \in Nat
         /\ current_base_delay_' = d
         /\ LineSound' /\ TraceStartedBy(now)'
<1> DEFINE l    == SearchedLine(now, base)
           b    == SearchedBase(now, base)
           from == IF Laps(now, base) = 0 THEN current_delay_pdo_idx_ ELSE 0
<1>1. /\ current_delay_pdo_idx_ \in 0..(NumLines - 2) /\ delay_base_timestamp_ \in Nat
      /\ pdo_base_timestamp_ \in Nat /\ LineSound
  BY DEF DelayInv, DelayTypeOK
<1>2. /\ b \in Nat /\ b <= now /\ now - b \in Nat /\ b + (now - b) = now
      /\ Laps(now, base) = 0 => b = base
  BY SearchedBaseBounds
<1>3. /\ l \in 0..(NumLines - 2) /\ now - b < Line(l + 1).time
      /\ l = from \/ Line(l).time <= now - b
  BY <1>1, SearchedLineFound
<1>4. /\ current_base_delay_' = d
      /\ current_delay_pdo_idx_' = l
      /\ delay_base_timestamp_' = b
      /\ current_pdo_size_' = Len(Line(l).pdo)
      /\ pdo_base_timestamp_' = now - b
      /\ current_pdo_idx_' = 0
      /\ curr_delivery_opportunity_' = PACKET_SIZE - size
  BY DEF new_short_pdo_trace
<1>5. d \in InterpolatedDelay(l, now - b)
  OBVIOUS
<1> HIDE DEF l, b
<1>6. NumLines \in Nat /\ l \in 0..(NumLines - 1) /\ Len(Line(l).pdo) \in Nat \ {0}
      /\ Line(l).time \in Nat
  BY <1>3, TraceFacts
<1>7. l # 0 => Line(l).time <= now - b
  <2>1. SUFFICES ASSUME l # 0, l = from PROVE Line(l).time <= now - b
    BY <1>3
  <2>2. Laps(now, base) = 0 /\ l = current_delay_pdo_idx_ /\ current_delay_pdo_idx_ # 0
    BY <2>1
  <2>3. start_tick_ /\ Line(l).time <= pdo_base_timestamp_
    BY <1>1, <2>2 DEF LineSound
  <2>4. b = delay_base_timestamp_ /\ delay_base_timestamp_ + pdo_base_timestamp_ <= now
    BY <1>2, <2>2, <2>3 DEF TraceStartedBy
  <2> QED
    BY <1>1, <1>6, <2>3, <2>4
<1>8. d \in Int /\ (Line(l).time <= now - b => d \in Between(Line(l).delay, Line(l + 1).delay))
  BY <1>2, <1>3, <1>5, InterpolatedDelayBounds
<1>9. ASSUME FirstLineAtZero PROVE BaseDelayInterpolated'
  <2>1. Line(l).time <= now - b
    BY <1>2, <1>7, <1>9 DEF FirstLineAtZero
  <2>2. d \in Between(Line(l).delay, Line(l + 1).delay)
    BY <1>8, <2>1
  <2> QED
    BY <1>4, <2>2 DEF BaseDelayInterpolated, Between, Line
<1>10. curr_delivery_opportunity_' \in 0..PACKET_SIZE
  BY <1>4, PacketAssumption, TraceAssumption DEF ValidSize
<1>11. LineSound'
  <2>1. Len(Line(l).pdo) <= Len(Line(l).pdo)
    BY <1>6
  <2> QED
    BY <1>4, <1>7, <2>1 DEF LineSound, Line
<1>12. TraceStartedBy(now)'
  BY <1>2, <1>4 DEF TraceStartedBy
<1> QED
  BY <1>2, <1>3, <1>4, <1>6, <1>8, <1>9, <1>10, <1>11, <1>12

\* The opportunity a packet takes from the line in use, and the bytes of it
\* that are left: the last byte of an opportunity is never spent twice.
LEMMA OpportunityTaken ==
  ASSUME DelayInv, NEW ts \in Int, NEW size, ValidSize(size)
  PROVE  /\ TakenOpportunity(ts, size) \in Nat
         /\ TakenBytes(ts, size) - size \in 0..PACKET_SIZE
         /\ StillLight(ts, size) \in BOOLEAN
         /\ StillLight(ts, size) =>
              /\ TakenOpportunity(ts, size) \in
                   0..(Len(Line(current_delay_pdo_idx_).pdo) - 1)
              /\ ts <= Pdo(current_delay_pdo_idx_, TakenOpportunity(ts, size))
<1> DEFINE l   == current_delay_pdo_idx_
           due == DueOpportunity(ts)
           got == TakenOpportunity(ts, size)
           L   == Len(Line(l).pdo)
<1>1. /\ l \in 0..(NumLines - 2) /\ current_pdo_idx_ \in Nat /\ current_pdo_size_ \in Nat
      /\ current_pdo_size_ <= L /\ curr_delivery_opportunity_ \in 0..PACKET_SIZE
  BY DEF DelayInv, DelayTypeOK, LineSound
<1>2. l \in 0..(NumLines - 1) /\ L \in Nat
  BY <1>1, TraceFacts
<1>3. due \in Nat /\ (due < current_pdo_size_ => ts <= Pdo(l, due))
  BY <1>1, DueOpportunityFound
<1>4. size \in Nat /\ size <= PACKET_SIZE /\ PACKET_SIZE \in Nat
  BY PacketAssumption, TraceAssumption DEF ValidSize
<1>5. got \in {due, due + 1}
  BY DEF TakenOpportunity
<1>6. TakenBytes(ts, size) - size \in 0..PACKET_SIZE
  <2>1. DueBytes(ts) \in 0..PACKET_SIZE
    BY <1>1, <1>4 DEF DueBytes
  <2> QED
    BY <1>4, <2>1 DEF TakenBytes
<1> HIDE DEF due, got, L
<1>7. ASSUME got < current_pdo_size_
      PROVE  got \in 0..(L - 1) /\ ts <= Pdo(l, got)
  <2>1. /\ due \in 0..(L - 1) /\ got \in 0..(L - 1) /\ due <= got
        /\ ts <= Pdo(l, due)
    BY <1>1, <1>2, <1>3, <1>5, <1>7
  <2>2. Pdo(l, due) \in Nat /\ Pdo(l, got) \in Nat /\ Pdo(l, due) <= Pdo(l, got)
    BY <1>2, <2>1, PdoFacts DEF L
  <2> QED
    BY <2>1, <2>2
<1> QED
  BY <1>3, <1>5, <1>6, <1>7 DEF StillLight, got, L

\* The release time of a packet of the short PDO trace in use is a time.
LEMMA CurrentReleaseType ==
  ASSUME DelayInv, NEW now \in Nat, NEW ts \in Int, NEW size, ValidSize(size)
  PROVE  /\ current_base_delay_ \in Int
         /\ Pdo(current_delay_pdo_idx_, current_pdo_size_ - 1) \in Nat
         /\ StillLight(ts, size) =>
              Pdo(current_delay_pdo_idx_, TakenOpportunity(ts, size)) \in Nat
         /\ CurrentRelease(now, ts, size) \in Nat
<1> DEFINE l   == current_delay_pdo_idx_
           got == TakenOpportunity(ts, size)
           L   == Len(Line(l).pdo)
<1>1. /\ l \in 0..(NumLines - 2) /\ current_pdo_size_ \in Nat \ {0}
      /\ current_pdo_size_ <= L /\ current_base_delay_ \in Int
  BY DEF DelayInv, DelayTypeOK, LineSound
<1>2. l \in 0..(NumLines - 1) /\ L \in Nat
  BY <1>1, TraceFacts
<1>3. \A j \in 0..(L - 1) : Pdo(l, j) \in Nat
  BY <1>2, PdoFacts
<1>4. current_pdo_size_ - 1 \in 0..(L - 1)
  BY <1>1, <1>2
<1>5. Pdo(l, current_pdo_size_ - 1) \in Nat
  BY <1>3, <1>4
<1>6. ASSUME StillLight(ts, size) PROVE Pdo(l, got) \in Nat
  BY <1>3, <1>6, OpportunityTaken
<1> HIDE DEF got
<1> DEFINE x == now + current_base_delay_
           y == now + Pdo(l, current_pdo_size_ - 1)
           z == now + current_base_delay_ + (Pdo(l, got) - ts)
<1>7. x \in Int /\ y \in Int /\ (StillLight(ts, size) => z \in Int)
  BY <1>1, <1>5, <1>6
<1>8. CurrentRelease(now, ts, size) =
        IF StillLight(ts, size) THEN U64(z)
        ELSE IF U64(x) < U64(y) THEN U64(y) ELSE U64(x)
  BY DEF CurrentRelease, got
<1> HIDE DEF x, y, z
<1>9. CurrentRelease(now, ts, size) \in Nat
  BY <1>7, <1>8, U64Type
<1> QED
  BY <1>1, <1>5, <1>6, <1>9 DEF got

\* The size offset keeps a release time a time, and does not bring it forward
\* unless the offset itself does.
LEMMA WithOffsetBounds ==
  ASSUME NEW release \in Nat, NEW size, ValidSize(size)
  PROVE  /\ WithOffset(release, size) \in Nat
         /\ latency_offset(size) >= 0 /\ release + latency_offset(size) < WORD =>
              WithOffset(release, size) >= release
<1>1. size \in Nat
  BY PacketAssumption, TraceAssumption DEF ValidSize
<1>2. latency_offset(size) \in Int /\ WORD \in Nat
  BY <1>1, LatencyOffsetType, TraceAssumption
<1> DEFINE x == release + latency_offset(size)
<1>3. x \in Int /\ (latency_offset(size) >= 0 => x >= release /\ x >= 0)
  BY <1>2
<1>4. WithOffset(release, size) \in {U64(x), release}
  BY DEF WithOffset
<1> HIDE DEF x
<1>5. U64(x) \in Nat /\ (x \in 0..(WORD - 1) => U64(x) = x)
  BY <1>3, U64Type
<1>6. WithOffset(release, size) \in Nat
  BY <1>4, <1>5
<1>7. ASSUME latency_offset(size) >= 0, x < WORD
      PROVE  WithOffset(release, size) >= release
  <2>1. x \in 0..(WORD - 1)
    BY <1>2, <1>3, <1>7
  <2> QED
    BY <1>3, <1>4, <1>5, <1>7, <2>1
<1> QED
  BY <1>6, <1>7 DEF x

\* The base read_packet works with: the one in use, or now for the first packet.
LEMMA ReadBase ==
  ASSUME DelayInv, NEW now \in Nat, TraceStartedBy(now), NEW base,
         base = IF start_tick_ THEN delay_base_timestamp_ ELSE now
  PROVE  /\ base \in Nat /\ base <= now
         /\ start_tick_ => base = delay_base_timestamp_
         /\ SinceShortTrace(now, base) \in Int
         /\ start_tick_ => SinceShortTrace(now, base) >= 0
<1>1. delay_base_timestamp_ \in Nat /\ pdo_base_timestamp_ \in Nat
  BY DEF DelayInv, DelayTypeOK
<1> QED
  BY <1>1 DEF TraceStartedBy, SinceShortTrace

\* read_packet keeps the invariant, whatever the time and the size are, and
\* adds one packet with the next number.
LEMMA ReadKeepsDelayInv ==
  ASSUME DelayInv, NEW now \in Nat, TraceStartedBy(now), NEW size, read_packet(size, now)
  PROVE  /\ DelayInv'
         /\ TraceStartedBy(now)'
         /\ FirstLineAtZero /\ BaseDelayInterpolated => BaseDelayInterpolated'
         /\ start_tick_' = TRUE
         /\ pkt_counter_' = pkt_counter_ + 1
         /\ \E p \in DelayQueuePackets :
              /\ delay_packet_queue_' = delay_packet_queue_ \cup {p}
              /\ p.sequence_number = pkt_counter_
<1> DEFINE base == IF start_tick_ THEN delay_base_timestamp_ ELSE now
           ts   == SinceShortTrace(now, base)
<1>1. /\ base \in Nat /\ base <= now /\ ts \in Int
      /\ start_tick_ => base = delay_base_timestamp_
  BY ReadBase
<1>2. ValidSize(size) /\ start_tick_' = TRUE
  BY DEF read_packet
<1>3. DelayTypeOK /\ LineSound
  BY DEF DelayInv
<1> HIDE DEF base, ts
<1>4. ASSUME NEW r \in Nat, NEW light \in BOOLEAN, finish_read(size, r, light),
             LineSound', TraceStartedBy(now)',
             FirstLineAtZero /\ BaseDelayInterpolated => BaseDelayInterpolated',
             /\ delay_base_timestamp_' \in Nat
             /\ curr_delivery_opportunity_' \in 0..PACKET_SIZE
             /\ current_delay_pdo_idx_' \in 0..(NumLines - 2)
             /\ current_pdo_idx_' \in Nat
             /\ current_pdo_size_' \in Nat \ {0}
             /\ pdo_base_timestamp_' \in Nat
             /\ current_base_delay_' \in Int
      PROVE  /\ DelayInv'
             /\ TraceStartedBy(now)'
             /\ FirstLineAtZero /\ BaseDelayInterpolated => BaseDelayInterpolated'
             /\ pkt_counter_' = pkt_counter_ + 1
             /\ \E p \in DelayQueuePackets :
                  /\ delay_packet_queue_' = delay_packet_queue_ \cup {p}
                  /\ p.sequence_number = pkt_counter_
  <2>1. /\ last_delay_queue_release_time_' = r
        /\ store_packet(size, WithOffset(r, size), light)
    BY <1>4 DEF finish_read
  <2>2. WithOffset(r, size) \in Nat
    BY <1>2, WithOffsetBounds
  <2>3. /\ end_release_time_' \in Nat
        /\ bypass_link_pdo_' \in BOOLEAN
        /\ delay_packet_queue_' \subseteq DelayQueuePackets
        /\ pkt_counter_' = pkt_counter_ + 1
        /\ pkt_counter_' \in Nat
        /\ QueueNumbered' /\ ReleaseOrder'
        /\ \E p \in DelayQueuePackets :
             /\ delay_packet_queue_' = delay_packet_queue_ \cup {p}
             /\ p.sequence_number = pkt_counter_
    BY <1>2, <2>1, <2>2, StoreKeepsOrder
  <2>4. DelayTypeOK'
    <3>1. NumLines' = NumLines /\ DelayQueuePackets' = DelayQueuePackets
      BY DEF NumLines, DelayQueuePackets
    <3> QED
      BY <1>2, <1>4, <2>1, <2>3, <3>1, Zenon DEF DelayTypeOK
  <2>5. DelayInv'
    BY <1>4, <2>3, <2>4 DEF DelayInv
  <2> QED
    BY <1>4, <2>3, <2>5
<1>5. CASE start_new_short_pdo_trace(now) /\
           \E d \in InterpolatedDelay(SearchedLine(now, base), now - SearchedBase(now, base)) :
             /\ new_short_pdo_trace(now, base, size, d)
             /\ finish_read(size, U64(now + d), TRUE)
  <2>1. PICK d \in InterpolatedDelay(SearchedLine(now, base), now - SearchedBase(now, base)) :
          /\ new_short_pdo_trace(now, base, size, d)
          /\ finish_read(size, U64(now + d), TRUE)
    BY <1>5
  <2>2. /\ d \in Int
        /\ FirstLineAtZero => BaseDelayInterpolated'
        /\ delay_base_timestamp_' \in Nat
        /\ curr_delivery_opportunity_' \in 0..PACKET_SIZE
        /\ current_delay_pdo_idx_' \in 0..(NumLines - 2)
        /\ current_pdo_idx_' \in Nat
        /\ current_pdo_size_' \in Nat \ {0}
        /\ pdo_base_timestamp_' \in Nat
        /\ current_base_delay_' = d
        /\ LineSound' /\ TraceStartedBy(now)'
    BY <1>1, <1>2, <2>1, NewTraceStep
  <2>3. U64(now + d) \in Nat /\ current_base_delay_' \in Int
    <3>1. now + d \in Int
      BY <2>2
    <3> QED
      BY <2>2, <3>1, U64Type
  <2> QED
    BY <1>2, <1>4, <2>1, <2>2, <2>3
<1>6. CASE /\ ~ start_new_short_pdo_trace(now)
           /\ current_short_pdo_trace(base, ts, size)
           /\ finish_read(size, CurrentRelease(now, ts, size), StillLight(ts, size))
  <2>1. current_base_delay_ \in Int /\ ~ (current_base_delay_ < 0) /\ start_tick_
    BY <1>3, <1>6 DEF start_new_short_pdo_trace, DelayTypeOK, LineSound
  <2>2. /\ CurrentRelease(now, ts, size) \in Nat
        /\ StillLight(ts, size) \in BOOLEAN
        /\ TakenOpportunity(ts, size) \in Nat
        /\ TakenBytes(ts, size) - size \in 0..PACKET_SIZE
    BY <1>1, <1>2, OpportunityTaken, CurrentReleaseType
  <2>3. /\ current_pdo_idx_' = TakenOpportunity(ts, size)
        /\ curr_delivery_opportunity_' = TakenBytes(ts, size) - size
        /\ delay_base_timestamp_' = delay_base_timestamp_
        /\ UNCHANGED <<current_base_delay_, current_delay_pdo_idx_,
                       current_pdo_size_, pdo_base_timestamp_>>
    BY <1>1, <1>6, <2>1 DEF current_short_pdo_trace
  <2>4. LineSound' /\ TraceStartedBy(now)'
    BY <1>2, <1>3, <2>1, <2>3 DEF LineSound, TraceStartedBy, Line
  <2>5. BaseDelayInterpolated => BaseDelayInterpolated'
    BY <1>2, <2>1, <2>3 DEF BaseDelayInterpolated, Line
  <2>6. /\ delay_base_timestamp_' \in Nat
        /\ curr_delivery_opportunity_' \in 0..PACKET_SIZE
        /\ current_delay_pdo_idx_' \in 0..(NumLines - 2)
        /\ current_pdo_idx_' \in Nat
        /\ current_pdo_size_' \in Nat \ {0}
        /\ pdo_base_timestamp_' \in Nat
        /\ current_base_delay_' \in Int
    BY <1>3, <2>2, <2>3 DEF DelayTypeOK
  <2> QED
    BY <1>2, <1>4, <1>6, <2>2, <2>4, <2>5, <2>6
<1>7. \/ start_new_short_pdo_trace(now) /\
           \E d \in InterpolatedDelay(SearchedLine(now, base), now - SearchedBase(now, base)) :
             /\ new_short_pdo_trace(now, base, size, d)
             /\ finish_read(size, U64(now + d), TRUE)
      \/ /\ ~ start_new_short_pdo_trace(now)
         /\ current_short_pdo_trace(base, ts, size)
         /\ finish_read(size, CurrentRelease(now, ts, size), StillLight(ts, size))
  BY DEF read_packet, base, ts
<1> QED
  BY <1>2, <1>5, <1>6, <1>7

\* Size offsets that delay packets and never bring them forward.
OffsetsOnlyDelay ==
  \A size \in sizeof_iphdr..PACKET_SIZE : latency_offset(size) >= 0

\* No sum of a time up to t, a delay, an opportunity and an offset reaches the
\* end of the range of uint64_t.
FarFromWrap(t) ==
  \A i, k \in 0..(NumLines - 1) : \A j \in 0..(Len(Line(i).pdo) - 1) :
    \A size \in sizeof_iphdr..PACKET_SIZE :
      t + Line(k).delay + Pdo(i, j) + latency_offset(size) < WORD

\* A delay between those of two lines is no longer than the longer of the two.
LEMMA DelayOfSomeLine ==
  ASSUME NEW l \in 0..(NumLines - 2), NEW d \in Between(Line(l).delay, Line(l + 1).delay)
  PROVE  d \in Nat /\ \E k \in 0..(NumLines - 1) : d <= Line(k).delay
<1>1. l \in 0..(NumLines - 1) /\ l + 1 \in 0..(NumLines - 1)
  BY TraceFacts
<1>2. Line(l).delay \in Nat /\ Line(l + 1).delay \in Nat
  BY <1>1, TraceFacts
<1>3. d \in Nat /\ (d <= Line(l).delay \/ d <= Line(l + 1).delay)
  BY <1>2 DEF Between
<1> QED
  BY <1>1, <1>3

\* A release time computed far from the end of the range is the plain sum, and
\* stays at or after the time at which the packet was read.
LEMMA PlainRelease ==
  ASSUME NEW now \in Nat, FarFromWrap(now), OffsetsOnlyDelay, NEW size, ValidSize(size),
         NEW k \in 0..(NumLines - 1), NEW i \in 0..(NumLines - 1),
         NEW j \in 0..(Len(Line(i).pdo) - 1),
         NEW x \in Int, now <= x, x <= now + Line(k).delay + Pdo(i, j)
  PROVE  U64(x) = x /\ WithOffset(U64(x), size) >= now
<1>1. /\ Line(k).delay \in Nat /\ Pdo(i, j) \in Nat /\ WORD \in Nat
      /\ size \in sizeof_iphdr..PACKET_SIZE /\ size \in Nat
  <2>1. Line(k).delay \in Nat /\ Pdo(i, j) \in Nat
    BY TraceFacts, PdoFacts
  <2>2. WORD \in Nat /\ size \in sizeof_iphdr..PACKET_SIZE /\ size \in Nat
    BY TraceAssumption, PacketAssumption DEF ValidSize
  <2> QED
    BY <2>1, <2>2
<1>2. /\ now + Line(k).delay + Pdo(i, j) + latency_offset(size) < WORD
      /\ latency_offset(size) >= 0 /\ latency_offset(size) \in Int
  BY <1>1, LatencyOffsetType DEF FarFromWrap, OffsetsOnlyDelay
<1>3. x \in 0..(WORD - 1) /\ x \in Nat /\ x + latency_offset(size) < WORD
  BY <1>1, <1>2, SMTT(30)
<1>4. U64(x) = x
  BY <1>3, U64Type
<1>5. WithOffset(x, size) \in Nat /\ WithOffset(x, size) >= x
  BY <1>2, <1>3, WithOffsetBounds
<1> QED
  BY <1>3, <1>4, <1>5

\* Far from the end of the range, with offsets that only delay and a trace that
\* starts at time 0, no packet is given a release time that has passed.
LEMMA ReadNotReleasedEarly ==
  ASSUME DelayInv, BaseDelayInterpolated, FirstLineAtZero, OffsetsOnlyDelay,
         NEW now \in Nat, FarFromWrap(now), TraceStartedBy(now),
         NEW size, read_packet(size, now)
  PROVE  \A p \in delay_packet_queue_' \ delay_packet_queue_ : p.release_time >= now
<1> DEFINE base == IF start_tick_ THEN delay_base_timestamp_ ELSE now
           ts   == SinceShortTrace(now, base)
<1>1. /\ base \in Nat /\ base <= now /\ ts \in Int /\ (start_tick_ => ts >= 0)
      /\ start_tick_ => base = delay_base_timestamp_
  BY ReadBase
<1>2. ValidSize(size) /\ start_tick_' = TRUE
  BY DEF read_packet
<1>3. DelayTypeOK /\ LineSound
  BY DEF DelayInv
<1>4. \/ \E d \in InterpolatedDelay(SearchedLine(now, base), now - SearchedBase(now, base)) :
           /\ new_short_pdo_trace(now, base, size, d)
           /\ finish_read(size, U64(now + d), TRUE)
      \/ /\ ~ start_new_short_pdo_trace(now)
         /\ finish_read(size, CurrentRelease(now, ts, size), StillLight(ts, size))
  BY DEF read_packet
<1> HIDE DEF base, ts
<1>5. ASSUME NEW r \in Nat, NEW light \in BOOLEAN, finish_read(size, r, light),
             WithOffset(r, size) >= now
      PROVE  \A p \in delay_packet_queue_' \ delay_packet_queue_ : p.release_time >= now
  <2>1. store_packet(size, WithOffset(r, size), light)
    BY <1>5 DEF finish_read
  <2>2. WithOffset(r, size) \in Nat
    BY <1>2, WithOffsetBounds
  <2>3. PICK p \in DelayQueuePackets :
          /\ delay_packet_queue_' = delay_packet_queue_ \cup {p}
          /\ p.release_time >= WithOffset(r, size)
    BY <1>2, <2>1, <2>2, StoreKeepsOrder
  <2>4. p.release_time \in Nat
    BY DEF DelayQueuePackets
  <2> QED
    BY <1>5, <2>2, <2>3, <2>4
<1>6. CASE \E d \in InterpolatedDelay(SearchedLine(now, base), now - SearchedBase(now, base)) :
             /\ new_short_pdo_trace(now, base, size, d)
             /\ finish_read(size, U64(now + d), TRUE)
  <2>1. PICK d \in InterpolatedDelay(SearchedLine(now, base), now - SearchedBase(now, base)) :
          /\ new_short_pdo_trace(now, base, size, d)
          /\ finish_read(size, U64(now + d), TRUE)
    BY <1>6
  <2>2. /\ BaseDelayInterpolated' /\ current_base_delay_' = d
        /\ current_delay_pdo_idx_' \in 0..(NumLines - 2)
    BY <1>1, <1>2, <2>1, NewTraceStep
  <2> DEFINE l == current_delay_pdo_idx_'
  <2>3. d \in Between(Line(l).delay, Line(l + 1).delay)
    BY <1>2, <2>2 DEF BaseDelayInterpolated, Between, Line
  <2>4. d \in Nat /\ \E k \in 0..(NumLines - 1) : d <= Line(k).delay
    BY <2>2, <2>3, DelayOfSomeLine
  <2>5. PICK k \in 0..(NumLines - 1) : d <= Line(k).delay
    BY <2>4
  <2>6. /\ 0 \in 0..(NumLines - 1) /\ 0 \in 0..(Len(Line(0).pdo) - 1)
        /\ Line(k).delay \in Nat /\ Pdo(0, 0) \in Nat
    BY TraceFacts, PdoFacts
  <2>7. now + d \in Int /\ now <= now + d /\ now + d <= now + Line(k).delay + Pdo(0, 0)
    BY <2>4, <2>5, <2>6
  <2>8. U64(now + d) = now + d /\ WithOffset(U64(now + d), size) >= now
    BY <1>2, <2>6, <2>7, PlainRelease
  <2>9. U64(now + d) \in Nat
    BY <2>7, U64Type
  <2> QED
    BY <1>5, <2>1, <2>8, <2>9
<1>7. CASE /\ ~ start_new_short_pdo_trace(now)
           /\ finish_read(size, CurrentRelease(now, ts, size), StillLight(ts, size))
  <2> DEFINE l   == current_delay_pdo_idx_
             bd  == current_base_delay_
             got == TakenOpportunity(ts, size)
             last == Pdo(l, current_pdo_size_ - 1)
  <2>1. bd \in Int /\ ~ (bd < 0) /\ start_tick_
    BY <1>3, <1>7 DEF start_new_short_pdo_trace, DelayTypeOK, LineSound
  <2>2. /\ l \in 0..(NumLines - 2) /\ l \in 0..(NumLines - 1)
        /\ current_pdo_size_ - 1 \in 0..(Len(Line(l).pdo) - 1)
    <3>1. l \in 0..(NumLines - 2) /\ l \in 0..(NumLines - 1)
      BY <1>3, TraceFacts DEF DelayTypeOK
    <3>2. Len(Line(l).pdo) \in Nat
      BY <3>1, TraceFacts
    <3> QED
      BY <1>3, <3>1, <3>2 DEF DelayTypeOK, LineSound
  <2>3. bd \in Between(Line(l).delay, Line(l + 1).delay)
    BY <2>1 DEF BaseDelayInterpolated, Between
  <2>4. PICK k \in 0..(NumLines - 1) : bd <= Line(k).delay
    BY <2>2, <2>3, DelayOfSomeLine
  <2>5. Line(k).delay \in Nat /\ last \in Nat
    BY <2>2, TraceFacts, PdoFacts
  <2>6. CASE StillLight(ts, size)
    <3>1. got \in 0..(Len(Line(l).pdo) - 1) /\ ts <= Pdo(l, got) /\ Pdo(l, got) \in Nat
      BY <1>1, <1>2, <2>6, OpportunityTaken, CurrentReleaseType
    <3> DEFINE x == now + bd + (Pdo(l, got) - ts)
    <3>2. CurrentRelease(now, ts, size) = U64(x)
      BY <2>6 DEF CurrentRelease
    <3> HIDE DEF got
    <3>3. x \in Int /\ now <= x /\ x <= now + Line(k).delay + Pdo(l, got)
      <4> DEFINE o == Pdo(l, got)
                 e == Line(k).delay
      <4>1. /\ ts \in Int /\ ts >= 0 /\ ts <= o /\ o \in Nat
            /\ bd \in Int /\ bd >= 0 /\ bd <= e /\ e \in Nat
        BY <1>1, <2>1, <2>4, <2>5, <3>1
      <4> HIDE DEF o, e, bd
      <4>2. /\ now + bd + (o - ts) \in Int /\ now <= now + bd + (o - ts)
            /\ now + bd + (o - ts) <= now + e + o
        BY <4>1
      <4> QED
        BY <4>2 DEF o, e
    <3> HIDE DEF x
    <3>4. U64(x) = x /\ WithOffset(U64(x), size) >= now
      BY <1>2, <2>2, <3>1, <3>3, PlainRelease
    <3>5. U64(x) \in Nat
      BY <3>3, U64Type
    <3> QED
      BY <1>5, <1>7, <2>6, <3>2, <3>4, <3>5
  <2>7. CASE ~ StillLight(ts, size)
    <3> DEFINE x == now + bd
               y == now + last
    <3>1. CurrentRelease(now, ts, size) \in {U64(x), U64(y)}
      BY <2>7 DEF CurrentRelease
    <3>2. /\ x \in Int /\ now <= x /\ x <= now + Line(k).delay + last
          /\ y \in Int /\ now <= y /\ y <= now + Line(k).delay + last
      BY <2>1, <2>4, <2>5
    <3> HIDE DEF x, y
    <3>3. WithOffset(U64(x), size) >= now /\ WithOffset(U64(y), size) >= now
      BY <1>2, <2>2, <3>2, PlainRelease
    <3>4. U64(x) \in Nat /\ U64(y) \in Nat
      BY <3>2, U64Type
    <3> DEFINE r == CurrentRelease(now, ts, size)
    <3>5. r \in Nat /\ WithOffset(r, size) >= now
      BY <3>1, <3>3, <3>4
    <3>6. finish_read(size, r, StillLight(ts, size)) /\ StillLight(ts, size) \in BOOLEAN
      BY <1>1, <1>2, <1>7, OpportunityTaken
    <3> HIDE DEF r
    <3> QED
      BY <1>5, <3>5, <3>6
  <2> QED
    BY <2>6, <2>7
<1> QED
  BY <1>4, <1>6, <1>7

-----------------------------------------------------------------------------
(* Taking packets out *)

\* The top of the queue is the packet that was read first.
LEMMA TopWasReadFirst ==
  ASSUME DelayInv, delay_packet_queue_ # {}
  PROVE  /\ top \in delay_packet_queue_
         /\ top \in DelayQueuePackets
         /\ \A q \in delay_packet_queue_ :
              /\ q # top => top.sequence_number < q.sequence_number
              /\ top.release_time <= q.release_time
<1> DEFINE Q == delay_packet_queue_
           N == {q.sequence_number : q \in Q}
           First(p) == \A q \in Q \ {p} : ComesBefore(p, q)
<1>1. Q \subseteq DelayQueuePackets /\ QueueNumbered /\ ReleaseOrder
  BY DEF DelayInv, DelayTypeOK
<1>2. \A q \in Q : q.sequence_number \in Nat /\ q.release_time \in Nat
  BY <1>1 DEF DelayQueuePackets
<1>3. N \subseteq Nat /\ N # {}
  BY <1>2
<1>4. PICK n \in N : \A m \in N : n <= m
  <2> HIDE DEF N
  <2> QED
    BY <1>3, LeastNatural
<1>5. PICK p \in Q : p.sequence_number = n
  OBVIOUS
<1>6. First(p)
  <2> SUFFICES ASSUME NEW q \in Q \ {p} PROVE ComesBefore(p, q)
    OBVIOUS
  <2>1. p.sequence_number <= q.sequence_number /\ p.sequence_number # q.sequence_number
    BY <1>1, <1>4, <1>5 DEF QueueNumbered
  <2>2. p.sequence_number < q.sequence_number
    BY <1>2, <2>1
  <2>3. p.release_time <= q.release_time
    BY <1>1, <2>2 DEF ReleaseOrder
  <2> QED
    BY <1>2, <2>2, <2>3 DEF ComesBefore
<1>7. top = CHOOSE t \in Q : First(t)
  BY DEF top
<1>8. top \in Q /\ First(top)
  <2> HIDE DEF First, Q
  <2> QED
    BY <1>6, <1>7
<1> HIDE DEF N
<1>9. ASSUME NEW q \in Q, q # top
      PROVE  top.sequence_number < q.sequence_number
  <2>1. ComesBefore(top, q)
    BY <1>8, <1>9
  <2>2. ~ (q.sequence_number < top.sequence_number)
    BY <1>1, <1>2, <1>8, <2>1 DEF ComesBefore, ReleaseOrder
  <2>3. q.sequence_number # top.sequence_number
    BY <1>1, <1>8, <1>9 DEF QueueNumbered
  <2> QED
    BY <1>2, <1>8, <2>2, <2>3
<1>10. ASSUME NEW q \in Q PROVE top.release_time <= q.release_time
  BY <1>1, <1>2, <1>8, <1>9 DEF ReleaseOrder
<1> QED
  BY <1>1, <1>8, <1>9, <1>10

\* Taking packets out of the queue keeps the invariant.
LEMMA PopKeepsDelayInv ==
  ASSUME DelayInv, pop_delay_queue
  PROVE  DelayInv'
<1>1. delay_packet_queue_' \subseteq delay_packet_queue_
  BY DEF pop_delay_queue
<1>2. DelayTypeOK'
  BY <1>1 DEF DelayInv, DelayTypeOK, pop_delay_queue, lightVars, NumLines, DelayQueuePackets
<1>3. LineSound'
  BY DEF DelayInv, LineSound, pop_delay_queue, lightVars, Line
<1>4. QueueNumbered' /\ ReleaseOrder'
  BY <1>1 DEF DelayInv, QueueNumbered, ReleaseOrder, pop_delay_queue, lightVars
<1> QED
  BY <1>2, <1>3, <1>4 DEF DelayInv

\* Steps that leave the delay queue alone keep all that is said of it.
LEMMA DelayUntouched ==
  ASSUME UNCHANGED delayVars
  PROVE  /\ DelayInv <=> DelayInv'
         /\ BaseDelayInterpolated <=> BaseDelayInterpolated'
         /\ top' = top
<1>1. DelayTypeOK <=> DelayTypeOK'
  BY DEF delayVars, lightVars, DelayTypeOK, NumLines, DelayQueuePackets
<1>2. (LineSound <=> LineSound') /\ (BaseDelayInterpolated <=> BaseDelayInterpolated')
  BY DEF delayVars, lightVars, LineSound, BaseDelayInterpolated, Line
<1>3. (QueueNumbered <=> QueueNumbered') /\ (ReleaseOrder <=> ReleaseOrder') /\ top' = top
  BY DEF delayVars, lightVars, QueueNumbered, ReleaseOrder, top, ComesBefore
<1> QED
  BY <1>1, <1>2, <1>3 DEF DelayInv

-----------------------------------------------------------------------------
(* The searches are the loops of the code *)

\* There is one quotient.
LEMMA DivisionUnique ==
  ASSUME NEW a \in Int, NEW b \in Nat \ {0}, NEW q \in Int, q * b <= a, a < q * b + b
  PROVE  a \div b = q
<1> DEFINE p == a \div b
<1>1. p \in Int /\ p * b <= a /\ a < p * b + b
  BY DivisionBounds
<1> HIDE DEF p
<1>2. /\ q * b \in Int /\ p * b \in Int
      /\ (q + 1) * b = q * b + b /\ (p + 1) * b = p * b + b
  BY <1>1, Z3T(30)
<1>3. p * b < (q + 1) * b /\ q * b < (p + 1) * b
  <2> DEFINE x == p * b
             y == q * b
  <2>1. x \in Int /\ y \in Int /\ x <= a /\ a < x + b /\ y <= a /\ a < y + b
    BY <1>1, <1>2
  <2> HIDE DEF x, y
  <2>2. x < y + b /\ y < x + b
    BY <2>1
  <2> QED
    BY <1>2, <2>2 DEF x, y
<1>4. p < q + 1
  <2>1. q + 1 \in Int
    OBVIOUS
  <2> QED
    BY <1>1, <1>3, <2>1, CancelFactor
<1>5. q < p + 1
  <2>1. p + 1 \in Int
    BY <1>1
  <2> QED
    BY <1>3, <2>1, CancelFactor
<1>6. p = q
  BY <1>1, <1>4, <1>5
<1> QED
  BY <1>6 DEF p

\* The number of laps: none within the first, and one less from the next lap on.
LEMMA LapsCount ==
  ASSUME NEW time \in Nat, NEW base \in Nat, base <= time
  PROVE  /\ time - base < TraceLength =>
              Laps(time, base) = 0 /\ SearchedBase(time, base) = base
         /\ TraceLength <= time - base =>
              /\ Laps(time, base) # 0
              /\ SearchedBase(time, base + TraceLength) = SearchedBase(time, base)
<1> DEFINE TL == TraceLength
           rel == time - base
           n == rel \div TL
<1>1. TL \in Nat \ {0} /\ rel \in Nat
  BY TraceFacts
<1>2. Laps(time, base) = n /\ SearchedBase(time, base) = base + n * TL
  BY DEF Laps, SearchedBase
<1> HIDE DEF TL
<1>3. n \in Nat /\ n * TL <= rel /\ rel < n * TL + TL
  BY <1>1, DivisionBounds, QuotientOfNatural
<1>4. 0 * TL = 0 /\ 0 \in Int /\ rel \in Int
  BY <1>1
<1>5. ASSUME rel < TL
      PROVE  Laps(time, base) = 0 /\ SearchedBase(time, base) = base
  <2>1. 0 * TL <= rel /\ rel < 0 * TL + TL
    BY <1>1, <1>4, <1>5
  <2>2. n = 0
    <3> HIDE DEF rel
    <3> QED
      BY <1>1, <1>4, <2>1, DivisionUnique
  <2> QED
    BY <1>2, <1>4, <2>2
<1>6. ASSUME TL <= rel
      PROVE  n # 0 /\ SearchedBase(time, base + TL) = SearchedBase(time, base)
  <2>1. n # 0
    BY <1>1, <1>3, <1>4, <1>6
  <2> DEFINE m == n - 1
             x == rel - TL
             nt == n * TL
  <2>2. m \in Int /\ x \in Int /\ m * TL = nt - TL /\ nt \in Int
    BY <1>1, <1>3, Z3T(30)
  <2>3. nt <= rel /\ rel < nt + TL
    BY <1>3
  <2> HIDE DEF nt
  <2>4. m * TL <= x /\ x < m * TL + TL
    <3> HIDE DEF m
    <3> QED
      BY <1>1, <2>2, <2>3
  <2>5. x \div TL = m
    <3> HIDE DEF x, m
    <3> QED
      BY <1>1, <2>2, <2>4, DivisionUnique
  <2>6. time - (base + TL) = x
    BY <1>1
  <2>7. SearchedBase(time, base + TL) = base + TL + m * TL
    BY <2>5, <2>6 DEF SearchedBase, Laps, TL
  <2>8. base + TL + m * TL = base + nt
    <3> HIDE DEF m
    <3> QED
      BY <1>1, <2>2
  <2> QED
    BY <1>2, <2>1, <2>7, <2>8 DEF nt
<1> QED
  BY <1>2, <1>5, <1>6 DEF TL

\* The first line, from one on, whose successor lies after rel.
Stops(i, rel, from) ==
  /\ Line(i + 1).time > rel
  /\ \A j \in from..(i - 1) : Line(j + 1).time <= rel
FirstLine(rel, from) == CHOOSE i \in from..(NumLines - 2) : Stops(i, rel, from)

LEMMA FirstLineIs ==
  ASSUME NEW rel \in Nat, rel < TraceLength, NEW from \in 0..(NumLines - 2)
  PROVE  /\ FirstLine(rel, from) \in from..(NumLines - 2)
         /\ Line(from + 1).time > rel => FirstLine(rel, from) = from
         /\ ~ (Line(from + 1).time > rel) =>
              /\ from + 1 \in 0..(NumLines - 2)
              /\ FirstLine(rel, from) = FirstLine(rel, from + 1)
<1> DEFINE to == NumLines - 2
<1>1. to \in Nat /\ NumLines \in Nat /\ \A i \in 0..to : Line(i + 1).time \in Nat
  <2>1. NumLines \in Nat /\ NumLines > 2
    BY TraceFacts
  <2>2. \A i \in 0..to : i + 1 \in 0..(NumLines - 1)
    BY <2>1
  <2> QED
    BY <2>1, <2>2, TraceFacts
<1>2. Line(to + 1).time > rel
  <2>1. to + 1 = NumLines - 1 /\ TraceLength \in Nat
    BY <1>1, TraceFacts
  <2> QED
    BY <2>1 DEF TraceLength
<1> HIDE DEF to
<1>3. ASSUME NEW f \in 0..to
      PROVE  FirstLine(rel, f) \in f..to /\ Stops(FirstLine(rel, f), rel, f)
  <2> DEFINE S == {i \in 0..to : Line(i + 1).time > rel}
  <2>1. to \in f..to /\ to \in S /\ f \in Nat
    BY <1>1, <1>2
  <2> HIDE DEF S
  <2>2. PICK i \in f..to : i \in S /\ \A j \in f..(i - 1) : j \notin S
    BY <1>1, <2>1, FirstInInterval
  <2>3. ASSUME NEW j \in f..(i - 1)
        PROVE  Line(j + 1).time <= rel
    <3>1. j \in 0..to /\ j \notin S
      BY <1>1, <2>1, <2>2
    <3> QED
      BY <1>1, <3>1 DEF S
  <2>4. Stops(i, rel, f)
    BY <2>2, <2>3 DEF Stops, S
  <2>5. \E k \in f..to : Stops(k, rel, f)
    BY <2>4
  <2> QED
    BY <2>5 DEF FirstLine, to
<1>4. ASSUME NEW f \in 0..to, NEW i \in f..to, Stops(i, rel, f)
      PROVE  FirstLine(rel, f) = i
  <2> DEFINE k == FirstLine(rel, f)
  <2>1. k \in f..to /\ Stops(k, rel, f)
    BY <1>3
  <2> HIDE DEF k
  <2>2. i \in 0..to /\ k \in 0..to /\ Line(i + 1).time \in Nat /\ Line(k + 1).time \in Nat
    BY <1>1, <2>1
  <2>3. ~ (i < k)
    <3>1. i < k => i \in f..(k - 1)
      BY <2>1, <2>2
    <3> QED
      BY <1>4, <2>1, <2>2, <3>1 DEF Stops
  <2>4. ~ (k < i)
    <3>1. k < i => k \in f..(i - 1)
      BY <2>1, <2>2
    <3> QED
      BY <1>4, <2>1, <2>2, <3>1 DEF Stops
  <2>5. k = i
    BY <2>2, <2>3, <2>4
  <2> QED
    BY <2>5 DEF k
<1>5. from \in 0..to
  BY DEF to
<1>6. ASSUME Line(from + 1).time > rel
      PROVE  FirstLine(rel, from) = from
  <2>1. from \in from..to /\ from..(from - 1) = {}
    BY <1>1, <1>5
  <2>2. Stops(from, rel, from)
    BY <1>6, <2>1 DEF Stops
  <2> QED
    BY <1>4, <1>5, <2>1, <2>2
<1>7. ASSUME ~ (Line(from + 1).time > rel)
      PROVE  from + 1 \in 0..to /\ FirstLine(rel, from) = FirstLine(rel, from + 1)
  <2>1. from # to
    BY <1>2, <1>7
  <2>2. from + 1 \in 0..to
    BY <1>1, <1>5, <2>1
  <2> DEFINE k == FirstLine(rel, from + 1)
  <2>3. k \in (from + 1)..to /\ Stops(k, rel, from + 1)
    BY <1>3, <2>2
  <2> HIDE DEF k
  <2>4. k \in from..to /\ \A j \in from..(k - 1) : j = from \/ j \in (from + 1)..(k - 1)
    BY <1>1, <1>5, <2>3
  <2>5. Line(from + 1).time <= rel
    BY <1>1, <1>5, <1>7
  <2>6. Stops(k, rel, from)
    BY <2>3, <2>4, <2>5 DEF Stops
  <2>7. FirstLine(rel, from) = k
    BY <1>4, <1>5, <2>4, <2>6
  <2> QED
    BY <2>2, <2>7 DEF k
<1> QED
  BY <1>3, <1>5, <1>6, <1>7 DEF to

\* Where the search for a line ends, from any line and base.
SearchStates(time) == [line : 0..(NumLines - 2), base : 0..time]
SearchEnd(time, s) ==
  [line |-> FirstLine(time - SearchedBase(time, s.base), IF Laps(time, s.base) = 0 THEN s.line ELSE 0),
   base |-> SearchedBase(time, s.base)]

\* The next turn of the loop.
NextSearch(s) ==
  IF s.line + 1 >= NumLines - 1
  THEN [line |-> 0, base |-> s.base + Line(s.line + 1).time]
  ELSE [line |-> s.line + 1, base |-> s.base]

\* A turn of the loop does not change where the search ends.
LEMMA SearchTurn ==
  ASSUME NEW time \in Nat, NEW s \in SearchStates(time)
  PROVE  /\ Line(s.line + 1).time > time - s.base => SearchEnd(time, s) = s
         /\ ~ (Line(s.line + 1).time > time - s.base) =>
              /\ NextSearch(s) \in SearchStates(time)
              /\ SearchEnd(time, s) = SearchEnd(time, NextSearch(s))
              /\ \/ NextSearch(s).base > s.base
                 \/ NextSearch(s).base = s.base /\ NextSearch(s).line = s.line + 1
<1> DEFINE l == s.line
           b == s.base
           rel == time - b
           TL == TraceLength
<1>1. l \in 0..(NumLines - 2) /\ b \in Nat /\ b <= time /\ s = [line |-> l, base |-> b]
  BY DEF SearchStates
<1>2. NumLines \in Nat /\ NumLines > 2 /\ TL \in Nat \ {0} /\ TL = Line(NumLines - 1).time
  BY TraceFacts DEF TraceLength
<1>3. l + 1 \in 0..(NumLines - 1) /\ NumLines - 1 \in 0..(NumLines - 1) /\ l + 1 <= NumLines - 1
  BY <1>1, <1>2
<1>4. Line(l + 1).time \in Nat /\ Line(l + 1).time <= TL
  BY <1>2, <1>3, TraceFacts
<1>5. rel \in Nat /\ 0 \in 0..(NumLines - 2)
  BY <1>1, <1>2
<1>6. ASSUME Line(l + 1).time > rel
      PROVE  SearchEnd(time, s) = s
  <2>1. rel < TL
    BY <1>2, <1>4, <1>5, <1>6
  <2>2. Laps(time, b) = 0 /\ SearchedBase(time, b) = b
    BY <1>1, <2>1, LapsCount
  <2>3. FirstLine(rel, l) = l
    BY <1>1, <1>5, <1>6, <2>1, FirstLineIs
  <2>4. SearchEnd(time, s) = [line |-> l, base |-> b]
    BY <2>2, <2>3 DEF SearchEnd
  <2> QED
    BY <1>1, <2>4
<1>7. ASSUME ~ (Line(l + 1).time > rel), l + 1 >= NumLines - 1
      PROVE  /\ NextSearch(s) \in SearchStates(time)
             /\ SearchEnd(time, s) = SearchEnd(time, NextSearch(s))
             /\ NextSearch(s).base > s.base
  <2>1. l + 1 = NumLines - 1
    BY <1>1, <1>2, <1>7
  <2>2. Line(l + 1).time = TL
    BY <1>2, <2>1
  <2>3. TL <= rel
    BY <1>2, <1>5, <1>7, <2>2
  <2> DEFINE c == b + TL
             n == [line |-> 0, base |-> c]
  <2>4. NextSearch(s) = n
    BY <1>7, <2>2 DEF NextSearch
  <2>5. c \in 0..time /\ c \in Nat /\ c <= time /\ c > b
    BY <1>1, <1>2, <2>3
  <2>6. n \in SearchStates(time)
    BY <1>5, <2>5 DEF SearchStates
  <2>7. Laps(time, b) # 0 /\ SearchedBase(time, c) = SearchedBase(time, b)
    BY <1>1, <2>3, LapsCount
  <2> HIDE DEF c
  <2>8. SearchEnd(time, n) = SearchEnd(time, s)
    BY <2>7 DEF SearchEnd
  <2> QED
    BY <2>4, <2>5, <2>6, <2>8
<1>8. ASSUME ~ (Line(l + 1).time > rel), ~ (l + 1 >= NumLines - 1)
      PROVE  /\ NextSearch(s) \in SearchStates(time)
             /\ SearchEnd(time, s) = SearchEnd(time, NextSearch(s))
             /\ NextSearch(s).base = s.base /\ NextSearch(s).line = s.line + 1
  <2> DEFINE n == [line |-> l + 1, base |-> b]
  <2>1. NextSearch(s) = n
    BY <1>8 DEF NextSearch
  <2>2. l + 1 \in 0..(NumLines - 2) /\ b \in 0..time
    BY <1>1, <1>2, <1>8
  <2>3. n \in SearchStates(time)
    BY <2>2 DEF SearchStates
  <2>4. SearchEnd(time, n) = SearchEnd(time, s)
    <3>1. CASE rel < TL
      <4>1. Laps(time, b) = 0 /\ SearchedBase(time, b) = b
        BY <1>1, <3>1, LapsCount
      <4>2. FirstLine(rel, l) = FirstLine(rel, l + 1)
        BY <1>1, <1>5, <1>8, <3>1, FirstLineIs
      <4> QED
        BY <4>1, <4>2 DEF SearchEnd
    <3>2. CASE ~ (rel < TL)
      <4>1. Laps(time, b) # 0
        BY <1>1, <1>2, <1>5, <3>2, LapsCount
      <4> QED
        BY <4>1 DEF SearchEnd
    <3> QED
      BY <3>1, <3>2
  <2> QED
    BY <2>1, <2>3, <2>4
<1> QED
  BY <1>6, <1>7, <1>8

\* The loop ends where the closed form says.
LEMMA SearchLoopEnds ==
  ASSUME NEW time \in Nat, NEW s0 \in SearchStates(time)
  PROVE  SearchLoop(time)[s0] = SearchEnd(time, s0)
<1> DEFINE S == SearchStates(time)
           Going(s) == ~ (Line(s.line + 1).time > time - s.base)
           Rec(g) == [s \in S |-> IF Going(s) THEN g[NextSearch(s)] ELSE s]
           Org(g) == [s \in [line : 0..(NumLines - 2), base : 0..time] |->
                        IF Line(s.line + 1).time > time - s.base THEN s
                        ELSE IF s.line + 1 >= NumLines - 1
                             THEN g[[line |-> 0, base |-> s.base + Line(s.line + 1).time]]
                             ELSE g[[line |-> s.line + 1, base |-> s.base]]]
           h == CHOOSE g : g = Org(g)
           e == [s \in S |-> SearchEnd(time, s)]
<1>1. \A g : Org(g) = Rec(g)
  BY DEF SearchStates, NextSearch
<1>2. e = Rec(e)
  <2>1. ASSUME NEW s \in S
        PROVE  SearchEnd(time, s) = IF Going(s) THEN e[NextSearch(s)] ELSE s
    <3>1. CASE Going(s)
      <4>1. NextSearch(s) \in S /\ SearchEnd(time, s) = SearchEnd(time, NextSearch(s))
        BY <3>1, SearchTurn
      <4> QED
        BY <3>1, <4>1
    <3>2. CASE ~ Going(s)
      BY <3>2, SearchTurn
    <3> QED
      BY <3>1, <3>2
  <2> HIDE DEF S, Going
  <2> QED
    BY <2>1
<1>3. SearchLoop(time) = h
  BY DEF SearchLoop
<1>4. h = Rec(h)
  <2> HIDE DEF Rec, Org, e
  <2>1. e = Org(e)
    BY <1>1, <1>2
  <2>2. h = Org(h)
    BY <2>1
  <2> QED
    BY <1>1, <2>2
<1> HIDE DEF h, Org
<1>5. \A s \in S : h[s] = IF Going(s) THEN h[NextSearch(s)] ELSE s
  <2> HIDE DEF S, Going
  <2> QED
    BY <1>4
<1> DEFINE T == {s \in S : h[s] # SearchEnd(time, s)}
<1>6. T = {}
  <2> SUFFICES ASSUME T # {} PROVE FALSE
    OBVIOUS
  <2>1. \A s \in T : /\ s \in S /\ h[s] # SearchEnd(time, s)
                     /\ s.line \in 0..(NumLines - 2) /\ s.base \in 0..time
    BY DEF SearchStates
  <2>2. NumLines \in Nat
    BY TraceFacts
  <2> HIDE DEF T, S
  <2> DEFINE B == {time - s.base : s \in T}
  <2>3. B \subseteq Nat /\ B # {}
    BY <2>1
  <2>4. PICK x \in B : \A y \in B : x <= y
    <3> HIDE DEF B
    <3> QED
      BY <2>3, LeastNatural
  <2> DEFINE L == {NumLines - s.line : s \in {t \in T : time - t.base = x}}
  <2>5. L \subseteq Nat /\ L # {}
    BY <2>1, <2>2, <2>4
  <2>6. PICK z \in L : \A y \in L : z <= y
    <3> HIDE DEF L
    <3> QED
      BY <2>5, LeastNatural
  <2>7. PICK s \in T : time - s.base = x /\ NumLines - s.line = z
    BY <2>6
  <2> DEFINE n == NextSearch(s)
  <2>8. s \in S /\ s.line \in 0..(NumLines - 2) /\ s.base \in 0..time
    BY <2>1, <2>7
  <2>9. Going(s)
    <3>1. ~ Going(s) => h[s] = s /\ SearchEnd(time, s) = s
      BY <1>5, <2>8, SearchTurn DEF S
    <3> QED
      BY <2>1, <2>7, <3>1
  <2>10. /\ n \in S /\ SearchEnd(time, s) = SearchEnd(time, n)
         /\ n.base > s.base \/ (n.base = s.base /\ n.line = s.line + 1)
    <3>1. s \in SearchStates(time) /\ ~ (Line(s.line + 1).time > time - s.base)
      BY <2>8, <2>9 DEF S
    <3>2. /\ NextSearch(s) \in SearchStates(time)
          /\ SearchEnd(time, s) = SearchEnd(time, NextSearch(s))
          /\ \/ NextSearch(s).base > s.base
             \/ NextSearch(s).base = s.base /\ NextSearch(s).line = s.line + 1
      BY <3>1, SearchTurn
    <3> QED
      BY <3>2 DEF S
  <2>11. h[s] = h[n]
    BY <1>5, <2>8, <2>9
  <2>12. n \in T
    BY <2>1, <2>7, <2>10, <2>11 DEF T
  <2> HIDE DEF n
  <2>13. n.line \in 0..(NumLines - 2) /\ n.base \in 0..time
    BY <2>1, <2>12
  <2>14. time - n.base \in B
    BY <2>12
  <2>15. x <= time - n.base
    BY <2>4, <2>14
  <2>16. n.base = s.base /\ n.line = s.line + 1
    BY <2>7, <2>8, <2>10, <2>13, <2>15
  <2>17. NumLines - n.line \in L
    BY <2>7, <2>12, <2>16
  <2>18. z <= NumLines - n.line
    BY <2>6, <2>17
  <2> QED
    BY <2>2, <2>7, <2>8, <2>16, <2>18
<1> QED
  BY <1>3, <1>6

\* Where the search for an opportunity ends, from any one on.
Due(j, ts, from) ==
  /\ j < current_pdo_size_ => ts <= Pdo(current_delay_pdo_idx_, j)
  /\ \A k \in from..(j - 1) : ts > Pdo(current_delay_pdo_idx_, k)
DueFrom(ts, from) ==
  IF from >= current_pdo_size_ THEN from
  ELSE CHOOSE j \in from..current_pdo_size_ : Due(j, ts, from)

PdoStates == [opp : Nat, bytes : 0..PACKET_SIZE]
PdoEnd(ts, s) ==
  [opp |-> DueFrom(ts, s.opp), bytes |-> IF DueFrom(ts, s.opp) = s.opp THEN s.bytes ELSE PACKET_SIZE]

\* A turn of the loop does not change where the search ends.
LEMMA PdoTurn ==
  ASSUME DelayTypeOK, LineSound, NEW ts \in Int, NEW from \in Nat
  PROVE  /\ ~ (from < current_pdo_size_ /\ ts > Pdo(current_delay_pdo_idx_, from)) =>
              DueFrom(ts, from) = from
         /\ from < current_pdo_size_ /\ ts > Pdo(current_delay_pdo_idx_, from) =>
              DueFrom(ts, from) = DueFrom(ts, from + 1) /\ DueFrom(ts, from) # from
<1> DEFINE l == current_delay_pdo_idx_
           b == current_pdo_size_
           p(k) == Pdo(l, k)
<1>1. b \in Nat /\ \A k \in 0..(b - 1) : p(k) \in Nat
  <2>1. l \in 0..(NumLines - 2) /\ b \in Nat /\ b <= Len(Line(l).pdo)
    BY DEF DelayTypeOK, LineSound
  <2>2. l \in 0..(NumLines - 1) /\ Len(Line(l).pdo) \in Nat
    BY <2>1, TraceFacts
  <2>3. \A k \in 0..(b - 1) : k \in 0..(Len(Line(l).pdo) - 1)
    BY <2>1, <2>2
  <2> QED
    BY <2>1, <2>2, <2>3, PdoFacts
<1>2. \A j, f : Due(j, ts, f) <=> /\ j < b => ts <= p(j)
                                  /\ \A k \in f..(j - 1) : ts > p(k)
  BY DEF Due
<1>3. \A f : DueFrom(ts, f) = IF f >= b THEN f ELSE CHOOSE j \in f..b : Due(j, ts, f)
  BY DEF DueFrom
<1> HIDE DEF b, p
<1>4. ASSUME NEW f \in Nat, f < b
      PROVE  DueFrom(ts, f) \in f..b /\ Due(DueFrom(ts, f), ts, f)
  <2> DEFINE S == {j \in 0..b : j < b => ts <= p(j)}
  <2>1. b \in f..b /\ b \in S
    BY <1>1, <1>4
  <2> HIDE DEF S
  <2>2. PICK j \in f..b : j \in S /\ \A k \in f..(j - 1) : k \notin S
    BY <1>1, <2>1, FirstInInterval
  <2>3. ASSUME NEW k \in f..(j - 1)
        PROVE  ts > p(k)
    <3>1. k \in 0..(b - 1) /\ k \in 0..b /\ k < b /\ k \notin S
      BY <1>1, <2>2
    <3>2. ~ (ts <= p(k))
      BY <3>1 DEF S
    <3> QED
      BY <1>1, <3>1, <3>2
  <2>4. Due(j, ts, f)
    BY <1>2, <2>2, <2>3 DEF S
  <2>5. DueFrom(ts, f) = CHOOSE i \in f..b : Due(i, ts, f)
    BY <1>1, <1>3, <1>4
  <2> QED
    BY <2>4, <2>5
<1>5. ASSUME NEW f \in Nat, f < b, NEW j \in f..b, Due(j, ts, f)
      PROVE  DueFrom(ts, f) = j
  <2> DEFINE i == DueFrom(ts, f)
  <2>1. i \in f..b /\ Due(i, ts, f)
    BY <1>4, <1>5
  <2> HIDE DEF i
  <2>2. i \in Nat /\ j \in Nat /\ i <= b /\ j <= b
    BY <1>1, <2>1
  <2>3. ~ (i < j)
    <3>1. SUFFICES ASSUME i < j PROVE FALSE
      OBVIOUS
    <3>2. i \in f..(j - 1) /\ i < b /\ i \in 0..(b - 1)
      BY <1>1, <2>1, <2>2, <3>1
    <3>3. ts > p(i) /\ ts <= p(i) /\ p(i) \in Nat
      BY <1>1, <1>2, <1>5, <2>1, <3>2
    <3> QED
      BY <3>3
  <2>4. ~ (j < i)
    <3>1. SUFFICES ASSUME j < i PROVE FALSE
      OBVIOUS
    <3>2. j \in f..(i - 1) /\ j < b /\ j \in 0..(b - 1)
      BY <1>1, <2>1, <2>2, <3>1
    <3>3. ts > p(j) /\ ts <= p(j) /\ p(j) \in Nat
      BY <1>1, <1>2, <1>5, <2>1, <3>2
    <3> QED
      BY <3>3
  <2>5. i = j
    BY <2>2, <2>3, <2>4
  <2> QED
    BY <2>5 DEF i
<1>6. ASSUME ~ (from < b /\ ts > p(from))
      PROVE  DueFrom(ts, from) = from
  <2>1. CASE from >= b
    BY <1>3, <2>1
  <2>2. CASE from < b
    <3>1. from \in from..b /\ from..(from - 1) = {} /\ from \in 0..(b - 1)
      BY <1>1, <2>2
    <3>2. p(from) \in Nat
      BY <1>1, <3>1
    <3>3. ts <= p(from)
      BY <1>6, <2>2, <3>2
    <3>4. Due(from, ts, from)
      BY <1>2, <3>1, <3>3
    <3> QED
      BY <1>5, <2>2, <3>1, <3>4
  <2> QED
    BY <1>1, <2>1, <2>2
<1>7. ASSUME from < b, ts > p(from)
      PROVE  DueFrom(ts, from) = DueFrom(ts, from + 1) /\ DueFrom(ts, from) # from
  <2> DEFINE j == DueFrom(ts, from + 1)
  <2>1. j \in (from + 1)..b /\ Due(j, ts, from + 1)
    <3>1. CASE from + 1 >= b
      <4>1. from + 1 = b /\ b..(b - 1) = {} /\ ~ (b < b)
        BY <1>1, <1>7, <3>1
      <4>2. j = b /\ b \in b..b
        BY <1>1, <1>3, <3>1, <4>1
      <4> HIDE DEF j
      <4>3. Due(b, ts, b)
        BY <1>2, <4>1
      <4> QED
        BY <4>1, <4>2, <4>3
    <3>2. CASE ~ (from + 1 >= b)
      <4>1. from + 1 \in Nat /\ from + 1 < b
        BY <1>1, <3>2
      <4> QED
        BY <1>4, <4>1
    <3> QED
      BY <3>1, <3>2
  <2> HIDE DEF j
  <2>2. /\ j \in from..b /\ j # from
        /\ \A k \in from..(j - 1) : k = from \/ k \in (from + 1)..(j - 1)
    BY <1>1, <2>1
  <2>3. Due(j, ts, from)
    BY <1>2, <1>7, <2>1, <2>2
  <2>4. DueFrom(ts, from) = j
    BY <1>5, <1>7, <2>2, <2>3
  <2> QED
    BY <2>2, <2>4 DEF j
<1> QED
  BY <1>6, <1>7 DEF b, p

\* The loop ends where the closed form says.
LEMMA PdoLoopEnds ==
  ASSUME DelayTypeOK, LineSound, NEW ts \in Int, NEW s0 \in PdoStates
  PROVE  PdoLoop(ts)[s0] = PdoEnd(ts, s0)
<1> DEFINE S == PdoStates
           b == current_pdo_size_
           Going(s) == s.opp < current_pdo_size_ /\ ts > Pdo(current_delay_pdo_idx_, s.opp)
           Next1(s) == [opp |-> s.opp + 1, bytes |-> PACKET_SIZE]
           Rec(g) == [s \in S |-> IF Going(s) THEN g[Next1(s)] ELSE s]
           h == CHOOSE g : g = Rec(g)
           e == [s \in S |-> PdoEnd(ts, s)]
<1>1. ASSUME NEW s \in S
      PROVE  /\ s.opp \in Nat /\ Next1(s) \in S
             /\ Going(s) => PdoEnd(ts, s) = PdoEnd(ts, Next1(s))
             /\ ~ Going(s) => PdoEnd(ts, s) = s
  <2>1. s.opp \in Nat /\ s.bytes \in 0..PACKET_SIZE /\ s = [opp |-> s.opp, bytes |-> s.bytes]
    BY DEF PdoStates
  <2>2. Next1(s) \in S
    BY <2>1, PacketAssumption DEF PdoStates
  <2>3. ASSUME Going(s)
        PROVE  PdoEnd(ts, s) = PdoEnd(ts, Next1(s))
    <3>1. DueFrom(ts, s.opp) = DueFrom(ts, s.opp + 1) /\ DueFrom(ts, s.opp) # s.opp
      BY <2>1, <2>3, PdoTurn
    <3>2. Next1(s).opp = s.opp + 1 /\ Next1(s).bytes = PACKET_SIZE
      OBVIOUS
    <3> HIDE DEF Next1
    <3> QED
      BY <3>1, <3>2 DEF PdoEnd
  <2>4. ASSUME ~ Going(s)
        PROVE  PdoEnd(ts, s) = s
    <3>1. DueFrom(ts, s.opp) = s.opp
      BY <2>1, <2>4, PdoTurn
    <3> QED
      BY <2>1, <3>1 DEF PdoEnd
  <2> QED
    BY <2>1, <2>2, <2>3, <2>4
<1>2. e = Rec(e)
  <2> HIDE DEF S, Going, Next1
  <2>1. \A s \in S : PdoEnd(ts, s) = IF Going(s) THEN e[Next1(s)] ELSE s
    BY <1>1
  <2> QED
    BY <2>1
<1>3. PdoLoop(ts) = h
  BY DEF PdoLoop, PdoStates
<1>4. h = Rec(h)
  <2> HIDE DEF Rec, e
  <2> QED
    BY <1>2
<1> HIDE DEF h
<1>5. \A s \in S : h[s] = IF Going(s) THEN h[Next1(s)] ELSE s
  <2> HIDE DEF S, Going, Next1
  <2> QED
    BY <1>4
<1> DEFINE T == {s \in S : h[s] # PdoEnd(ts, s)}
<1>6. T = {}
  <2> SUFFICES ASSUME T # {} PROVE FALSE
    OBVIOUS
  <2>1. b \in Nat
    BY DEF DelayTypeOK
  <2>2. ASSUME NEW s \in T
        PROVE  Going(s) /\ Next1(s) \in T /\ s.opp \in Nat
    <3>1. s \in S /\ h[s] # PdoEnd(ts, s)
      OBVIOUS
    <3> HIDE DEF S
    <3>2. Going(s)
      <4> HIDE DEF Going, Next1
      <4> QED
        BY <1>1, <1>5, <3>1
    <3>3. h[s] = h[Next1(s)] /\ PdoEnd(ts, s) = PdoEnd(ts, Next1(s)) /\ Next1(s) \in S
      <4> HIDE DEF Going, Next1
      <4> QED
        BY <1>1, <1>5, <3>1, <3>2
    <3> QED
      BY <1>1, <3>1, <3>2, <3>3
  <2> HIDE DEF T
  <2>3. ASSUME NEW s \in T
        PROVE  b - s.opp \in Nat
    <3>1. s.opp \in Nat /\ s.opp < b
      BY <2>2
    <3> QED
      BY <2>1, <3>1
  <2> DEFINE B == {b - s.opp : s \in T}
  <2>4. B \subseteq Nat /\ B # {}
    BY <2>3
  <2>5. PICK x \in B : \A y \in B : x <= y
    <3> HIDE DEF B
    <3> QED
      BY <2>4, LeastNatural
  <2>6. PICK s \in T : b - s.opp = x
    BY <2>5
  <2>7. Next1(s) \in T /\ s.opp \in Nat
    BY <2>2
  <2>8. b - (s.opp + 1) \in B
    <3>1. Next1(s).opp = s.opp + 1
      OBVIOUS
    <3> QED
      BY <2>7, <3>1
  <2>9. x <= b - (s.opp + 1)
    BY <2>5, <2>8
  <2> QED
    BY <2>1, <2>6, <2>7, <2>9
<1> QED
  BY <1>3, <1>6

-----------------------------------------------------------------------------
(* The delay queue under a clock *)

\* What every reader of the queue finds: nothing of it lies in the future.
DelayServiceInv ==
  /\ DelayInv
  /\ clock \in Nat
  /\ TraceStartedBy(clock)
  /\ ~ start_tick_ => delay_base_timestamp_ = 0

LEMMA DelayServiceInvHolds == DelayServiceSpec => []DelayServiceInv
<1>1. DelayServiceInit => DelayServiceInv
  <2> SUFFICES ASSUME DelayServiceInit
               PROVE  DelayServiceInv
    OBVIOUS
  <2>1. DelayInit /\ clock = 0
    BY DEF DelayServiceInit
  <2> QED
    BY <2>1, DelayInitInv DEF DelayServiceInv, DelayInit
<1>2. DelayServiceInv /\ [DelayServiceNext]_delayServiceVars => DelayServiceInv'
  <2> SUFFICES ASSUME DelayServiceInv, [DelayServiceNext]_delayServiceVars
               PROVE  DelayServiceInv'
    OBVIOUS
  <2>1. DelayInv /\ clock \in Nat /\ TraceStartedBy(clock) /\ (~ start_tick_ => delay_base_timestamp_ = 0)
    BY DEF DelayServiceInv
  <2>2. CASE UNCHANGED delayVars /\ clock' \in Nat /\ clock' >= clock
    <3>1. DelayInv'
      BY <2>1, <2>2, DelayUntouched
    <3>2. UNCHANGED <<start_tick_, delay_base_timestamp_, pdo_base_timestamp_>>
      BY <2>2 DEF delayVars, lightVars
    <3>3. delay_base_timestamp_ \in Nat /\ pdo_base_timestamp_ \in Nat
      BY <2>1 DEF DelayInv, DelayTypeOK
    <3>4. TraceStartedBy(clock)'
      BY <2>1, <2>2, <3>2, <3>3 DEF TraceStartedBy
    <3> QED
      BY <2>1, <2>2, <3>1, <3>2, <3>4 DEF DelayServiceInv
  <2>3. CASE Read
    <3>1. PICK size \in Sizes : read_packet(size, clock)
      BY <2>3 DEF Read
    <3>2. clock' = clock
      BY <2>3 DEF Read
    <3>3. DelayInv' /\ TraceStartedBy(clock)' /\ start_tick_' = TRUE
      BY <2>1, <3>1, <3>2, ReadKeepsDelayInv DEF TraceStartedBy
    <3> QED
      BY <2>1, <3>2, <3>3 DEF DelayServiceInv
  <2>4. CASE Release
    <3>1. /\ delay_packet_queue_ # {} /\ pop_delay_queue /\ clock' = clock
          /\ UNCHANGED <<start_tick_, delay_base_timestamp_, pdo_base_timestamp_>>
      BY <2>4 DEF Release, ReleaseDue, pop_delay_queue, lightVars
    <3>2. DelayInv'
      BY <2>1, <3>1, PopKeepsDelayInv
    <3> QED
      BY <2>1, <3>1, <3>2 DEF DelayServiceInv, TraceStartedBy
  <2>5. ClockTick \/ UNCHANGED delayServiceVars => UNCHANGED delayVars /\ clock' \in Nat /\ clock' >= clock
    BY <2>1 DEF ClockTick, delayServiceVars
  <2> QED
    BY <2>2, <2>3, <2>4, <2>5 DEF DelayServiceNext, AtBound
<1> QED
  BY <1>1, <1>2, PTL DEF DelayServiceSpec

\* For every trace, at every time and wherever the two cursors stand: what the
\* loops of get_pkt_release_time_from_trace compute are the closed forms
\* SearchedLine, SearchedBase, DueOpportunity and DueBytes, of which the other
\* theorems speak.
THEOREM SearchesAreTheLoops == DelayServiceSpec => []SearchesMatchLoops
<1>1. DelayServiceInv => SearchesMatchLoops
  <2> SUFFICES ASSUME DelayServiceInv
               PROVE  SearchesMatchLoops
    OBVIOUS
  <2> DEFINE base == delay_base_timestamp_
             ts == SinceShortTrace(clock, base)
             s == [line |-> current_delay_pdo_idx_, base |-> base]
             o == [opp |-> current_pdo_idx_, bytes |-> curr_delivery_opportunity_]
  <2>1. /\ DelayTypeOK /\ LineSound /\ clock \in Nat /\ base \in Nat /\ pdo_base_timestamp_ \in Nat
        /\ current_delay_pdo_idx_ \in 0..(NumLines - 2)
    BY DEF DelayServiceInv, DelayInv, DelayTypeOK
  <2>2. base <= clock
    BY <2>1 DEF DelayServiceInv, TraceStartedBy
  <2>3. ts \in Int
    BY <2>1 DEF SinceShortTrace
  <2>4. s \in SearchStates(clock)
    BY <2>1, <2>2 DEF SearchStates
  <2>5. o \in PdoStates
    BY <2>1 DEF PdoStates, DelayTypeOK
  <2>6. SearchEnd(clock, s) = [line |-> SearchedLine(clock, base), base |-> SearchedBase(clock, base)]
    BY DEF SearchEnd, FirstLine, Stops, SearchedLine
  <2>7. DueFrom(ts, current_pdo_idx_) = DueOpportunity(ts)
    BY DEF DueFrom, Due, DueOpportunity
  <2> HIDE DEF ts
  <2>8. PdoEnd(ts, o) = [opp |-> DueOpportunity(ts), bytes |-> DueBytes(ts)]
    BY <2>7 DEF PdoEnd, DueBytes
  <2>9. SearchLoop(clock)[s] = SearchEnd(clock, s)
    BY <2>1, <2>4, SearchLoopEnds
  <2>10. PdoLoop(ts)[o] = PdoEnd(ts, o)
    BY <2>1, <2>3, <2>5, PdoLoopEnds
  <2> QED
    BY <2>6, <2>8, <2>9, <2>10 DEF SearchesMatchLoops, ts
<1> QED
  BY <1>1, DelayServiceInvHolds, PTL

-----------------------------------------------------------------------------
(* The bytes of light packets *)

LogEntries ==
  [start : Nat, delay : Int, line : 0..(NumLines - 2), release : Nat, light : BOOLEAN, size : Nat]

\* Every sequence of naturals has partial sums.
LEMMA PartialSums ==
  ASSUME NEW m \in Nat, NEW w \in [1..m -> Nat]
  PROVE  \E f \in [0..m -> Nat] : f[0] = 0 /\ \A n \in 1..m : f[n] = f[n - 1] + w[n]
<1> DEFINE Sums(k) == \E f \in [0..k -> Nat] : f[0] = 0 /\ \A n \in 1..k : f[n] = f[n - 1] + w[n]
           T == {k \in 0..m : ~ Sums(k)}
<1>1. Sums(0)
  <2> DEFINE f == [n \in 0..0 |-> 0]
  <2>1. f \in [0..0 -> Nat] /\ f[0] = 0 /\ 1..0 = {}
    OBVIOUS
  <2> HIDE DEF f
  <2> QED
    BY <2>1
<1>2. ASSUME NEW k \in 1..m, Sums(k - 1)
      PROVE  Sums(k)
  <2>1. PICK f \in [0..(k - 1) -> Nat] :
          f[0] = 0 /\ \A n \in 1..(k - 1) : f[n] = f[n - 1] + w[n]
    BY <1>2
  <2> DEFINE g == [n \in 0..k |-> IF n = k THEN f[k - 1] + w[k] ELSE f[n]]
  <2>2. k - 1 \in 0..(k - 1) /\ \A n \in 0..k : n # k => n \in 0..(k - 1)
    OBVIOUS
  <2>3. f[k - 1] \in Nat /\ w[k] \in Nat
    BY <2>2
  <2>4. g \in [0..k -> Nat]
    BY <2>2, <2>3
  <2>5. g[0] = 0 /\ g[k] = f[k - 1] + w[k] /\ \A n \in 0..(k - 1) : g[n] = f[n]
    BY <2>1
  <2> HIDE DEF g
  <2>6. ASSUME NEW n \in 1..k
        PROVE  g[n] = g[n - 1] + w[n]
    <3>1. CASE n = k
      BY <2>2, <2>5, <3>1
    <3>2. CASE n # k
      <4>1. n \in 1..(k - 1) /\ n \in 0..(k - 1) /\ n - 1 \in 0..(k - 1)
        BY <3>2
      <4> QED
        BY <2>1, <2>5, <4>1
    <3> QED
      BY <3>1, <3>2
  <2> QED
    BY <2>4, <2>5, <2>6
<1> HIDE DEF Sums
<1>3. T = {}
  <2> SUFFICES ASSUME T # {} PROVE FALSE
    OBVIOUS
  <2>1. PICK x \in T : \A y \in T : x <= y
    <3>1. T \subseteq Nat
      OBVIOUS
    <3> HIDE DEF T
    <3> QED
      BY <3>1, LeastNatural
  <2>2. x \in 0..m /\ ~ Sums(x)
    OBVIOUS
  <2>3. x \in 1..m /\ x - 1 \in 0..m /\ ~ (x <= x - 1)
    BY <1>1, <2>2
  <2>4. Sums(x - 1)
    BY <2>1, <2>3
  <2> QED
    BY <1>2, <2>2, <2>3, <2>4
<1>4. Sums(m)
  BY <1>3
<1> QED
  BY <1>4 DEF Sums

LEMMA LightBytesType ==
  ASSUME NEW x \in LogEntries, NEW e
  PROVE  LightBytes(x, e) \in Nat
BY DEF LightBytes, LogEntries

\* f[n] is the number of bytes of the first n entries.
Totals(f, entries, e) ==
  /\ f \in [0..Len(entries) -> Nat] /\ f[0] = 0
  /\ \A n \in 1..Len(entries) : f[n] = f[n - 1] + LightBytes(entries[n], e)

\* There is one such function, and its last value is the total.
LEMMA TotalIsLast ==
  ASSUME NEW entries \in Seq(LogEntries), NEW e, NEW f, Totals(f, entries, e)
  PROVE  TotalLightBytes(entries, e) = f[Len(entries)]
<1> DEFINE m == Len(entries)
           b(n) == LightBytes(entries[n], e)
           Rec(g) == [n \in 0..m |-> IF n = 0 THEN 0 ELSE g[n - 1] + b(n)]
           h == CHOOSE g : g = Rec(g)
<1>1. m \in Nat
  BY LenProperties
<1>2. f \in [0..m -> Nat] /\ f[0] = 0 /\ \A n \in 1..m : f[n] = f[n - 1] + b(n)
  BY DEF Totals
<1>3. TotalLightBytes(entries, e) = h[m]
  BY DEF TotalLightBytes
<1> HIDE DEF m, b
<1>4. f = Rec(f)
  <2>1. f = [n \in 0..m |-> f[n]]
    BY <1>2
  <2>2. \A n \in 0..m : f[n] = IF n = 0 THEN 0 ELSE f[n - 1] + b(n)
    BY <1>1, <1>2
  <2> QED
    BY <2>1, <2>2
<1>5. h = Rec(h)
  BY <1>4
<1> HIDE DEF h
<1>6. h[0] = 0 /\ \A n \in 1..m : h[n] = h[n - 1] + b(n)
  BY <1>1, <1>5
<1> DEFINE T == {n \in 0..m : h[n] # f[n]}
<1>7. T = {}
  <2> SUFFICES ASSUME T # {} PROVE FALSE
    OBVIOUS
  <2>1. PICK x \in T : \A y \in T : x <= y
    <3>1. T \subseteq Nat
      BY <1>1
    <3> HIDE DEF T
    <3> QED
      BY <3>1, LeastNatural
  <2>2. x \in 1..m
    BY <1>1, <1>2, <1>6
  <2>3. x - 1 \notin T /\ x - 1 \in 0..m
    BY <1>1, <2>1, <2>2
  <2>4. h[x - 1] = f[x - 1]
    BY <2>3
  <2>5. h[x] = f[x]
    BY <1>2, <1>6, <2>2, <2>4
  <2> QED
    BY <2>5
<1>8. h[m] = f[m]
  BY <1>1, <1>7
<1> QED
  BY <1>3, <1>8 DEF m

\* One more entry adds its bytes.
LEMMA TotalAppend ==
  ASSUME NEW entries \in Seq(LogEntries), NEW x \in LogEntries, NEW e
  PROVE  /\ TotalLightBytes(entries, e) \in Nat
         /\ TotalLightBytes(Append(entries, x), e) = TotalLightBytes(entries, e) + LightBytes(x, e)
<1> DEFINE m == Len(entries)
           more == Append(entries, x)
           w == [n \in 1..(m + 1) |-> LightBytes(more[n], e)]
<1>1. /\ m \in Nat /\ more \in Seq(LogEntries) /\ Len(more) = m + 1 /\ more[m + 1] = x
      /\ \A n \in 1..m : more[n] = entries[n]
  BY AppendProperties, LenProperties
<1> HIDE DEF m, more
<1>2. \A n \in 1..(m + 1) : LightBytes(more[n], e) \in Nat
  <2>1. \A n \in 1..(m + 1) : more[n] \in LogEntries
    BY <1>1, ElementOfSeq
  <2> QED
    BY <2>1, LightBytesType
<1>3. w \in [1..(m + 1) -> Nat] /\ \A n \in 1..(m + 1) : w[n] = LightBytes(more[n], e)
  BY <1>2
<1> HIDE DEF w
<1>4. PICK f \in [0..(m + 1) -> Nat] : f[0] = 0 /\ \A n \in 1..(m + 1) : f[n] = f[n - 1] + w[n]
  <2>1. m + 1 \in Nat
    BY <1>1
  <2> QED
    BY <1>3, <2>1, PartialSums
<1>5. Totals(f, more, e)
  BY <1>1, <1>3, <1>4 DEF Totals
<1> DEFINE g == [n \in 0..m |-> f[n]]
<1>6. Totals(g, entries, e)
  <2>1. /\ g \in [0..m -> Nat] /\ g[0] = 0 /\ \A n \in 0..m : g[n] = f[n]
    BY <1>1, <1>4
  <2> HIDE DEF g
  <2>2. ASSUME NEW n \in 1..m
        PROVE  g[n] = g[n - 1] + LightBytes(entries[n], e)
    <3>1. n \in 1..(m + 1) /\ n \in 0..m /\ n - 1 \in 0..m
      BY <1>1
    <3> QED
      BY <1>1, <1>3, <1>4, <2>1, <3>1
  <2> QED
    BY <2>1, <2>2 DEF Totals, m
<1>7. g[m] = f[m] /\ f[m] \in Nat /\ f[m + 1] = f[m] + LightBytes(x, e)
  <2>1. m \in 0..m /\ m \in 0..(m + 1) /\ m + 1 \in 1..(m + 1) /\ (m + 1) - 1 = m
    BY <1>1
  <2> QED
    BY <1>1, <1>3, <1>4, <2>1
<1>8. TotalLightBytes(entries, e) = g[m]
  <2> HIDE DEF g
  <2> QED
    BY <1>6, TotalIsLast DEF m
<1>9. TotalLightBytes(more, e) = f[m + 1]
  BY <1>1, <1>5, TotalIsLast
<1> QED
  BY <1>7, <1>8, <1>9 DEF more

LEMMA TotalOfNone ==
  ASSUME NEW e
  PROVE  TotalLightBytes(<<>>, e) = 0
<1> DEFINE f == [n \in 0..0 |-> 0]
<1>1. <<>> \in Seq(LogEntries) /\ Len(<<>>) = 0
  BY EmptySeq
<1>2. f \in [0..0 -> Nat] /\ f[0] = 0 /\ 1..0 = {}
  OBVIOUS
<1> HIDE DEF f
<1>3. Totals(f, <<>>, e)
  BY <1>1, <1>2 DEF Totals
<1> QED
  BY <1>1, <1>2, <1>3, TotalIsLast

\* The opportunities of a release time, up to one of the line.
Used(e, k) == {j \in Slots(e) : j <= k}

LEMMA SlotsCount ==
  ASSUME NEW e, e.line \in 0..(NumLines - 2), NEW k \in Int, NEW i \in Int, k <= i
  PROVE  /\ Cardinality(Used(e, k)) \in Nat
         /\ Cardinality(Used(e, k)) <= Cardinality(Used(e, i))
         /\ Cardinality(Used(e, k)) <= Cardinality(Slots(e))
         /\ Cardinality(Slots(e)) \in Nat
         /\ k < i /\ i \in Slots(e) => Cardinality(Used(e, k)) + 1 <= Cardinality(Used(e, i))
<1> DEFINE L == Len(Line(e.line).pdo)
<1>1. L \in Nat
  <2>1. e.line \in 0..(NumLines - 1)
    BY TraceFacts
  <2> QED
    BY <2>1, TraceFacts
<1>2. Slots(e) \subseteq 0..(L - 1)
  BY DEF Slots
<1>3. IsFiniteSet(0..(L - 1))
  <2>1. 0 \in Int /\ L - 1 \in Int
    BY <1>1
  <2> QED
    BY <2>1, FS_Interval
<1>4. IsFiniteSet(Slots(e)) /\ Cardinality(Slots(e)) \in Nat
  BY <1>2, <1>3, FS_Subset, FS_CardinalityType
<1>5. \A j \in Slots(e) : j \in Int
  BY <1>2
<1>6. Used(e, i) \subseteq Slots(e) /\ Used(e, k) \subseteq Used(e, i) /\ Used(e, k) \subseteq Slots(e)
  BY <1>5 DEF Used
<1>7. /\ IsFiniteSet(Used(e, i)) /\ IsFiniteSet(Used(e, k))
      /\ Cardinality(Used(e, k)) \in Nat /\ Cardinality(Used(e, i)) \in Nat
      /\ Cardinality(Used(e, k)) <= Cardinality(Slots(e))
  BY <1>4, <1>6, FS_Subset, FS_CardinalityType
<1>8. Cardinality(Used(e, k)) <= Cardinality(Used(e, i))
  BY <1>6, <1>7, FS_Subset
<1>9. ASSUME k < i, i \in Slots(e)
      PROVE  Cardinality(Used(e, k)) + 1 <= Cardinality(Used(e, i))
  <2> DEFINE U == Used(e, k) \cup {i}
  <2>1. i \notin Used(e, k)
    BY <1>9 DEF Used
  <2>2. U \subseteq Used(e, i)
    BY <1>6, <1>9 DEF Used
  <2>3. Cardinality(U) = Cardinality(Used(e, k)) + 1
    BY <1>7, <2>1, FS_AddElement
  <2> HIDE DEF U
  <2>4. Cardinality(U) <= Cardinality(Used(e, i))
    BY <1>7, <2>2, FS_Subset
  <2> QED
    BY <2>3, <2>4
<1> QED
  BY <1>4, <1>7, <1>8, <1>9

\* Arithmetic of opportunities of a fixed size.
LEMMA FactorGrows ==
  ASSUME NEW a \in Nat, NEW c \in Nat, NEW d \in Nat
  PROVE  /\ a * c \in Nat /\ a * (c + 1) = a * c + a
         /\ c <= d => a * c <= a * d
BY Z3T(30)

\* A packet takes opportunity t, of which left bytes were free, or a later one
\* than k: the bytes of a release time fit into its opportunities as before.
LEMMA RateStep ==
  ASSUME NEW e, e.line \in 0..(NumLines - 2), NEW total \in Nat, NEW bytes \in Nat,
         NEW size \in 0..PACKET_SIZE, NEW k \in Int, NEW t \in Int, NEW left \in Nat, NEW rest \in Nat,
         total + (IF k \in Slots(e) THEN left ELSE 0) <= PACKET_SIZE * Cardinality(Used(e, k)),
         bytes = 0 \/ (bytes = size /\ t \in Slots(e)),
         (t = k /\ rest = left - size) \/ (t > k /\ rest = PACKET_SIZE - size)
  PROVE  total + bytes + (IF t \in Slots(e) THEN rest ELSE 0) <= PACKET_SIZE * Cardinality(Used(e, t))
<1> DEFINE c == Cardinality(Used(e, k))
           d == Cardinality(Used(e, t))
           P == PACKET_SIZE
           pc1 == P * c
           pd1 == P * d
<1>1. P \in Nat /\ k <= t
  BY PacketAssumption
<1>2. c \in Nat /\ d \in Nat /\ c <= d /\ (k < t /\ t \in Slots(e) => c + 1 <= d)
  <2>1. c \in Nat /\ c <= d /\ (k < t /\ t \in Slots(e) => c + 1 <= d)
    BY <1>1, SlotsCount
  <2>2. d \in Nat
    <3>1. t <= t
      OBVIOUS
    <3> QED
      BY <3>1, SlotsCount
  <2> QED
    BY <2>1, <2>2
<1> HIDE DEF c, d
<1>3. pc1 \in Nat /\ pd1 \in Nat /\ pc1 <= pd1 /\ P * (c + 1) = pc1 + P
  BY <1>1, <1>2, FactorGrows
<1>4. c + 1 <= d => pc1 + P <= pd1
  <2>1. c + 1 \in Nat
    BY <1>2
  <2>2. c + 1 <= d => P * (c + 1) <= P * d
    BY <1>1, <1>2, <2>1, FactorGrows
  <2> QED
    BY <1>3, <2>2
<1>5. total + (IF k \in Slots(e) THEN left ELSE 0) <= pc1
  BY DEF c
<1> HIDE DEF pc1, pd1, P
<1>6. size \in Nat /\ size <= P
  BY <1>1 DEF P
<1>7. ASSUME t = k, rest = left - size
      PROVE  total + bytes + (IF t \in Slots(e) THEN rest ELSE 0) <= pd1
  BY <1>3, <1>5, <1>6, <1>7
<1>8. ASSUME t > k, rest = P - size
      PROVE  total + bytes + (IF t \in Slots(e) THEN rest ELSE 0) <= pd1
  BY <1>1, <1>2, <1>3, <1>4, <1>5, <1>6, <1>8
<1>9. total + bytes + (IF t \in Slots(e) THEN rest ELSE 0) <= pd1
  BY <1>7, <1>8 DEF P
<1> QED
  BY <1>9 DEF pd1, P, d

-----------------------------------------------------------------------------
(* What a packet takes of the light opportunities *)

\* Every line begins with an opportunity for its first packet.
LinesBeginAtZero == \A i \in 0..(NumLines - 1) : Pdo(i, 0) = 0

NoSizeOffsets == psize_latency_offset_ = <<>>

\* When the short PDO trace in use started.
TraceStart == delay_base_timestamp_ + pdo_base_timestamp_

\* The last release time is not before that of the trace's first packet, and
\* the timer that is added to it does not overflow.
Promised ==
  start_tick_ => /\ last_delay_queue_release_time_ >= TraceStart + current_base_delay_
                 /\ last_delay_queue_release_time_ + long_to_short_timer_ < WORD

\* Without offsets a packet is promised what the trace gives, unless it is held
\* back, and then it is not light.
LEMMA PromiseStored ==
  ASSUME NoSizeOffsets, NEW size, NEW r \in 0..(WORD - 1), NEW light \in BOOLEAN,
         finish_read(size, r, light)
  PROVE  last_delay_queue_release_time_' = r /\ (bypass_link_pdo_' => light /\ end_release_time_' = r)
<1>1. latency_offset(size) = 0
  BY EmptySeq DEF NoSizeOffsets, latency_offset
<1>2. r + latency_offset(size) = r /\ U64(r) = r
  <2>1. WORD \in Nat
    BY TraceAssumption
  <2> QED
    BY <1>1, <2>1, U64Type
<1>3. WithOffset(r, size) = r
  BY <1>2 DEF WithOffset
<1> QED
  BY <1>3 DEF finish_read, store_packet

\* Sums of a time, a delay and an opportunity do not wrap around.
LEMMA PlainSum ==
  ASSUME NoSizeOffsets, FarFromWrap(MaxTime + long_to_short_timer_), NEW size, ValidSize(size),
         NEW now \in Nat, now <= MaxTime,
         NEW k \in 0..(NumLines - 1), NEW i \in 0..(NumLines - 1),
         NEW j \in 0..(Len(Line(i).pdo) - 1),
         NEW x \in Nat, x <= now + Line(k).delay + Pdo(i, j)
  PROVE  x \in 0..(WORD - 1) /\ U64(x) = x /\ x + long_to_short_timer_ < WORD
<1>1. Line(k).delay \in Nat /\ Pdo(i, j) \in Nat
  BY TraceFacts, PdoFacts
<1>2. size \in sizeof_iphdr..PACKET_SIZE /\ latency_offset(size) = 0
  BY EmptySeq DEF ValidSize, NoSizeOffsets, latency_offset
<1>3. MaxTime + long_to_short_timer_ + Line(k).delay + Pdo(i, j) + latency_offset(size) < WORD
  BY <1>2 DEF FarFromWrap
<1>4. MaxTime \in Nat /\ long_to_short_timer_ \in Nat /\ WORD \in Nat
  BY ClockAssumption, TraceAssumption
<1> DEFINE d == Line(k).delay
           o == Pdo(i, j)
<1>5. x <= now + d + o /\ d \in Nat /\ o \in Nat /\ MaxTime + long_to_short_timer_ + d + o + 0 < WORD
  BY <1>1, <1>2, <1>3
<1> HIDE DEF d, o
<1>6. x \in 0..(WORD - 1) /\ x + long_to_short_timer_ < WORD
  BY <1>4, <1>5
<1> QED
  BY <1>6, U64Type

\* The delay in use is that of some line, at most.
LEMMA DelayInUse ==
  ASSUME DelayTypeOK, BaseDelayInterpolated, start_tick_
  PROVE  /\ current_base_delay_ \in Nat
         /\ \E k \in 0..(NumLines - 1) : current_base_delay_ <= Line(k).delay
<1>1. current_delay_pdo_idx_ \in 0..(NumLines - 2)
  BY DEF DelayTypeOK
<1>2. current_base_delay_ \in
        Between(Line(current_delay_pdo_idx_).delay, Line(current_delay_pdo_idx_ + 1).delay)
  BY DEF BaseDelayInterpolated, Between
<1> QED
  BY <1>1, <1>2, DelayOfSomeLine

\* A short PDO trace is not followed by another one in the same ms.
LEMMA NewTraceLater ==
  ASSUME DelayServiceInv, BaseDelayInterpolated, Promised, start_tick_,
         start_new_short_pdo_trace(clock)
  PROVE  TraceStart < clock
<1> DEFINE bd == current_base_delay_
           last == last_delay_queue_release_time_
           start == TraceStart
           timer == long_to_short_timer_
<1>1. /\ DelayTypeOK /\ clock \in Nat /\ start \in Nat /\ start <= clock /\ last \in Nat
  BY DEF DelayServiceInv, DelayInv, DelayTypeOK, TraceStartedBy, TraceStart
<1>2. bd \in Nat
  BY <1>1, DelayInUse
<1>3. last >= start + bd /\ last + timer < WORD /\ timer \in Nat /\ WORD \in Nat
  BY TraceAssumption DEF Promised
<1>4. U64(clock + bd) > U64(last + timer)
  BY <1>2 DEF start_new_short_pdo_trace
<1> HIDE DEF start, bd, last, timer
<1>5. ASSUME start = clock
      PROVE  FALSE
  <2>1. clock + bd \in 0..(WORD - 1) /\ last + timer \in 0..(WORD - 1)
    BY <1>1, <1>2, <1>3, <1>5
  <2>2. U64(clock + bd) = clock + bd /\ U64(last + timer) = last + timer
    BY <1>3, <2>1, U64Type
  <2> QED
    BY <1>1, <1>2, <1>3, <1>4, <1>5, <2>2
<1>6. start < clock
  BY <1>1, <1>5
<1> QED
  BY <1>6 DEF start

\* The opportunity taken of the trace in use: the current one, with its rest,
\* or a fresh one.
LEMMA TakenOfTrace ==
  ASSUME DelayInv, NEW ts \in Int, NEW size
  PROVE  \/ /\ TakenOpportunity(ts, size) = current_pdo_idx_
            /\ TakenBytes(ts, size) = curr_delivery_opportunity_
         \/ /\ TakenOpportunity(ts, size) > current_pdo_idx_
            /\ TakenBytes(ts, size) = PACKET_SIZE
<1> DEFINE due == DueOpportunity(ts)
           idx == current_pdo_idx_
<1>1. idx \in Nat /\ due \in Nat /\ due >= idx
  BY DueOpportunityFound DEF DelayInv, DelayTypeOK, LineSound
<1> HIDE DEF due, idx
<1>2. CASE DueBytes(ts) < size
  <2>1. TakenOpportunity(ts, size) = due + 1 /\ TakenBytes(ts, size) = PACKET_SIZE
    BY <1>2 DEF TakenOpportunity, TakenBytes, due
  <2>2. due + 1 > idx
    BY <1>1
  <2> QED
    BY <2>1, <2>2 DEF idx
<1>3. CASE ~ (DueBytes(ts) < size)
  <2>1. TakenOpportunity(ts, size) = due /\ TakenBytes(ts, size) = DueBytes(ts)
    BY <1>3 DEF TakenOpportunity, TakenBytes, due
  <2>2. due = idx \/ due > idx
    BY <1>1
  <2>3. DueBytes(ts) = IF due = idx THEN curr_delivery_opportunity_ ELSE PACKET_SIZE
    BY DEF DueBytes, due, idx
  <2> QED
    BY <1>1, <2>1, <2>2, <2>3 DEF idx
<1> QED
  BY <1>2, <1>3

\* What the trace after the packet says of the packet, by the opportunity taken.
TakenLight ==
  /\ bypass_link_pdo_ =>
       /\ current_pdo_idx_ \in 0..(Len(Line(current_delay_pdo_idx_).pdo) - 1)
       /\ end_release_time_ = TraceStart + current_base_delay_ + Pdo(current_delay_pdo_idx_, current_pdo_idx_)
  /\ Promised

\* The first packet of a new short PDO trace takes the first opportunity of it.
LEMMA NewTraceTakes ==
  ASSUME DelayServiceInv, BaseDelayInterpolated, Promised, FirstLineAtZero, LinesBeginAtZero,
         NoSizeOffsets, FarFromWrap(MaxTime + long_to_short_timer_), clock <= MaxTime,
         NEW size, ValidSize(size), start_tick_' = TRUE,
         NEW base, base = IF start_tick_ THEN delay_base_timestamp_ ELSE clock,
         NEW d \in InterpolatedDelay(SearchedLine(clock, base), clock - SearchedBase(clock, base)),
         new_short_pdo_trace(clock, base, size, d), finish_read(size, U64(clock + d), TRUE)
  PROVE  /\ TakenLight'
         /\ TraceStart' = clock
         /\ current_pdo_idx_' = 0 /\ curr_delivery_opportunity_' = PACKET_SIZE - size
<1> DEFINE b == SearchedBase(clock, base)
           l == SearchedLine(clock, base)
<1>1. DelayInv /\ clock \in Nat /\ TraceStartedBy(clock)
  BY DEF DelayServiceInv
<1>2. base \in Nat /\ base <= clock /\ (start_tick_ => base = delay_base_timestamp_)
  BY <1>1, ReadBase
<1>3. /\ BaseDelayInterpolated' /\ current_base_delay_' = d
      /\ current_delay_pdo_idx_' \in 0..(NumLines - 2)
  BY <1>1, <1>2, NewTraceStep
<1>4. /\ current_delay_pdo_idx_' = l /\ delay_base_timestamp_' = b
      /\ pdo_base_timestamp_' = clock - b /\ current_pdo_idx_' = 0
      /\ curr_delivery_opportunity_' = PACKET_SIZE - size
  BY DEF new_short_pdo_trace
<1>5. b \in Nat
  BY <1>1, <1>2, SearchedBaseBounds
<1> HIDE DEF b, l
<1>6. TraceStart' = clock
  <2>1. b + (clock - b) = clock
    BY <1>1, <1>5
  <2> QED
    BY <1>4, <2>1 DEF TraceStart
<1>7. d \in Nat /\ \E k \in 0..(NumLines - 1) : d <= Line(k).delay
  <2>1. d \in Between(Line(l).delay, Line(l + 1).delay)
    BY <1>3, <1>4 DEF BaseDelayInterpolated, Between, Line
  <2> QED
    BY <1>3, <1>4, <2>1, DelayOfSomeLine
<1>8. PICK k \in 0..(NumLines - 1) : d <= Line(k).delay
  BY <1>7
<1>9. /\ l \in 0..(NumLines - 1) /\ 0 \in 0..(Len(Line(l).pdo) - 1) /\ Pdo(l, 0) = 0
      /\ Line(k).delay \in Nat
  <2>1. l \in 0..(NumLines - 1)
    BY <1>3, <1>4, TraceFacts
  <2>2. Len(Line(l).pdo) \in Nat \ {0} /\ Line(k).delay \in Nat
    BY <2>1, TraceFacts
  <2> QED
    BY <2>1, <2>2 DEF LinesBeginAtZero
<1> DEFINE x == clock + d
<1>10. x \in Nat /\ x <= clock + Line(k).delay + Pdo(l, 0)
  BY <1>1, <1>7, <1>8, <1>9
<1> HIDE DEF x
<1>11. x \in 0..(WORD - 1) /\ U64(x) = x /\ x + long_to_short_timer_ < WORD
  BY <1>1, <1>9, <1>10, PlainSum
<1>12. finish_read(size, x, TRUE)
  BY <1>11 DEF x
<1>13. last_delay_queue_release_time_' = x /\ (bypass_link_pdo_' => end_release_time_' = x)
  BY <1>11, <1>12, PromiseStored
<1>14. Promised'
  <2>1. TraceStart' + current_base_delay_' = x
    BY <1>3, <1>6 DEF x
  <2>2. x >= x
    BY <1>10
  <2> QED
    BY <1>11, <1>13, <2>1, <2>2 DEF Promised
<1>15. bypass_link_pdo_' =>
         /\ current_pdo_idx_' \in 0..(Len(Line(current_delay_pdo_idx_').pdo) - 1)
         /\ end_release_time_' = TraceStart' + current_base_delay_'
                                   + Pdo(current_delay_pdo_idx_', current_pdo_idx_')
  <2>1. TraceStart' + current_base_delay_' + Pdo(l, 0) = x
    BY <1>1, <1>3, <1>6, <1>7, <1>9 DEF x
  <2> QED
    BY <1>4, <1>9, <1>13, <2>1
<1> QED
  BY <1>4, <1>6, <1>14, <1>15 DEF TakenLight, Line, Pdo

\* Another packet of the short PDO trace takes the rest of its opportunity, or a
\* fresh one.
LEMMA CurrentTraceTakes ==
  ASSUME DelayServiceInv, BaseDelayInterpolated, Promised,
         NoSizeOffsets, FarFromWrap(MaxTime + long_to_short_timer_), clock <= MaxTime,
         NEW size, ValidSize(size), start_tick_, start_tick_' = TRUE,
         NEW ts, ts = SinceShortTrace(clock, delay_base_timestamp_),
         current_short_pdo_trace(delay_base_timestamp_, ts, size),
         finish_read(size, CurrentRelease(clock, ts, size), StillLight(ts, size))
  PROVE  /\ TakenLight'
         /\ TraceStart' = TraceStart
         /\ UNCHANGED <<current_base_delay_, current_delay_pdo_idx_>>
         /\ \/ /\ current_pdo_idx_' = current_pdo_idx_
               /\ curr_delivery_opportunity_' = curr_delivery_opportunity_ - size
            \/ /\ current_pdo_idx_' > current_pdo_idx_
               /\ curr_delivery_opportunity_' = PACKET_SIZE - size
<1> DEFINE l == current_delay_pdo_idx_
           bd == current_base_delay_
           start == TraceStart
           got == TakenOpportunity(ts, size)
           L == Len(Line(l).pdo)
           r == CurrentRelease(clock, ts, size)
           light == StillLight(ts, size)
<1>1. /\ DelayInv /\ DelayTypeOK /\ clock \in Nat /\ start \in Nat /\ start <= clock
      /\ l \in 0..(NumLines - 2)
  BY DEF DelayServiceInv, DelayInv, DelayTypeOK, TraceStartedBy, TraceStart
<1>2. ts = clock - start /\ ts \in Int /\ 0 <= ts
  <2>1. delay_base_timestamp_ \in Nat /\ pdo_base_timestamp_ \in Nat
    BY <1>1 DEF DelayTypeOK
  <2> QED
    BY <1>1, <2>1 DEF SinceShortTrace, TraceStart
<1>3. bd \in Nat /\ \E k \in 0..(NumLines - 1) : bd <= Line(k).delay
  BY <1>1, DelayInUse
<1>4. PICK k \in 0..(NumLines - 1) : bd <= Line(k).delay
  BY <1>3
<1>5. /\ current_pdo_idx_' = got /\ curr_delivery_opportunity_' = TakenBytes(ts, size) - size
      /\ TraceStart' = TraceStart /\ UNCHANGED <<current_base_delay_, current_delay_pdo_idx_>>
  BY DEF current_short_pdo_trace, TraceStart
<1>6. \/ got = current_pdo_idx_ /\ TakenBytes(ts, size) = curr_delivery_opportunity_
      \/ got > current_pdo_idx_ /\ TakenBytes(ts, size) = PACKET_SIZE
  BY <1>1, <1>2, TakenOfTrace
<1>7. /\ light \in BOOLEAN
      /\ light => got \in 0..(L - 1) /\ ts <= Pdo(l, got) /\ Pdo(l, got) \in Nat
      /\ Pdo(l, current_pdo_size_ - 1) \in Nat
  BY <1>1, <1>2, OpportunityTaken, CurrentReleaseType
<1>8. l \in 0..(NumLines - 1) /\ current_pdo_size_ - 1 \in 0..(L - 1) /\ Line(k).delay \in Nat
  <2>1. l \in 0..(NumLines - 1)
    BY <1>1, TraceFacts
  <2>2. L \in Nat /\ Line(k).delay \in Nat
    BY <2>1, TraceFacts
  <2>3. current_pdo_size_ \in Nat \ {0} /\ current_pdo_size_ <= L
    BY <1>1 DEF DelayInv, DelayTypeOK, LineSound
  <2> QED
    BY <2>1, <2>2, <2>3
<1> HIDE DEF start, got, bd
<1>9. /\ r \in 0..(WORD - 1) /\ r + long_to_short_timer_ < WORD /\ r >= start + bd
      /\ light => r = start + bd + Pdo(l, got)
  <2>1. CASE light
    <3> DEFINE o == Pdo(l, got)
               x == start + bd + o
               e == Line(k).delay
    <3>1. got \in 0..(L - 1) /\ o \in Nat /\ e \in Nat /\ bd <= e
      BY <1>4, <1>7, <1>8, <2>1
    <3>2. r = U64(clock + bd + (o - ts))
      BY <2>1 DEF CurrentRelease, got, bd
    <3> HIDE DEF o, e
    <3>3. /\ x \in Nat /\ clock + bd + (o - ts) = x /\ x <= clock + e + o /\ x >= start + bd
      BY <1>1, <1>2, <1>3, <3>1
    <3> HIDE DEF x
    <3>4. x \in 0..(WORD - 1) /\ U64(x) = x /\ x + long_to_short_timer_ < WORD
      BY <1>1, <1>8, <3>1, <3>3, PlainSum DEF o, e
    <3> QED
      BY <3>2, <3>3, <3>4 DEF x, o
  <2>2. CASE ~ light
    <3> DEFINE o == Pdo(l, current_pdo_size_ - 1)
               x == clock + bd
               y == clock + o
               e == Line(k).delay
    <3>1. r = IF U64(x) < U64(y) THEN U64(y) ELSE U64(x)
      BY <2>2 DEF CurrentRelease, bd
    <3>2. o \in Nat /\ e \in Nat /\ bd <= e
      BY <1>4, <1>7, <1>8
    <3> HIDE DEF o, e
    <3>3. /\ x \in Nat /\ y \in Nat /\ x <= clock + e + o /\ y <= clock + e + o /\ x >= start + bd
          /\ start + bd \in Nat
      BY <1>1, <1>3, <3>2
    <3> HIDE DEF x, y
    <3>4. /\ x \in 0..(WORD - 1) /\ U64(x) = x /\ x + long_to_short_timer_ < WORD
          /\ y \in 0..(WORD - 1) /\ U64(y) = y /\ y + long_to_short_timer_ < WORD
      BY <1>1, <1>8, <3>3, PlainSum DEF o, e
    <3>5. \/ r = x
          \/ r = y /\ x < y
      BY <3>1, <3>4
    <3>6. r >= start + bd
      BY <3>3, <3>5
    <3> HIDE DEF r
    <3> QED
      BY <2>2, <3>4, <3>5, <3>6
  <2> QED
    BY <1>7, <2>1, <2>2
<1> HIDE DEF r, light
<1>10. /\ last_delay_queue_release_time_' = r
       /\ bypass_link_pdo_' => light /\ end_release_time_' = r
  <2>1. finish_read(size, r, light)
    BY DEF r, light
  <2> QED
    BY <1>7, <1>9, <2>1, PromiseStored
<1>11. Promised'
  BY <1>5, <1>9, <1>10 DEF Promised, start, bd
<1>12. bypass_link_pdo_' =>
         /\ current_pdo_idx_' \in 0..(Len(Line(current_delay_pdo_idx_').pdo) - 1)
         /\ end_release_time_' = TraceStart' + current_base_delay_'
                                   + Pdo(current_delay_pdo_idx_', current_pdo_idx_')
  BY <1>5, <1>7, <1>9, <1>10 DEF start, bd
<1> QED
  BY <1>5, <1>6, <1>11, <1>12 DEF TakenLight, Line, Pdo

-----------------------------------------------------------------------------
(* The light opportunities hold the light packets *)

\* e belongs to the short PDO trace in use.
InUse(e) ==
  e.start = TraceStart /\ e.delay = current_base_delay_ /\ e.line = current_delay_pdo_idx_

\* What is left of opportunity k belongs to its release time too: the packets
\* so far and the rest fit into the opportunities up to k.
Fits(entries, e, k, left) ==
  TotalLightBytes(entries, e) + (IF k \in Slots(e) THEN left ELSE 0)
    <= PACKET_SIZE * Cardinality(Used(e, k))

\* The log holds packets of the trace in use and of the ones before it.
LogSound ==
  /\ log \in Seq(LogEntries)
  /\ ~ start_tick_ => log = <<>>
  /\ \A n \in DOMAIN log :
       log[n].start <= TraceStart /\ (log[n].start = TraceStart => InUse(log[n]))

\* The trace in use has its bytes left, the ones before it were not exceeded,
\* and nothing is taken from those to come.
CurrentFits ==
  start_tick_ =>
    \A e \in LogEntries : InUse(e) => Fits(log, e, current_pdo_idx_, curr_delivery_opportunity_)

EndedFit ==
  \A n \in DOMAIN log :
    log[n].start < TraceStart =>
      TotalLightBytes(log, log[n]) <= PACKET_SIZE * Cardinality(Slots(log[n]))

FutureFree ==
  \A e \in LogEntries : (start_tick_ => e.start > TraceStart) => TotalLightBytes(log, e) = 0

RateInv ==
  /\ DelayServiceInv /\ clock <= MaxTime
  /\ BaseDelayInterpolated /\ Promised
  /\ LogSound /\ CurrentFits /\ EndedFit /\ FutureFree

\* Packets and rest together bound the packets.
LEMMA FitsBounds ==
  ASSUME NEW entries \in Seq(LogEntries), NEW e \in LogEntries, NEW k \in Int, NEW left \in Nat,
         TotalLightBytes(entries, e) \in Nat, Fits(entries, e, k, left)
  PROVE  TotalLightBytes(entries, e) <= PACKET_SIZE * Cardinality(Slots(e))
<1> DEFINE c == Cardinality(Used(e, k))
           d == Cardinality(Slots(e))
           total == TotalLightBytes(entries, e)
<1>1. e.line \in 0..(NumLines - 2) /\ k <= k
  BY DEF LogEntries
<1>2. c \in Nat /\ d \in Nat /\ c <= d
  BY <1>1, SlotsCount
<1>3. PACKET_SIZE \in Nat
  BY PacketAssumption
<1>4. total + (IF k \in Slots(e) THEN left ELSE 0) <= PACKET_SIZE * c /\ total \in Nat
  BY DEF Fits
<1> HIDE DEF c, d, total
<1> DEFINE pc1 == PACKET_SIZE * c
           pd1 == PACKET_SIZE * d
<1>5. pc1 \in Nat /\ pd1 \in Nat /\ pc1 <= pd1 /\ total + (IF k \in Slots(e) THEN left ELSE 0) <= pc1
  BY <1>2, <1>3, <1>4, FactorGrows
<1> HIDE DEF pc1, pd1
<1>6. total <= pd1
  BY <1>4, <1>5
<1> QED
  BY <1>6 DEF pd1, d, total

LEMMA LogTotal ==
  ASSUME NEW entries \in Seq(LogEntries), NEW e
  PROVE  TotalLightBytes(entries, e) \in Nat
<1>1. [start |-> 0, delay |-> 0, line |-> 0, release |-> 0, light |-> FALSE, size |-> 0] \in LogEntries
  BY TraceFacts DEF LogEntries
<1> QED
  BY <1>1, TotalAppend

\* A packet is logged: it opens a new short PDO trace or belongs to the one in
\* use, and either way its bytes are within an opportunity.
LEMMA LoggedKeepsRate ==
  ASSUME DelayInv, DelayTypeOK', TraceStart \in Nat, TraceStart' \in Nat,
         LogSound, CurrentFits, EndedFit, FutureFree,
         start_tick_' = TRUE, NEW size, ValidSize(size),
         NEW x \in LogEntries, InUse(x)', x.size = size, x.light = bypass_link_pdo_',
         x.release = end_release_time_', log' = Append(log, x), TakenLight',
         \/ /\ start_tick_ => TraceStart < TraceStart'
            /\ current_pdo_idx_' = 0 /\ curr_delivery_opportunity_' = PACKET_SIZE - size
         \/ /\ start_tick_ /\ TraceStart' = TraceStart
            /\ UNCHANGED <<current_base_delay_, current_delay_pdo_idx_>>
            /\ \/ /\ current_pdo_idx_' = current_pdo_idx_
                  /\ curr_delivery_opportunity_' = curr_delivery_opportunity_ - size
               \/ /\ current_pdo_idx_' > current_pdo_idx_
                  /\ curr_delivery_opportunity_' = PACKET_SIZE - size
  PROVE  LogSound' /\ CurrentFits' /\ EndedFit' /\ FutureFree'
<1> DEFINE start == TraceStart
           startp == TraceStart'
           n1 == Len(log) + 1
<1>1. /\ start \in Nat /\ startp \in Nat /\ (start_tick_ => start <= startp)
      /\ x.start = startp /\ x.delay = current_base_delay_' /\ x.line = current_delay_pdo_idx_'
  <2>1. startp \in Nat
    OBVIOUS
  <2>2. x.start = startp /\ x.delay = current_base_delay_' /\ x.line = current_delay_pdo_idx_'
    BY DEF InUse
  <2> QED
    BY <2>1, <2>2
<1>2. /\ log \in Seq(LogEntries) /\ (~ start_tick_ => log = <<>>)
      /\ \A n \in DOMAIN log : log[n].start <= start /\ (log[n].start = start => InUse(log[n]))
  BY DEF LogSound
<1>3. /\ log' \in Seq(LogEntries) /\ DOMAIN log = 1..Len(log) /\ DOMAIN log' = 1..n1
      /\ Len(log) \in Nat /\ log'[n1] = x /\ \A n \in DOMAIN log : log'[n] = log[n]
  BY <1>2, AppendProperties, LenProperties
<1>4. \A n \in DOMAIN log' : n = n1 \/ (n \in DOMAIN log /\ log'[n] = log[n])
  BY <1>3
<1>5. \A n \in DOMAIN log : start_tick_
  BY <1>2, <1>3
<1>6. \A n \in DOMAIN log : log[n] \in LogEntries /\ log[n].start \in Nat
  <2>1. \A n \in DOMAIN log : log[n] \in LogEntries
    BY <1>2, <1>3, ElementOfSeq
  <2> QED
    BY <2>1 DEF LogEntries
<1>7. \A e : /\ TotalLightBytes(log, e) \in Nat
             /\ TotalLightBytes(log', e) = TotalLightBytes(log, e) + LightBytes(x, e)
  BY <1>2, TotalAppend, Zenon
<1>8. \A e : e.start # startp => LightBytes(x, e) = 0
  BY <1>1 DEF LightBytes
<1>9. \A e : e.start # startp => TotalLightBytes(log', e) = TotalLightBytes(log, e)
  BY <1>7, <1>8
<1>10. LogSound'
  <2>1. ASSUME NEW n \in DOMAIN log'
        PROVE  log'[n].start <= startp /\ (log'[n].start = startp => InUse(log[n])')
    <3>1. CASE n = n1
      BY <1>1, <1>3, <3>1
    <3>2. CASE n \in DOMAIN log /\ log'[n] = log[n]
      <4>1. log[n].start <= start /\ log[n].start \in Nat /\ start <= startp
        BY <1>1, <1>2, <1>5, <1>6, <3>2
      <4>2. log[n].start <= startp
        BY <1>1, <4>1
      <4>3. ASSUME log[n].start = startp
            PROVE  InUse(log[n])'
        <5>1. start = startp
          BY <1>1, <4>1, <4>3
        <5>2. InUse(log[n])
          BY <1>2, <3>2, <4>3, <5>1
        <5>3. UNCHANGED <<current_base_delay_, current_delay_pdo_idx_>>
          BY <1>1, <1>5, <3>2, <5>1
        <5>4. log'[n] = log[n]
          BY <3>2
        <5> QED
          BY <5>1, <5>2, <5>3, <5>4 DEF InUse
      <4> QED
        BY <3>2, <4>2, <4>3
    <3> QED
      BY <1>4, <3>1, <3>2
  <2> QED
    BY <1>3, <2>1 DEF LogSound
<1>11. EndedFit'
  <2>1. ASSUME NEW n \in DOMAIN log', log'[n].start < startp
        PROVE  TotalLightBytes(log', log'[n]) <= PACKET_SIZE * Cardinality(Slots(log'[n]))
    <3>1. n \in DOMAIN log /\ log'[n] = log[n] /\ n # n1
      BY <1>1, <1>3, <1>4, <2>1
    <3>2. log[n] \in LogEntries /\ log[n].start \in Nat /\ log[n].start <= start /\ start_tick_
      BY <1>2, <1>5, <1>6, <3>1
    <3>3. log[n].start # startp
      BY <1>1, <2>1, <3>1, <3>2
    <3>4. TotalLightBytes(log, log[n]) <= PACKET_SIZE * Cardinality(Slots(log[n]))
      <4>1. CASE log[n].start < start
        BY <3>1, <4>1 DEF EndedFit
      <4>2. CASE log[n].start = start
        <5>1. Fits(log, log[n], current_pdo_idx_, curr_delivery_opportunity_)
          BY <1>2, <3>1, <3>2, <4>2 DEF CurrentFits
        <5>2. current_pdo_idx_ \in Int /\ curr_delivery_opportunity_ \in Nat
          BY PacketAssumption DEF DelayInv, DelayTypeOK
        <5> QED
          BY <1>2, <1>7, <3>2, <5>1, <5>2, FitsBounds
      <4> QED
        BY <1>1, <3>2, <4>1, <4>2
    <3> QED
      BY <1>9, <3>1, <3>3, <3>4
  <2> QED
    BY <2>1 DEF EndedFit
<1>12. FutureFree'
  <2>1. ASSUME NEW e \in LogEntries, e.start > startp
        PROVE  TotalLightBytes(log', e) = 0
    <3>1. e.start \in Nat
      BY DEF LogEntries
    <3>2. e.start # startp /\ (start_tick_ => e.start > start)
      BY <1>1, <2>1, <3>1
    <3>3. TotalLightBytes(log, e) = 0
      BY <3>2 DEF FutureFree
    <3> QED
      BY <1>9, <3>2, <3>3
  <2> QED
    BY <2>1 DEF FutureFree
<1>13. CurrentFits'
  <2> SUFFICES ASSUME NEW e \in LogEntries, e.start = startp, e.delay = current_base_delay_',
                      e.line = current_delay_pdo_idx_'
               PROVE  Fits(log', e, current_pdo_idx_', curr_delivery_opportunity_')
    BY DEF CurrentFits, InUse
  <2> DEFINE total == TotalLightBytes(log, e)
             bytes == LightBytes(x, e)
             t == current_pdo_idx_'
             rest == curr_delivery_opportunity_'
             l == current_delay_pdo_idx_'
  <2>1. /\ e.line \in 0..(NumLines - 2) /\ size \in 0..PACKET_SIZE /\ t \in Nat /\ t \in Int /\ rest \in Nat
    <3>1. size \in 0..PACKET_SIZE
      BY PacketAssumption, TraceAssumption DEF ValidSize
    <3>2. t \in Nat /\ rest \in Nat
      BY PacketAssumption DEF DelayTypeOK
    <3> QED
      BY <3>1, <3>2 DEF LogEntries
  <2>2. total \in Nat /\ TotalLightBytes(log', e) = total + bytes
    BY <1>7
  <2>3. bytes = 0 \/ (bytes = size /\ t \in Slots(e))
    <3>1. CASE x.light /\ x.release = e.release
      <4>1. bypass_link_pdo_'
        BY <3>1
      <4>2. /\ t \in 0..(Len(Line(l).pdo) - 1)
            /\ end_release_time_' = startp + current_base_delay_' + Pdo(l, t)
        BY <4>1 DEF TakenLight, Line, Pdo
      <4>3. t \in Slots(e)
        BY <3>1, <4>2 DEF Slots
      <4>4. bytes = size \/ bytes = 0
        BY DEF LightBytes
      <4> QED
        BY <4>3, <4>4
    <3>2. CASE ~ (x.light /\ x.release = e.release)
      BY <3>2 DEF LightBytes
    <3> QED
      BY <3>1, <3>2
  <2> HIDE DEF total, bytes, t, rest
  <2>4. total + bytes + (IF t \in Slots(e) THEN rest ELSE 0) <= PACKET_SIZE * Cardinality(Used(e, t))
    <3>1. CASE start_tick_ => start < startp
      <4>1. t = 0 /\ rest = PACKET_SIZE - size
        BY <1>1, <3>1 DEF t, rest
      <4>2. total = 0
        <5>1. start_tick_ => e.start > start
          BY <1>1, <3>1
        <5> QED
          BY <5>1 DEF FutureFree, total
      <4>3. -1 \notin Slots(e) /\ Used(e, -1) = {}
        <5>1. \A j \in Slots(e) : j \in Nat
          BY DEF Slots
        <5> QED
          BY <5>1 DEF Used
      <4> DEFINE k == -1
                 left == 0
      <4>4. Cardinality(Used(e, k)) = 0
        BY <4>3, FS_EmptySet
      <4>5. total + (IF k \in Slots(e) THEN left ELSE 0) <= PACKET_SIZE * Cardinality(Used(e, k))
        <5>1. PACKET_SIZE * 0 = 0
          BY PacketAssumption
        <5> QED
          BY <4>2, <4>4, <5>1
      <4>6. k \in Int /\ left \in Nat /\ t > k
        BY <4>1
      <4> HIDE DEF k, left
      <4>7. bytes \in Nat
        BY <2>1, <2>3
      <4> QED
        BY <2>1, <2>2, <2>3, <4>1, <4>5, <4>6, <4>7, RateStep
    <3>2. CASE start_tick_ /\ startp = start /\ UNCHANGED <<current_base_delay_, current_delay_pdo_idx_>>
      <4> DEFINE k == current_pdo_idx_
                 left == curr_delivery_opportunity_
      <4>1. k \in Int /\ left \in Nat
        BY PacketAssumption DEF DelayInv, DelayTypeOK
      <4>2. Fits(log, e, k, left)
        BY <3>2 DEF CurrentFits, InUse
      <4>3. total + (IF k \in Slots(e) THEN left ELSE 0) <= PACKET_SIZE * Cardinality(Used(e, k))
        BY <4>2 DEF Fits, total
      <4>4. (t = k /\ rest = left - size) \/ (t > k /\ rest = PACKET_SIZE - size)
        BY <1>1, <3>2 DEF t, rest
      <4> HIDE DEF k, left
      <4>5. bytes \in Nat
        BY <2>1, <2>3
      <4> QED
        BY <2>1, <2>2, <2>3, <4>1, <4>3, <4>4, <4>5, RateStep
    <3> QED
      BY <3>1, <3>2
  <2> QED
    BY <2>2, <2>4 DEF Fits, t, rest
<1> QED
  BY <1>10, <1>11, <1>12, <1>13

\* A packet is read: what it is promised is logged.
LEMMA ReadKeepsRate ==
  ASSUME FirstLineAtZero, LinesBeginAtZero, NoSizeOffsets,
         FarFromWrap(MaxTime + long_to_short_timer_), RateInv, Read
  PROVE  Promised' /\ LogSound' /\ CurrentFits' /\ EndedFit' /\ FutureFree'
<1>1. /\ DelayServiceInv /\ clock <= MaxTime /\ BaseDelayInterpolated /\ Promised
      /\ LogSound /\ CurrentFits /\ EndedFit /\ FutureFree
  BY DEF RateInv
<1>2. DelayInv /\ DelayTypeOK /\ clock \in Nat /\ TraceStartedBy(clock)
  BY <1>1 DEF DelayServiceInv, DelayInv
<1> DEFINE x(size) == [start   |-> delay_base_timestamp_' + pdo_base_timestamp_',
                       delay   |-> current_base_delay_',
                       line    |-> current_delay_pdo_idx_',
                       release |-> end_release_time_',
                       light   |-> bypass_link_pdo_',
                       size    |-> size]
<1>3. PICK size \in Sizes : read_packet(size, clock) /\ log' = Append(log, x(size))
  BY DEF Read
<1> DEFINE base == IF start_tick_ THEN delay_base_timestamp_ ELSE clock
           ts == SinceShortTrace(clock, base)
           entry == x(size)
<1>4. DelayInv' /\ start_tick_' = TRUE
  BY <1>2, <1>3, ReadKeepsDelayInv
<1>5. DelayTypeOK'
  BY <1>4 DEF DelayInv
<1>6. TraceStart \in Nat /\ TraceStart' \in Nat
  <2>1. delay_base_timestamp_ \in Nat /\ pdo_base_timestamp_ \in Nat
    BY <1>2 DEF DelayTypeOK
  <2>2. delay_base_timestamp_' \in Nat /\ pdo_base_timestamp_' \in Nat
    BY <1>5, Zenon DEF DelayTypeOK
  <2>3. \A a, b \in Nat : a + b \in Nat
    OBVIOUS
  <2> QED
    BY <2>1, <2>2, <2>3, Zenon DEF TraceStart
<1>7. ValidSize(size) /\ size \in Nat
  BY <1>3, PacketAssumption DEF read_packet
<1>8. entry \in LogEntries
  <2>1. /\ current_base_delay_' \in Int /\ current_delay_pdo_idx_' \in 0..(NumLines - 2)
        /\ end_release_time_' \in Nat /\ bypass_link_pdo_' \in BOOLEAN
    BY <1>5, Zenon DEF DelayTypeOK, NumLines
  <2>2. delay_base_timestamp_' + pdo_base_timestamp_' \in Nat
    BY <1>6 DEF TraceStart
  <2> QED
    BY <1>7, <2>1, <2>2 DEF LogEntries
<1>9. /\ entry.start = TraceStart' /\ entry.delay = current_base_delay_'
      /\ entry.line = current_delay_pdo_idx_' /\ entry.size = size
      /\ entry.light = bypass_link_pdo_' /\ entry.release = end_release_time_'
  BY DEF TraceStart
<1>10. log' = Append(log, entry)
  BY <1>3
<1> HIDE DEF entry
<1>11. PICK e \in LogEntries :
         /\ e.start = TraceStart' /\ e.delay = current_base_delay_' /\ e.line = current_delay_pdo_idx_'
         /\ e.size = size /\ e.light = bypass_link_pdo_' /\ e.release = end_release_time_'
         /\ log' = Append(log, e)
  BY <1>8, <1>9, <1>10
<1>12. InUse(e)'
  BY <1>11 DEF InUse
<1>13. \/ /\ start_new_short_pdo_trace(clock)
          /\ \E d \in InterpolatedDelay(SearchedLine(clock, base), clock - SearchedBase(clock, base)) :
               new_short_pdo_trace(clock, base, size, d) /\ finish_read(size, U64(clock + d), TRUE)
       \/ /\ ~ start_new_short_pdo_trace(clock)
          /\ current_short_pdo_trace(base, ts, size)
          /\ finish_read(size, CurrentRelease(clock, ts, size), StillLight(ts, size))
  BY <1>3 DEF read_packet
<1>14. CASE start_new_short_pdo_trace(clock)
  <2>1. PICK d \in InterpolatedDelay(SearchedLine(clock, base), clock - SearchedBase(clock, base)) :
          new_short_pdo_trace(clock, base, size, d) /\ finish_read(size, U64(clock + d), TRUE)
    BY <1>13, <1>14
  <2> HIDE DEF base
  <2>2. base = IF start_tick_ THEN delay_base_timestamp_ ELSE clock
    BY DEF base
  <2>3. /\ TakenLight' /\ TraceStart' = clock
        /\ current_pdo_idx_' = 0 /\ curr_delivery_opportunity_' = PACKET_SIZE - size
    BY <1>1, <1>4, <1>7, <2>1, <2>2, NewTraceTakes
  <2>4. start_tick_ => TraceStart < TraceStart'
    BY <1>1, <1>14, <2>3, NewTraceLater
  <2>5. LogSound' /\ CurrentFits' /\ EndedFit' /\ FutureFree'
    BY <1>1, <1>2, <1>4, <1>5, <1>6, <1>7, <1>11, <1>12, <2>3, <2>4, LoggedKeepsRate
  <2> QED
    BY <2>3, <2>5 DEF TakenLight
<1>15. CASE ~ start_new_short_pdo_trace(clock)
  <2>1. start_tick_ /\ base = delay_base_timestamp_
    BY <1>2, <1>15 DEF DelayInv, LineSound, start_new_short_pdo_trace
  <2>2. /\ current_short_pdo_trace(base, ts, size)
        /\ finish_read(size, CurrentRelease(clock, ts, size), StillLight(ts, size))
    BY <1>13, <1>15
  <2>3. ts = SinceShortTrace(clock, delay_base_timestamp_)
    BY <2>1
  <2> HIDE DEF ts, base
  <2>4. /\ TakenLight' /\ TraceStart' = TraceStart
        /\ UNCHANGED <<current_base_delay_, current_delay_pdo_idx_>>
        /\ \/ /\ current_pdo_idx_' = current_pdo_idx_
              /\ curr_delivery_opportunity_' = curr_delivery_opportunity_ - size
           \/ /\ current_pdo_idx_' > current_pdo_idx_
              /\ curr_delivery_opportunity_' = PACKET_SIZE - size
    BY <1>1, <1>4, <1>7, <2>1, <2>2, <2>3, CurrentTraceTakes
  <2>5. LogSound' /\ CurrentFits' /\ EndedFit' /\ FutureFree'
    BY <1>1, <1>2, <1>4, <1>5, <1>6, <1>7, <1>11, <1>12, <2>1, <2>4, LoggedKeepsRate
  <2> QED
    BY <2>4, <2>5 DEF TakenLight
<1> QED
  BY <1>14, <1>15

\* For every trace whose first line is at time 0 and whose lines begin with an
\* opportunity at 0, without size offsets and far from the end of the range of
\* uint64_t: however packets arrive and traces succeed each other, the light
\* packets of a short PDO trace that are released at one time fit into the
\* opportunities of that time.
THEOREM LightOpportunitiesHold ==
  ASSUME FirstLineAtZero, LinesBeginAtZero, NoSizeOffsets,
         FarFromWrap(MaxTime + long_to_short_timer_)
  PROVE  DelayServiceSpec => []LightRateRespected
<1>1. DelayServiceInit /\ DelayServiceInv => RateInv
  <2> SUFFICES ASSUME DelayServiceInit, DelayServiceInv
               PROVE  RateInv
    OBVIOUS
  <2>1. DelayInit /\ log = <<>> /\ clock = 0 /\ ~ start_tick_
    BY DEF DelayServiceInit, DelayInit
  <2>2. BaseDelayInterpolated /\ Promised /\ CurrentFits
    BY <2>1, DelayInitInv DEF Promised, CurrentFits
  <2>3. clock <= MaxTime
    BY <2>1, ClockAssumption
  <2>4. DOMAIN log = {} /\ log \in Seq(LogEntries)
    BY <2>1, EmptySeq
  <2>5. LogSound /\ EndedFit
    BY <2>1, <2>4 DEF LogSound, EndedFit
  <2>6. FutureFree
    BY <2>1, TotalOfNone DEF FutureFree
  <2> QED
    BY <2>2, <2>3, <2>5, <2>6 DEF RateInv
<1>2. RateInv /\ DelayServiceInv' /\ [DelayServiceNext]_delayServiceVars => RateInv'
  <2> SUFFICES ASSUME RateInv, DelayServiceInv', [DelayServiceNext]_delayServiceVars
               PROVE  RateInv'
    OBVIOUS
  <2>1. CASE Read
    <3>1. Promised' /\ LogSound' /\ CurrentFits' /\ EndedFit' /\ FutureFree'
      BY <2>1, ReadKeepsRate
    <3>2. DelayInv /\ clock \in Nat /\ TraceStartedBy(clock) /\ BaseDelayInterpolated /\ clock <= MaxTime
      BY DEF RateInv, DelayServiceInv
    <3>3. PICK size \in Sizes : read_packet(size, clock)
      BY <2>1 DEF Read
    <3>4. BaseDelayInterpolated' /\ clock' = clock
      BY <2>1, <3>2, <3>3, ReadKeepsDelayInv DEF Read
    <3> QED
      BY <3>1, <3>2, <3>4 DEF RateInv
  <2>2. CASE /\ UNCHANGED <<lightVars, delay_base_timestamp_, start_tick_, log>>
             /\ clock' <= MaxTime
    <3>1. /\ UNCHANGED <<curr_delivery_opportunity_, current_delay_pdo_idx_, current_pdo_idx_,
                         pdo_base_timestamp_, current_base_delay_, last_delay_queue_release_time_,
                         delay_base_timestamp_, start_tick_, log>>
          /\ TraceStart' = TraceStart
      BY <2>2 DEF lightVars, TraceStart
    <3>2. BaseDelayInterpolated' /\ Promised'
      BY <3>1 DEF RateInv, BaseDelayInterpolated, Promised, Line
    <3>3. LogSound' /\ CurrentFits' /\ EndedFit' /\ FutureFree'
      BY <3>1 DEF RateInv, LogSound, CurrentFits, EndedFit, FutureFree, InUse
    <3> QED
      BY <2>2, <3>2, <3>3 DEF RateInv
  <2>3. clock <= MaxTime /\ clock \in Nat
    BY DEF RateInv, DelayServiceInv
  <2>4. CASE ClockTick
    BY <2>2, <2>3, <2>4, ClockAssumption DEF ClockTick, delayVars
  <2>5. CASE Release
    BY <2>2, <2>3, <2>5 DEF Release, pop_delay_queue
  <2>6. CASE UNCHANGED delayServiceVars
    BY <2>2, <2>3, <2>6 DEF delayServiceVars, delayVars
  <2> QED
    BY <2>1, <2>4, <2>5, <2>6 DEF DelayServiceNext, AtBound
<1>3. RateInv => LightRateRespected
  <2> SUFFICES ASSUME RateInv, NEW n \in DOMAIN log
               PROVE  TotalLightBytes(log, log[n]) <= PACKET_SIZE * Cardinality(Slots(log[n]))
    BY DEF LightRateRespected
  <2>1. /\ DelayTypeOK /\ LogSound /\ CurrentFits /\ EndedFit
    BY DEF RateInv, DelayServiceInv, DelayInv
  <2>2. log \in Seq(LogEntries) /\ start_tick_
    <3>1. DOMAIN <<>> = {}
      BY EmptySeq
    <3> QED
      BY <2>1, <3>1 DEF LogSound
  <2>3. log[n] \in LogEntries
    BY <2>2, ElementOfSeq, LenProperties
  <2>4. CASE log[n].start < TraceStart
    BY <2>1, <2>4 DEF EndedFit
  <2>5. CASE log[n].start = TraceStart
    <3>1. Fits(log, log[n], current_pdo_idx_, curr_delivery_opportunity_)
      BY <2>1, <2>2, <2>3, <2>5 DEF CurrentFits, LogSound
    <3>2. current_pdo_idx_ \in Int /\ curr_delivery_opportunity_ \in Nat
      BY <2>1, PacketAssumption DEF DelayTypeOK
    <3>3. TotalLightBytes(log, log[n]) \in Nat
      BY <2>2, LogTotal
    <3> QED
      BY <2>2, <2>3, <3>1, <3>2, <3>3, FitsBounds
  <2>6. log[n].start \in Nat /\ TraceStart \in Nat /\ log[n].start <= TraceStart
    BY <2>1, <2>3 DEF LogEntries, LogSound, DelayTypeOK, TraceStart
  <2> QED
    BY <2>4, <2>5, <2>6
<1> QED
  BY <1>1, <1>2, <1>3, DelayServiceInvHolds, PTL DEF DelayServiceSpec

=============================================================================
