---------------------------- MODULE RequestProofs ----------------------------
(***************************************************************************)
(* Proofs about what the service makes of one request: what an endorsement *)
(* costs (EndorsementPricing), which numbers it is reckoned with           *)
(* (MoneyRange), and under which key it is carried out (IdempotencyKey).   *)
(* For every term, effective date and premium, all widths of numbers, and  *)
(* any keys; by the arithmetic of rounding.                                *)
(***************************************************************************)
EXTENDS EndorsementPricing, MoneyRange, IdempotencyKey, MoneyTheorems

-----------------------------------------------------------------------------
\* Rounding to the nearest integer, ties away from zero.

LEMMA Division ==
  ASSUME NEW n \in Nat, NEW d \in Nat \ {0}
  PROVE  /\ n \div d \in Nat /\ n % d \in 0..(d - 1)
         /\ n = d * (n \div d) + (n % d)
  OBVIOUS

\* The magnitude of a rounded fraction.
Rounded(n, d) == IF (n % d) * 2 >= d THEN n \div d + 1 ELSE n \div d

LEMMA RoundedIsNear ==
  ASSUME NEW n \in Nat, NEW d \in Nat \ {0}
  PROVE  /\ Rounded(n, d) \in Nat
         /\ 2 * (d * Rounded(n, d) - n) <= d
         /\ 2 * (n - d * Rounded(n, d)) <= d
<1> DEFINE q == n \div d
           r == n % d
<1>1. q \in Nat /\ r \in Int /\ 0 <= r /\ r < d /\ n = d * q + r
  BY Division
<1>2. d * (q + 1) = d * q + d
  BY <1>1
<1> HIDE DEF q, r
<1>3. CASE r * 2 >= d
  BY <1>1, <1>2, <1>3 DEF Rounded, q, r
<1>4. CASE ~ (r * 2 >= d)
  BY <1>1, <1>4 DEF Rounded, q, r
<1> QED
  BY <1>3, <1>4

\* What is at most k times the denominator is rounded to at most k, and k
\* times the denominator to k.

LEMMA Monotone ==
  ASSUME NEW a \in Int, NEW b \in Int, NEW d \in Nat, a <= b
  PROVE  d * a <= d * b
<1>1. (b - a) \in Nat /\ b = a + (b - a)
  OBVIOUS
<1>2. d * b = d * a + d * (b - a)
  BY <1>1
<1>3. d * (b - a) >= 0
  BY <1>1
<1> QED
  BY <1>2, <1>3

\* What is at most k denominators is rounded to at most k, and k denominators
\* are rounded to k.
LEMMA RoundedIsBounded ==
  ASSUME NEW n \in Nat, NEW d \in Nat \ {0}, NEW k \in Nat, n <= d * k
  PROVE  Rounded(n, d) <= k /\ (n = d * k => Rounded(n, d) = k)
<1> DEFINE q == n \div d
           r == n % d
<1>1. q \in Nat /\ r \in Int /\ 0 <= r /\ r < d /\ n = d * q + r
  BY Division
<1> HIDE DEF q, r
<1>2. q <= k
  <2> SUFFICES ASSUME k + 1 <= q PROVE FALSE
    BY <1>1
  <2>1. d * (k + 1) <= d * q
    BY <1>1, Monotone
  <2>2. d * (k + 1) = d * k + d
    OBVIOUS
  <2> QED
    BY <1>1, <2>1, <2>2
<1>3. CASE q = k
  <2>1. d * q = d * k
    BY <1>3
  <2>2. r = 0 /\ n = d * k
    BY <1>1, <2>1
  <2> QED
    BY <1>1, <1>3, <2>2 DEF Rounded, q, r
<1>4. CASE q < k
  <2>1. d * (q + 1) <= d * k
    BY <1>1, <1>4, Monotone
  <2>2. d * (q + 1) = d * q + d
    BY <1>1
  <2>3. n < d * k
    BY <1>1, <2>1, <2>2
  <2>4. Rounded(n, d) <= q + 1
    BY <1>1 DEF Rounded, q, r
  <2> QED
    BY <1>1, <1>4, <2>3, <2>4, RoundedIsNear
<1> QED
  BY <1>1, <1>2, <1>3, <1>4

LEMMA RoundFraction ==
  ASSUME NEW n \in Int, NEW d \in Nat \ {0}
  PROVE  /\ Abs(n) \in Nat /\ Abs(-n) = Abs(n)
         /\ RoundFractionHalfAwayFromZero(n, d)
              = IF n < 0 THEN -Rounded(Abs(n), d) ELSE Rounded(Abs(n), d)
  BY DEF RoundFractionHalfAwayFromZero, Rounded, Abs

-----------------------------------------------------------------------------
\* The price of a change of the premium.

\* Undoing a change for the same days costs what the change did, negated.
LEMMA PriceIsOdd ==
  ASSUME NEW delta \in Int, NEW m \in Nat, NEW d \in Nat \ {0}
  PROVE  ProratedDelta(-delta, m, d) = -ProratedDelta(delta, m, d)
<1>1. delta * m \in Int /\ (-delta) * m = -(delta * m)
  OBVIOUS
<1> DEFINE n == delta * m
<1>2. n \in Int /\ (-delta) * m = -n
  BY <1>1
<1> HIDE DEF n
<1>3. /\ Abs(n) \in Nat /\ Abs(-n) = Abs(n) /\ Rounded(Abs(n), d) \in Nat
  BY <1>2, RoundFraction, RoundedIsNear
<1>4. n = 0 => Rounded(Abs(n), d) = 0
  <2>1. ASSUME n = 0 PROVE Rounded(Abs(n), d) = 0
    <3>1. Abs(n) = d * 0 /\ Abs(n) \in Nat
      BY <2>1 DEF Abs
    <3> QED
      BY <3>1, RoundedIsBounded
  <2> QED
    BY <2>1
<1>5. RoundFractionHalfAwayFromZero(-n, d) = -RoundFractionHalfAwayFromZero(n, d)
  BY <1>2, <1>3, <1>4, RoundFraction
<1> QED
  BY <1>2, <1>5 DEF ProratedDelta, n

\* The price is at most the annual change, has its sign, is the annual change
\* when all of the term is left, and is at most half a cent from exact
\* (calculateProration, money.ts:50-73).
THEOREM PriceIsFair ==
  ASSUME NEW delta \in Int, NEW d \in Nat \ {0}, NEW m \in 1..d
  PROVE  LET cents == ProratedDelta(delta, m, d)
         IN  /\ cents \in Int
             /\ Abs(cents) <= Abs(delta)
             /\ cents # 0 => cents * delta > 0
             /\ m = d => cents = delta
             /\ 2 * Abs(d * cents - delta * m) <= d
<1> DEFINE n == delta * m
           k == Abs(delta)
           x == Rounded(Abs(n), d)
           cents == ProratedDelta(delta, m, d)
<1>1. n \in Int /\ k \in Nat
  BY DEF Abs
<1>2. Abs(n) \in Nat /\ Abs(n) = m * k /\ (n < 0 <=> delta < 0)
  <2>1. CASE delta < 0
    <3>1. (-delta) * m = -(delta * m) /\ (-delta) * m > 0
      BY <2>1
    <3> QED
      BY <2>1, <3>1 DEF Abs
  <2>2. CASE delta >= 0
    <3>1. delta * m >= 0
      BY <2>2
    <3> QED
      BY <2>2, <3>1 DEF Abs
  <2> QED
    BY <2>1, <2>2
<1>3. Abs(n) <= d * k /\ (m = d => Abs(n) = d * k)
  <2>1. k * m <= k * d
    BY <1>1, Monotone
  <2> QED
    BY <1>1, <1>2, <2>1
<1>4. x \in Nat /\ x <= k /\ (m = d => x = k)
  BY <1>1, <1>2, <1>3, RoundedIsNear, RoundedIsBounded
<1>5. cents = IF n < 0 THEN -x ELSE x
  BY <1>1, RoundFraction DEF ProratedDelta
<1>6. 2 * (d * x - Abs(n)) <= d /\ 2 * (Abs(n) - d * x) <= d
  BY <1>2, RoundedIsNear
<1> HIDE DEF n, k, x, cents
<1>7. CASE delta < 0
  <2>1. cents = -x /\ Abs(delta) = -delta /\ Abs(n) = -n /\ k = -delta
    BY <1>1, <1>2, <1>5, <1>7 DEF Abs, k
  <2>2. Abs(cents) = x
    BY <1>4, <2>1 DEF Abs
  <2>3. d * cents = -(d * x) /\ d * x \in Int
    BY <1>4, <2>1
  <2>4. cents # 0 => cents * delta > 0
    BY <1>4, <1>7, <2>1
  <2>5. 2 * Abs(d * cents - n) <= d
    BY <1>1, <1>6, <2>1, <2>3 DEF Abs
  <2> QED
    BY <1>4, <2>1, <2>2, <2>4, <2>5 DEF cents, n, k
<1>8. CASE delta >= 0
  <2>1. cents = x /\ Abs(delta) = delta /\ Abs(n) = n /\ k = delta
    BY <1>1, <1>2, <1>5, <1>8 DEF Abs, k
  <2>2. Abs(cents) = x /\ d * x \in Int
    BY <1>4, <2>1 DEF Abs
  <2>3. cents # 0 => cents * delta > 0
    BY <1>4, <1>8, <2>1
  <2>4. 2 * Abs(d * cents - n) <= d
    BY <1>1, <1>6, <2>1, <2>2 DEF Abs
  <2> QED
    BY <1>4, <2>1, <2>2, <2>3, <2>4 DEF cents, n, k
<1> QED
  BY <1>7, <1>8

-----------------------------------------------------------------------------
\* What every behaviour keeps: each adjustment on record is the price of its
\* change for the term as the service sees it, and the last answer follows
\* from that term.

Shape == [day : Int, delta : Int, remaining : Int, termDays : Int, cents : Int]

PricedFor(t, a) ==
  /\ a.termDays = TermDays(t) /\ a.termDays > 0
  /\ a.remaining = RemainingDays(t, a.day) /\ a.remaining \in 1..a.termDays
  /\ a.cents = ProratedDelta(a.delta, a.remaining, a.termDays) /\ a.cents # 0

IInv ==
  /\ term \in Terms /\ zone \in Zones /\ premium \in Premiums
  /\ adjustments \in Seq(Shape)
  /\ \A i \in DOMAIN adjustments : PricedFor(ServiceTerm(term, zone), adjustments[i])
  /\ \/ answer = NoAnswer
     \/ /\ answer.day \in Int
        /\ answer.verdict = Verdict(ServiceTerm(term, zone), answer.day,
                                    answer.old, answer.new)

LEMMA TermType ==
  ASSUME term \in Terms, zone \in Zones
  PROVE  LET t == ServiceTerm(term, zone)
         IN  t.start \in Int /\ t.end \in Int
  BY TermsAssumption, ZonesAssumption
  DEF ServiceTerm, NormalizeDatabaseDate, LocalMidnight

LEMMA InitIInv == Init => IInv
  BY DEF Init, IInv, Shape

LEMMA QuoteIsVerdict ==
  ASSUME IInv, NEW day \in Days, NEW new \in Premiums
  PROVE  /\ Quote(day, new).day = day /\ day \in Int
         /\ Quote(day, new).verdict
              = Verdict(ServiceTerm(term, zone), Quote(day, new).day,
                        Quote(day, new).old, Quote(day, new).new)
  BY RequestsAssumption DEF Quote

LEMMA PricedIsPricedFor ==
  ASSUME IInv, NEW day \in Days, NEW new \in Premiums,
         Quote(day, new).verdict = "priced"
  PROVE  /\ Priced(day, new) \in Shape
         /\ PricedFor(ServiceTerm(term, zone), Priced(day, new))
<1> DEFINE t == ServiceTerm(term, zone)
           delta == new - premium
           m == RemainingDays(t, day)
           d == TermDays(t)
<1>1. t.start \in Int /\ t.end \in Int /\ day \in Int /\ delta \in Int
  BY TermType, RequestsAssumption DEF IInv
<1> HIDE DEF t
<1>2. m \in Int /\ d \in Int
  BY <1>1 DEF RemainingDays, TermDays
<1>3. /\ InsideTerm(t, day) /\ Proratable(t, day)
      /\ Adjustment(t, day, premium, new) # 0
  BY DEF Quote, Verdict, t
<1>4. d \in Nat \ {0} /\ m \in 1..d
  BY <1>2, <1>3 DEF Proratable
<1>5. ProratedDelta(delta, m, d) \in Int
  BY <1>1, <1>4, PriceIsFair
<1>6. Priced(day, new) = [day |-> day, delta |-> delta, remaining |-> m,
                          termDays |-> d, cents |-> ProratedDelta(delta, m, d)]
  BY DEF Priced, Adjustment, t
<1>7. ProratedDelta(delta, m, d) # 0
  BY <1>3 DEF Adjustment
<1>8. m = RemainingDays(t, day) /\ d = TermDays(t)
  OBVIOUS
<1> HIDE DEF m, d, delta
<1>9. Priced(day, new) \in Shape
  BY <1>1, <1>2, <1>5, <1>6 DEF Shape
<1>10. PricedFor(t, Priced(day, new))
  BY <1>4, <1>6, <1>7, <1>8 DEF PricedFor
<1> QED
  BY <1>9, <1>10 DEF t

LEMMA NextIInv == IInv /\ [Next]_vars => IInv'
<1> SUFFICES ASSUME IInv, [Next]_vars PROVE IInv'
  OBVIOUS
<1>1. ASSUME NEW day \in Days, NEW new \in Premiums, Endorse(day, new) PROVE IInv'
  <2>1. /\ UNCHANGED <<term, zone>> /\ premium' \in Premiums
        /\ ServiceTerm(term', zone') = ServiceTerm(term, zone)
    BY <1>1 DEF Endorse
  <2>2. /\ Priced(day, new) \in Shape
        /\ PricedFor(ServiceTerm(term, zone), Priced(day, new))
    BY <1>1, PricedIsPricedFor DEF Endorse
  <2>3. adjustments' = Append(adjustments, Priced(day, new))
    BY <1>1 DEF Endorse
  <2>4. adjustments' \in Seq(Shape)
    BY <2>2, <2>3 DEF IInv
  <2>5. \A i \in DOMAIN adjustments' :
          adjustments'[i] = Priced(day, new) \/
          (i \in DOMAIN adjustments /\ adjustments'[i] = adjustments[i])
    BY <2>2, <2>3 DEF IInv
  <2>6. \A i \in DOMAIN adjustments' :
          PricedFor(ServiceTerm(term, zone), adjustments'[i])
    BY <2>2, <2>5 DEF IInv
  <2>7. answer' = Quote(day, new)
    BY <1>1 DEF Endorse
  <2> QED
    BY <2>1, <2>4, <2>6, <2>7, QuoteIsVerdict DEF IInv
<1>2. ASSUME NEW day \in Days, NEW new \in Premiums, Refuse(day, new) PROVE IInv'
  <2>1. /\ UNCHANGED <<term, zone, premium, adjustments>>
        /\ ServiceTerm(term', zone') = ServiceTerm(term, zone)
        /\ answer' = Quote(day, new)
    BY <1>2 DEF Refuse
  <2> QED
    BY <2>1, QuoteIsVerdict DEF IInv
<1>3. CASE UNCHANGED vars
  BY <1>3 DEF vars, IInv
<1> QED
  BY <1>1, <1>2, <1>3 DEF Next

THEOREM PricingInvariant == Spec => []IInv
<1> QED
  BY InitIInv, NextIInv, PTL DEF Spec

-----------------------------------------------------------------------------
\* Undoing an endorsement on its date gives back what it charged, for every
\* term, amount and clock (money.ts:16-27).
THEOREM ReversalsNet == Spec => []ReversalNetsToZero
<1>1. IInv => ReversalNetsToZero
  <2> SUFFICES ASSUME IInv, NEW i \in DOMAIN adjustments, NEW j \in DOMAIN adjustments,
                      adjustments[j].day = adjustments[i].day,
                      adjustments[j].delta = -adjustments[i].delta
               PROVE  adjustments[j].cents = -adjustments[i].cents
    BY DEF ReversalNetsToZero
  <2> DEFINE a == adjustments[i]
             b == adjustments[j]
             t == ServiceTerm(term, zone)
  <2>1. a \in Shape /\ PricedFor(t, a) /\ PricedFor(t, b)
    BY DEF IInv
  <2>2. /\ a.delta \in Int /\ a.remaining \in Nat /\ a.termDays \in Nat \ {0}
        /\ b.remaining = a.remaining /\ b.termDays = a.termDays
    BY <2>1 DEF PricedFor, Shape
  <2> QED
    BY <2>1, <2>2, PriceIsOdd DEF PricedFor
<1> QED
  BY <1>1, PricingInvariant, PTL

\* A process whose clock is on UTC, or behind it on both ends of the term.
NotAheadOfUTC ==
  \A z \in Zones, t \in Terms : z[t.start] \in -23..0 /\ z[t.end] \in -23..0

LEMMA TermIsKept ==
  ASSUME NotAheadOfUTC, term \in Terms, zone \in Zones
  PROVE  LET t == ServiceTerm(term, zone)
         IN  t.start = term.start /\ t.end = term.end
<1>1. \A day \in Int, ahead \in -23..0 : (24 * day - ahead) \div 24 = day
  OBVIOUS
<1> QED
  BY <1>1, TermsAssumption
  DEF NotAheadOfUTC, ServiceTerm, NormalizeDatabaseDate, LocalMidnight

\* No change is billed above its annual amount or against its direction, and
\* one for the whole term is billed in full, unless the clock is ahead of UTC
\* (money.ts:50-73).
THEOREM BilledFairly == NotAheadOfUTC => (Spec => []NeverMoreThanAnnual)
<1> SUFFICES ASSUME NotAheadOfUTC PROVE Spec => []NeverMoreThanAnnual
  OBVIOUS
<1>1. IInv => NeverMoreThanAnnual
  <2> SUFFICES ASSUME IInv, NEW i \in DOMAIN adjustments
               PROVE  LET a == adjustments[i]
                      IN  /\ Abs(a.cents) <= Abs(a.delta)
                          /\ a.cents * a.delta > 0
                          /\ a.day = term.start => a.cents = a.delta
    BY DEF NeverMoreThanAnnual
  <2> DEFINE a == adjustments[i]
             t == ServiceTerm(term, zone)
  <2>1. a \in Shape /\ PricedFor(t, a)
    BY DEF IInv
  <2>2. t.start = term.start /\ t.end = term.end
    BY TermIsKept DEF IInv
  <2>3. /\ a.delta \in Int /\ a.termDays \in Nat \ {0} /\ a.remaining \in 1..a.termDays
        /\ a.cents = ProratedDelta(a.delta, a.remaining, a.termDays) /\ a.cents # 0
    BY <2>1 DEF PricedFor, Shape
  <2>4. a.day = term.start => a.remaining = a.termDays
    BY <2>1, <2>2 DEF PricedFor, RemainingDays, TermDays
  <2> HIDE DEF a, t
  <2>5. /\ Abs(a.cents) <= Abs(a.delta) /\ a.cents * a.delta > 0
        /\ a.remaining = a.termDays => a.cents = a.delta
    BY <2>3, PriceIsFair
  <2> QED
    BY <2>4, <2>5 DEF a
<1> QED
  BY <1>1, PricingInvariant, PTL

\* The last day of the term is accepted and the day after it refused, unless
\* the clock is ahead of UTC (date.ts:32, service.ts:684).
THEOREM TermEndExclusive == NotAheadOfUTC => (Spec => []TermEndIsExclusive)
<1> SUFFICES ASSUME NotAheadOfUTC PROVE Spec => []TermEndIsExclusive
  OBVIOUS
<1>1. IInv => TermEndIsExclusive
  <2> SUFFICES ASSUME IInv PROVE TermEndIsExclusive
    OBVIOUS
  <2> DEFINE t == ServiceTerm(term, zone)
  <2>1. t.start = term.start /\ t.end = term.end
    BY TermIsKept DEF IInv
  <2>2. term.start \in Int /\ term.end \in Int
    BY TermsAssumption DEF IInv
  <2> HIDE DEF t
  <2>3. CASE answer = NoAnswer
    BY <2>3 DEF NoAnswer, TermEndIsExclusive
  <2>4. CASE answer.day \in Int /\
             answer.verdict = Verdict(t, answer.day, answer.old, answer.new)
    <3>1. /\ answer.verdict = "outside term" => ~ InsideTerm(t, answer.day)
          /\ answer.verdict \in {"priced", "zero adjustment"} => InsideTerm(t, answer.day)
      BY <2>4 DEF Verdict
    <3>2. InsideTerm(t, answer.day) <=> answer.day \in term.start..(term.end - 1)
      BY <2>1, <2>2, <2>4 DEF InsideTerm
    <3> QED
      BY <3>1, <3>2 DEF TermEndIsExclusive
  <2> QED
    BY <2>3, <2>4 DEF IInv, t
<1> QED
  BY <1>1, PricingInvariant, PTL

-----------------------------------------------------------------------------
\* What was billed, and what it was worth.

\* The clock is on the same side of UTC at both ends of the term.
OneSideOfUTC ==
  \A z \in Zones, t \in Terms :
    \/ z[t.start] \in -23..0 /\ z[t.end] \in -23..0
    \/ z[t.start] \in 1..24 /\ z[t.end] \in 1..24

LEMMA LengthIsKept ==
  ASSUME OneSideOfUTC, term \in Terms, zone \in Zones
  PROVE  /\ TermDays(ServiceTerm(term, zone)) = TermDays(term)
         /\ TermDays(term) \in Nat \ {0}
<1>1. \A day \in Int, ahead \in -23..0 : (24 * day - ahead) \div 24 = day
  OBVIOUS
<1>2. \A day \in Int, ahead \in 1..24 : (24 * day - ahead) \div 24 = day - 1
  OBVIOUS
<1>3. term.start \in Int /\ term.end \in Int /\ term.start < term.end
  BY TermsAssumption
<1>4. \/ zone[term.start] \in -23..0 /\ zone[term.end] \in -23..0
      \/ zone[term.start] \in 1..24 /\ zone[term.end] \in 1..24
  BY DEF OneSideOfUTC
<1> DEFINE t == ServiceTerm(term, zone)
<1>5. /\ t.start = (24 * term.start - zone[term.start]) \div 24
      /\ t.end = (24 * term.end - zone[term.end]) \div 24
  BY DEF ServiceTerm, NormalizeDatabaseDate, LocalMidnight
<1> HIDE DEF t
<1>6. CASE zone[term.start] \in -23..0 /\ zone[term.end] \in -23..0
  <2>1. t.start = term.start /\ t.end = term.end
    BY <1>1, <1>3, <1>5, <1>6
  <2> QED
    BY <1>3, <2>1 DEF TermDays, t
<1>7. CASE zone[term.start] \in 1..24 /\ zone[term.end] \in 1..24
  <2>1. t.start = term.start - 1 /\ t.end = term.end - 1
    BY <1>2, <1>3, <1>5, <1>7
  <2> QED
    BY <1>3, <2>1 DEF TermDays, t
<1> QED
  BY <1>4, <1>6, <1>7

\* One more term of a sum over the adjustments.
LEMMA SumAppends ==
  ASSUME NEW n \in Nat, NEW f \in [1..n -> Int], NEW g \in [1..(n + 1) -> Int],
         \A i \in 1..n : g[i] = f[i]
  PROVE  SumFunction(f) \in Int /\ SumFunction(g) = SumFunction(f) + g[n + 1]
<1>1. IsFiniteSet(1..n)
  BY FS_Interval
<1>2. n + 1 \notin 1..n /\ 1..(n + 1) = (1..n) \cup {n + 1}
  OBVIOUS
<1>3. SumFunction(f) \in Int
  BY <1>1, SumInt
<1>4. g \in [(1..n) \cup {n + 1} -> Int]
  BY <1>2
<1>5. SumFunction(g) = SumFunction(f) + g[n + 1]
  BY <1>1, <1>2, <1>4, SumAdds
<1> QED
  BY <1>3, <1>5

\* Half a cent more for one endorsement more.
LEMMA ErrorsAdd ==
  ASSUME NEW b \in Int, NEW e \in Int, NEW c \in Int, NEW x \in Int,
         NEW d \in Nat, NEW n \in Nat,
         2 * Abs(b * d - e) <= n * d, 2 * Abs(d * c - x) <= d
  PROVE  2 * Abs((b + c) * d - (e + x)) <= (n + 1) * d
<1>1. (b + c) * d = b * d + d * c /\ (n + 1) * d = n * d + d
  OBVIOUS
<1>2. b * d \in Int /\ d * c \in Int /\ n * d \in Int
  OBVIOUS
<1> DEFINE p == b * d
           q == d * c
           m == n * d
<1> HIDE DEF p, q, m
<1>3. 2 * Abs((p + q) - (e + x)) <= m + d
  BY <1>2 DEF Abs, p, q, m
<1> QED
  BY <1>1, <1>3 DEF p, q, m

\* However often the premium of a policy is changed, what was billed is at most
\* half a cent per endorsement from the exact price (money.ts:16-27), unless
\* the clock is ahead of UTC at one end of the term only.
THEOREM NoDrift == OneSideOfUTC => (Spec => []RoundingNeverDrifts)
<1> SUFFICES ASSUME OneSideOfUTC PROVE Spec => []RoundingNeverDrifts
  OBVIOUS
<1>1. Init => RoundingNeverDrifts
  <2> SUFFICES ASSUME Init PROVE RoundingNeverDrifts
    OBVIOUS
  <2>1. adjustments = << >> /\ Len(adjustments) = 0 /\ DOMAIN adjustments = {}
    BY DEF Init
  <2>2. Billed = 0 /\ ExactTimesTerm = 0
    BY <2>1, SumEmpty DEF Billed, ExactTimesTerm
  <2>3. TermDays(term) \in Nat
    BY LengthIsKept DEF Init
  <2>4. 0 * TermDays(term) = 0
    BY <2>3
  <2> QED
    BY <2>1, <2>2, <2>3, <2>4 DEF RoundingNeverDrifts, Abs
<1>2. IInv /\ RoundingNeverDrifts /\ [Next]_vars => RoundingNeverDrifts'
  <2> SUFFICES ASSUME IInv, RoundingNeverDrifts, [Next]_vars PROVE RoundingNeverDrifts'
    OBVIOUS
  <2>1. ASSUME UNCHANGED <<term, adjustments>> PROVE RoundingNeverDrifts'
    BY <2>1 DEF RoundingNeverDrifts, Billed, ExactTimesTerm
  <2>2. ASSUME NEW day \in Days, NEW new \in Premiums, Endorse(day, new)
        PROVE  RoundingNeverDrifts'
    <3> DEFINE a == Priced(day, new)
               n == Len(adjustments)
               d == TermDays(term)
               cents == [i \in DOMAIN adjustments |-> adjustments[i].cents]
               exact == [i \in DOMAIN adjustments |->
                           adjustments[i].delta * adjustments[i].remaining]
               moreCents == [i \in DOMAIN adjustments' |-> adjustments'[i].cents]
               moreExact == [i \in DOMAIN adjustments' |->
                               adjustments'[i].delta * adjustments'[i].remaining]
    <3>1. a \in Shape /\ PricedFor(ServiceTerm(term, zone), a)
      BY <2>2, PricedIsPricedFor DEF Endorse
    <3>2. d \in Nat \ {0} /\ a.termDays = d
      BY <3>1, LengthIsKept DEF IInv, PricedFor
    <3>3. /\ a.delta \in Int /\ a.remaining \in 1..d
          /\ a.cents = ProratedDelta(a.delta, a.remaining, d) /\ a.cents \in Int
      BY <3>1, <3>2 DEF PricedFor, Shape
    <3>4. adjustments' = Append(adjustments, a) /\ adjustments \in Seq(Shape) /\ term' = term
      BY <2>2 DEF Endorse, IInv
    <3> HIDE DEF a
    <3>5. /\ n \in Nat /\ DOMAIN adjustments = 1..n /\ Len(adjustments') = n + 1
          /\ DOMAIN adjustments' = 1..(n + 1) /\ adjustments'[n + 1] = a
          /\ \A i \in 1..n : adjustments'[i] = adjustments[i] /\ adjustments[i] \in Shape
      BY <3>1, <3>4
    <3>6. cents \in [1..n -> Int] /\ exact \in [1..n -> Int]
      <4>1. \A i \in 1..n : /\ adjustments[i].cents \in Int /\ adjustments[i].delta \in Int
                            /\ adjustments[i].remaining \in Int
        BY <3>5 DEF Shape
      <4> QED
        BY <3>5, <4>1
    <3>7. /\ \A i \in 1..n : moreCents[i] = cents[i] /\ moreExact[i] = exact[i]
          /\ moreCents[n + 1] = a.cents /\ moreExact[n + 1] = a.delta * a.remaining
      BY <3>5
    <3>8. moreCents \in [1..(n + 1) -> Int] /\ moreExact \in [1..(n + 1) -> Int]
      <4>1. DOMAIN moreCents = 1..(n + 1) /\ DOMAIN moreExact = 1..(n + 1)
        BY <3>5
      <4>2. \A i \in 1..(n + 1) : i = n + 1 \/ i \in 1..n
        BY <3>5
      <4>3. a.delta * a.remaining \in Int
        BY <3>2, <3>3
      <4>4. \A i \in 1..(n + 1) : moreCents[i] \in Int /\ moreExact[i] \in Int
        <5> HIDE DEF moreCents, moreExact, cents, exact
        <5> QED
          BY <3>3, <3>6, <3>7, <4>2, <4>3
      <4> QED
        BY <4>1, <4>4
    <3>9. /\ Billed = SumFunction(cents) /\ ExactTimesTerm = SumFunction(exact)
          /\ Billed' = SumFunction(moreCents) /\ ExactTimesTerm' = SumFunction(moreExact)
      BY DEF Billed, ExactTimesTerm
    <3> HIDE DEF cents, exact, moreCents, moreExact, n, d
    <3>10. /\ Billed \in Int /\ Billed' = Billed + a.cents
           /\ ExactTimesTerm \in Int /\ ExactTimesTerm' = ExactTimesTerm + a.delta * a.remaining
      <4>1. SumFunction(cents) \in Int /\ SumFunction(moreCents) = SumFunction(cents) + moreCents[n + 1]
        BY <3>5, <3>6, <3>7, <3>8, SumAppends
      <4>2. SumFunction(exact) \in Int /\ SumFunction(moreExact) = SumFunction(exact) + moreExact[n + 1]
        BY <3>5, <3>6, <3>7, <3>8, SumAppends
      <4> QED
        BY <3>7, <3>9, <4>1, <4>2
    <3>11. 2 * Abs(Billed * d - ExactTimesTerm) <= n * d
      BY DEF RoundingNeverDrifts, n, d
    <3>12. 2 * Abs(d * a.cents - a.delta * a.remaining) <= d
      BY <3>2, <3>3, PriceIsFair
    <3>13. 2 * Abs((Billed + a.cents) * d - (ExactTimesTerm + a.delta * a.remaining)) <= (n + 1) * d
      <4>1. a.delta * a.remaining \in Int /\ d \in Nat
        BY <3>2, <3>3
      <4> QED
        BY <3>3, <3>5, <3>10, <3>11, <3>12, <4>1, ErrorsAdd
    <3>14. TermDays(term)' = d
      BY <3>4 DEF d, TermDays
    <3> QED
      BY <3>5, <3>10, <3>13, <3>14 DEF RoundingNeverDrifts
  <2> QED
    BY <2>1, <2>2 DEF Next, Refuse, vars
<1> QED
  BY <1>1, <1>2, PricingInvariant, PTL DEF Spec
-----------------------------------------------------------------------------
\* The key of a request.

\* A request that has arrived, whatever it was accepted under being the key its
\* client meant.
KeyInv ==
  /\ header \in Texts \cup {Absent} /\ bodyKey \in Texts \cup {Absent}
  /\ KeyIsTheClients

\* What the two kinds of outcome have in their fields.
LEMMA Outcomes ==
  /\ \A error : Rejected(error).status # 200
  /\ \A key : Resolved(key).key = key
BY DEF Rejected, Resolved

LEMMA AcceptedKey ==
  ASSUME header \in Texts \cup {Absent}, bodyKey \in Texts \cup {Absent},
         BodyKeyValid(bodyKey), ResolveIdempotencyKey(header, bodyKey).status = 200
  PROVE  /\ ResolveIdempotencyKey(header, bodyKey).key \in Keys
         /\ Supplied = {ResolveIdempotencyKey(header, bodyKey).key}
<1> DEFINE h == Trim(header)
           b == Trim(bodyKey)
           key == Coalesce(h, b)
<1>1. /\ ~ Mismatch(h, b) /\ Truthy(key)
      /\ key \notin {TooLong, Malformed}
      /\ ResolveIdempotencyKey(header, bodyKey).key = key
  <2> HIDE DEF h, b, key
  <2>1. ResolveIdempotencyKey(header, bodyKey) =
          IF Mismatch(h, b) THEN Rejected("Idempotency key mismatch")
          ELSE IF ~ Truthy(key) THEN Rejected("Missing idempotency key")
          ELSE IF key \in {TooLong, Malformed} THEN Rejected("Invalid idempotency key")
          ELSE Resolved(key)
    BY Zenon DEF ResolveIdempotencyKey, h, b, key
  <2>2. ASSUME NEW error PROVE ResolveIdempotencyKey(header, bodyKey) # Rejected(error)
    <3>1. Rejected(error).status # 200
      BY Outcomes
    <3> QED
      BY <3>1
  <2>3. ~ Mismatch(h, b)
    BY <2>1, <2>2
  <2>4. Truthy(key)
    BY <2>1, <2>3, <2>2
  <2>5. key \notin {TooLong, Malformed}
    BY <2>1, <2>3, <2>4, <2>2
  <2>6. ResolveIdempotencyKey(header, bodyKey) = Resolved(key)
    BY <2>1, <2>3, <2>4, <2>5
  <2> QED
    BY <2>3, <2>4, <2>5, <2>6, Outcomes
<1>2. /\ h \in Cores \cup {Absent}
      /\ b \in Keys \cup {Absent}
  BY DEF Trim, BodyKeyValid, Texts
<1>3. Supplied = {h, b} \ {Absent, Empty}
  BY DEF Supplied
<1> HIDE DEF h, b
<1>4. key \in Keys
  BY <1>1, <1>2 DEF Coalesce, Truthy, Cores
<1>5. Supplied = {key}
  <2>1. CASE h = Absent
    BY <1>2, <1>3, <1>4, <2>1, ClassesAssumption DEF Coalesce
  <2>2. CASE h # Absent
    <3>1. key = h /\ Truthy(h)
      BY <1>1, <2>2 DEF Coalesce
    <3>2. b = h \/ ~ Truthy(b)
      BY <1>1, <3>1 DEF Mismatch
    <3> HIDE DEF key
    <3> QED
      BY <1>3, <3>1, <3>2 DEF Truthy
  <2> QED
    BY <2>1, <2>2
<1> HIDE DEF key
<1> QED
  BY <1>1, <1>4, <1>5

\* A write is never carried out under a key other than the one its client
\* meant (resolveIdempotencyKey, service.ts:49-76, and the validation of the
\* body before it).
THEOREM KeyIsMeant == KeySpec => []KeyIsTheClients
<1>1. KeyInit => KeyInv
  BY DEF KeyInit, KeyInv, KeyIsTheClients, Accepted, Answered, Waiting
<1>2. KeyInv /\ [Receive]_keyVars => KeyInv'
  <2> SUFFICES ASSUME KeyInv, [Receive]_keyVars PROVE KeyInv'
    OBVIOUS
  <2>1. UNCHANGED <<header, bodyKey>> /\ Supplied' = Supplied
    BY DEF Receive, keyVars, Supplied
  <2>2. CASE Receive
    <3>1. outcome'.status = 200 =>
            /\ BodyKeyValid(bodyKey)
            /\ outcome' = ResolveIdempotencyKey(header, bodyKey)
      BY <2>2, Outcomes DEF Receive
    <3>2. outcome'.status = 200 =>
            /\ outcome'.key \in Keys
            /\ Supplied = {outcome'.key}
      BY <3>1, AcceptedKey DEF KeyInv
    <3>3. KeyIsTheClients'
      BY <2>1, <3>2 DEF KeyIsTheClients, Accepted
    <3> QED
      BY <2>1, <3>3 DEF KeyInv
  <2>3. CASE UNCHANGED keyVars
    BY <2>1, <2>3 DEF keyVars, KeyInv, KeyIsTheClients, Accepted, Answered
  <2> QED
    BY <2>2, <2>3
<1>3. KeyInv => KeyIsTheClients
  BY DEF KeyInv
<1> QED
  BY <1>1, <1>2, <1>3, PTL DEF KeySpec

-----------------------------------------------------------------------------
\* Powers of two, as numbers of subsets.

LEMMA PowerIsSubsets ==
  ASSUME NEW n \in Nat
  PROVE  2^n = Cardinality(SUBSET (1..n)) /\ IsFiniteSet(SUBSET (1..n))
<1>1. IsFiniteSet(1..n) /\ Cardinality(1..n) = n
  <2>1. 1 \in Int /\ n \in Int
    OBVIOUS
  <2> QED
    BY <2>1, FS_Interval
<1> QED
  BY <1>1, FS_SUBSET

LEMMA PowerDoubles ==
  ASSUME NEW n \in Nat
  PROVE  2^n \in Nat /\ 2^(n + 1) = 2 * 2^n
<1> DEFINE old == SUBSET (1..n)
           new == {U \cup {n + 1} : U \in old}
           add == [U \in old |-> U \cup {n + 1}]
<1>1. 2^n = Cardinality(old) /\ IsFiniteSet(old)
  BY PowerIsSubsets
<1>2. 2^(n + 1) = Cardinality(SUBSET (1..(n + 1)))
  BY PowerIsSubsets
<1>3. SUBSET (1..(n + 1)) = old \cup new
  <2>1. 1..(n + 1) = (1..n) \cup {n + 1}
    OBVIOUS
  <2>2. ASSUME NEW U \in SUBSET ((1..n) \cup {n + 1}) PROVE U \in old \cup new
    <3>1. CASE n + 1 \in U
      <4>1. U = (U \ {n + 1}) \cup {n + 1} /\ U \ {n + 1} \in old
        BY <3>1
      <4> QED
        BY <4>1
    <3>2. CASE n + 1 \notin U
      BY <3>2
    <3> QED
      BY <3>1, <3>2
  <2>3. old \cup new \subseteq SUBSET ((1..n) \cup {n + 1})
    OBVIOUS
  <2> QED
    BY <2>1, <2>2, <2>3
<1>4. old \cap new = {}
  OBVIOUS
<1>5. Cardinality(new) = Cardinality(old) /\ IsFiniteSet(new)
  <2>1. add \in Bijection(old, new)
    <3>1. \A U, V \in old : add[U] = add[V] => U = V
      <4> SUFFICES ASSUME NEW U \in old, NEW V \in old, U \cup {n + 1} = V \cup {n + 1}
                   PROVE  U = V
        OBVIOUS
      <4>1. n + 1 \notin U /\ n + 1 \notin V
        OBVIOUS
      <4> QED
        BY <4>1
    <3>2. add \in [old -> new] /\ \A V \in new : \E U \in old : add[U] = V
      OBVIOUS
    <3> HIDE DEF add, old, new
    <3>3. add \in Injection(old, new)
      BY <3>1, <3>2 DEF Injection, IsInjective
    <3>4. add \in Surjection(old, new)
      BY <3>2 DEF Surjection
    <3> QED
      BY <3>3, <3>4 DEF Bijection
  <2>2. ExistsBijection(old, new)
    BY <2>1 DEF ExistsBijection
  <2> HIDE DEF old, new
  <2> QED
    BY <1>1, <2>2, FS_Bijection
<1> HIDE DEF old, new
<1>6. Cardinality(old) \in Nat
  BY <1>1, FS_CardinalityType
<1>7. Cardinality(old \cup new) = Cardinality(old) + Cardinality(new) - Cardinality({})
  BY <1>1, <1>4, <1>5, FS_Union
<1>8. Cardinality({}) = 0
  BY FS_EmptySet
<1>9. 2^(n + 1) = Cardinality(old) + Cardinality(old) - 0
  BY <1>2, <1>3, <1>5, <1>7, <1>8
<1> QED
  BY <1>1, <1>6, <1>9

LEMMA PowersGrow ==
  ASSUME NEW m \in Nat, NEW n \in Nat, m <= n
  PROVE  1 <= 2^m /\ 2^m <= 2^n /\ 2^n \in Nat
<1> DEFINE G == {k \in Nat : 1 <= 2^k}
           H == {k \in Nat : 2^m <= 2^(m + k)}
<1>1. G = Nat
  <2>1. 0 \in G
    <3>1. 2^0 = 1
      OBVIOUS
    <3> QED
      BY <3>1
  <2>2. \A k \in G : k + 1 \in G
    BY PowerDoubles
  <2> HIDE DEF G
  <2> QED
    BY <2>1, <2>2, NaturalInduction DEF G
<1>2. H = Nat
  <2>1. 0 \in H
    BY PowerDoubles
  <2>2. ASSUME NEW k \in H PROVE k + 1 \in H
    <3>1. m + k \in Nat /\ m + (k + 1) = (m + k) + 1
      OBVIOUS
    <3>2. 2^(m + k) \in Nat /\ 2^((m + k) + 1) = 2 * 2^(m + k) /\ 2^m \in Nat
      BY <3>1, PowerDoubles
    <3> QED
      BY <3>1, <3>2
  <2> HIDE DEF H
  <2> QED
    BY <2>1, <2>2, NaturalInduction DEF H
<1>3. n - m \in Nat /\ m + (n - m) = n
  OBVIOUS
<1>4. 2^m <= 2^n
  BY <1>2, <1>3
<1> QED
  BY <1>1, <1>4, PowerDoubles
-----------------------------------------------------------------------------
\* Numbers.

\* The power that ToNumber chooses: the one that n is below and not the next
\* lower one.
LEMMA BitsOf ==
  ASSUME NEW n \in Int, Abs(n) < 2^(SafeBits + (BigintBits + 1))
  PROVE  \E b \in 0..BigintBits + 1 :
           /\ Abs(n) < 2^(SafeBits + b)
           /\ b > 0 => Abs(n) >= 2^(SafeBits + b - 1)
<1> DEFINE W == {b \in Nat : Abs(n) < 2^(SafeBits + b)}
<1>1. BigintBits + 1 \in W
  BY WidthsAssumption
<1>2. PICK b \in W : \A c \in W : b <= c
  BY <1>1, LeastNatural
<1>3. b > 0 => Abs(n) >= 2^(SafeBits + b - 1)
  <2>1. SUFFICES ASSUME b > 0 PROVE Abs(n) >= 2^(SafeBits + (b - 1))
    <3>1. SafeBits + (b - 1) = SafeBits + b - 1
      BY <1>2, WidthsAssumption
    <3> QED
      BY <2>1, <3>1
  <2>2. b - 1 \in Nat /\ b - 1 \notin W
    BY <1>2, <2>1
  <2>3. 2^(SafeBits + (b - 1)) \in Nat
    BY <2>2, PowersGrow, WidthsAssumption
  <2>4. Abs(n) \in Int
    BY DEF Abs
  <2> QED
    BY <2>2, <2>3, <2>4
<1> QED
  BY <1>1, <1>2, <1>3

\* A number of whole spacings is none only for zero, and is exact when the
\* spacing is one.
LEMMA Spaced ==
  ASSUME NEW a \in Nat, NEW s \in Nat \ {0}, s <= a \/ s = 1
  PROVE  LET multiple == a \div s
             rest     == 2 * (a % s)
             rounded  == IF rest > s \/ (rest = s /\ multiple % 2 = 1)
                         THEN multiple + 1 ELSE multiple
         IN  /\ rounded * s \in Nat
             /\ rounded * s = 0 <=> a = 0
             /\ s = 1 => rounded * s = a
<1> DEFINE multiple == a \div s
           rest     == 2 * (a % s)
           rounded  == IF rest > s \/ (rest = s /\ multiple % 2 = 1)
                       THEN multiple + 1 ELSE multiple
<1>1. /\ multiple \in Nat /\ a % s \in 0..(s - 1)
      /\ a = s * multiple + (a % s)
  BY Division
<1>2. rounded \in Nat /\ rounded >= multiple
  BY <1>1
<1>3. s = 1 => rounded = a
  BY <1>1
<1>4. a > 0 => multiple >= 1
  <2>1. CASE s = 1
    BY <1>1, <2>1
  <2>2. ASSUME s <= a, multiple = 0 PROVE FALSE
    <3>1. s * multiple = 0
      BY <2>2
    <3> QED
      BY <1>1, <2>2, <3>1
  <2> QED
    BY <1>1, <2>1, <2>2
<1>5. a = 0 => rounded = 0
  <2>1. SUFFICES ASSUME a = 0 PROVE rounded = 0
    OBVIOUS
  <2>2. s * multiple >= 0
    BY <1>1
  <2>3. a % s = 0 /\ s * multiple = 0
    BY <1>1, <2>1, <2>2
  <2>4. multiple = 0
    BY <1>1, <2>3
  <2> QED
    BY <2>3, <2>4
<1> HIDE DEF multiple, rounded
<1>6. rounded * s \in Nat /\ (rounded * s = 0 <=> rounded = 0)
  BY <1>2
<1>7. rounded = 0 <=> a = 0
  BY <1>1, <1>2, <1>4, <1>5
<1>8. s = 1 => rounded * s = a
  BY <1>2, <1>3
<1> QED
  BY <1>6, <1>7, <1>8 DEF rounded, multiple

\* As far as ToNumber is defined it keeps the sign, and a safe integer whole.
LEMMA ToNumberSound ==
  ASSUME NEW n \in Int, Abs(n) < 2^(SafeBits + (BigintBits + 1))
  PROVE  /\ ToNumber(n) \in Int
         /\ ToNumber(n) > 0 <=> n > 0
         /\ ToNumber(n) < 0 <=> n < 0
         /\ IsSafeInteger(n) => ToNumber(n) = n
<1> DEFINE a == Abs(n)
           bits == CHOOSE b \in 0..BigintBits + 1 :
                     /\ a < 2^(SafeBits + b)
                     /\ b > 0 => a >= 2^(SafeBits + b - 1)
           s == 2^bits
           multiple == a \div s
           rest     == 2 * (a % s)
           rounded  == IF rest > s \/ (rest = s /\ multiple % 2 = 1)
                       THEN multiple + 1 ELSE multiple
<1>1. a \in Nat /\ (a = 0 <=> n = 0) /\ a = IF n < 0 THEN -n ELSE n
  BY DEF Abs
<1>2. /\ bits \in 0..BigintBits + 1
      /\ a < 2^(SafeBits + bits)
      /\ bits > 0 => a >= 2^(SafeBits + bits - 1)
  <2>1. \E b \in 0..BigintBits + 1 : /\ a < 2^(SafeBits + b)
                                     /\ b > 0 => a >= 2^(SafeBits + b - 1)
    BY BitsOf
  <2> QED
    BY <2>1, Zenon
<1>3. ToNumber(n) = IF n < 0 THEN -(rounded * s) ELSE rounded * s
  BY Zenon DEF ToNumber
<1>4. bits \in Nat /\ SafeBits \in Nat \ {0}
  BY <1>2, WidthsAssumption
<1> HIDE DEF a, bits
<1>5. s \in Nat \ {0} /\ (bits = 0 => s = 1)
  <2>1. 1 <= 2^bits /\ 2^bits \in Nat
    BY <1>4, PowersGrow
  <2>2. bits = 0 => 2^bits = 1
    <3>1. SUFFICES ASSUME bits = 0 PROVE 2^bits = 1
      OBVIOUS
    <3>2. 2^bits = 2^0
      BY <3>1
    <3>3. 2^0 = 1
      OBVIOUS
    <3> QED
      BY <3>2, <3>3
  <2> QED
    BY <2>1, <2>2
<1>6. bits > 0 => s <= a /\ ~ IsSafeInteger(n)
  <2>1. SUFFICES ASSUME bits > 0 PROVE s <= a /\ ~ IsSafeInteger(n)
    OBVIOUS
  <2>2. SafeBits + bits - 1 \in Nat /\ bits <= SafeBits + bits - 1 /\ SafeBits <= SafeBits + bits - 1
    BY <1>4, <2>1
  <2>3. 2^bits <= 2^(SafeBits + bits - 1) /\ 2^(SafeBits + bits - 1) \in Nat
    BY <1>4, <2>2, PowersGrow
  <2>4. 2^SafeBits <= 2^(SafeBits + bits - 1) /\ 2^SafeBits \in Nat
    <3>1. 1 <= 2^SafeBits /\ 2^SafeBits \in Nat
      BY <1>4, PowersGrow
    <3> QED
      BY <1>4, <2>2, <3>1, PowersGrow
  <2>5. a >= 2^(SafeBits + bits - 1)
    BY <1>2, <2>1
  <2>6. s <= a
    BY <1>1, <1>5, <2>3, <2>5
  <2>7. a >= 2^SafeBits
    BY <1>1, <2>3, <2>4, <2>5
  <2> HIDE DEF s
  <2> QED
    BY <1>1, <2>4, <2>6, <2>7 DEF IsSafeInteger, a
<1>7. s <= a \/ s = 1
  BY <1>4, <1>5, <1>6
<1> HIDE DEF s
<1>8. /\ rounded * s \in Nat
      /\ rounded * s = 0 <=> a = 0
      /\ s = 1 => rounded * s = a
  BY <1>1, <1>5, <1>7, Spaced
<1>9. IsSafeInteger(n) => s = 1
  BY <1>4, <1>5, <1>6
<1> HIDE DEF rounded
<1> QED
  BY <1>1, <1>3, <1>8, <1>9
-----------------------------------------------------------------------------
\* What the requests of a policy keep: amounts within the limit, and books
\* whose sums fit.

Movements == [amount : Nat, at : Times]

RangeInv ==
  /\ annualPremium \in 0..Limit
  /\ documents \in Seq(Int) /\ payments \in Seq(Int) /\ ledger \in Seq(Movements)
  /\ BooksStayReadable

LEMMA SqlSumInt ==
  ASSUME NEW amounts \in Seq(Int)
  PROVE  SqlSum(amounts) \in Int
<1>1. amounts \in [1..Len(amounts) -> Int] /\ Len(amounts) \in Nat
  OBVIOUS
<1>2. IsFiniteSet(1..Len(amounts))
  BY <1>1, FS_Interval
<1> QED
  BY <1>1, <1>2, SumInt DEF SqlSum

LEMMA RangeInitInv == RangeInit => RangeInv
<1> SUFFICES ASSUME RangeInit PROVE RangeInv
  OBVIOUS
<1>1. SqlSum(<< >>) = 0
  <2>1. DOMAIN << >> = {}
    OBVIOUS
  <2> QED
    BY <2>1, SumEmpty DEF SqlSum
<1>2. InBigint(0)
  <2>1. 1 <= 2^BigintBits /\ 2^BigintBits \in Nat
    BY WidthsAssumption, PowersGrow
  <2> QED
    BY <2>1 DEF InBigint
<1>3. documents = << >> /\ payments = << >> /\ ledger = << >> /\ result = "none"
  BY DEF RangeInit
<1>4. ~ BalanceOverflows(documents, payments)
  BY <1>1, <1>2, <1>3 DEF BalanceOverflows, Owed
<1>5. annualPremium \in 0..Limit
  BY DEF RangeInit
<1>6. documents \in Seq(Int) /\ payments \in Seq(Int) /\ ledger \in Seq(Movements)
  BY <1>3
<1>7. result \notin {"not a safe integer", "constraint violated"}
  BY <1>3
<1> QED
  BY <1>4, <1>5, <1>6, <1>7 DEF RangeInv, BooksStayReadable

\* The rest of a write, and a refusal that is not one of the two.
Kept == /\ documents' \in Seq(Int) /\ payments' \in Seq(Int) /\ ledger' \in Seq(Movements)
        /\ BooksStayReadable'

LEMMA EnactKeeps ==
  ASSUME RangeInv, NEW docs \in Seq(Int), NEW pays \in Seq(Int), NEW amount \in Int,
         Enact(docs, pays, amount)
  PROVE  Kept
<1>1. CASE BalanceOverflows(docs, pays)
  <2>1. result' = "overflow" /\ UNCHANGED <<documents, payments, ledger>>
    BY <1>1 DEF Enact
  <2>2. BooksStayReadable'
    <3>1. result' \notin {"not a safe integer", "constraint violated"}
      BY <2>1
    <3>2. (~ BalanceOverflows(documents, payments))'
      BY <2>1 DEF RangeInv, BooksStayReadable, BalanceOverflows, Owed
    <3> QED
      BY <3>1, <3>2 DEF BooksStayReadable
  <2> QED
    BY <2>1, <2>2 DEF RangeInv, Kept
<1>2. CASE ~ BalanceOverflows(docs, pays)
  <2>1. /\ documents' = docs /\ payments' = pays /\ result' = "done"
        /\ \E t \in Times : ledger' = Append(ledger, [amount |-> Abs(amount), at |-> t])
    BY <1>2 DEF Enact
  <2>2. ledger' \in Seq(Movements)
    <3>1. PICK t \in Times : ledger' = Append(ledger, [amount |-> Abs(amount), at |-> t])
      BY <2>1
    <3>2. [amount |-> Abs(amount), at |-> t] \in Movements
      BY DEF Movements, Abs
    <3>3. ledger \in Seq(Movements)
      BY DEF RangeInv
    <3> QED
      BY <3>1, <3>2, <3>3
  <2>3. BooksStayReadable'
    <3>1. result' \notin {"not a safe integer", "constraint violated"}
      BY <2>1
    <3>2. (~ BalanceOverflows(documents, payments))'
      BY <1>2, <2>1 DEF BalanceOverflows, Owed
    <3> QED
      BY <3>1, <3>2 DEF BooksStayReadable
  <2> QED
    BY <2>1, <2>2, <2>3 DEF Kept
<1> QED
  BY <1>1, <1>2

LEMMA RefusalKeeps ==
  ASSUME RangeInv, NEW reason \in {"invalid", "zero adjustment"}, Refused(reason)
  PROVE  Kept /\ result' # "done"
<1>1. result' = reason /\ UNCHANGED <<documents, payments, ledger>>
  BY DEF Refused
<1>2. result' \notin {"not a safe integer", "constraint violated"} /\ result' # "done"
  BY <1>1
<1>3. (~ BalanceOverflows(documents, payments))'
  BY <1>1 DEF RangeInv, BooksStayReadable, BalanceOverflows, Owed
<1> QED
  BY <1>1, <1>2, <1>3 DEF RangeInv, BooksStayReadable, Kept

\* Amounts within the limit are safe integers, and so is what a change between
\* two of them is prorated to, which is within the limit as well.
LEMMA ProratedWithinLimit ==
  ASSUME NEW old \in 0..Limit, NEW new \in 0..Limit, NEW days \in 1..YearDays
  PROVE  LET cents == ProratedDelta(new - old, days, YearDays)
         IN  /\ cents \in Int /\ Abs(cents) <= Limit
             /\ IsSafeInteger(old) /\ IsSafeInteger(new) /\ IsSafeInteger(cents)
<1> DEFINE cents == ProratedDelta(new - old, days, YearDays)
<1>1. Limit \in Nat /\ Limit < 2^SafeBits /\ 2^SafeBits \in Nat
  <2>1. 2^SafeBits \in Nat
    BY WidthsAssumption, PowersGrow
  <2> QED
    BY <2>1, WidthsAssumption
<1>2. /\ new - old \in Int /\ Abs(new - old) \in Nat /\ Abs(new - old) <= Limit
      /\ Abs(old) = old /\ Abs(new) = new
  BY <1>1 DEF Abs
<1>3. cents \in Int /\ Abs(cents) <= Abs(new - old)
  BY <1>2, AmountsAssumption, PriceIsFair
<1> HIDE DEF cents
<1>4. Abs(cents) \in Nat
  BY <1>3 DEF Abs
<1>5. Abs(cents) <= Limit
  BY <1>1, <1>2, <1>3, <1>4
<1> QED
  BY <1>1, <1>2, <1>3, <1>4, <1>5 DEF IsSafeInteger, cents

LEMMA EndorsementKeepsRange ==
  ASSUME RangeInv, NEW new \in Requested, NEW days \in 1..YearDays, ApplyEndorsement(new, days)
  PROVE  RangeInv'
<1> DEFINE cents == ProratedDelta(new - annualPremium, days, YearDays)
<1>1. /\ IF ~ PremiumValid(new) THEN Refused("invalid")
         ELSE IF ~ (IsSafeInteger(annualPremium) /\ IsSafeInteger(new) /\ IsSafeInteger(cents))
           THEN Refused("not a safe integer")
         ELSE IF cents = 0 THEN Refused("zero adjustment")
         ELSE IF new > Limit \/ Abs(cents) > Limit THEN Refused("constraint violated")
         ELSE Enact(Append(documents, cents), payments, cents)
      /\ annualPremium' = IF result' = "done" THEN new ELSE annualPremium
  BY Zenon DEF ApplyEndorsement
<1>2. /\ annualPremium \in 0..Limit
      /\ documents \in Seq(Int) /\ payments \in Seq(Int)
  BY DEF RangeInv
<1> HIDE DEF cents
<1>3. CASE ~ PremiumValid(new)
  <2>1. Refused("invalid")
    BY <1>1, <1>3
  <2>2. Kept /\ result' # "done"
    BY <2>1, RefusalKeeps
  <2> QED
    BY <1>1, <1>2, <2>2 DEF RangeInv, Kept
<1>4. CASE PremiumValid(new)
  <2>1. new \in 0..Limit
    BY <1>4 DEF PremiumValid
  <2>2. /\ cents \in Int /\ Abs(cents) <= Limit
        /\ IsSafeInteger(annualPremium) /\ IsSafeInteger(new) /\ IsSafeInteger(cents)
    BY <1>2, <2>1, ProratedWithinLimit DEF cents
  <2>3. annualPremium' \in 0..Limit
    BY <1>1, <1>2, <2>1
  <2>4. ~ (new > Limit \/ Abs(cents) > Limit)
    <3>1. Limit \in Int /\ Abs(cents) \in Int
      BY <2>2, WidthsAssumption DEF Abs
    <3> QED
      BY <2>1, <2>2, <3>1
  <2>5. CASE cents = 0
    <3>1. Refused("zero adjustment")
      BY <1>1, <1>4, <2>2, <2>5
    <3>2. Kept
      BY <3>1, RefusalKeeps
    <3> QED
      BY <2>3, <3>2 DEF RangeInv, Kept
  <2>6. CASE cents # 0
    <3>1. Enact(Append(documents, cents), payments, cents)
      BY <1>1, <1>4, <2>2, <2>4, <2>6
    <3>2. Append(documents, cents) \in Seq(Int)
      BY <1>2, <2>2
    <3>3. Kept
      BY <1>2, <2>2, <3>1, <3>2, EnactKeeps
    <3> QED
      BY <2>3, <3>3 DEF RangeInv, Kept
  <2> QED
    BY <2>5, <2>6
<1> QED
  BY <1>3, <1>4

LEMMA PaymentKeepsRange ==
  ASSUME RangeInv, NEW amount \in Requested, RecordPayment(amount)
  PROVE  RangeInv'
<1>1. /\ IF amount \notin 1..Limit THEN Refused("invalid")
         ELSE Enact(documents, Append(payments, amount), amount)
      /\ UNCHANGED annualPremium
  BY DEF RecordPayment
<1>2. documents \in Seq(Int) /\ payments \in Seq(Int) /\ annualPremium' \in 0..Limit
  BY <1>1 DEF RangeInv
<1>3. CASE amount \notin 1..Limit
  <2>1. Refused("invalid")
    BY <1>1, <1>3
  <2>2. Kept
    BY <2>1, RefusalKeeps
  <2> QED
    BY <1>2, <2>2 DEF RangeInv, Kept
<1>4. CASE amount \in 1..Limit
  <2>1. amount \in Int /\ Append(payments, amount) \in Seq(Int)
    BY <1>2, AmountsAssumption
  <2>2. Enact(documents, Append(payments, amount), amount)
    BY <1>1, <1>4
  <2>3. Kept
    BY <1>2, <2>1, <2>2, EnactKeeps
  <2> QED
    BY <1>2, <2>3 DEF RangeInv, Kept
<1> QED
  BY <1>3, <1>4

LEMMA RangeInvariant == RangeSpec => []RangeInv
<1>1. RangeInv /\ [RangeNext]_rangeVars => RangeInv'
  <2> SUFFICES ASSUME RangeInv, [RangeNext]_rangeVars PROVE RangeInv'
    OBVIOUS
  <2>1. CASE \E new \in Requested, days \in 1..YearDays : ApplyEndorsement(new, days)
    BY <2>1, EndorsementKeepsRange
  <2>2. CASE \E amount \in Requested : RecordPayment(amount)
    BY <2>2, PaymentKeepsRange
  <2>3. CASE UNCHANGED rangeVars
    BY <2>3 DEF rangeVars, RangeInv, BooksStayReadable, BalanceOverflows, Owed
  <2> QED
    BY <2>1, <2>2, <2>3 DEF RangeNext
<1> QED
  BY <1>1, RangeInitInv, PTL DEF RangeSpec

\* However many requests a policy is sent, and whatever they ask for, its books
\* can be read: amounts that are too large are refused as invalid, before an
\* assertion or a constraint fails on them (the DTOs; money.ts:36-56), and the
\* write that would make the sums overflow fails on its own balance query.
THEOREM BooksCanBeRead == RangeSpec => []BooksStayReadable
<1>1. RangeInv => BooksStayReadable
  BY DEF RangeInv
<1> QED
  BY <1>1, RangeInvariant, PTL

\* The balance is reported as a number, perhaps a rounded one, and yet what is
\* decided by its sign is what the exact balance decides (calculateOpenBalance,
\* by which markPositiveBillingDocumentsPaid and suggestAction are called).
THEOREM DecisionsByExactBalance == RangeSpec => []DecisionsAreExact
<1>1. RangeInv => DecisionsAreExact
  <2> SUFFICES ASSUME RangeInv PROVE DecisionsAreExact
    OBVIOUS
  <2> DEFINE n == Owed(documents, payments)
  <2>1. n \in Int
    BY SqlSumInt DEF RangeInv, Owed
  <2>2. InBigint(n)
    BY DEF RangeInv, BooksStayReadable, BalanceOverflows
  <2>3. OpenBalance(documents, payments) = ToNumber(n)
    BY DEF OpenBalance
  <2> HIDE DEF n
  <2>4. Abs(n) < 2^(SafeBits + (BigintBits + 1))
    <3>1. SafeBits \in Nat /\ BigintBits \in Nat /\ SafeBits > 0
      BY WidthsAssumption
    <3>2. /\ 2^BigintBits \in Nat /\ 1 <= 2^BigintBits
          /\ 2^(BigintBits + 1) = 2 * 2^BigintBits
      BY <3>1, PowersGrow, PowerDoubles
    <3>3. /\ 2^(BigintBits + 1) <= 2^(SafeBits + (BigintBits + 1))
          /\ 2^(SafeBits + (BigintBits + 1)) \in Nat
      <4>1. /\ BigintBits + 1 \in Nat /\ SafeBits + (BigintBits + 1) \in Nat
            /\ BigintBits + 1 <= SafeBits + (BigintBits + 1)
        BY <3>1
      <4> QED
        BY <4>1, PowersGrow
    <3>4. Abs(n) <= 2^BigintBits /\ Abs(n) \in Nat
      BY <2>1, <2>2, <3>2 DEF InBigint, Abs
    <3> QED
      BY <3>2, <3>3, <3>4
  <2>5. (ToNumber(n) > 0 <=> n > 0) /\ (ToNumber(n) < 0 <=> n < 0)
    BY <2>1, <2>4, ToNumberSound
  <2> QED
    BY <2>3, <2>5 DEF DecisionsAreExact, n
<1> QED
  BY <1>1, RangeInvariant, PTL
-----------------------------------------------------------------------------
\* Adding numbers up, one after the other.

\* The recursion of Reduce: g is the table of its totals.
Totals(g, a) ==
  g = [n \in 0..Len(a) |-> IF n = 0 THEN 0 ELSE ToNumber(g[n - 1] + a[n])]

LEMMA ReduceIsTotal ==
  ASSUME NEW a
  PROVE  Reduce(a) = (CHOOSE g : Totals(g, a))[Len(a)]
BY DEF Reduce, Totals

\* The exact totals: each is the one before and an amount more, and none is
\* more than the last.
Exact(a, n) == SumFunction([i \in 1..n |-> a[i]])

LEMMA ExactGrows ==
  ASSUME NEW a \in Seq(Nat), NEW n \in Nat, n + 1 <= Len(a)
  PROVE  Exact(a, n) \in Int /\ Exact(a, n + 1) = Exact(a, n) + a[n + 1]
<1> DEFINE f == [i \in 1..n |-> a[i]]
           g == [i \in 1..(n + 1) |-> a[i]]
<1>1. \A i \in 1..(n + 1) : a[i] \in Int
  OBVIOUS
<1>2. /\ f \in [1..n -> Int] /\ g \in [1..(n + 1) -> Int]
      /\ \A i \in 1..n : g[i] = f[i]
      /\ g[n + 1] = a[n + 1]
  BY <1>1
<1>3. Exact(a, n) = SumFunction(f) /\ Exact(a, n + 1) = SumFunction(g)
  BY DEF Exact
<1> HIDE DEF f, g
<1> QED
  BY <1>2, <1>3, SumAppends

LEMMA ExactTotals ==
  ASSUME NEW a \in Seq(Nat)
  PROVE  /\ Exact(a, 0) = 0 /\ Exact(a, Len(a)) = SqlSum(a)
         /\ \A n \in 0..Len(a) : Exact(a, n) \in Nat /\ Exact(a, n) <= SqlSum(a)
<1> DEFINE L == Len(a)
           G == {n \in Nat : n <= L => Exact(a, n) \in Nat}
           H == {k \in Nat : k <= L => Exact(a, L - k) <= Exact(a, L)}
<1>1. L \in Nat /\ \A i \in 1..L : a[i] \in Nat
  OBVIOUS
<1>2. Exact(a, 0) = 0
  <2>1. DOMAIN [i \in 1..0 |-> a[i]] = {}
    OBVIOUS
  <2> QED
    BY <2>1, SumEmpty DEF Exact
<1>3. Exact(a, L) = SqlSum(a)
  <2>1. a = [i \in 1..L |-> a[i]]
    OBVIOUS
  <2> QED
    BY <2>1, Zenon DEF Exact, SqlSum
<1>4. G = Nat
  <2>1. 0 \in G
    BY <1>2
  <2>2. ASSUME NEW n \in G PROVE n + 1 \in G
    <3>1. SUFFICES ASSUME n + 1 <= L PROVE Exact(a, n + 1) \in Nat
      OBVIOUS
    <3>2. n <= L /\ n + 1 \in 1..L
      BY <1>1, <3>1
    <3>3. Exact(a, n) \in Nat /\ a[n + 1] \in Nat
      BY <1>1, <3>2
    <3>4. Exact(a, n + 1) = Exact(a, n) + a[n + 1]
      BY <3>1, ExactGrows
    <3> QED
      BY <3>3, <3>4
  <2> HIDE DEF G
  <2> QED
    BY <2>1, <2>2, NaturalInduction DEF G
<1>5. \A n \in 0..L : Exact(a, n) \in Nat
  BY <1>1, <1>4
<1>6. H = Nat
  <2>1. 0 \in H
    <3>1. L - 0 = L /\ Exact(a, L) \in Nat
      BY <1>1, <1>5
    <3> QED
      BY <3>1
  <2>2. ASSUME NEW k \in H PROVE k + 1 \in H
    <3>1. SUFFICES ASSUME k + 1 <= L PROVE Exact(a, L - (k + 1)) <= Exact(a, L)
      OBVIOUS
    <3> DEFINE n == L - (k + 1)
    <3>2. n \in Nat /\ n + 1 = L - k /\ n + 1 <= L /\ n + 1 \in 1..L /\ k <= L
      BY <1>1, <3>1
    <3> HIDE DEF n
    <3>3. Exact(a, n + 1) = Exact(a, n) + a[n + 1]
      BY <3>2, ExactGrows
    <3>4. Exact(a, n) \in Nat /\ a[n + 1] \in Nat /\ Exact(a, L) \in Nat
      BY <1>1, <1>5, <3>2
    <3>5. Exact(a, n + 1) <= Exact(a, L)
      BY <3>2
    <3> HIDE DEF L
    <3>6. Exact(a, n) <= Exact(a, L)
      BY <3>3, <3>4, <3>5
    <3> QED
      BY <3>6 DEF n
  <2> HIDE DEF H
  <2> QED
    BY <2>1, <2>2, NaturalInduction DEF H
<1>7. ASSUME NEW n \in 0..L PROVE Exact(a, n) <= Exact(a, L)
  <2>1. L - n \in H /\ L - n <= L /\ L - (L - n) = n
    <3>1. L - n \in Nat /\ L - n <= L /\ L - (L - n) = n
      BY <1>1
    <3> HIDE DEF H, L
    <3> QED
      BY <1>6, <3>1
  <2>2. Exact(a, L - (L - n)) <= Exact(a, L)
    BY <2>1
  <2> QED
    BY <2>1, <2>2
<1> QED
  BY <1>2, <1>3, <1>5, <1>7

\* A safe total is exact, since each total on the way to it is.
LEMMA ReduceIsExact ==
  ASSUME NEW a \in Seq(Nat), IsSafeInteger(SqlSum(a))
  PROVE  Reduce(a) = SqlSum(a)
<1> DEFINE L == Len(a)
           w == [n \in 0..L |-> Exact(a, n)]
<1>1. L \in Nat /\ \A i \in 1..L : a[i] \in Nat
  OBVIOUS
<1>2. ASSUME NEW n \in 0..L PROVE ToNumber(Exact(a, n)) = Exact(a, n)
  <2>1. Exact(a, n) \in Nat /\ Exact(a, n) <= SqlSum(a) /\ SqlSum(a) \in Nat
    BY <1>1, ExactTotals
  <2>2. 2^SafeBits \in Nat /\ 2^SafeBits <= 2^(SafeBits + (BigintBits + 1))
        /\ 2^(SafeBits + (BigintBits + 1)) \in Nat
    <3>1. /\ SafeBits \in Nat /\ SafeBits + (BigintBits + 1) \in Nat
          /\ SafeBits <= SafeBits + (BigintBits + 1)
      BY WidthsAssumption
    <3>2. 2^SafeBits \in Nat
      BY <3>1, PowersGrow
    <3> QED
      BY <3>1, <3>2, PowersGrow
  <2> DEFINE x == Exact(a, n)
  <2>3. Abs(x) = x /\ x < 2^SafeBits
    BY <2>1, <2>2 DEF IsSafeInteger, Abs
  <2>4. x \in Int /\ Abs(x) < 2^(SafeBits + (BigintBits + 1)) /\ IsSafeInteger(x)
    BY <2>1, <2>2, <2>3 DEF IsSafeInteger
  <2> HIDE DEF x
  <2>5. ToNumber(x) = x
    BY <2>4, ToNumberSound
  <2> QED
    BY <2>5 DEF x
<1>3. ASSUME NEW n \in 0..L, n # 0
      PROVE  /\ n - 1 \in 0..L
             /\ Exact(a, n) = ToNumber(Exact(a, n - 1) + a[n])
  <2>1. n - 1 \in Nat /\ (n - 1) + 1 = n /\ n <= L
    BY <1>1, <1>3
  <2>2. Exact(a, (n - 1) + 1) = Exact(a, n - 1) + a[(n - 1) + 1]
    BY <2>1, ExactGrows
  <2>3. Exact(a, n) = Exact(a, n - 1) + a[n]
    BY <2>1, <2>2
  <2>4. n - 1 \in 0..L
    BY <1>1, <2>1
  <2> QED
    BY <1>2, <2>3, <2>4
<1>4. Totals(w, a)
  <2>1. ASSUME NEW n \in 0..L
        PROVE  w[n] = IF n = 0 THEN 0 ELSE ToNumber(w[n - 1] + a[n])
    <3>1. CASE n = 0
      BY <3>1, ExactTotals
    <3>2. CASE n # 0
      <4>1. w[n] = Exact(a, n) /\ w[n - 1] = Exact(a, n - 1)
        BY <1>3, <3>2
      <4> QED
        BY <1>3, <3>2, <4>1
    <3> QED
      BY <3>1, <3>2
  <2>2. w = [n \in 0..L |-> w[n]]
    OBVIOUS
  <2>3. [n \in 0..L |-> w[n]]
        = [n \in 0..L |-> IF n = 0 THEN 0 ELSE ToNumber(w[n - 1] + a[n])]
    BY <2>1
  <2> HIDE DEF w
  <2> QED
    BY <2>2, <2>3 DEF Totals
<1> DEFINE g == CHOOSE h : Totals(h, a)
<1>5. Totals(g, a)
  BY <1>4, Zenon
<1> HIDE DEF g, w
<1> DEFINE G == {n \in Nat : n <= L => g[n] = Exact(a, n)}
<1>6. \A n \in 0..L : g[n] = IF n = 0 THEN 0 ELSE ToNumber(g[n - 1] + a[n])
  BY <1>5 DEF Totals
<1>7. G = Nat
  <2>1. 0 \in G
    BY <1>1, <1>6, ExactTotals
  <2>2. ASSUME NEW n \in G PROVE n + 1 \in G
    <3>1. SUFFICES ASSUME n + 1 <= L PROVE g[n + 1] = Exact(a, n + 1)
      OBVIOUS
    <3>2. n + 1 \in 0..L /\ n + 1 # 0 /\ (n + 1) - 1 = n /\ n <= L
      BY <1>1, <3>1
    <3>3. g[n] = Exact(a, n)
      BY <3>2
    <3>4. Exact(a, n + 1) = ToNumber(Exact(a, (n + 1) - 1) + a[n + 1])
      BY <1>3, <3>2
    <3>5. g[n + 1] = ToNumber(g[(n + 1) - 1] + a[n + 1])
      BY <1>6, <3>2
    <3> HIDE DEF L, G
    <3> QED
      BY <3>2, <3>3, <3>4, <3>5
  <2> HIDE DEF G
  <2> QED
    BY <2>1, <2>2, NaturalInduction DEF G
<1>8. g[L] = Exact(a, L)
  BY <1>1, <1>7
<1> QED
  BY <1>8, ReduceIsTotal, ExactTotals DEF g
-----------------------------------------------------------------------------
\* The order of the listing.

Reordered(n) == {o \in [1..n -> 1..n] : \A i, j \in 1..n : o[i] = o[j] => i = j}

\* An order leaves no transaction out.
LEMMA PermutedIsOnto ==
  ASSUME NEW n \in Nat, NEW o \in Reordered(n)
  PROVE  \A x \in 1..n : \E i \in 1..n : o[i] = x
<1>1. IsFiniteSet(1..n)
  BY FS_Interval
<1>2. o \in Injection(1..n, 1..n)
  BY DEF Reordered, Injection, IsInjective
<1>3. o \in Surjection(1..n, 1..n)
  BY <1>1, <1>2, FS_Injection
<1> QED
  BY <1>3 DEF Surjection

\* Where two orders part, the one has a transaction that the other lists later.
LEMMA OrdersPart ==
  ASSUME NEW n \in Nat,
         NEW o \in Reordered(n), NEW p \in Reordered(n),
         NEW i \in 1..n, o[i] # p[i], \A j \in 1..n : j < i => o[j] = p[j]
  PROVE  \E j \in 1..n : i < j /\ p[j] = o[i]
<1>1. PICK j \in 1..n : p[j] = o[i]
  <2>1. \A x \in 1..n : \E j \in 1..n : p[j] = x
    BY PermutedIsOnto
  <2>2. o[i] \in 1..n
    BY DEF Reordered
  <2> QED
    BY <2>1, <2>2
<1>2. j # i
  BY <1>1
<1>3. ~ (j < i)
  <2>1. SUFFICES ASSUME j < i PROVE FALSE
    OBVIOUS
  <2>2. o[j] = o[i]
    BY <1>1, <2>1
  <2> QED
    BY <1>2, <2>2 DEF Reordered
<1> QED
  BY <1>1, <1>2, <1>3

\* Transactions of different times are listed in one order.
LEMMA OneOrder ==
  ASSUME ledger \in Seq(Movements), NEW o \in Orders, NEW p \in Orders,
         \A i, j \in DOMAIN ledger : ledger[i].at = ledger[j].at => i = j
  PROVE  o = p
<1> DEFINE n == Len(ledger)
           W == {i \in 1..n : o[i] # p[i]}
<1>1. n \in Nat /\ DOMAIN ledger = 1..n /\ \A i \in 1..n : ledger[i].at \in Int
  <2>1. n \in Nat /\ DOMAIN ledger = 1..n /\ \A i \in 1..n : ledger[i] \in Movements
    OBVIOUS
  <2>2. \A m \in Movements : m.at \in Int
    BY AmountsAssumption DEF Movements
  <2> HIDE DEF n
  <2> QED
    BY <2>1, <2>2
<1>2. /\ o \in Reordered(n) /\ o \in [1..n -> 1..n]
      /\ \A i, j \in 1..n : i < j => ledger[o[i]].at <= ledger[o[j]].at
  BY DEF Orders, Permuted, Reordered
<1>3. /\ p \in Reordered(n) /\ p \in [1..n -> 1..n]
      /\ \A i, j \in 1..n : i < j => ledger[p[i]].at <= ledger[p[j]].at
  BY DEF Orders, Permuted, Reordered
<1>4. SUFFICES ASSUME W # {} PROVE FALSE
  BY <1>2, <1>3
<1> HIDE DEF n
<1>5. PICK i \in W : \A j \in W : i <= j
  <2>1. W \subseteq Nat
    BY <1>1
  <2> HIDE DEF W
  <2> QED
    BY <1>4, <2>1, LeastNatural
<1>6. i \in 1..n /\ o[i] # p[i] /\ \A j \in 1..n : j < i => o[j] = p[j]
  BY <1>1, <1>5
<1> HIDE DEF W
<1>7. PICK j \in 1..n : i < j /\ p[j] = o[i]
  <2>1. /\ n \in Nat /\ o \in Reordered(n) /\ p \in Reordered(n)
        /\ i \in 1..n /\ o[i] # p[i]
        /\ \A j \in 1..n : j < i => o[j] = p[j]
    BY <1>1, <1>2, <1>3, <1>6
  <2> QED
    BY ONLY <2>1, OrdersPart
<1>8. PICK k \in 1..n : i < k /\ o[k] = p[i]
  <2>1. /\ n \in Nat /\ o \in Reordered(n) /\ p \in Reordered(n)
        /\ i \in 1..n /\ p[i] # o[i]
        /\ \A m \in 1..n : m < i => p[m] = o[m]
    BY <1>1, <1>2, <1>3, <1>6
  <2> QED
    BY ONLY <2>1, OrdersPart
<1>9. ledger[p[i]].at <= ledger[o[i]].at /\ ledger[o[i]].at <= ledger[p[i]].at
  BY <1>2, <1>3, <1>6, <1>7, <1>8
<1>10. o[i] \in 1..n /\ p[i] \in 1..n
  BY <1>2, <1>3, <1>6
<1>11. ledger[p[i]].at = ledger[o[i]].at
  BY <1>1, <1>9, <1>10
<1> QED
  BY <1>1, <1>6, <1>10, <1>11

\* A safe total does not depend on the order.
LEMMA SafeTotal ==
  ASSUME ledger \in Seq(Movements), NEW o \in Orders,
         IsSafeInteger(SqlSum([i \in DOMAIN ledger |-> ledger[i].amount]))
  PROVE  Total(o) = SqlSum([i \in DOMAIN ledger |-> ledger[i].amount])
<1> DEFINE n == Len(ledger)
           a == [i \in DOMAIN ledger |-> ledger[i].amount]
           b == [i \in 1..n |-> ledger[o[i]].amount]
<1>1. n \in Nat /\ DOMAIN ledger = 1..n /\ \A i \in 1..n : ledger[i].amount \in Nat
  <2>1. n \in Nat /\ DOMAIN ledger = 1..n /\ \A i \in 1..n : ledger[i] \in Movements
    OBVIOUS
  <2>2. \A m \in Movements : m.amount \in Nat
    BY DEF Movements
  <2> HIDE DEF n, a, b
  <2> QED
    BY <2>1, <2>2
<1>2. /\ o \in Reordered(n) /\ o \in [1..n -> 1..n]
      /\ \A i, j \in 1..n : o[i] = o[j] => i = j
  BY DEF Orders, Permuted, Reordered
<1>3. a \in [1..n -> Int]
  BY <1>1
<1>4. b \in [1..n -> Nat] /\ \A i \in 1..n : a[o[i]] = b[i]
  BY <1>1, <1>2
<1>5. Total(o) = Reduce(b)
  BY DEF Total
<1> HIDE DEF n, a, b
<1>6. b \in Seq(Nat)
  BY <1>1, <1>4
<1>7. SqlSum(b) = SqlSum(a)
  <2>1. IsFiniteSet(1..n)
    BY <1>1, FS_Interval
  <2>2. \A x \in 1..n : \E i \in 1..n : o[i] = x
    BY <1>1, <1>2, PermutedIsOnto
  <2>3. b \in [1..n -> Int]
    BY <1>4
  <2>4. SumFunction(b) = SumFunction(a)
    <3>1. PICK S, T : S = 1..n /\ T = 1..n
      OBVIOUS
    <3>2. /\ IsFiniteSet(S) /\ o \in [S -> T]
          /\ \A x, y \in S : o[x] = o[y] => x = y
          /\ \A z \in T : \E x \in S : o[x] = z
          /\ b \in [S -> Int] /\ a \in [T -> Int]
          /\ \A x \in S : a[o[x]] = b[x]
      BY <1>2, <1>3, <1>4, <2>1, <2>2, <2>3, <3>1
    <3> QED
      BY ONLY <3>2, SumReindexed
  <2> QED
    BY <2>4 DEF SqlSum
<1>8. IsSafeInteger(SqlSum(b))
  BY <1>7 DEF a
<1>9. Reduce(b) = SqlSum(b)
  BY <1>6, <1>8, ReduceIsExact
<1> QED
  BY <1>5, <1>7, <1>9 DEF a

\* Balanced transactions are found to balance, whether or not their entries are
\* listed in the same order, as long as their total is safe; beyond that, as
\* long as the order by created_at leaves no choice (summarizeLedger and the
\* listing it adds up, ORDER BY lt.created_at, le.id).
THEOREM LedgerBalances == RangeSpec => []LedgerFoundBalanced
<1>1. RangeInv => LedgerFoundBalanced
  <2> SUFFICES ASSUME RangeInv,
                      \/ IsSafeInteger(SqlSum([i \in DOMAIN ledger |-> ledger[i].amount]))
                      \/ \A i, j \in DOMAIN ledger : ledger[i].at = ledger[j].at => i = j,
                      NEW o \in Orders, NEW p \in Orders
               PROVE  Total(o) = Total(p)
    BY DEF LedgerFoundBalanced
  <2>1. ledger \in Seq(Movements)
    BY DEF RangeInv
  <2>2. CASE IsSafeInteger(SqlSum([i \in DOMAIN ledger |-> ledger[i].amount]))
    BY <2>1, <2>2, SafeTotal
  <2>3. CASE \A i, j \in DOMAIN ledger : ledger[i].at = ledger[j].at => i = j
    BY <2>1, <2>3, OneOrder
  <2> QED
    BY <2>2, <2>3
<1> QED
  BY <1>1, RangeInvariant, PTL
=============================================================================
