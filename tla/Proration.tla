------------------------------ MODULE Proration ------------------------------
(***************************************************************************)
(* Pricing of an endorsement: the pure functions of                        *)
(* src/common/utils/money.ts and src/common/utils/date.ts, with the checks *)
(* applyEndorsement makes before and after it calls them.                  *)
(*                                                                         *)
(* A calendar date is its epoch day (an Int), money is a number of cents.  *)
(* PostgreSQL holds the dates of a policy's term as DATE; the driver turns *)
(* a DATE into the instant of local midnight, and the service turns that   *)
(* instant back into a date in UTC.  A zone is a function that gives, for  *)
(* a day, how many hours the local clock of the process is ahead of UTC.   *)
(***************************************************************************)
EXTENDS Integers

Abs(n) == IF n < 0 THEN -n ELSE n

\* Mutant: rounds half up, towards plus infinity.
RoundHalfUp(numerator, denominator) ==
  (2 * numerator + denominator) \div (2 * denominator)

\* Mutant: drops the fraction.
RoundTowardsZero(numerator, denominator) ==
  IF numerator < 0 THEN -(Abs(numerator) \div denominator) ELSE numerator \div denominator

\* Nearest integer to numerator/denominator, ties away from zero.
RoundFractionHalfAwayFromZero(numerator, denominator) ==
  LET quotient  == Abs(numerator) \div denominator
      remainder == Abs(numerator) % denominator
      magnitude == IF remainder * 2 >= denominator THEN quotient + 1 ELSE quotient
  IN  IF numerator < 0 THEN -magnitude ELSE magnitude

\* Mutant: rounds the price of a day, and then multiplies.
RoundedDailyRate(delta, remainingDays, termDays) ==
  RoundFractionHalfAwayFromZero(delta, termDays) * remainingDays

\* The share of an annual change that falls on the days left in the term.
ProratedDelta(delta, remainingDays, termDays) ==
  RoundFractionHalfAwayFromZero(delta * remainingDays, termDays)

\* The instant, in hours since the epoch, that the driver gives for a DATE:
\* midnight of that day on the local clock.
LocalMidnight(day, zone) == 24 * day - zone[day]

\* The UTC date of an instant: what toISOString().slice(0, 10) keeps of it.
NormalizeDatabaseDate(hours) == hours \div 24

\* The term as the service sees it, from the term the database holds.
ServiceTerm(term, zone) ==
  [start |-> NormalizeDatabaseDate(LocalMidnight(term.start, zone)),
   end   |-> NormalizeDatabaseDate(LocalMidnight(term.end, zone))]

TermDays(term) == term.end - term.start

RemainingDays(term, day) == term.end - day

\* Mutant: refuses the first day of the term.
InsideOpenTerm(term, day) == term.start < day /\ day < term.end

\* validateEffectiveDate: the term is half-open.
InsideTerm(term, day) == /\ term.start <= day
                         /\ day < term.end

\* calculateProration's own guards on the two day counts.
Proratable(term, day) == /\ TermDays(term) > 0
                         /\ RemainingDays(term, day) > 0
                         /\ RemainingDays(term, day) <= TermDays(term)

\* The prorated amount of moving the annual premium from old to new on a day.
Adjustment(term, day, old, new) ==
  ProratedDelta(new - old, RemainingDays(term, day), TermDays(term))

\* What becomes of a request for that change: the reason of the 422, or
\* "priced".  The checks are made in this order.
Verdict(term, day, old, new) ==
  IF ~ InsideTerm(term, day) THEN "outside term"
  ELSE IF ~ Proratable(term, day) THEN "not proratable"
  ELSE IF Adjustment(term, day, old, new) = 0 THEN "zero adjustment"
  ELSE "priced"
=============================================================================
