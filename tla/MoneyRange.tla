------------------------------ MODULE MoneyRange ------------------------------
(***************************************************************************)
(* The numbers that hold money.  PostgreSQL keeps cents as BIGINT and sums *)
(* them exactly; database.service.ts:5 has the driver turn every BIGINT    *)
(* into a JavaScript number, which is exact only in the safe range.  Each  *)
(* amount is limited to 9000000000000000, inside that range, but nothing   *)
(* limits how many there are.                                              *)
(*                                                                         *)
(* Widths are parameters: 53 and 63 bits in the code.                      *)
(***************************************************************************)
EXTENDS Proration, Sequences, Functions

CONSTANTS
  SafeBits,     \* integers below 2^SafeBits are exact as numbers
  BigintBits,   \* a BIGINT is below 2^BigintBits
  Limit,        \* 9000000000000000: @Max of the requests, CHECK of the tables
  Requested,    \* amounts that requests ask for
  YearDays,     \* days of the term
  Times,        \* readings of the clock
  MaxWrites     \* bound

ASSUME WidthsAssumption == /\ SafeBits \in Nat \ {0}
                           /\ BigintBits \in Nat /\ BigintBits > SafeBits
                           /\ Limit \in 1..(2^SafeBits - 1)

\* @IsInt of the requests, clocks that can be compared, and the CHECK
\* (term_end > term_start).
ASSUME AmountsAssumption == /\ Requested \subseteq Int
                            /\ Times \subseteq Int
                            /\ YearDays \in Nat \ {0}

VARIABLES annualPremium,  \* policies.annual_premium_cents
          documents,      \* amounts of billing_documents
          payments,       \* amounts of payments
          ledger,         \* per ledger transaction [amount, at]: the one amount
                          \* of its debit and its credit, and its created_at
          result          \* the last request: what became of it

rangeVars == <<annualPremium, documents, payments, ledger, result>>

RangeInit == /\ annualPremium \in Requested \cap 0..Limit
             /\ documents = << >>
             /\ payments = << >>
             /\ ledger = << >>
             /\ result = "none"

\* Number.isSafeInteger, and the range of BIGINT.
IsSafeInteger(n) == Abs(n) < 2^SafeBits
InBigint(n)      == -(2^BigintBits) <= n /\ n < 2^BigintBits

\* Number of an integer, as text or as a sum: the nearest multiple of the
\* spacing of numbers of that size, and of two as near the even one.
ToNumber(n) ==
  LET bits     == CHOOSE b \in 0..BigintBits + 1 :
                    /\ Abs(n) < 2^(SafeBits + b)
                    /\ b > 0 => Abs(n) >= 2^(SafeBits + b - 1)
      spacing  == 2^bits
      multiple == Abs(n) \div spacing
      rest     == 2 * (Abs(n) % spacing)
      rounded  == IF rest > spacing \/ (rest = spacing /\ multiple % 2 = 1)
                  THEN multiple + 1 ELSE multiple
  IN  IF n < 0 THEN -(rounded * spacing) ELSE rounded * spacing

\* SUM in SQL is exact; reduce((total, x) => total + x, 0) in JavaScript rounds
\* at each addition.
SqlSum(amounts) == SumFunction(amounts)
Reduce(amounts) ==
  LET total[n \in 0..Len(amounts)] ==
        IF n = 0 THEN 0 ELSE ToNumber(total[n - 1] + amounts[n])
  IN  total[Len(amounts)]
-----------------------------------------------------------------------------
\* calculateOpenBalance, which fails when a cast or the difference overflows.

Owed(docs, pays) == SqlSum(docs) - SqlSum(pays)

BalanceOverflows(docs, pays) ==
  ~ (InBigint(SqlSum(docs)) /\ InBigint(SqlSum(pays)) /\ InBigint(Owed(docs, pays)))

\* Mutant: the service adds up what it listed.
OpenBalanceReduced(docs, pays) == ToNumber(Reduce(docs) - Reduce(pays))

OpenBalance(docs, pays) == ToNumber(Owed(docs, pays))

\* Mutant: the answer's balance is reckoned from the one before.
EnactUnread(docs, pays, amount) ==
  /\ documents' = docs
  /\ payments' = pays
  /\ \E t \in Times : ledger' = Append(ledger, [amount |-> Abs(amount), at |-> t])
  /\ result' = "done"

\* The rest of a write: its rows go in, the balance is queried, and if that
\* fails so does the transaction.
Enact(docs, pays, amount) ==
  IF BalanceOverflows(docs, pays)
  THEN result' = "overflow" /\ UNCHANGED <<documents, payments, ledger>>
  ELSE /\ documents' = docs
       /\ payments' = pays
       /\ \E t \in Times : ledger' = Append(ledger, [amount |-> Abs(amount), at |-> t])
       /\ result' = "done"

Refused(reason) == result' = reason /\ UNCHANGED <<documents, payments, ledger>>

\* ApplyEndorsementDto: @Min(0), @Max.
PremiumValid(new) == new \in 0..Limit

\* applyEndorsement: the safe-integer assertions of calculateProration, the
\* CHECK constraints, the zero adjustment.
ApplyEndorsement(new, remainingDays) ==
  LET cents == ProratedDelta(new - annualPremium, remainingDays, YearDays) IN
  /\ IF ~ PremiumValid(new) THEN Refused("invalid")
     ELSE IF ~ (IsSafeInteger(annualPremium) /\ IsSafeInteger(new) /\ IsSafeInteger(cents))
       THEN Refused("not a safe integer")
     ELSE IF cents = 0 THEN Refused("zero adjustment")
     ELSE IF new > Limit \/ Abs(cents) > Limit THEN Refused("constraint violated")
     ELSE Enact(Append(documents, cents), payments, cents)
  /\ annualPremium' = IF result' = "done" THEN new ELSE annualPremium

\* recordPayment, with @Min(1) and @Max of RecordPaymentDto.
RecordPayment(amount) ==
  /\ IF amount \notin 1..Limit THEN Refused("invalid")
     ELSE Enact(documents, Append(payments, amount), amount)
  /\ UNCHANGED annualPremium

RangeNext == /\ Len(ledger) < MaxWrites
             /\ \/ \E new \in Requested, days \in 1..YearDays : ApplyEndorsement(new, days)
                \/ \E amount \in Requested : RecordPayment(amount)

RangeSpec == RangeInit /\ [][RangeNext]_rangeVars
-----------------------------------------------------------------------------
\* summarizeLedger.

Permuted == {o \in [1..Len(ledger) -> 1..Len(ledger)] :
               \A i, j \in 1..Len(ledger) : o[i] = o[j] => i = j}

\* Mutant: ORDER BY le.id, ids being random.
OrdersById == Permuted

\* Orders in which the debits, and the credits, of the transactions may be
\* listed: ORDER BY lt.created_at, le.id.
Orders == {o \in Permuted : \A i, j \in 1..Len(ledger) :
                              i < j => ledger[o[i]].at <= ledger[o[j]].at}

Total(order) == Reduce([i \in 1..Len(ledger) |-> ledger[order[i]].amount])
-----------------------------------------------------------------------------
\* The balance that is reported may be rounded, but what is decided by it is
\* not: documents are settled, and an action suggested, as the exact balance
\* is positive, zero or negative.
DecisionsAreExact ==
  LET exact    == Owed(documents, payments)
      reported == OpenBalance(documents, payments)
  IN  (reported > 0 <=> exact > 0) /\ (reported < 0 <=> exact < 0)

\* However many requests a policy is sent, and for whatever amounts, its books
\* can be read: the write that would make the sums overflow fails on its own
\* balance query, and is rolled back.  Amounts that are too large are refused
\* as invalid before a CHECK constraint fails on them, or an assertion of
\* calculateProration (which applyEndorsement would answer with 422).
BooksStayReadable ==
  /\ result \notin {"not a safe integer", "constraint violated"}
  /\ ~ BalanceOverflows(documents, payments)

\* summarizeLedger adds debits and credits up as numbers, each in the order
\* they are listed.  It finds that balanced transactions balance while their
\* total is safe, and beyond that, where sums depend on their order, as long as
\* no two transactions have the same created_at.
LedgerFoundBalanced ==
  (\/ IsSafeInteger(SqlSum([i \in DOMAIN ledger |-> ledger[i].amount]))
   \/ \A i, j \in DOMAIN ledger : ledger[i].at = ledger[j].at => i = j) =>
     \A debits, credits \in {Total(o) : o \in Orders} : debits = credits

=============================================================================
