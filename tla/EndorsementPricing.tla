-------------------------- MODULE EndorsementPricing --------------------------
(***************************************************************************)
(* One policy whose annual premium is changed again and again during its   *)
(* term, in any order of effective dates: the pricing part of              *)
(* applyEndorsement (src/policies/policies.service.ts), one whole request  *)
(* per step.  What the ledger and the database do with a priced            *)
(* endorsement is the business of PolicyBook and PolicyTransactions.       *)
(***************************************************************************)
EXTENDS Proration, Sequences, FiniteSetsExt

CONSTANTS Terms,            \* terms a policy may have: [start, end] in days
          Zones,            \* clocks the process may run under
          Days,             \* effective dates that requests ask for
          Premiums,         \* annual premiums, in cents
          MaxEndorsements   \* bound: endorsements priced in a behaviour

\* CHECK (term_end > term_start) of migrations/001_core_schema.sql.
ASSUME TermsAssumption ==
  \A t \in Terms : t.start \in Int /\ t.end \in Int /\ t.start < t.end

ASSUME ZonesAssumption ==
  \A z \in Zones, t \in Terms : z[t.start] \in Int /\ z[t.end] \in Int

ASSUME RequestsAssumption == Days \subseteq Int /\ Premiums \subseteq Nat

VARIABLES term,         \* the term as the database holds it
          zone,         \* hours ahead of UTC, per day
          premium,      \* policies.annual_premium_cents
          adjustments,  \* the priced endorsements, oldest first
          answer        \* the last request and what became of it

vars == <<term, zone, premium, adjustments, answer>>

NoAnswer == [day |-> 0, old |-> 0, new |-> 0, verdict |-> "none"]

Init == /\ term \in Terms
        /\ zone \in Zones
        /\ premium \in Premiums
        /\ adjustments = << >>
        /\ answer = NoAnswer

\* The dates and premium a request is priced with: the term as read through
\* the clock of the process, the premium of the locked row.
Quote(day, new) ==
  LET t == ServiceTerm(term, zone)
  IN  [day |-> day, old |-> premium, new |-> new,
       verdict |-> Verdict(t, day, premium, new)]

\* The priced adjustment that is billed, with the day counts it reports.
Priced(day, new) ==
  LET t == ServiceTerm(term, zone)
  IN  [day |-> day, delta |-> new - premium,
       remaining |-> RemainingDays(t, day), termDays |-> TermDays(t),
       cents |-> Adjustment(t, day, premium, new)]

\* A request that passes every check: billed, and the premium replaced.
Endorse(day, new) ==
  /\ Len(adjustments) < MaxEndorsements
  /\ Quote(day, new).verdict = "priced"
  /\ answer' = Quote(day, new)
  /\ adjustments' = Append(adjustments, Priced(day, new))
  /\ premium' = new
  /\ UNCHANGED <<term, zone>>

\* A request that is answered 422: nothing is billed.
Refuse(day, new) ==
  /\ Quote(day, new).verdict # "priced"
  /\ answer' = Quote(day, new)
  /\ UNCHANGED <<term, zone, premium, adjustments>>

Next == \E day \in Days, new \in Premiums :
          \/ Endorse(day, new)
          \/ Refuse(day, new)

Spec == Init /\ [][Next]_vars
-----------------------------------------------------------------------------
\* The sum of the cents billed so far.
Billed == SumFunction([i \in DOMAIN adjustments |-> adjustments[i].cents])

\* The exact value of what was billed, times the length of the term.
ExactTimesTerm ==
  SumFunction([i \in DOMAIN adjustments |-> adjustments[i].delta * adjustments[i].remaining])

\* However a policy's premium reached its present value, what was billed
\* differs from the exact time-weighted price by at most half a cent for each
\* endorsement: rounding (money.ts:16-27) never drifts further, and no
\* direction is favoured.  Stated against a reference that does not round.
RoundingNeverDrifts ==
  2 * Abs(Billed * TermDays(term) - ExactTimesTerm) <= Len(adjustments) * TermDays(term)

\* Undoing an endorsement on the date it took effect gives back exactly what
\* it charged: ties are rounded away from zero on both sides (money.ts:21-26).
ReversalNetsToZero ==
  \A i \in DOMAIN adjustments :
    LET a == adjustments[i]
    IN  \A j \in DOMAIN adjustments :
          LET b == adjustments[j]
          IN  (b.day = a.day /\ b.delta = -a.delta) => b.cents = -a.cents

\* A mid-term change is never billed at more than its annual amount, nor
\* against its direction, and a change for the whole term is billed in full.
NeverMoreThanAnnual ==
  \A i \in DOMAIN adjustments :
    LET a == adjustments[i]
    IN  /\ Abs(a.cents) <= Abs(a.delta)
        /\ a.cents * a.delta > 0
        /\ a.day = term.start => a.cents = a.delta

\* docs/ARCHITECTURE.md:82: "The term end date is exclusive. An effective
\* date must be on or after term_start and before term_end."  The term is the
\* one the database holds, whatever the clock of the process.
TermEndIsExclusive ==
  /\ answer.verdict \in {"priced", "zero adjustment"} => answer.day \in term.start..(term.end - 1)
  /\ answer.verdict = "outside term" => answer.day \notin term.start..(term.end - 1)
=============================================================================
