--------------------------- MODULE MCSnapshotReads ---------------------------
\* An instance of SnapshotReads for TLC: one active policy with a term of two
\* days, one cancelled policy and one id that has no policy.
EXTENDS SnapshotReads, TLC

CONSTANTS k1, k2  \* idempotency keys, as model values

MCContract ==
  "active"    :> [status |-> "active", start |-> 1, end |-> 3,
                  currency |-> "USD", premium |-> 2] @@
  "cancelled" :> [status |-> "cancelled", start |-> 1, end |-> 3,
                  currency |-> "USD", premium |-> 2]

Endorsement(key, p, day, new) ==
  [key |-> key, body |-> [kind |-> "endorsement", policy |-> p,
                          day |-> day, premium |-> new]]

PaymentOf(key, p, external, amount, currency) ==
  [key |-> key, body |-> [kind |-> "payment", policy |-> p, amount |-> amount,
                          external |-> external, currency |-> currency]]

\* The premium goes up, and down for a part of the term; one external id under
\* two keys, with the same and with another amount, and another external id.
MCAccepted ==
  {Endorsement(k1, "active", 1, 5), Endorsement(k2, "active", 2, 1),
   PaymentOf(k1, "active", "x", 1, "USD"), PaymentOf(k2, "active", "x", 1, "USD"),
   PaymentOf(k2, "active", "x", 3, "USD"), PaymentOf(k2, "active", "y", 3, "USD")}

\* A change that rounds to zero, a date past the term, a policy that is not
\* active or does not exist, a wrong currency.
MCRefused ==
  UNION {{Endorsement(k, "active", 1, 2), Endorsement(k, "active", 3, 5),
          Endorsement(k, "cancelled", 1, 5), Endorsement(k, "missing", 1, 5),
          PaymentOf(k, "active", "x", 1, "EUR"),
          PaymentOf(k, "missing", "x", 1, "USD")} : k \in {k1, k2}}

MCInputs == MCAccepted \cup MCRefused

MCReads == {[kind |-> k, policy |-> "active"] : k \in {"state", "ledger", "history"}}
             \cup {[kind |-> "state", policy |-> "missing"]}
=============================================================================
