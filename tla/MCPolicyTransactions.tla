------------------------- MODULE MCPolicyTransactions -------------------------
\* Instances of PolicyTransactions for TLC: one active and one cancelled
\* policy, and an id that has none.
EXTENDS PolicyTransactions, TLC

CONSTANTS k1, k2,          \* idempotency keys, as model values
          r1, r2, r3   \* requests, as model values

MCContract ==
  "active"    :> [status |-> "active", start |-> 1, end |-> 3,
                  currency |-> "USD", premium |-> 2] @@
  "cancelled" :> [status |-> "cancelled", start |-> 1, end |-> 3,
                  currency |-> "USD", premium |-> 2]

Endorsement(key, p, day, new) ==
  [key |-> key, body |-> [kind |-> "endorsement", policy |-> p,
                          day |-> day, premium |-> new]]

PaymentOf(key, p, external, amount, currency) ==
  [key |-> key, body |-> [kind |-> "payment", policy |-> p, amount |-> amount,
                          external |-> external, currency |-> currency]]

\* The same key with the same and with another body, another key; the same
\* payment under two keys, with the same and with other data.
Contended ==
  {Endorsement(k1, "active", 1, 5), Endorsement(k1, "active", 2, 0),
   Endorsement(k2, "active", 2, 5),
   PaymentOf(k1, "active", "x", 3, "USD"), PaymentOf(k2, "active", "x", 3, "USD"),
   PaymentOf(k2, "active", "x", 1, "USD"), PaymentOf(k2, "active", "y", 1, "USD")}

\* Requests that are refused, for each reason there is.
Inadmissible ==
  {Endorsement(k1, "active", 1, 2), Endorsement(k2, "active", 3, 5),
   Endorsement(k1, "cancelled", 1, 5), Endorsement(k1, "missing", 1, 5),
   PaymentOf(k1, "active", "x", 3, "EUR"), PaymentOf(k1, "missing", "x", 3, "USD")}

MCInputs == Contended \cup Inadmissible

Symmetric == Permutations(Requests)
=============================================================================
