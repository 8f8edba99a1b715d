----------------------------- MODULE MCMoneyRange -----------------------------
\* An instance of MoneyRange with numbers of two bits, a BIGINT of three, and
\* amounts up to the largest safe integer, 3.
EXTENDS MoneyRange
=============================================================================
