--------------------------- MODULE MCHistoryAudit ---------------------------
\* An instance of HistoryAudit for TLC.  Contract and Inputs of Accounting play
\* no part here.
EXTENDS HistoryAudit, TLC

CONSTANTS a, b  \* payloads, as model values
MCPayloads == {a, b}
MCContract == << >>
MCInputs == {}
PayloadSymmetry == Permutations(MCPayloads)
=============================================================================
