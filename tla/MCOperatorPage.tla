---------------------------- MODULE MCOperatorPage ----------------------------
\* An instance of OperatorPage: one form, and one load that no form awaits, so
\* that loads and submissions overlap in twos.
EXTENDS OperatorPage
=============================================================================
