------------------------------ MODULE MCDrift -------------------------------
\* Requests for a setting are told apart by what they ask for alone.
EXTENDS Drift, TLC

WriterSymmetry == Permutations(Writers)
=============================================================================
