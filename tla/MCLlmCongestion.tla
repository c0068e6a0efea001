-------------------------- MODULE MCLlmCongestion --------------------------
EXTENDS LlmCongestion, TLC

\* Processes, requests and keys have no role of their own.
CallSymmetry == Permutations(Attempts) \cup Permutations(Procs) \cup Permutations(Keys)
=============================================================================
