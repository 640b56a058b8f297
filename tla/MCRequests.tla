----------------------------- MODULE MCRequests -----------------------------
EXTENDS Requests, TLC

CallerSymmetry == Permutations(Callers)
=============================================================================
