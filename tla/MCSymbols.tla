----------------------------- MODULE MCSymbols -----------------------------
EXTENDS Symbols, TLC

UserSymmetry == Permutations(Users)
=============================================================================
