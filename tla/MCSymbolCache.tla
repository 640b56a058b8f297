---------------------------- MODULE MCSymbolCache ----------------------------
EXTENDS SymbolCache, TLC
=============================================================================
