----------------------------- MODULE MCTeardown -----------------------------
EXTENDS Teardown
=============================================================================
