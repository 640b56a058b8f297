---------------------------- MODULE MCConnecting ----------------------------
EXTENDS Connecting
=============================================================================
