---------------------------- MODULE MCValueCodec ----------------------------
EXTENDS ValueCodec
=============================================================================
