---------------------------- MODULE MCRequestPool ---------------------------
EXTENDS RequestPool
=============================================================================
