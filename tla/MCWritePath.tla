----------------------------- MODULE MCWritePath -----------------------------
EXTENDS WritePath
=============================================================================
