------------------------------ MODULE MCBlockIO -----------------------------
EXTENDS BlockIO
=============================================================================
