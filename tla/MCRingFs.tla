------------------------------ MODULE MCRingFs ------------------------------
EXTENDS RingFs
=============================================================================
