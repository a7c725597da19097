------------------------------ MODULE MCRBMap -------------------------------
EXTENDS RBMap
MCKeys == 1 .. 6
=============================================================================
