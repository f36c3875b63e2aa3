---------------------------- MODULE MCCardDriver ----------------------------
EXTENDS CardDriver
CONSTANTS s1, s2
=============================================================================
