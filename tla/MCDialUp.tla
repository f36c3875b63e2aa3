------------------------------ MODULE MCDialUp ------------------------------
\* DialUp for TLC: the bounds are in the configuration.
EXTENDS DialUp
=============================================================================
