---------------------------- MODULE MCTx39Timer ----------------------------
\* Tx39Timer with small values for the clock.
EXTENDS Tx39Timer
=============================================================================
