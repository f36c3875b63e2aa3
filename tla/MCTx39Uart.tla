----------------------------- MODULE MCTx39Uart -----------------------------
\* Tx39Uart with short frames and few bytes.
EXTENDS Tx39Uart
=============================================================================
