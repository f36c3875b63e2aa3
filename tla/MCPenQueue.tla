----------------------------- MODULE MCPenQueue -----------------------------
EXTENDS PenQueue
=============================================================================
