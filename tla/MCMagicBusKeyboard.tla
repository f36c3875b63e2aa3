------------------------- MODULE MCMagicBusKeyboard -------------------------
\* MagicBusKeyboard with a queue of a few bytes.
EXTENDS MagicBusKeyboard
=============================================================================
