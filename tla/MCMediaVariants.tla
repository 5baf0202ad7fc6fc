--------------------------- MODULE MCMediaVariants ---------------------------
EXTENDS MediaVariants, TLC
=============================================================================
