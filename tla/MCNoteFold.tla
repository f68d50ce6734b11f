----------------------------- MODULE MCNoteFold -----------------------------
EXTENDS NoteFold
=============================================================================
