----------------------------- MODULE MCWidgetSync -----------------------------
EXTENDS WidgetSync, TLC

Symmetry == Permutations(Users)
=============================================================================
