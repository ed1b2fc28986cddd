------------------------------ MODULE MCServer ------------------------------
EXTENDS Server, TLC

Symmetry == Permutations(Conn)
=============================================================================
