------------------------------ MODULE MCDave ------------------------------
EXTENDS Dave, TLC

Symmetry == Permutations(Users)

=============================================================================
