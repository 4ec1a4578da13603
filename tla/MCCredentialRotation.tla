------------------------ MODULE MCCredentialRotation ------------------------
EXTENDS ProtectedRotation, TLC
Symmetry == Permutations(Secret)
=============================================================================
