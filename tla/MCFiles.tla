------------------------------ MODULE MCFiles -------------------------------
EXTENDS Files, TLC

\* Every file is one byte long.
MCLength == [f \in Files |-> 1]

\* A small step, and one that leaves the file at either end.
MCOffsets == {1, -3}

\* Descriptors differ by address only, which nothing compares.
DescrSymmetry == Permutations(Descr)
=============================================================================
