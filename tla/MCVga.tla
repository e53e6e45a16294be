------------------------------- MODULE MCVga --------------------------------
EXTENDS Vga, TLC

\* Nothing tells one echoing task from another.
EchoSymmetry == Permutations(Echoers)
=============================================================================
