---------------------------- MODULE MCTecnicoFS ----------------------------
(* Small instances of TecnicoFS for TLC. *)
EXTENDS TecnicoFS, TLC

CONSTANTS x, y

\* Nothing, one cell, or two that differ.
MCBuffers == {<<>>, <<x>>, <<y, x>>}
MCOneOrTwo == {<<x>>, <<x, y>>}
MCLengths == 0 .. 2

\* Path names are only compared, so those that differ in nothing else are alike.
PathSymmetry == Permutations(Paths \ LongPaths)
=============================================================================
