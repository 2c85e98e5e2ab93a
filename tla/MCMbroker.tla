----------------------------- MODULE MCMbroker -----------------------------
(* Small instances of Mbroker for TLC. *)
EXTENDS Mbroker

CONSTANTS x, y

\* The empty line, one cell, and two that differ.
MCMessages == {<<>>, <<x>>, <<y, x>>}
MCOneMessage == {<<x>>}
MCTwoMessages == {<<x>>, <<y>>}
=============================================================================
