----------------------------- MODULE MCPCQueue -----------------------------
(* Small instances of PCQueue for TLC. *)
EXTENDS PCQueue, TLC

CONSTANTS p1, c1, c2, e1, e2

MCOneProducer  == {p1}
MCOneConsumer  == {c1}
MCTwoConsumers == {c1, c2}
MCElems        == {e1, e2}
=============================================================================
