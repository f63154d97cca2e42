------------------------------- MODULE MCFifo -------------------------------
(* Instances of Fifo for TLC, used as the rest of xpr uses it. *)
EXTENDS FifoInvariant, TLC

CONSTANTS e1, e2

MCBatches == {<<e1>>, <<e2, e1>>, <<e1, e2, e2>>}
MCLockedCalls == AllCalls \ {"Drain"}
MCPlainCalls == AllCalls \ AtomicCalls
=============================================================================
