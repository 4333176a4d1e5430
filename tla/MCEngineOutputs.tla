-------------------------- MODULE MCEngineOutputs --------------------------
(* A bench for EngineOutputs: a real source, gate and meters; the second      *)
(* source is real or simulated.                                               *)
EXTENDS EngineOutputs

MixedBench == [r \in Roles |-> IF r = "source2" THEN {"sim", "live"} ELSE {"live"}]
=============================================================================
