---------------------- MODULE MCGenerationReservation ----------------------
(* Model checking of GenerationReservation: symmetry of the pools.         *)
EXTENDS GenerationReservation, TLC

PoolSymmetry == Permutations(Gen) \cup Permutations(Worker) \cup Permutations(Tool)
Symmetry == PoolSymmetry \cup Permutations(Session)
=============================================================================
