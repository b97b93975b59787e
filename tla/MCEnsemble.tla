----------------------------- MODULE MCEnsemble -----------------------------
(***************************************************************************)
(* A small instance of Ensemble: five timesteps, of which two are for       *)
(* training, two for validation and one for testing.                       *)
(***************************************************************************)
EXTENDS Ensemble

MCOutputs == [t \in 0..4 |-> IF t \in {1, 3} THEN -1 ELSE 1]

=============================================================================
