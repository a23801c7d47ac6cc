---------------------------- MODULE MCExperiment ----------------------------
(* A day in halves, the intervention at its middle.                         *)
EXTENDS Experiment
=============================================================================
