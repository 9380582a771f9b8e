---------------------------- MODULE MCDeployment ----------------------------
(* Two arrow keys reach either limit of the gain from where it starts. *)
EXTENDS Deployment

LowestGain == -2
=============================================================================
