---------------------------- MODULE MCCamRequest ----------------------------
(* Small instances of CamRequest for TLC.                                  *)
EXTENDS CamRequest, TLC

\* Every request carries buffers for exactly one pipe, or for any set of them.
OnePipeEach == {{p} : p \in Pipes}
AnyPipes == (SUBSET Pipes) \ {{}}

Symmetry == Permutations(Reqs)
=============================================================================
