------------------------------- MODULE MCHcp -------------------------------
(* A small instance of Hcp for TLC.                                        *)
EXTENDS Hcp
=============================================================================
