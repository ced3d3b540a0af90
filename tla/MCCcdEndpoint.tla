--------------------------- MODULE MCCcdEndpoint ---------------------------
(* A small instance of CcdEndpoint for TLC.                                *)
EXTENDS CcdEndpoint
=============================================================================
