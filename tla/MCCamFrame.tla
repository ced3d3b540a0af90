----------------------------- MODULE MCCamFrame -----------------------------
(* Small instances of CamFrame for TLC.                                    *)
EXTENDS CamFrame
=============================================================================
