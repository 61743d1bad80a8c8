----------------------------- MODULE MCSpecForm -----------------------------
(* SpecForm with its constants given in the .cfg files.                    *)
EXTENDS SpecForm
=============================================================================
