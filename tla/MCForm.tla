------------------------------- MODULE MCForm -------------------------------
(* The instances of Form that TLC checks.                                    *)
EXTENDS Form
=============================================================================
