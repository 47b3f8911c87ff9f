---------------------------- MODULE MCRemediation ---------------------------
(* Instances of Remediation for TLC.                                       *)
EXTENDS Remediation
=============================================================================
