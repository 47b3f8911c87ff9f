---------------------------- MODULE MCCollection ----------------------------
(* Instances of Collection for TLC.                                        *)
EXTENDS Collection
=============================================================================
