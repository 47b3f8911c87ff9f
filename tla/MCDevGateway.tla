---------------------------- MODULE MCDevGateway ----------------------------
(* Instances of DevGateway for TLC.                                        *)
EXTENDS DevGateway

TwoJobs == 1..2
FirstNeedsApproval == {1}
=============================================================================
