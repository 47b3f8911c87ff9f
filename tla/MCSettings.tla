----------------------------- MODULE MCSettings -----------------------------
(* Two administrators and two channels.                                    *)
EXTENDS Settings
=============================================================================
