------------------------------ MODULE LastGood ------------------------------
(***************************************************************************)
(* What every inventory of PiNOC promises of an object it once learnt some- *)
(* thing about: what it knows is replaced by what is newer, or confirmed at *)
(* a later time, and never lost.                                           *)
(***************************************************************************)
EXTENDS Naturals

CONSTANTS Learnable,  (* what there is to know of an object                 *)
          Unknown     (* nothing was learnt yet                             *)

VARIABLES known,      (* the last thing learnt                              *)
          since       (* when it was last seen to be so; 0 is never         *)

Init == known = Unknown /\ since = 0

Learn == /\ known' \in Learnable
         /\ since' \in Nat /\ since' >= since /\ since' > 0

(* A sight of the object that says nothing of what is known.               *)
Glance == since' \in Nat /\ since' >= since /\ UNCHANGED known

Next == Learn \/ Glance

Spec == Init /\ [][Next]_<<known, since>>
=============================================================================
