------------------------------- MODULE Removal ------------------------------
(***************************************************************************)
(* An element taken out of a sequence: a request that is answered out of   *)
(* its turn, a row that is removed from an editor.  (RemoveAt of the       *)
(* community modules, without the modules that come with it, which the     *)
(* provers would read again for every page.)                               *)
(***************************************************************************)
EXTENDS Naturals, Sequences

Without(s, i) == SubSeq(s, 1, i - 1) \o SubSeq(s, i + 1, Len(s))

=============================================================================
