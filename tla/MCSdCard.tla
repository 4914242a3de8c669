------------------------------ MODULE MCSdCard -----------------------------
(* Cards of each kind with four blocks whose contents tell which they are. *)
EXTENDS SdCard

MCBlock == 0 .. 3
MCCards == [kind : Kinds, data : {[b \in Block |-> b]}]
=============================================================================
