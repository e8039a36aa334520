-------------------------- MODULE MCBlockDownload --------------------------
(* Two blocks, or three, for TLC: h1 is below the others. *)
EXTENDS BlockDownload

CONSTANT h1

MCAncestors == [h \in Hashes |-> IF h = h1 THEN {} ELSE {h1}]

=============================================================================
