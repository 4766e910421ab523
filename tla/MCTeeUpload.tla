---------------------------- MODULE MCTeeUpload ----------------------------
(* Two mirrors; reads of one byte and of more than a branch can hold.      *)
EXTENDS TeeUpload
============================================================================
