---------------------------- MODULE MCReceivers ----------------------------
(* Instances of GstDepayloader for TLC. *)
EXTENDS GstDepayloader
(* Rows of both sizes fill whole groups of four bytes in RGBA; in RGB those  *)
(* of the small one are padded.                                              *)
Small == [height |-> 1, width |-> 2]
Large == [height |-> 3, width |-> 4]
TwoSizes == {Small, Large}
=============================================================================
