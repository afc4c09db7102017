---------------------------- MODULE MC_AvlCursor ----------------------------
(* One AVL tree over five names with one in-order cursor on it.             *)
EXTENDS AvlCursor

MCKeys == 1 .. 5
(* A back-trace stack of two entries: trees of height 2 fill it exactly,   *)
(* so an off-by-one in the overflow tests shows, and an insertion at depth *)
(* 3 makes trees of height 3, on which descents, successor paths and       *)
(* cursor walks overflow.                                                  *)
MCHeight == 2
=============================================================================
