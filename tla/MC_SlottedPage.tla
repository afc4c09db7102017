--------------------------- MODULE MC_SlottedPage ---------------------------
(* A scaled page: 36 bytes with the slot array at byte 6, which, like      *)
(* offsetof(AvPage, index) in both file-offset builds, is 2 modulo 4, so    *)
(* the alignment in get_page_free_space matters.  Nodes of 4 and 8 bytes   *)
(* fill it with up to five nodes.                                           *)
EXTENDS SlottedPage

MCPageSize == 36
MCIndexOfs == 6
MCNodeSizes == {4, 8}
MCMaxNodes == 5
=============================================================================
