---------------------------- MODULE MC_PageCache ----------------------------
(* Bounds for checking PageCache: a file of up to 3 pages, a row of 2     *)
(* items growing by 1, and 3 frames, so that eviction, the buffer pool    *)
(* running out and the growth of the row all happen.                      *)
EXTENDS PageCache

MCMaxFilePages == 4
MCAssoc == 2
MCGrow == 1
MCCapacity == 3
MCFrames == 3
MCVersions == 1
MCLoads == 3
(* The ghost variables logical, committed and crashed never influence a  *)
(* step; runs whose properties do not read them identify states that      *)
(* differ only there.                                                     *)
CacheView == <<items, loadCount, nframes, frame, held, op, cpos, hdr, oldHdr,
               disk, diskHdr, ver>>
====
