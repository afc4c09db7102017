------------------------------ MODULE PageCache ------------------------------
(***************************************************************************)
(* The page cache of libavstor (src/unnamed/part_005) with commit,         *)
(* rollback and a crash, for one cache row.                                *)
(*                                                                         *)
(* A row (CacheRow) is an array of items [page, offset, load_time] and a   *)
(* load_count.  item.page is a frame handed out by the buffer pool         *)
(* (bpool_alloc_page), or 0 for NULL; item.offset is the file page it      *)
(* maps, or 0 for "available".  A frame (AvPage) carries the fields the    *)
(* code reads: page_offset, the dirty bit of status, lock_count (the pin)  *)
(* and its contents, abstracted to a version number.  Page n of the file   *)
(* is at offset n * PAGE_SIZE and is written n here; page 0 is the header, *)
(* which is not in the rows: its only field that matters here is           *)
(* pagecount, and old_header is the shadow copy rollback restores.         *)
(*                                                                         *)
(* Calls run one at a time, as under the exclusive global lock of a        *)
(* writer: a call pins pages with cache_lookup, changes the pages it has   *)
(* pinned, and unpins them at the end; any exception in a write path runs  *)
(* rollback.  Versions are handed out by a counter, so two writes never    *)
(* produce the same contents.  The ghost variables logical and committed   *)
(* hold what the database should contain: the contents written by the     *)
(* calls so far, and the contents as of the last successful commit.        *)
(***************************************************************************)
EXTENDS Integers, Sequences, FiniteSets

CONSTANTS
  MAX_FILE_PAGES, \* pages the file may have, header included
  L2_ASSOC,       \* initial capacity of a row (8 in the code)
  ROW_GROW,       \* items cache_line_realloc adds (4 in the code)
  MaxCapacity,    \* capacity beyond which realloc fails
  MaxFrames,      \* frames the buffer pool can hand out before malloc fails
  MaxVersion,     \* bound on the contents versions written
  MaxLoad,        \* bound on the row's load_count
  AUTOSAVE,       \* AVSTOR_OPEN_AUTOSAVE given to avstor_open
  IoMayFail,      \* whether io_read, io_write and io_commit may fail
  MayCrash,       \* whether the process may crash
  MallocMayFail   \* whether bpool_alloc_page may fail before MaxFrames

Pages  == 1 .. MAX_FILE_PAGES - 1
Frames == 1 .. MaxFrames
NULL   == 0

VARIABLES
  items,     \* the row's items, a sequence of [page, offset, lt]
  loadCount, \* row->load_count
  nframes,   \* frames handed out by the buffer pool so far
  frame,     \* [Frames -> [ofs, dirty, pin, data]]
  held,      \* the pins of the call in progress: <<frame, page>> pairs
  op,        \* "idle", "read", "write" or "commit" (with the item reached)
  cpos,      \* commit: the next item avstor_commit writes
  hdr,       \* cache->header->pagecount
  oldHdr,    \* cache->old_header->pagecount
  disk,      \* [Pages -> version]: the data pages in the file
  diskHdr,   \* pagecount of the header in the file
  ver,       \* the last version handed out
  logical,   \* ghost: [Pages -> version] the calls' view of the pages
  committed, \* ghost: [pc, data] as of the last successful commit
  crashed    \* ghost: the process crashed and the file was reopened

cacheVars == <<items, loadCount, nframes, frame>>
vars == <<items, loadCount, nframes, frame, held, op, cpos, hdr, oldHdr,
          disk, diskHdr, ver, logical, committed, crashed>>

NoItem == [page |-> NULL, offset |-> 0, lt |-> 0]
Fresh  == [ofs |-> 0, dirty |-> FALSE, pin |-> 0, data |-> 0]
Absent == -1   \* contents of a page the file does not have yet

HeldFrames == {h[1] : h \in held}
HeldPages  == {h[2] : h \in held}

(* Mutant: the scan takes the first available item at once.              *)
RECURSIVE ScanFrom_firstavail(_, _, _, _)
ScanFrom_firstavail(its, o, i, avail) ==
  IF i > Len(its) THEN [hit |-> 0, empty |-> avail]
  ELSE IF its[i].page = NULL THEN [hit |-> 0, empty |-> i]
  ELSE IF its[i].offset = 0 THEN [hit |-> 0, empty |-> i]
  ELSE IF its[i].offset = o THEN [hit |-> i, empty |-> avail]
  ELSE ScanFrom_firstavail(its, o, i + 1, avail)

-----------------------------------------------------------------------------
(* cache_lookup_scan_line: the item mapping page o, else the first item    *)
(* without a frame, else the last available item (0: none).  The scan      *)
(* stops at the first item whose page is NULL.                             *)
RECURSIVE ScanFrom(_, _, _, _)
ScanFrom(its, o, i, avail) ==
  IF i > Len(its) THEN [hit |-> 0, empty |-> avail]
  ELSE IF its[i].page = NULL THEN [hit |-> 0, empty |-> i]
  ELSE IF its[i].offset = 0 THEN ScanFrom(its, o, i + 1, i)
  ELSE IF its[i].offset = o THEN [hit |-> i, empty |-> avail]
  ELSE ScanFrom(its, o, i + 1, avail)

cache_lookup_scan_line(its, o) == ScanFrom(its, o, 1, 0)

(* The items before the first one without a frame: the ones the scans of   *)
(* cache_lookup, cache_evict and avstor_commit reach.                      *)
Reached(its) ==
  {i \in 1 .. Len(its) : \A j \in 1 .. i : its[j].page # NULL}

(* Mutant: eviction ignores the pin count.                                *)
EvictCandidates_nopin(its, fr) ==
  {i \in Reached(its) : its[i].offset # 0 /\ its[i].lt < loadCount}

(* cache_evict's choice: the oldest reached item that maps a page, was     *)
(* loaded before load_count and is not pinned; the first of equals.        *)
EvictCandidates(its, fr) ==
  {i \in Reached(its) : its[i].offset # 0 /\ its[i].lt < loadCount
                        /\ fr[its[i].page].pin = 0}

Oldest(its, C) ==
  CHOOSE i \in C : \A j \in C : its[i].lt < its[j].lt
                                \/ (its[i].lt = its[j].lt /\ i <= j)

(* rollback: every item whose frame has a page_offset and is dirty becomes *)
(* available, every such frame is unpinned, and the header is restored     *)
(* from old_header.  All capacity items are visited, NULL ones skipped.    *)
RolledBackItems(its, fr) ==
  [i \in DOMAIN its |->
     IF its[i].page # NULL /\ fr[its[i].page].ofs # 0 /\ fr[its[i].page].dirty
     THEN [its[i] EXCEPT !.offset = 0] ELSE its[i]]

RolledBackFrames(its, fr) ==
  [f \in Frames |->
     IF \E i \in DOMAIN its : its[i].page = f /\ fr[f].ofs # 0
     THEN [fr[f] EXCEPT !.pin = 0] ELSE fr[f]]

rollback(its, fr) ==
  /\ items' = RolledBackItems(its, fr)
  /\ frame' = RolledBackFrames(its, fr)
  /\ hdr' = oldHdr
  /\ logical' = committed.data

(* Mutant: the CATCH unpins its pages after rollback has cleared them.   *)
Throw_unpin_after_rollback(its, fr, nf, d) ==
  /\ nframes' = nf
  /\ disk' = d
  /\ held' = {}
  /\ op' = "idle"
  /\ IF op = "write"
     THEN /\ items' = RolledBackItems(its, fr)
          /\ frame' = [f \in Frames |->
                         IF f \in HeldFrames
                         THEN [RolledBackFrames(its, fr)[f] EXCEPT !.pin = @ - 1]
                         ELSE RolledBackFrames(its, fr)[f]]
          /\ hdr' = oldHdr
          /\ logical' = committed.data
     ELSE /\ items' = its
          /\ frame' = [f \in Frames |->
                         IF f \in HeldFrames THEN [fr[f] EXCEPT !.pin = @ - 1] ELSE fr[f]]
          /\ UNCHANGED <<hdr, logical>>
  /\ UNCHANGED <<loadCount, cpos, oldHdr, diskHdr, ver, committed, crashed>>

(* A THROW out of cache_lookup (or out of the call) after the cache has    *)
(* become its, fr, nf and the file d.  A write path's CATCH unpins what it *)
(* holds and calls rollback; a reader's CATCH only unpins.                 *)
Throw(its, fr, nf, d) ==
  /\ nframes' = nf
  /\ disk' = d
  /\ held' = {}
  /\ op' = "idle"
  /\ IF op = "write"
     THEN rollback(its, fr)
     ELSE /\ items' = its
          /\ frame' = [f \in Frames |->
                         IF f \in HeldFrames THEN [fr[f] EXCEPT !.pin = @ - 1] ELSE fr[f]]
          /\ UNCHANGED <<hdr, logical>>
  /\ UNCHANGED <<loadCount, cpos, oldHdr, diskHdr, ver, committed, crashed>>

-----------------------------------------------------------------------------
(* bpool_alloc_page: the next frame, or NULL when malloc of a new block    *)
(* fails.  The pool only grows; MaxFrames bounds the model, and a lookup   *)
(* that would need more frames is not explored.                            *)
bpool_alloc_page ==
  (IF nframes < MaxFrames THEN {nframes + 1} ELSE {})
  \cup (IF MallocMayFail THEN {NULL} ELSE {})

(* The end of a successful cache_lookup of page o into item i of its       *)
(* (frame f): read_page for an existing page, stamped with load_count; a   *)
(* zeroed page with page_offset set for a new one, stamped 0.  The item    *)
(* gets the offset and the frame a pin of 1.  For a new page the rest of   *)
(* create_page follows: the page is set up, marked dirty, and pagecount is *)
(* incremented.  A page is contents 0 when create_page has set it up.      *)
Loaded(its, fr, nf, d, i, o, isExisting) ==
  LET f == its[i].page
  IN  /\ items' = [its EXCEPT ![i].offset = o,
                              ![i].lt = IF isExisting THEN loadCount ELSE 0]
      /\ frame' = [fr EXCEPT ![f] =
                     IF isExisting
                     THEN [ofs |-> o, dirty |-> FALSE, pin |-> 1, data |-> d[o]]
                     ELSE [ofs |-> o, dirty |-> TRUE, pin |-> 1, data |-> 0]]
      /\ loadCount' = IF isExisting THEN loadCount + 1 ELSE loadCount
      /\ hdr' = IF isExisting THEN hdr ELSE hdr + 1
      /\ logical' = IF isExisting THEN logical ELSE [logical EXCEPT ![o] = 0]
      /\ nframes' = nf
      /\ disk' = d
      /\ held' = held \cup {<<f, o>>}
      /\ UNCHANGED <<op, cpos, oldHdr, diskHdr, ver, committed, crashed>>

(* skip_evict: the slot i is ready; read_page can fail (an I/O error, or   *)
(* EOF for a page the file does not have), and the load_count is bounded.  *)
LoadInto(its, fr, nf, d, i, o, isExisting) ==
  \/ /\ ~isExisting \/ (d[o] # Absent /\ loadCount < MaxLoad)
     /\ Loaded(its, fr, nf, d, i, o, isExisting)
  \/ /\ isExisting /\ (IoMayFail \/ d[o] = Absent)
     /\ Throw(its, fr, nf, d)

(* cache_evict and what cache_lookup does with each of its results: a      *)
(* clean victim, or a dirty one written under autosave, is reused; a dirty *)
(* one without autosave is ABORT; a failed write is IOERR; no victim grows *)
(* the row by cache_line_realloc, whose first new item gets a frame, or    *)
(* NOMEM (the new items stay, and the first keeps a NULL page).  A realloc *)
(* beyond MaxCapacity fails, and is NOMEM with the row unchanged.          *)
EvictAndLoad(its, o, isExisting) ==
  LET C == EvictCandidates(its, frame)
  IN  IF C # {}
      THEN LET i == Oldest(its, C)
               f == its[i].page
               evicted == [its EXCEPT ![i].offset = 0]
           IN  IF ~frame[f].dirty
               THEN LoadInto(evicted, frame, nframes, disk, i, o, isExisting)
               ELSE IF AUTOSAVE
               THEN \/ LoadInto(evicted, [frame EXCEPT ![f].dirty = FALSE], nframes,
                                [disk EXCEPT ![frame[f].ofs] = frame[f].data],
                                i, o, isExisting)
                    \/ IoMayFail /\ Throw(its, frame, nframes, disk)
               ELSE Throw(its, frame, nframes, disk)
      ELSE LET n == Len(its)
               grown == its \o [k \in 1 .. ROW_GROW |-> NoItem]
           IN  IF n + ROW_GROW > MaxCapacity
               THEN Throw(its, frame, nframes, disk)
               ELSE \E pg \in bpool_alloc_page :
                      IF pg # NULL
                      THEN LoadInto([grown EXCEPT ![n + 1].page = pg],
                                    frame, pg, disk, n + 1, o, isExisting)
                      ELSE Throw(grown, frame, nframes, disk)

(* cache_lookup of page o: a hit pins the page; a miss takes the empty     *)
(* item the scan found and gives it a new frame from the buffer pool, and  *)
(* when the pool has none left stores NULL in it and evicts.               *)
cache_lookup(o, isExisting) ==
  LET s == cache_lookup_scan_line(items, o)
      f == items[s.hit].page
  IN  IF s.hit # 0
      THEN IF isExisting
           THEN /\ frame' = [frame EXCEPT ![f].pin = @ + 1]
                /\ held' = held \cup {<<f, o>>}
                /\ UNCHANGED <<items, loadCount, nframes, op, cpos, hdr, oldHdr,
                               disk, diskHdr, ver, logical, committed, crashed>>
           ELSE /\ frame' = [frame EXCEPT ![f].pin = @ + 1, ![f].dirty = TRUE]
                /\ held' = held \cup {<<f, o>>}
                /\ hdr' = hdr + 1
                /\ logical' = [logical EXCEPT ![o] = 0]
                /\ UNCHANGED <<items, loadCount, nframes, op, cpos, oldHdr,
                               disk, diskHdr, ver, committed, crashed>>
      ELSE IF s.empty # 0
      THEN \E pg \in bpool_alloc_page :
             IF pg # NULL
             THEN LoadInto([items EXCEPT ![s.empty].page = pg], frame, pg, disk,
                           s.empty, o, isExisting)
             ELSE EvictAndLoad([items EXCEPT ![s.empty].page = NULL], o, isExisting)
      ELSE EvictAndLoad(items, o, isExisting)

-----------------------------------------------------------------------------
(* avstor_open of a file written by earlier commits: pagecount pages, the  *)
(* header's included, and the rows as avstor_init leaves them.             *)
Init ==
  \E pc \in 1 .. MAX_FILE_PAGES :
    /\ items = [i \in 1 .. L2_ASSOC |-> NoItem]
    /\ loadCount = 1
    /\ nframes = 0
    /\ frame = [f \in Frames |-> Fresh]
    /\ held = {}
    /\ op = "idle"
    /\ cpos = 1
    /\ hdr = pc
    /\ oldHdr = pc
    /\ disk = [p \in Pages |-> IF p < pc THEN 0 ELSE Absent]
    /\ diskHdr = pc
    /\ ver = 0
    /\ logical = [p \in Pages |-> IF p < pc THEN 0 ELSE Absent]
    /\ committed = [pc |-> pc, data |-> logical]
    /\ crashed = FALSE

(* An API call starts: a reader under the shared global lock, a writer     *)
(* under the exclusive one.  Calls are serialised here.                    *)
BeginCall ==
  /\ op = "idle"
  /\ op' \in {"read", "write"}
  /\ UNCHANGED <<items, loadCount, nframes, frame, held, cpos, hdr, oldHdr,
                 disk, diskHdr, ver, logical, committed, crashed>>

(* get_page: the call pins existing page o (one it does not pin yet).      *)
GetPage(o) ==
  /\ op \in {"read", "write"}
  /\ o < hdr
  /\ o \notin HeldPages
  /\ cache_lookup(o, TRUE)

(* create_page: INVOPER at MAX_FILE_PAGES, else page pagecount is looked   *)
(* up as a new page and set up.                                            *)
create_page ==
  /\ op = "write"
  /\ IF hdr = MAX_FILE_PAGES
     THEN Throw(items, frame, nframes, disk)
     ELSE cache_lookup(hdr, FALSE)

(* A write path changes a node of a page it has pinned and marks it dirty. *)
ModifyPage(f) ==
  /\ op = "write"
  /\ f \in HeldFrames
  /\ ver < MaxVersion
  /\ ver' = ver + 1
  /\ frame' = [frame EXCEPT ![f].data = ver + 1, ![f].dirty = TRUE]
  /\ logical' = [logical EXCEPT ![frame[f].ofs] = ver + 1]
  /\ UNCHANGED <<items, loadCount, nframes, held, op, cpos, hdr, oldHdr,
                 disk, diskHdr, committed, crashed>>

(* The call returns normally: unlock_page on every page it pinned.         *)
EndCall ==
  /\ op \in {"read", "write"}
  /\ frame' = [f \in Frames |->
                 IF f \in HeldFrames THEN [frame[f] EXCEPT !.pin = @ - 1] ELSE frame[f]]
  /\ held' = {}
  /\ op' = "idle"
  /\ UNCHANGED <<items, loadCount, nframes, cpos, hdr, oldHdr, disk, diskHdr,
                 ver, logical, committed, crashed>>

(* The call throws for a reason of its own (EXISTS, NOTFOUND, a full page, *)
(* a corrupt node): its CATCH runs as for a throw out of cache_lookup.     *)
FailCall ==
  /\ op \in {"read", "write"}
  /\ Throw(items, frame, nframes, disk)

-----------------------------------------------------------------------------
(* avstor_commit, one write at a time: it takes the global lock exclusive  *)
(* (no page is pinned), then calls write_page on the frame of every item   *)
(* before the first NULL page, whatever the item maps.                     *)
CommitBegin ==
  /\ op = "idle"
  /\ op' = "commit"
  /\ cpos' = 1
  /\ UNCHANGED <<items, loadCount, nframes, frame, held, hdr, oldHdr, disk,
                 diskHdr, ver, logical, committed, crashed>>

(* write_page of the next item's frame: a clean frame is skipped; a dirty  *)
(* one is written at its page_offset and marked clean, or, when io_write   *)
(* fails, stays dirty and the commit returns IOERR with no rollback.       *)
CommitPage ==
  LET f == items[cpos].page
  IN  /\ op = "commit"
      /\ cpos <= Len(items)
      /\ f # NULL
      /\ \/ /\ ~frame[f].dirty
            /\ cpos' = cpos + 1
            /\ UNCHANGED <<frame, op, disk>>
         \/ /\ frame[f].dirty
            /\ cpos' = cpos + 1
            /\ frame' = [frame EXCEPT ![f].dirty = FALSE]
            /\ disk' = [disk EXCEPT ![frame[f].ofs] = frame[f].data]
            /\ UNCHANGED op
         \/ /\ frame[f].dirty /\ IoMayFail
            /\ op' = "idle"
            /\ cpos' = 1
            /\ UNCHANGED <<frame, disk>>
      /\ UNCHANGED <<items, loadCount, nframes, held, hdr, oldHdr, diskHdr,
                     ver, logical, committed, crashed>>

(* After the last item: write_page of the header, io_commit, and the copy  *)
(* of the header into old_header.  A failed header write, or a failed      *)
(* io_commit after it, returns IOERR before old_header is updated.         *)
CommitHeader ==
  /\ op = "commit"
  /\ cpos \notin Reached(items)
  /\ op' = "idle"
  /\ cpos' = 1
  /\ \/ /\ diskHdr' = hdr
        /\ oldHdr' = hdr
        /\ committed' = [pc |-> hdr, data |-> logical]
     \/ /\ IoMayFail
        /\ diskHdr' \in {diskHdr, hdr}
        /\ UNCHANGED <<oldHdr, committed>>
  /\ UNCHANGED <<items, loadCount, nframes, frame, held, hdr, disk, ver,
                 logical, crashed>>

(* The process dies at any point and the file is opened again: the cache  *)
(* is empty and the header is the one in the file.  What the database     *)
(* should then hold is the last commit.                                    *)
Crash ==
  /\ MayCrash
  /\ items' = [i \in 1 .. L2_ASSOC |-> NoItem]
  /\ loadCount' = 1
  /\ nframes' = 0
  /\ frame' = [f \in Frames |-> Fresh]
  /\ held' = {}
  /\ op' = "idle"
  /\ cpos' = 1
  /\ hdr' = diskHdr
  /\ oldHdr' = diskHdr
  /\ logical' = committed.data
  /\ crashed' = TRUE
  /\ UNCHANGED <<disk, diskHdr, ver, committed>>

Next ==
  \/ BeginCall
  \/ \E o \in Pages : GetPage(o)
  \/ create_page
  \/ \E f \in Frames : ModifyPage(f)
  \/ EndCall
  \/ FailCall
  \/ CommitBegin
  \/ CommitPage
  \/ CommitHeader
  \/ Crash

Spec == Init /\ [][Next]_vars

-----------------------------------------------------------------------------
Item == [page : 0 .. MaxFrames, offset : {0} \cup Pages, lt : 0 .. MaxLoad]

(* Every variable stays in its domain; in particular a pin count never   *)
(* goes negative, whatever order the CATCH and rollback unpin in.         *)
TypeOK ==
  /\ items \in Seq(Item)
  /\ loadCount \in 1 .. MaxLoad
  /\ nframes \in 0 .. MaxFrames
  /\ frame \in [Frames -> [ofs : {0} \cup Pages, dirty : BOOLEAN,
                           pin : Nat, data : 0 .. MaxVersion]]
  /\ held \subseteq (1 .. nframes) \X Pages
  /\ op \in {"idle", "read", "write", "commit"}
  /\ hdr \in 1 .. MAX_FILE_PAGES
  /\ disk \in [Pages -> {Absent} \cup 0 .. MaxVersion]

(* Outside a commit the file holds exactly the last commit.                *)
FileIsCommitted ==
  op # "commit" =>
    /\ diskHdr = committed.pc
    /\ \A p \in 1 .. committed.pc - 1 : disk[p] = committed.data[p]

(* Every frame the buffer pool handed out is reachable from an item.       *)
NoFrameLeak == \A f \in 1 .. nframes : \E i \in DOMAIN items : items[i].page = f

(* Every page an item the scans reach maps holds what the calls have left  *)
(* in it: a page the cache serves is never stale.                          *)
CachedPagesCurrent ==
  \A i \in Reached(items) :
    items[i].offset # 0 => frame[items[i].page].data = logical[items[i].offset]

(* A clean page the scans reach holds what the file holds at its offset:  *)
(* dropping it (eviction, rollback, a crash) loses nothing.               *)
CleanMatchesFile ==
  \A i \in Reached(items) :
    LET f == items[i].page
    IN  items[i].offset # 0 /\ ~frame[f].dirty => frame[f].data = disk[items[i].offset]

(* When avstor_commit reaches the header, no frame of the row is dirty:   *)
(* the item scan wrote every page a call changed.                         *)
CommitWritesAllDirty ==
  [][op = "commit" /\ op' = "idle" /\ cpos \notin Reached(items)
     => \A i \in DOMAIN items :
          items[i].page # NULL => ~frame[items[i].page].dirty]_vars

(* No two items map the same page.                                         *)
NoDuplicate ==
  \A i, j \in DOMAIN items :
    i # j /\ items[i].offset # 0 => items[i].offset # items[j].offset

(* A page the call has pinned stays in the frame it was pinned in, mapped *)
(* by an item the scans reach: cache_evict never takes a pinned page, and *)
(* nothing hides it from the next lookup.                                  *)
PinnedReached ==
  \A <<f, o>> \in held :
    frame[f].ofs = o /\ \E i \in Reached(items) : items[i].page = f /\ items[i].offset = o
=============================================================================
