---------------------------- MODULE SlottedPage ----------------------------
(***************************************************************************)
(* The intra-page slotted node allocator of avstor.c (part_005): one data   *)
(* page of PAGE_SIZE bytes whose header is followed at byte INDEX_OFS by    *)
(* an array of 16-bit slots, while nodes are packed downward from the end   *)
(* of the page to `top`.  A slot holds the byte offset of its node, or, if  *)
(* it is free, the byte offset of the next free slot (0 = INVALID_INDEX     *)
(* ends the list).  A node reference is the page plus the byte offset of    *)
(* its slot, so references stay valid when nodes are moved by resize.      *)
(*                                                                         *)
(* Byte arithmetic is kept (alignment to 4, two bytes per slot, the offset  *)
(* of the slot array); node contents are abstracted to a ghost identity    *)
(* `id` carried by the node, so that a property can say which node a slot   *)
(* leads to.  The writer lock serialises every call on a page, so each     *)
(* allocator call is one atomic step.                                      *)
(***************************************************************************)
EXTENDS Integers, Sequences, SequencesExt, FiniteSets

CONSTANTS
    PAGE_SIZE,   \* bytes in a page (4096 in the code)
    INDEX_OFS,   \* offsetof(AvPage, index): first slot's byte offset
    NodeSizes,   \* aligned node sizes callers request (>= sizeof(AvNode))
    MaxNodes     \* ghost identities for nodes; at least the nodes a page holds

ASSUME /\ PAGE_SIZE % 4 = 0 /\ INDEX_OFS < PAGE_SIZE
       /\ \A s \in NodeSizes : s > 0 /\ s % 4 = 0

INVALID_INDEX == 0
NoHandle == 0
Ids == 1..MaxNodes

\* Byte offset of index[k-1], i.e. of the k-th slot of the array.
SlotOfs(k) == INDEX_OFS + 2 * (k - 1)
MaxSlots == (PAGE_SIZE - INDEX_OFS) \div 2
Slots == {SlotOfs(k) : k \in 1..MaxSlots}

VARIABLES
    top,             \* page->top
    index_freelist,  \* page->index_freelist
    index_count,     \* page->index_count
    slot,            \* page->index[], keyed by the slot's byte offset
    heap,            \* nodes from top upward: <<[index, size, id]>>
    handle,          \* ghost: the node reference (slot offset) last handed out per id
    corrupted        \* alloc_node threw MSG_PAGE_CORRUPTED

pageVars == <<top, index_freelist, index_count, slot, heap>>
vars == <<top, index_freelist, index_count, slot, heap, handle, corrupted>>

\* align_node(sz): round up to a multiple of 4.
align_node(sz) == ((sz + 3) \div 4) * 4

SumSizes(s) == FoldLeft(LAMBDA acc, n : acc + n.size, 0, s)

\* Byte address of the i-th node of h when the packed area starts at t.
NodeAddr(h, t, i) == t + SumSizes(SubSeq(h, 1, i - 1))

Live == {heap[i].id : i \in DOMAIN heap}
LiveSlots == {heap[i].index : i \in DOMAIN heap}
PosOf(id) == CHOOSE i \in DOMAIN heap : heap[i].id = id

\* get_node(page, index): the node offset stored in the slot, or a throw
\* (modelled as INVALID_INDEX) when the slot holds INVALID_INDEX.
get_node(idx) == slot[idx]

(* get_page_free_space: bytes between the slot array (plus room for one     *)
(* more slot when the free list is empty), aligned, and top.               *)
get_page_free_space_no2 ==
    LET bottom == align_node(INDEX_OFS + 2 * index_count)
    IN  IF top > bottom THEN top - bottom ELSE 0

get_page_free_space ==
    LET bottom == align_node(INDEX_OFS + 2 * index_count
                             + (IF index_freelist = INVALID_INDEX THEN 2 ELSE 0))
    IN  IF top > bottom THEN top - bottom ELSE 0

(* The slot alloc_node takes and the free-list head it leaves: the head of  *)
(* the free list, whose slot holds the next free slot, or a new slot       *)
(* appended at index[index_count].                                         *)
NextFree_nopop == index_freelist

NextFree ==
    IF index_freelist = INVALID_INDEX THEN INVALID_INDEX
    ELSE slot[index_freelist]

Init ==
    \* create_page on a zeroed frame
    /\ top = PAGE_SIZE
    /\ index_freelist = INVALID_INDEX
    /\ index_count = 0
    /\ slot = [s \in Slots |-> 0]
    /\ heap = <<>>
    /\ handle = [i \in Ids |-> NoHandle]
    /\ corrupted = FALSE

(* alloc_node on this page: the page is used only when the node fits       *)
(* (otherwise the code goes to another page).  The slot is written, top    *)
(* lowered, and only then is the overwrite of the slot array checked; a    *)
(* throw rolls the call back, leaving the page as it was.                  *)
AllocNode(size) ==
    LET fromList == index_freelist # INVALID_INDEX
        idx      == IF fromList THEN index_freelist ELSE SlotOfs(index_count + 1)
        count2   == IF fromList THEN index_count ELSE index_count + 1
        newtop   == top - size
        overwrite == newtop < INDEX_OFS + 2 * count2
        newid    == Min(Ids \ Live)
    IN  /\ Ids \ Live # {}
        /\ size <= get_page_free_space
        /\ corrupted' = overwrite
        /\ IF overwrite
             THEN UNCHANGED <<pageVars, handle>>
             ELSE /\ index_freelist' = NextFree
                  /\ index_count' = count2
                  /\ top' = newtop
                  /\ slot' = [slot EXCEPT ![idx] = newtop]
                  /\ heap' = <<[index |-> idx, size |-> size, id |-> newid]>> \o heap
                  /\ handle' = [handle EXCEPT ![newid] = idx]

\* resize_node that leaves a freed node in the packed area with size 0.
resize_node_keepfreed(id, newsize) ==
    LET p == PosOf(id)
        node == NodeAddr(heap, top, p)
        oldsize == heap[p].size
        newtop == top + oldsize - newsize
        next == node + oldsize
        nidx == heap[p].index
        isLast == nidx = INDEX_OFS - 2 + index_count * 2
        slot1 == IF newsize # 0 THEN slot
                 ELSE [slot EXCEPT ![nidx] = IF isLast THEN 0 ELSE index_freelist]
        heap1 == [heap EXCEPT ![p].size = newsize]
        moved == {heap1[i].index :
                    i \in {j \in DOMAIN heap1 : NodeAddr(heap1, newtop, j) < next}}
    IN  /\ newsize # oldsize
        /\ ~(newsize > oldsize /\ newsize - oldsize > get_page_free_space)
        /\ top' = newtop
        /\ heap' = heap1
        /\ slot' = [s \in Slots |-> IF s \in moved
                                    THEN (slot1[s] + oldsize - newsize) % 65536
                                    ELSE slot1[s]]
        /\ index_count' = IF newsize = 0 /\ isLast THEN index_count - 1 ELSE index_count
        /\ index_freelist' = IF newsize = 0 /\ ~isLast THEN nidx ELSE index_freelist
        /\ UNCHANGED <<handle, corrupted>>

\* resize_node with the adjust loop bounded by the node's old address.
resize_node_oldaddr(id, newsize) ==
    LET p == PosOf(id)
        node == NodeAddr(heap, top, p)
        oldsize == heap[p].size
        newtop == top + oldsize - newsize
        next == node + oldsize
        nidx == heap[p].index
        isLast == nidx = INDEX_OFS - 2 + index_count * 2
        slot1 == IF newsize # 0 THEN slot
                 ELSE [slot EXCEPT ![nidx] = IF isLast THEN 0 ELSE index_freelist]
        heap1 == IF newsize = 0 THEN RemoveAt(heap, p)
                 ELSE [heap EXCEPT ![p].size = newsize]
        moved == {heap1[i].index :
                    i \in {j \in DOMAIN heap1 : NodeAddr(heap1, newtop, j) < node}}
    IN  /\ newsize # oldsize
        /\ ~(newsize > oldsize /\ newsize - oldsize > get_page_free_space)
        /\ top' = newtop
        /\ heap' = heap1
        /\ slot' = [s \in Slots |-> IF s \in moved
                                    THEN (slot1[s] + oldsize - newsize) % 65536
                                    ELSE slot1[s]]
        /\ index_count' = IF newsize = 0 /\ isLast THEN index_count - 1 ELSE index_count
        /\ index_freelist' = IF newsize = 0 /\ ~isLast THEN nidx ELSE index_freelist
        /\ UNCHANGED <<handle, corrupted>>

(* resize_node(node, newsize); newsize = 0 frees the node.  Freeing the    *)
(* last slot of the array pops it, any other slot is pushed on the free    *)
(* list.  The nodes between top and the node (the node itself included     *)
(* unless freed) are moved by oldsize - newsize, and the loop then walks   *)
(* the moved area [dest, next) adding oldsize - newsize to each node's     *)
(* slot.  A growth larger than the free space throws and changes nothing.  *)
resize_node(id, newsize) ==
    LET p == PosOf(id)
        node == NodeAddr(heap, top, p)
        oldsize == heap[p].size
        newtop == top + oldsize - newsize
        next == node + oldsize
        nidx == heap[p].index
        isLast == nidx = INDEX_OFS - 2 + index_count * 2
        slot1 == IF newsize # 0 THEN slot
                 ELSE [slot EXCEPT ![nidx] = IF isLast THEN 0 ELSE index_freelist]
        heap1 == IF newsize = 0 THEN RemoveAt(heap, p)
                 ELSE [heap EXCEPT ![p].size = newsize]
        moved == {heap1[i].index :
                    i \in {j \in DOMAIN heap1 : NodeAddr(heap1, newtop, j) < next}}
    IN  /\ newsize # oldsize
        /\ ~(newsize > oldsize /\ newsize - oldsize > get_page_free_space)
        /\ top' = newtop
        /\ heap' = heap1
        /\ slot' = [s \in Slots |-> IF s \in moved
                                    THEN (slot1[s] + oldsize - newsize) % 65536
                                    ELSE slot1[s]]
        /\ index_count' = IF newsize = 0 /\ isLast THEN index_count - 1 ELSE index_count
        /\ index_freelist' = IF newsize = 0 /\ ~isLast THEN nidx ELSE index_freelist
        /\ UNCHANGED <<handle, corrupted>>

\* free_node(node) is resize_node(node, 0).
free_node(id) == resize_node(id, 0)

Next ==
    \/ \E size \in NodeSizes : AllocNode(size)
    \/ \E id \in Live, size \in NodeSizes : resize_node(id, size)
    \/ \E id \in Live : free_node(id)

Spec == Init /\ [][Next]_vars


TypeOK ==
    /\ top \in 0..PAGE_SIZE
    /\ index_count \in 0..MaxSlots
    /\ index_freelist \in Slots \cup {INVALID_INDEX}
    /\ slot \in [Slots -> 0..65535]
    /\ heap \in Seq([index : Slots, size : NodeSizes, id : Ids])
    /\ handle \in [Ids -> Slots \cup {NoHandle}]
    /\ corrupted \in BOOLEAN

\* The free list as the sequence of slots reached from index_freelist,
\* following each free slot's link; fuel stops the walk on a cycle.
RECURSIVE FreeChain(_, _)
FreeChain(s, fuel) ==
    IF s = INVALID_INDEX \/ fuel = 0 THEN <<>>
    ELSE IF s \notin Slots THEN <<s>>
    ELSE <<s>> \o FreeChain(slot[s], fuel - 1)

ArraySlots == {SlotOfs(k) : k \in 1..index_count}

(* Every node reference handed out by alloc_node still resolves, through   *)
(* get_node, to the node it was given for, at that node's current address, *)
(* and the node's back-pointer names the same slot -- across any sequence  *)
(* of resize_node and free_node compactions that moved it (the slot fix-up *)
(* loop of resize_node and is_node_addr_valid).                            *)
HandlesResolve ==
    \A i \in DOMAIN heap :
        /\ handle[heap[i].id] = heap[i].index
        /\ get_node(heap[i].index) = NodeAddr(heap, top, i)

(* The slots of the array are exactly the live nodes' slots and the free   *)
(* list, disjointly; the free list is finite, lies inside the array and    *)
(* ends in INVALID_INDEX; slots past index_count are 0.  Breaks if         *)
(* alloc_node, the pop of the last slot or the push onto the free list in  *)
(* resize_node gets its bookkeeping wrong.                                 *)
IndexPartition ==
    LET chain == FreeChain(index_freelist, MaxSlots + 1)
    IN  /\ Len(chain) <= MaxSlots
        /\ Cardinality(ToSet(chain)) = Len(chain)
        /\ ToSet(chain) \cap LiveSlots = {}
        /\ ToSet(chain) \cup LiveSlots = ArraySlots
        /\ Cardinality(LiveSlots) = Len(heap)
        /\ \A s \in Slots \ ArraySlots : slot[s] = 0

(* The nodes are packed from top to the end of the page and never reach    *)
(* into the slot array, so alloc_node's after-the-fact overwrite check     *)
(* never throws MSG_PAGE_CORRUPTED: get_page_free_space reserves enough     *)
(* room for the slot a new node may need, after alignment.                 *)
NodesPacked ==
    /\ top + SumSizes(heap) = PAGE_SIZE
    /\ INDEX_OFS + 2 * index_count <= top
    /\ ~corrupted

(* A reference to a node that was freed (and whose slot no live node has   *)
(* taken since) makes get_node throw "Node has been deleted.", i.e. its    *)
(* slot holds INVALID_INDEX.                                               *)
StaleHandleDetected ==
    \A id \in Ids :
        (handle[id] # NoHandle /\ id \notin Live /\ handle[id] \notin LiveSlots)
            => get_node(handle[id]) = INVALID_INDEX


=============================================================================
