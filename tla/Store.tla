------------------------------- MODULE Store -------------------------------
(***************************************************************************)
(* The node store of libavstor (src/unnamed/part_005): keys, values and    *)
(* links hanging off the header root and off keys' subkey and value trees, *)
(* the back-link tree under the header's root_links, and the transaction   *)
(* that avstor_commit ends and rollback undoes.                            *)
(*                                                                         *)
(* A node is its offset, an element of Ids; a freed offset may be reused.  *)
(* Each tree is the set of nodes whose parent and tree field name it (its  *)
(* AVL shape is AvlTree's subject).  A value is its length, which is all   *)
(* update_var_value looks at.  The back-link tree holds a key node per     *)
(* link target (blkeys) with a LINK value per link to it (blinks).  Every  *)
(* public call holds the global lock exclusively or shared, so each is one *)
(* step; a call that throws inside TRY runs rollback, which restores the   *)
(* last committed store.  The caller passes handles of live nodes only.    *)
(***************************************************************************)
EXTENDS Integers, FiniteSets

CONSTANTS
  Ids,     \* node offsets, a finite set of positive integers
  Names,   \* key names
  Vals,    \* value lengths; only whether two are equal matters
  NoVal    \* the val field of a node that has no value

Root == 0          \* parent->ref == 0: the header's root tree
Kinds == {"KEY", "INT32", "STRING", "LINK"}
ValueKinds == {"INT32", "STRING"}
NoLink == 0

Node == [kind : Kinds, parent : Ids \cup {Root}, tree : {"sub", "val"},
         name : Names \cup {NoVal}, val : Vals \cup {NoVal}, link : Ids \cup {NoLink}]

(* A free offset.                                                          *)
FreeNode == [kind |-> "FREE", parent |-> Root, tree |-> "sub",
             name |-> NoVal, val |-> NoVal, link |-> NoLink]

VARIABLES
  nodes,      \* offset -> node record
  blkeys,     \* targets that have a key node under root_links
  blinks,     \* <<target, link>>: the LINK values under those key nodes
  committed   \* the store as of the last commit

db == <<nodes, blkeys, blinks>>
vars == <<nodes, blkeys, blinks, committed>>

Live == {n \in Ids : nodes[n].kind # "FREE"}
Links == {n \in Live : nodes[n].kind = "LINK"}
IsKey(p) == p # Root /\ nodes[p].kind = "KEY"

(* find_node_with_backtrace and find_key on the tree t of p: the node     *)
(* named nm there, as a set of at most one.                                *)
Lookup(p, t, nm) ==
  {n \in Live : nodes[n].parent = p /\ nodes[n].tree = t /\ nodes[n].name = nm}

(* alloc_node takes the lowest free offset.                                *)
NewId == CHOOSE n \in Ids \ Live : \A m \in Ids \ Live : n <= m

(* CATCH_ANY of a create or delete: rollback(db) restores the header and   *)
(* drops every dirty page, so the store is the committed one again.        *)
Throw ==
  /\ nodes' = committed[1] /\ blkeys' = committed[2] /\ blinks' = committed[3]
  /\ UNCHANGED committed

(* create_node followed by insert_node into tree t of p.                   *)
Insert(n, rec) == nodes' = [nodes EXCEPT ![n] = rec]

Init ==
  /\ nodes = [n \in Ids |-> FreeNode]
  /\ blkeys = {} /\ blinks = {}
  /\ committed = <<nodes, blkeys, blinks>>

(* avstor_create_key: lock_keyref throws MISMATCH on a parent that is not *)
(* a key; an existing name throws EXISTS; otherwise a key node with empty  *)
(* subkey and value trees is linked in.                                    *)
CreateKey(p, nm) ==
  \/ /\ p # Root /\ ~IsKey(p)
     /\ Throw
  \/ /\ p = Root \/ IsKey(p)
     /\ Lookup(p, "sub", nm) # {}
     /\ Throw
  \/ /\ p = Root \/ IsKey(p)
     /\ Lookup(p, "sub", nm) = {} /\ Live # Ids
     /\ Insert(NewId, [kind |-> "KEY", parent |-> p, tree |-> "sub",
                       name |-> nm, val |-> NoVal, link |-> NoLink])
     /\ UNCHANGED <<blkeys, blinks, committed>>

(* create_var_value and avstor_create_int32 (create_fixed64_value is the   *)
(* same): lock_keyref on the root throws PARAM, on a value MISMATCH; an    *)
(* existing name in the value tree throws EXISTS.                          *)
CreateValue(p, nm, k, v) ==
  \/ /\ ~IsKey(p)
     /\ Throw
  \/ /\ IsKey(p) /\ Lookup(p, "val", nm) # {}
     /\ Throw
  \/ /\ IsKey(p) /\ Lookup(p, "val", nm) = {} /\ Live # Ids
     /\ Insert(NewId, [kind |-> k, parent |-> p, tree |-> "val",
                       name |-> nm, val |-> v, link |-> NoLink])
     /\ UNCHANGED <<blkeys, blinks, committed>>

(* create_backlink for link l to target t: find or create t's key node    *)
(* under root_links, then add l as a LINK value under it.                  *)
create_backlink(t, l) ==
  /\ blkeys' = blkeys \cup {t}
  /\ blinks' = blinks \cup {<<t, l>>}

(* avstor_create_link: the link node goes into p's value tree, then its    *)
(* back link.  A back link that already exists throws INTERNAL.            *)
CreateLink(p, nm, t) ==
  \/ /\ ~IsKey(p)
     /\ Throw
  \/ /\ IsKey(p) /\ Lookup(p, "val", nm) # {}
     /\ Throw
  \/ /\ IsKey(p) /\ Lookup(p, "val", nm) = {} /\ Live # Ids
     /\ IF <<t, NewId>> \in blinks
          THEN Throw
          ELSE /\ Insert(NewId, [kind |-> "LINK", parent |-> p, tree |-> "val",
                                 name |-> nm, val |-> NoVal, link |-> t])
               /\ create_backlink(t, NewId)
               /\ UNCHANGED committed

(* Mutant: delete_backlink that leaves an emptied key node in root_links.  *)
delete_backlink_keepkey(l) ==
  LET t == nodes[l].link IN
  /\ blinks' = blinks \ {<<t, l>>}
  /\ UNCHANGED blkeys

(* delete_backlink for link l: remove its LINK value under the key node of *)
(* its target and, if that was the last one, the key node itself.          *)
delete_backlink(l) ==
  LET t    == nodes[l].link
      rest == {b \in blinks : b[1] = t} \ {<<t, l>>}
  IN /\ blinks' = blinks \ {<<t, l>>}
     /\ blkeys' = IF t \in blkeys /\ rest = {} THEN blkeys \ {t} ELSE blkeys

(* Mutant: the children test that looks at the subkey tree only.           *)
HasChildren_subonly(n) == \E m \in Live : nodes[m].parent = n /\ nodes[m].tree = "sub"

(* `!is_nref_empty(subkey_root) || !is_nref_empty(value_root)`             *)
HasChildren(n) == \E m \in Live : nodes[m].parent = n

(* Mutant: exists_link_to_node looking the node up among the links' own  *)
(* offsets instead of among the targets.                                   *)
exists_link_to_node_wrongside(n) == \E b \in blinks : b[2] = n

(* exists_link_to_node: find_key of the node's offset under root_links.    *)
exists_link_to_node(n) == n \in blkeys

(* avstor_delete, once it holds the lock exclusively (RWLock checks the    *)
(* upgrade and retry).  isvalue with the root parent is PARAM before the   *)
(* lock and changes nothing (a stutter, not a step).  A parent that is not *)
(* a key throws MISMATCH; NOTFOUND changes nothing; a key with subkeys or  *)
(* values, or any node a link targets, throws INVOPER; a link takes its    *)
(* back link with it.                                                      *)
Delete(p, isvalue, nm) ==
  LET t     == IF isvalue THEN "val" ELSE "sub"
      found == Lookup(p, t, nm)
  IN
  \/ /\ p # Root /\ ~IsKey(p)
     /\ Throw
  \/ /\ p = Root \/ IsKey(p)
     /\ ~(isvalue /\ p = Root)
     /\ \E n \in found :
          \/ /\ (nodes[n].kind = "KEY" /\ HasChildren(n)) \/ exists_link_to_node(n)
             /\ Throw
          \/ /\ ~(nodes[n].kind = "KEY" /\ HasChildren(n)) /\ ~exists_link_to_node(n)
             /\ IF nodes[n].kind = "LINK" THEN delete_backlink(n)
                ELSE UNCHANGED <<blkeys, blinks>>
             /\ nodes' = [nodes EXCEPT ![n] = FreeNode]
             /\ UNCHANGED committed

(* update_var_value, avstor_update_int32 and update_fixed64_value:         *)
(* lock_valueref throws MISMATCH on another type; a string of another      *)
(* length is resized in its page, which throws INTERNAL when the page has  *)
(* no room.  Their CATCH_ANY does not call rollback: a failed update       *)
(* leaves the store as it was.                                             *)
(* Mutant: an update that does not check the node's type.                 *)
Update_nokindcheck(n, k, v) ==
  \/ /\ k = "STRING" /\ v # nodes[n].val
     /\ UNCHANGED vars
  \/ /\ nodes' = [nodes EXCEPT ![n].val = v]
     /\ UNCHANGED <<blkeys, blinks, committed>>

Update(n, k, v) ==
  \/ /\ nodes[n].kind # k
     /\ UNCHANGED vars
  \/ /\ nodes[n].kind = k /\ k = "STRING" /\ v # nodes[n].val
     /\ UNCHANGED vars
  \/ /\ nodes[n].kind = k
     /\ nodes' = [nodes EXCEPT ![n].val = v]
     /\ UNCHANGED <<blkeys, blinks, committed>>

(* avstor_commit that completes: the store becomes the committed one.      *)
Commit ==
  /\ committed' = db
  /\ UNCHANGED db

Next ==
  \/ \E p \in Live \cup {Root}, nm \in Names :
       \/ CreateKey(p, nm)
       \/ \E k \in ValueKinds, v \in Vals : CreateValue(p, nm, k, v)
       \/ \E t \in Live : CreateLink(p, nm, t)
       \/ \E isvalue \in BOOLEAN : Delete(p, isvalue, nm)
  \/ \E n \in Live, k \in ValueKinds, v \in Vals : Update(n, k, v)
  \/ Commit

Spec == Init /\ [][Next]_vars

-----------------------------------------------------------------------------
(* Every node record is well-typed for its kind: only values hold a       *)
(* length, and only links a target.                                        *)
TypeOK ==
  /\ nodes \in [Ids -> Node \cup {FreeNode}]
  /\ \A n \in Live :
       /\ (nodes[n].val # NoVal) <=> (nodes[n].kind \in ValueKinds)
       /\ (nodes[n].link # NoLink) <=> (nodes[n].kind = "LINK")
  /\ blkeys \subseteq Ids /\ blinks \subseteq Ids \X Ids

(* The back-link tree mirrors the links: root_links has a key node for     *)
(* exactly the nodes some live link targets, holding exactly the links to  *)
(* it, through every create_link, delete of a link and rollback.           *)
BacklinksMirrorLinks ==
  /\ blinks = {<<nodes[l].link, l>> : l \in Links}
  /\ blkeys = {nodes[l].link : l \in Links}

(* No link dangles: the target of every live link is a live node, because *)
(* avstor_delete refuses a node that exists_link_to_node finds, and a      *)
(* rollback restores links and targets together.                          *)
NoDanglingLink == \A l \in Links : nodes[l].link \in Live

(* The store is a tree: every live node hangs from the root or from a live *)
(* key, and names are unique within each subkey or value tree, because    *)
(* avstor_delete refuses a key with subkeys or values and every create     *)
(* refuses an existing name.                                               *)
NoOrphans ==
  /\ \A n \in Live :
       \/ nodes[n].parent = Root /\ nodes[n].tree = "sub"
       \/ IsKey(nodes[n].parent)
  /\ \A n, m \in Live :
       n # m /\ nodes[n].parent = nodes[m].parent /\ nodes[n].tree = nodes[m].tree
         => nodes[n].name # nodes[m].name
=============================================================================
