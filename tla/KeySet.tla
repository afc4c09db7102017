------------------------------- MODULE KeySet -------------------------------
(***************************************************************************)
(* What one AVL tree of libavstor promises its callers: it holds a set of  *)
(* names; creating a name that is absent adds it, deleting a present name  *)
(* removes it, and nothing else changes the set.  An in-order cursor on    *)
(* it, positioned by inorder_first, yields on each inorder_next the next   *)
(* name after its position in the comparer's order (or the reverse order   *)
(* when descending), and none when it has passed the last one.  A cursor   *)
(* is promised nothing once the set has changed under it or a call on it   *)
(* has failed, until the next inorder_first.                               *)
(***************************************************************************)
EXTENDS Integers

CONSTANT Keys

VARIABLES
  keys,   \* the names in the tree
  pos,    \* the cursor's current name, or None when it has none
  desc,   \* the cursor runs in descending order
  valid   \* the cursor's position is still promised

None == 0

(* a comes before b in the cursor's direction                               *)
Before(d, a, b) == IF d THEN b < a ELSE a < b

(* The first of a set of names in direction d, or None.                    *)
FirstOf(d, S) ==
  IF S = {} THEN None ELSE CHOOSE m \in S : \A j \in S : ~Before(d, j, m)

Init == keys = {} /\ pos = None /\ desc = FALSE /\ valid = FALSE

Add(k) ==
  /\ k \notin keys /\ keys' = keys \cup {k}
  /\ valid' = FALSE /\ UNCHANGED <<pos, desc>>

Remove(k) ==
  /\ k \in keys /\ keys' = keys \ {k}
  /\ valid' = FALSE /\ UNCHANGED <<pos, desc>>

(* inorder_first from name start (None: from the first name).              *)
First(d, start) ==
  /\ pos' = FirstOf(d, IF start = None THEN keys
                       ELSE {k \in keys : k = start \/ Before(d, start, k)})
  /\ desc' = d /\ valid' = TRUE /\ UNCHANGED keys

(* inorder_next on a cursor whose position still holds.                    *)
Step ==
  /\ valid /\ pos # None
  /\ pos' = FirstOf(desc, {k \in keys : Before(desc, pos, k)})
  /\ UNCHANGED <<keys, desc, valid>>

(* A failed call, or any call on a cursor whose position no longer holds: *)
(* the position is any name or none.                                       *)
Fail ==
  /\ pos' \in Keys \cup {None} /\ desc' \in BOOLEAN /\ valid' = FALSE
  /\ UNCHANGED keys

Wander ==
  /\ ~valid /\ pos' \in Keys \cup {None}
  /\ UNCHANGED <<keys, desc, valid>>

Next ==
  \/ \E k \in Keys : Add(k) \/ Remove(k)
  \/ \E d \in BOOLEAN, s \in Keys \cup {None} : First(d, s)
  \/ Step \/ Fail \/ Wander

Spec == Init /\ [][Next]_<<keys, pos, desc, valid>>
=============================================================================
