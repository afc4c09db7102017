------------------------------ MODULE AvlCursor ------------------------------
(***************************************************************************)
(* An AVL tree of libavstor together with an avstor_inorder cursor on it   *)
(* (src/unnamed/part_005): avstor_inorder_first and avstor_inorder_next,   *)
(* interleaved with creates and deletes on the same tree.                  *)
(*                                                                         *)
(* The cursor is the caller's avstor_inorder: a stack of node offsets      *)
(* (top last, at most AVSTOR_AVL_HEIGHT entries) and the DESCENDING flag.  *)
(* Each cursor call holds the global lock shared and each write holds it   *)
(* exclusively, so every call is one atomic step; between calls the stack  *)
(* keeps offsets that a write may have moved or freed.  A node is its name *)
(* as in AvlTree.  The out_node of a call that returns AVSTOR_OK is the    *)
(* top of the stack.                                                       *)
(***************************************************************************)
EXTENDS Integers, Sequences

CONSTANTS Keys, AVSTOR_AVL_HEIGHT

VARIABLES
  tree, alloc,  \* the tree, as in AvlTree
  cst,          \* the cursor's stack st->ref[0 .. st->top]
  cdesc,        \* st->flags & AVSTOR_DESCENDING
  cvalid        \* no write and no failed call since the last inorder_first

vars == <<tree, alloc, cst, cdesc, cvalid>>

Avl == INSTANCE AvlTree

Null == Avl!Null

Top(st) == st[Len(st)]
Pop(st) == SubSeq(st, 1, Len(st) - 1)

(* Mutant: inorder_state_push refusing one entry early.                    *)
CanPush_short(st) == Len(st) < AVSTOR_AVL_HEIGHT - 1

(* inorder_state_push: fails once the stack holds AVSTOR_AVL_HEIGHT.       *)
CanPush(st) == Len(st) < AVSTOR_AVL_HEIGHT

(***************************************************************************)
(* find_node_for_inorder: descend towards k pushing every node at or after *)
(* k in the cursor's direction; a full stack throws CORRUPT with what was  *)
(* pushed so far left on the stack.                                        *)
(***************************************************************************)
(* Mutant: a node equal to the key is not pushed, so the cursor starts    *)
(* after the key instead of on it.                                          *)
RECURSIVE find_node_for_inorder_strict(_, _, _, _, _)
find_node_for_inorder_strict(T, k, d, ofs, st) ==
  IF ofs = Null THEN [found |-> Null, st |-> st, overflow |-> FALSE]
  ELSE LET comp == Avl!Cmp(k, ofs)
           push == (IF d THEN -comp ELSE comp) < 0
       IN IF push /\ ~CanPush(st) THEN [found |-> Null, st |-> st, overflow |-> TRUE]
          ELSE LET st1 == IF push THEN Append(st, ofs) ELSE st IN
               IF comp = 0 THEN [found |-> ofs, st |-> st1, overflow |-> FALSE]
               ELSE find_node_for_inorder_strict(T, k, d,
                      IF comp < 0 THEN T.left[ofs] ELSE T.right[ofs], st1)

RECURSIVE find_node_for_inorder(_, _, _, _, _)
find_node_for_inorder(T, k, d, ofs, st) ==
  IF ofs = Null THEN [found |-> Null, st |-> st, overflow |-> FALSE]
  ELSE LET comp == Avl!Cmp(k, ofs)
           push == (IF d THEN -comp ELSE comp) <= 0
       IN IF push /\ ~CanPush(st) THEN [found |-> Null, st |-> st, overflow |-> TRUE]
          ELSE LET st1 == IF push THEN Append(st, ofs) ELSE st IN
               IF comp = 0 THEN [found |-> ofs, st |-> st1, overflow |-> FALSE]
               ELSE find_node_for_inorder(T, k, d,
                      IF comp < 0 THEN T.left[ofs] ELSE T.right[ofs], st1)

(***************************************************************************)
(* inorder_next: push ofs and its chain of left (descending: right)        *)
(* children; then the top is the result, or NOTFOUND with an empty stack.  *)
(***************************************************************************)
RECURSIVE inorder_next(_, _, _, _)
inorder_next(T, d, ofs, st) ==
  IF ofs # Null
  THEN IF ~CanPush(st) THEN [res |-> "CORRUPT", st |-> st]
       ELSE inorder_next(T, d, IF d THEN T.right[ofs] ELSE T.left[ofs],
                         Append(st, ofs))
  ELSE IF st = <<>> THEN [res |-> "NOTFOUND", st |-> <<>>]
  ELSE [res |-> "OK", st |-> st]

Init ==
  /\ Avl!Init
  /\ cst = <<>> /\ cdesc = FALSE /\ cvalid = FALSE

(* A create or delete that changes the tree, by AvlTree's actions.         *)
Write(k) ==
  /\ Avl!CreateNode(k) \/ Avl!DeleteNode(k)
  /\ cvalid' = FALSE
  /\ UNCHANGED <<cst, cdesc>>

(* A create of an existing name or a failing delete: the tree stays.       *)
FailedWrite(k) ==
  /\ Avl!CreateExists(k) \/ Avl!DeleteFails(k)
  /\ UNCHANGED <<cst, cdesc, cvalid>>

(* avstor_inorder_first with a key: the top of the stack is the key or the *)
(* nearest name after it, and an empty stack is NOTFOUND.                  *)
InorderFirstKey(d, k) ==
  LET f == find_node_for_inorder(tree, k, d, tree.root, <<>>) IN
  /\ cst' = f.st
  /\ cdesc' = d
  /\ cvalid' = ~f.overflow
  /\ UNCHANGED <<tree, alloc>>

(* avstor_inorder_first without a key: inorder_next from the root.         *)
InorderFirstAll(d) ==
  LET r == inorder_next(tree, d, tree.root, <<>>) IN
  /\ cst' = r.st
  /\ cdesc' = d
  /\ cvalid' = (r.res # "CORRUPT")
  /\ UNCHANGED <<tree, alloc>>

(* avstor_inorder_next: with an empty stack it returns NOTFOUND and        *)
(* changes nothing (a stutter, not a step).  Otherwise it pops the top,    *)
(* and inorder_next descends its right (descending: left) subtree.  A      *)
(* popped node that a delete has freed is not in the tree: get_node finds  *)
(* its slot cleared and throws CORRUPT, the entry already popped.          *)
InorderNext ==
  LET n == Top(cst) IN
  /\ cst # <<>>
  /\ \/ /\ n \in alloc
        /\ LET r == inorder_next(tree, cdesc,
                      IF cdesc THEN tree.left[n] ELSE tree.right[n], Pop(cst))
           IN /\ cst' = r.st
              /\ cvalid' = (cvalid /\ r.res # "CORRUPT")
     \/ /\ n \notin alloc
        /\ cst' = Pop(cst)
        /\ cvalid' = FALSE
  /\ UNCHANGED <<tree, alloc, cdesc>>

Next ==
  \/ \E k \in Keys : Write(k) \/ FailedWrite(k)
  \/ \E d \in BOOLEAN : InorderFirstAll(d) \/ \E k \in Keys : InorderFirstKey(d, k)
  \/ InorderNext

Spec == Init /\ [][Next]_vars

-----------------------------------------------------------------------------
SearchTree == Avl!SearchTree
Balanced == Avl!Balanced
(* A tree no taller than AVSTOR_AVL_HEIGHT overflows neither the back-    *)
(* trace stack of creates and deletes nor the cursor's stack: neither      *)
(* find_node_for_inorder towards any name nor the first inorder_next from  *)
(* the root needs more entries than the tree has levels, in either         *)
(* direction.                                                              *)
StackFits ==
  /\ Avl!StackFits
  /\ Avl!TreeHeight(tree) <= AVSTOR_AVL_HEIGHT =>
       \A d \in BOOLEAN :
         /\ inorder_next(tree, d, tree.root, <<>>).res # "CORRUPT"
         /\ \A k \in Keys : ~find_node_for_inorder(tree, k, d, tree.root, <<>>).overflow

TypeOK ==
  /\ Avl!TypeOK
  /\ cst \in Seq(Keys) /\ Len(cst) <= AVSTOR_AVL_HEIGHT
  /\ cdesc \in BOOLEAN /\ cvalid \in BOOLEAN

Abstract == INSTANCE KeySet WITH keys <- Avl!Nodes(tree),
              pos <- IF cst = <<>> THEN Null ELSE Top(cst),
              desc <- cdesc, valid <- cvalid

(* The tree and its cursor implement KeySet: every create of an absent     *)
(* name adds exactly it and every delete of a present name removes it;     *)
(* an inorder_first lands on the first name at or after its key in the     *)
(* cursor's direction, and each inorder_next on an undisturbed cursor      *)
(* moves to the next name in order, through the rotations the tree has.    *)
ImplementsKeySet == Abstract!Spec
=============================================================================
