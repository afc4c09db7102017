------------------------------- MODULE AvlTree -------------------------------
(***************************************************************************)
(* The AVL tree of libavstor (src/unnamed/part_005): one tree of nodes,    *)
(* as it hangs off the header root, a key's subkey_root or value_root, or  *)
(* the links root.  Each node has left, right and a balance factor        *)
(* (BF, right height minus left height, kept in two bits of hdr).          *)
(*                                                                         *)
(* A node is identified by its name: names are unique in a tree and the    *)
(* comparer orders them, so a node's name stands for both its offset and   *)
(* its key.  The null reference (offset 0) is 0.                           *)
(*                                                                         *)
(* find_node_with_backtrace walks down from the root, pushing every node   *)
(* it leaves onto an explicit stack of at most AVSTOR_AVL_HEIGHT entries   *)
(* with the comparison result; insert_node then links the new node below   *)
(* the top of the stack and balance_down pops the stack, rotating at most  *)
(* once; remove_node unlinks a node (pushing the path to its in-order      *)
(* successor when it has two children) and balance_up pops the stack,      *)
(* rotating as often as needed.  Each operator below is one of these C     *)
(* functions; the stack is a sequence whose last element is the top.       *)
(*                                                                         *)
(* The tree operations run under the exclusive global lock (create_*, or   *)
(* delete after rwl_upgrade), so an insertion or a removal is one atomic   *)
(* step here; the locking itself is the subject of RWLock.                 *)
(***************************************************************************)
EXTENDS Integers, Sequences, FiniteSets

CONSTANTS
  Keys,             \* the names that may be created, a finite set of positive integers
  AVSTOR_AVL_HEIGHT \* capacity of the back-trace stack (64 in part_000)

ASSUME Keys \subseteq Nat \ {0} /\ AVSTOR_AVL_HEIGHT \in Nat \ {0}

Null == 0
Ref == Keys \cup {Null}

VARIABLES
  tree,   \* [root, left, right, bf, fault]: the references and balance factors
  alloc   \* the nodes create_node has allocated and free_node not yet freed

vars == <<tree, alloc>>

(* The comparer's result; balance_down only looks at its sign.             *)
Cmp(a, b) == IF a < b THEN -1 ELSE IF a > b THEN 1 ELSE 0

Top(st) == st[Len(st)]
Pop(st) == SubSeq(st, 1, Len(st) - 1)

(***************************************************************************)
(* Rotations.  x is the unbalanced node, z its heavy child, y the middle   *)
(* grandchild of the double rotations; each sets the balance factors from  *)
(* BF(z) or BF(y) exactly as the C code does.  The double rotations return *)
(* the new subtree root y with the tree.                                   *)
(***************************************************************************)
rotate_right(T, x, z) ==
  [T EXCEPT !.left[x] = T.right[z], !.right[z] = x,
            !.bf[x] = IF T.bf[z] = 0 THEN -1 ELSE 0,
            !.bf[z] = IF T.bf[z] = 0 THEN 1 ELSE 0]

(* Mutant: the insert-only rotation, which forgets that a deletion can     *)
(* rotate at a child with BF(z) = 0.                                       *)
rotate_left_insert_only(T, x, z) ==
  [T EXCEPT !.right[x] = T.left[z], !.left[z] = x, !.bf[x] = 0, !.bf[z] = 0]

rotate_left(T, x, z) ==
  [T EXCEPT !.right[x] = T.left[z], !.left[z] = x,
            !.bf[x] = IF T.bf[z] = 0 THEN 1 ELSE 0,
            !.bf[z] = IF T.bf[z] = 0 THEN -1 ELSE 0]

rotate_right_left(T, x, z) ==
  LET y == T.left[z] IN
  [t |-> [T EXCEPT !.left[z] = T.right[y], !.right[y] = z,
                   !.right[x] = T.left[y], !.left[y] = x,
                   !.bf[x] = IF T.bf[y] > 0 THEN -1 ELSE 0,
                   !.bf[z] = IF T.bf[y] < 0 THEN 1 ELSE 0,
                   !.bf[y] = 0],
   top |-> y]

rotate_left_right(T, x, z) ==
  LET y == T.right[z] IN
  [t |-> [T EXCEPT !.right[z] = T.left[y], !.left[y] = z,
                   !.left[x] = T.right[y], !.right[y] = x,
                   !.bf[x] = IF T.bf[y] < 0 THEN 1 ELSE 0,
                   !.bf[z] = IF T.bf[y] > 0 THEN -1 ELSE 0,
                   !.bf[y] = 0],
   top |-> y]

(* Make the parent recorded at stack position pos (0: the root reference)  *)
(* point to src instead of cur; a parent that has no child cur is the      *)
(* INTERNAL "dest is not a parent of cur" exception, recorded as fault.    *)
backtrace_set_ref(T, st, pos, cur, src) ==
  IF pos = 0 THEN [T EXCEPT !.root = src]
  ELSE LET dest == st[pos][1] IN
       IF T.left[dest] = cur THEN [T EXCEPT !.left[dest] = src]
       ELSE IF T.right[dest] = cur THEN [T EXCEPT !.right[dest] = src]
       ELSE [T EXCEPT !.fault = TRUE]

(* The single or double rotation at cur towards its heavy side bf.         *)
(* balance_down (upward FALSE) picks the double one unless BF(z) leans   *)
(* the same way;                                                          *)
(* balance_up also rotates singly when BF(z) = 0.                          *)
RotateAt(T, cur, bf, upward) ==
  LET doubleIf(v) == IF upward THEN v > 0 ELSE v >= 0 IN
  IF bf > 0
  THEN LET z == T.right[cur] IN
       IF doubleIf(-T.bf[z]) THEN rotate_right_left(T, cur, z)
       ELSE [t |-> rotate_left(T, cur, z), top |-> z]
  ELSE LET z == T.left[cur] IN
       IF doubleIf(T.bf[z]) THEN rotate_left_right(T, cur, z)
       ELSE [t |-> rotate_right(T, cur, z), top |-> z]

(* Mutant: balance_down that never rotates and lets BF reach +-2.          *)
RECURSIVE balance_down_norotate(_, _)
balance_down_norotate(T, st) ==
  IF st = <<>> THEN T
  ELSE LET cur  == Top(st)[1]
           comp == IF Top(st)[2] < 0 THEN -1 ELSE 1
       IN IF T.bf[cur] = 0
          THEN balance_down_norotate([T EXCEPT !.bf[cur] = comp], Pop(st))
          ELSE [T EXCEPT !.bf[cur] = T.bf[cur] + comp]

(* Insert rebalance: a subtree on the side comp of cur grew by one.         *)
RECURSIVE balance_down(_, _)
balance_down(T, st) ==
  IF st = <<>> THEN T
  ELSE LET cur  == Top(st)[1]
           comp == IF Top(st)[2] < 0 THEN -1 ELSE 1
           b    == T.bf[cur]
       IN IF b = 0 THEN balance_down([T EXCEPT !.bf[cur] = comp], Pop(st))
          ELSE IF comp + b # 0
          THEN LET r == RotateAt(T, cur, b, FALSE)
               IN backtrace_set_ref(r.t, Pop(st), Len(st) - 1, cur, r.top)
          ELSE [T EXCEPT !.bf[cur] = 0]

(* Delete rebalance: a subtree on the side comp of cur shrank by one.       *)
RECURSIVE balance_up(_, _)
balance_up(T, st) ==
  IF st = <<>> THEN T
  ELSE LET cur  == Top(st)[1]
           side == IF Top(st)[2] < 0 THEN -1 ELSE 1
           b    == T.bf[cur]
           z    == IF side < 0 THEN T.right[cur] ELSE T.left[cur]
       IN IF b = -side
          THEN LET r  == RotateAt(T, cur, b, TRUE)
                   T2 == backtrace_set_ref(r.t, Pop(st), Len(st) - 1, cur, r.top)
               IN IF T.bf[z] = 0 THEN T2 ELSE balance_up(T2, Pop(st))
          ELSE IF b = 0 THEN [T EXCEPT !.bf[cur] = -side]
          ELSE balance_up([T EXCEPT !.bf[cur] = 0], Pop(st))

(***************************************************************************)
(* find_node_with_backtrace: descend from the root, pushing each node left *)
(* behind with its comparison.  The push comes before the child is looked  *)
(* at, and backtrace_push throws INTERNAL (MSG_BACKTRACE_OVERFLOW) once    *)
(* the stack holds AVSTOR_AVL_HEIGHT entries.                              *)
(***************************************************************************)
(* Mutant: backtrace_push refusing one entry early.                         *)
RECURSIVE Descend_short(_, _, _, _)
Descend_short(T, k, cur, st) ==
  IF cur = Null THEN [found |-> Null, st |-> st, overflow |-> FALSE]
  ELSE IF k = cur THEN [found |-> cur, st |-> st, overflow |-> FALSE]
  ELSE IF Len(st) >= AVSTOR_AVL_HEIGHT - 1
  THEN [found |-> Null, st |-> st, overflow |-> TRUE]
  ELSE Descend_short(T, k, IF k < cur THEN T.left[cur] ELSE T.right[cur],
                     Append(st, <<cur, Cmp(k, cur)>>))

RECURSIVE Descend(_, _, _, _)
Descend(T, k, cur, st) ==
  IF cur = Null THEN [found |-> Null, st |-> st, overflow |-> FALSE]
  ELSE IF k = cur THEN [found |-> cur, st |-> st, overflow |-> FALSE]
  ELSE IF Len(st) >= AVSTOR_AVL_HEIGHT
  THEN [found |-> Null, st |-> st, overflow |-> TRUE]
  ELSE Descend(T, k, IF k < cur THEN T.left[cur] ELSE T.right[cur],
               Append(st, <<cur, Cmp(k, cur)>>))

find_node_with_backtrace(T, k) == Descend(T, k, T.root, <<>>)

(* Link the new node item under the top of the stack (or as the root).      *)
insert_node(T, item, st) ==
  LET T1 == [T EXCEPT !.left[item] = Null, !.right[item] = Null,
                      !.bf[item] = 0]
  IN IF st = <<>> THEN [T1 EXCEPT !.root = item]
     ELSE LET p == Top(st)[1] IN
          balance_down(IF Top(st)[2] < 0 THEN [T1 EXCEPT !.left[p] = item]
                                         ELSE [T1 EXCEPT !.right[p] = item],
                       st)

(* The reference that points at the node just found: the root reference,   *)
(* or the child of the stack top on the side of the comparison.            *)
(* Mutant: the unlinked node always assumed to be a right child.           *)
SetRef_right(T, st, v) ==
  IF st = <<>> THEN [T EXCEPT !.root = v]
  ELSE [T EXCEPT !.right[Top(st)[1]] = v]

SetRef(T, st, v) ==
  IF st = <<>> THEN [T EXCEPT !.root = v]
  ELSE IF Top(st)[2] < 0 THEN [T EXCEPT !.left[Top(st)[1]] = v]
  ELSE [T EXCEPT !.right[Top(st)[1]] = v]

(* Case 3 of remove_node: the path from node's right child down the left   *)
(* spine to the in-order successor, each step a push with comp -1.         *)
RECURSIVE SuccessorPath(_, _, _)
SuccessorPath(T, succ, st) ==
  IF T.left[succ] = Null THEN [succ |-> succ, st |-> st, overflow |-> FALSE]
  ELSE IF Len(st) >= AVSTOR_AVL_HEIGHT
  THEN [succ |-> succ, st |-> st, overflow |-> TRUE]
  ELSE SuccessorPath(T, T.left[succ], Append(st, <<succ, -1>>))

(* remove_node: the unlinked tree and stack before balance_up, or overflow. *)
Unlink(T, node, st) ==
  IF T.left[node] = Null \/ T.right[node] = Null
  THEN LET child == IF T.left[node] # Null THEN T.left[node] ELSE T.right[node]
       IN [t |-> [SetRef(T, st, child) EXCEPT !.left[node] = Null,
                                              !.right[node] = Null],
           st |-> st, overflow |-> FALSE]
  ELSE IF Len(st) >= AVSTOR_AVL_HEIGHT
  THEN [t |-> T, st |-> st, overflow |-> TRUE]
  ELSE
    LET delpos == Len(st) + 1
        p      == SuccessorPath(T, T.right[node], Append(st, <<node, 1>>))
        succ   == p.succ
        T1     == [T EXCEPT !.left[succ] = T.left[node]]
        T2     == IF Len(p.st) # delpos
                  THEN [T1 EXCEPT !.left[Top(p.st)[1]] = T.right[succ],
                                  !.right[succ] = T.right[node]]
                  ELSE T1
        T3     == backtrace_set_ref(T2, p.st, delpos - 1, node, succ)
    IN [t |-> [T3 EXCEPT !.bf[succ] = T.bf[node]],
        st |-> [p.st EXCEPT ![delpos] = <<succ, 1>>],
        overflow |-> p.overflow]

remove_node(T, node, st) ==
  LET u == Unlink(T, node, st) IN
  IF u.overflow THEN u
  ELSE [u EXCEPT !.t = [balance_up(u.t, u.st) EXCEPT !.left[node] = Null,
                                                     !.right[node] = Null]]

-----------------------------------------------------------------------------
Init ==
  /\ tree = [root |-> Null, left |-> [k \in Keys |-> Null],
             right |-> [k \in Keys |-> Null], bf |-> [k \in Keys |-> 0],
             fault |-> FALSE]
  /\ alloc = {}

(* avstor_create_key (and the other create_* functions): an existing name  *)
(* is AVSTOR_EXISTS and leaves the tree alone; otherwise create_node       *)
(* allocates the node and insert_node links and rebalances it.  A back-    *)
(* trace overflow throws before anything is changed.                       *)
CreateNode(k) ==
  LET f == find_node_with_backtrace(tree, k) IN
  /\ f.found = Null /\ ~f.overflow
  /\ tree' = insert_node(tree, k, f.st)
  /\ alloc' = alloc \cup {k}

CreateExists(k) ==
  LET f == find_node_with_backtrace(tree, k) IN
  /\ f.found # Null \/ f.overflow
  /\ UNCHANGED vars

(* avstor_delete once it holds the lock exclusively: NOTFOUND leaves the    *)
(* tree alone; a found node is removed (remove_node) and freed (free_node).*)
DeleteNode(k) ==
  LET f == find_node_with_backtrace(tree, k)
      r == remove_node(tree, f.found, f.st)
  IN /\ f.found # Null /\ ~f.overflow /\ ~r.overflow
     /\ tree' = r.t
     /\ alloc' = alloc \ {k}

DeleteFails(k) ==
  LET f == find_node_with_backtrace(tree, k) IN
  /\ IF f.found = Null \/ f.overflow THEN TRUE
     ELSE remove_node(tree, f.found, f.st).overflow
  /\ UNCHANGED vars

Next == \E k \in Keys : CreateNode(k) \/ CreateExists(k)
                        \/ DeleteNode(k) \/ DeleteFails(k)

Spec == Init /\ [][Next]_vars

-----------------------------------------------------------------------------
(* Views of the tree used by the properties.  The walks carry fuel so that *)
(* a cyclic tree terminates instead of recursing forever.                  *)
Fuel == Cardinality(Keys) + 1

RECURSIVE InOrder(_, _, _)
InOrder(T, n, fuel) ==
  IF n = Null \/ fuel = 0 THEN <<>>
  ELSE InOrder(T, T.left[n], fuel - 1) \o <<n>> \o InOrder(T, T.right[n], fuel - 1)

RECURSIVE Height(_, _, _)
Height(T, n, fuel) ==
  IF n = Null \/ fuel = 0 THEN 0
  ELSE LET l == Height(T, T.left[n], fuel - 1)
           r == Height(T, T.right[n], fuel - 1)
       IN 1 + (IF l > r THEN l ELSE r)

Nodes(T) == {InOrder(T, T.root, Fuel)[i] : i \in 1 .. Len(InOrder(T, T.root, Fuel))}

TreeHeight(T) == Height(T, T.root, Fuel)

TypeOK ==
  /\ tree.root \in Ref
  /\ tree.left \in [Keys -> Ref] /\ tree.right \in [Keys -> Ref]
  /\ tree.bf \in [Keys -> -1 .. 1]
  /\ tree.fault \in BOOLEAN
  /\ alloc \subseteq Keys

(* After every create and delete, each node reachable from the root stores *)
(* in its two BF bits exactly the height of its right subtree minus that   *)
(* of its left one, and no rebalance ever met a stack entry that was not   *)
(* the parent of the rotated node: the rotations of balance_down and       *)
(* balance_up, their balance factor updates and balance_up's early stop    *)
(* keep the tree an AVL tree.                                              *)
Balanced ==
  /\ ~tree.fault
  /\ \A n \in Nodes(tree) :
       tree.bf[n] = Height(tree, tree.right[n], Fuel) - Height(tree, tree.left[n], Fuel)

(* The nodes reachable from the root, read in order, are strictly          *)
(* increasing in the comparer's order, each appears once, and they are     *)
(* exactly the nodes allocated and not freed: no rotation, successor       *)
(* splice or unlink in remove_node loses, duplicates or misplaces a node.  *)
SearchTree ==
  LET s == InOrder(tree, tree.root, Fuel) IN
  /\ \A i \in 1 .. Len(s) - 1 : s[i] < s[i + 1]
  /\ Nodes(tree) = alloc

(* A tree no taller than AVSTOR_AVL_HEIGHT never overflows the back-trace  *)
(* stack: neither the descent of find_node_with_backtrace nor the          *)
(* successor path of remove_node needs more than the stack's capacity.     *)
StackFits ==
  TreeHeight(tree) <= AVSTOR_AVL_HEIGHT =>
    \A k \in Keys :
      LET f == find_node_with_backtrace(tree, k) IN
      /\ ~f.overflow
      /\ f.found # Null => ~remove_node(tree, f.found, f.st).overflow
=============================================================================
