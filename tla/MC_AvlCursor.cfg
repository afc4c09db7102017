\* Creates, deletes and cursor calls in any interleaving on a tree of up to
\* five names with a two-entry stack.
CONSTANTS
  Keys <- MCKeys
  AVSTOR_AVL_HEIGHT <- MCHeight
SPECIFICATION Spec
INVARIANTS TypeOK SearchTree Balanced StackFits
PROPERTY ImplementsKeySet
