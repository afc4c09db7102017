---------------------------- MODULE AbstractLock ----------------------------
(***************************************************************************)
(* What a mutex promises its callers: at most one owner at a time; only    *)
(* a free mutex is acquired, and only the owner releases it.               *)
(***************************************************************************)
CONSTANTS Threads, NoOwner

VARIABLE owner

Init == owner = NoOwner

Acquire(t) == owner = NoOwner /\ owner' = t

Release(t) == owner = t /\ owner' = NoOwner

Next == \E t \in Threads : Acquire(t) \/ Release(t)

Spec == Init /\ [][Next]_owner

=============================================================================
