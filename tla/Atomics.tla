------------------------------- MODULE Atomics -------------------------------
(***************************************************************************)
(* The atomic_int operations of src/threads/atomics.c, used on CPUs below  *)
(* the 486 (stdatomic.h maps atomic_* and _atomic_* to the                 *)
(* __atomic_*_impl functions when _M_IX86 < 400).  Every function runs its *)
(* plain loads and stores of *obj between ACQUIRE_SPINLOCK and             *)
(* RELEASE_SPINLOCK on the one global word AtomicLockState:                *)
(*   - below the 386, a byte test-and-test-and-set lock: `xchg` 1 into it, *)
(*     acquired if the old value was 0, else spin while it is not 0;       *)
(*     release stores 0;                                                   *)
(*   - on the 386, a counter starting at 1: `lock dec`, acquired if the    *)
(*     result is 0, else spin while it is <= 0; release stores 1.          *)
(* The variable `kind`, chosen in Init, explores the two side by side.     *)
(*                                                                         *)
(* Each instruction touching shared memory is one step: the spinlock's     *)
(* exchange or decrement, one iteration of its spin test, the load of      *)
(* *obj into a register, the store of the result, and the release.  The    *)
(* refinement checks that, through all interleavings, the functions        *)
(* behave like the locked instructions of AtomicInt.                       *)
(***************************************************************************)
EXTENDS Integers, FiniteSets

CONSTANTS Threads, Calls, MaxCalls, Width, NoResult, NoCall,
          Kinds     \* the spinlocks checked: a subset of {"xchg", "dec"}

VARIABLES
    obj,       \* the atomic_int's _value
    sl,        \* AtomicLockState
    kind,      \* the build: "xchg" (_M_IX86 < 300) or "dec" (< 400)
    pc,        \* per thread: where it is in its current call
    call,      \* per thread: its current or latest call
    loc,       \* per thread: the register holding the value loaded from *obj
    res,       \* per thread: the value its latest call returned
    n          \* per thread: calls completed

vars == <<obj, sl, kind, pc, call, loc, res, n>>

A == INSTANCE AtomicInt WITH busy <- [t \in Threads |-> FALSE]

\* Both spinlocks released by storing 1, the 386 lock's unlocked value.
SpinUnlocked_one(k) == 1

\* The initial AtomicLockState of each spinlock, and the value release stores.
SpinUnlocked(k) == IF k = "xchg" THEN 0 ELSE 1

Init ==
    /\ kind \in Kinds
    /\ sl = SpinUnlocked(kind)
    /\ obj = 0
    /\ pc = [t \in Threads |-> "idle"]
    /\ call = [t \in Threads |-> NoCall]
    /\ loc = [t \in Threads |-> 0]
    /\ res = [t \in Threads |-> NoResult]
    /\ n = [t \in Threads |-> 0]

(* The spinlock functions: from the value x loaded from *obj, the value    *)
(* stored back and the value returned.  They agree with the locked         *)
(* instructions except __atomic_add/inc/dec_impl, which return the new     *)
(* value itself (`mov result, ax` after the add) where __locked_add_impl   *)
(* returns its sign.                                                       *)
SpinBody(c, x) ==
    IF c.op \in {"add", "inc", "dec"}
    THEN LET r == A!Locked(c, x) IN [r EXCEPT !.res = r.obj]
    ELSE A!Locked(c, x)

\* A thread calls its next operation.
Invoke(t) ==
    /\ pc[t] = "idle" /\ n[t] < MaxCalls
    /\ \E c \in Calls : call' = [call EXCEPT ![t] = c]
    /\ res' = [res EXCEPT ![t] = NoResult]
    /\ pc' = [pc EXCEPT ![t] = "acquire"]
    /\ UNCHANGED <<obj, sl, kind, loc, n>>

\* Where a thread goes once it holds the spinlock: a store has no load.
Body(t) == IF call[t].op = "store" THEN "write" ELSE "read"

\* The byte lock taken with `inc` instead of `xchg`.
XchgAcquire_inc(t) ==
    /\ kind = "xchg" /\ pc[t] = "acquire"
    /\ sl' = sl + 1
    /\ pc' = [pc EXCEPT ![t] = IF sl = 0 THEN Body(t) ELSE "spin"]
    /\ UNCHANGED <<obj, kind, call, loc, res, n>>

(* `xchg al, byte ptr lock_addr` with al = 1; `test al, al; je __acquired`. *)
XchgAcquire(t) ==
    /\ kind = "xchg" /\ pc[t] = "acquire"
    /\ sl' = 1
    /\ pc' = [pc EXCEPT ![t] = IF sl = 0 THEN Body(t) ELSE "spin"]
    /\ UNCHANGED <<obj, kind, call, loc, res, n>>

(* `__spin: cmp byte ptr lock_addr, 0; jne __spin; jmp __again`: the       *)
(* iterations that find the lock taken change nothing and are left out.    *)
XchgSpin(t) ==
    /\ kind = "xchg" /\ pc[t] = "spin"
    /\ sl = 0
    /\ pc' = [pc EXCEPT ![t] = "acquire"]
    /\ UNCHANGED <<obj, sl, kind, call, loc, res, n>>

\* `jz __acquired` after `lock dec`: the lock was 1.
DecAcquired_le(v) == v <= 0

DecAcquired(v) == v = 0

\* `__again: lock dec LOCK_SIZE ptr lock_addr; jz __acquired`.
DecAcquire(t) ==
    /\ kind = "dec" /\ pc[t] = "acquire"
    /\ sl' = sl - 1
    /\ pc' = [pc EXCEPT ![t] = IF DecAcquired(sl - 1) THEN Body(t) ELSE "spin"]
    /\ UNCHANGED <<obj, kind, call, loc, res, n>>

\* The spin loop without its test: straight back to `lock dec`.
DecSpin_notest(t) ==
    /\ kind = "dec" /\ pc[t] = "spin"
    /\ pc' = [pc EXCEPT ![t] = "acquire"]
    /\ UNCHANGED <<obj, sl, kind, call, loc, res, n>>

(* `__spin: cmp LOCK_SIZE ptr lock_addr, 0; jle __spin; jmp __again`.      *)
DecSpin(t) ==
    /\ kind = "dec" /\ pc[t] = "spin"
    /\ sl > 0
    /\ pc' = [pc EXCEPT ![t] = "acquire"]
    /\ UNCHANGED <<obj, sl, kind, call, loc, res, n>>

(* `mov ax, [si]` (`mov edx, es:[di]` in compare-exchange): the load of    *)
(* *obj; a load call returns it and is finished.                           *)
Read(t) ==
    /\ pc[t] = "read"
    /\ IF call[t].op = "load"
         THEN /\ res' = [res EXCEPT ![t] = obj]
              /\ pc' = [pc EXCEPT ![t] = "release"]
              /\ UNCHANGED loc
         ELSE /\ loc' = [loc EXCEPT ![t] = obj]
              /\ pc' = [pc EXCEPT ![t] = "write"]
              /\ UNCHANGED res
    /\ UNCHANGED <<obj, sl, kind, call, n>>

\* `mov [si], ...`: the store of the computed value, and the result.
Write(t) ==
    LET r == SpinBody(call[t], loc[t])
    IN  /\ pc[t] = "write"
        /\ obj' = r.obj
        /\ res' = [res EXCEPT ![t] = r.res]
        /\ pc' = [pc EXCEPT ![t] = "release"]
        /\ UNCHANGED <<sl, kind, call, loc, n>>

\* RELEASE_SPINLOCK: a plain `mov` of the unlocked value; the call returns.
Release(t) ==
    /\ pc[t] = "release"
    /\ sl' = SpinUnlocked(kind)
    /\ pc' = [pc EXCEPT ![t] = "idle"]
    /\ n' = [n EXCEPT ![t] = @ + 1]
    /\ UNCHANGED <<obj, kind, call, loc, res>>

Step(t) ==
    \/ Invoke(t)
    \/ XchgAcquire(t) \/ XchgSpin(t) \/ DecAcquire(t) \/ DecSpin(t)
    \/ Read(t) \/ Write(t) \/ Release(t)

Next == \E t \in Threads : Step(t)

(* The scheduler keeps running every thread; a spinning thread is always   *)
(* runnable.                                                                *)
Spec == Init /\ [][Next]_vars /\ \A t \in Threads : WF_vars(Step(t))

-----------------------------------------------------------------------------
PCs == {"idle", "acquire", "spin", "read", "write", "release"}

\* The values of an int of Width bits.
Word == -(2^(Width - 1))..(2^(Width - 1) - 1)

(* Types: *obj and the registers hold Width-bit ints, the 8086 lock byte   *)
(* only 0 and 1.                                                           *)
TypeOK ==
    /\ kind \in Kinds /\ obj \in Word
    /\ sl \in IF kind = "xchg" THEN {0, 1} ELSE Int
    /\ pc \in [Threads -> PCs]
    /\ call \in [Threads -> Calls \cup {NoCall}]
    /\ loc \in [Threads -> Word]
    /\ n \in [Threads -> 0..MaxCalls]

(* The 386 spinlock's counter never falls below 1 - |Threads|: a thread    *)
(* decrements it once and then only reads it until a release has stored 1, *)
(* so each thread owes at most one decrement.  This is the "less than      *)
(* 2^31 (2^15 for 16-bit) threads spinning" of the comment on              *)
(* ACQUIRE_SPINLOCK: below that bound the word cannot wrap round to 0 and  *)
(* admit a second holder.                                                  *)
SpinWordBound ==
    kind = "dec" => sl \in (1 - Cardinality(Threads))..1

(* Refinement mapping: a call takes effect at its load (a load call) or at *)
(* its store (the others); the spinlock steps before it and the release    *)
(* after it change nothing the caller can see.  The value returned by      *)
(* _atomic_add/_inc/_dec is compared by its sign, the part of it both      *)
(* builds define.                                                          *)
Pending(t) == pc[t] \in {"acquire", "spin", "read", "write"}

AbsRes == [t \in Threads |->
             IF res[t] # NoResult /\ call[t].op \in {"add", "inc", "dec"}
             THEN A!FlagsSign(res[t]) ELSE res[t]]

Abs == INSTANCE AtomicInt WITH
           busy <- [t \in Threads |-> Pending(t)],
           res <- AbsRes,
           n <- [t \in Threads |-> IF pc[t] = "release" THEN n[t] + 1 ELSE n[t]]

(* Every sequence of calls of the spinlock functions, however the threads  *)
(* interleave their loads, stores and spins, is a sequence of indivisible  *)
(* locked instructions: the same values stored and returned.               *)
ImplementsAtomicInt == Abs!Spec

(* Every thread completes all its calls: the holder always releases, and  *)
(* once the other threads are done a spinner finds the lock free.          *)
AllCallsReturn == <>(\A t \in Threads : pc[t] = "idle" /\ n[t] = MaxCalls)
=============================================================================
