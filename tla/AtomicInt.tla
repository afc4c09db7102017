------------------------------ MODULE AtomicInt ------------------------------
(***************************************************************************)
(* The atomic_int operations of src/threads/stdatomic.h as the CPU's       *)
(* locked instructions: the __locked_*_impl functions that the 486 and     *)
(* later builds map atomic_* and _atomic_* to.  Each call is one           *)
(* indivisible instruction (xchg, lock xadd, lock cmpxchg, lock add/inc/   *)
(* dec, lock bts/btr, or a plain aligned mov for a load).  This is what    *)
(* the spinlock implementations of atomics.c, for CPUs below the 486, must *)
(* look like to their callers.                                             *)
(*                                                                         *)
(* A thread calls at most MaxCalls operations on one atomic_int `obj`, of  *)
(* Width bits.  `call` is its current or latest call, `busy` whether the   *)
(* call has not yet taken effect, `res` the value it returned (NoResult    *)
(* while a call is in progress or when it returns void).                   *)
(***************************************************************************)
EXTENDS Integers

CONSTANTS
    Threads,   \* the threads calling the operations
    Calls,     \* the calls a thread may make: records [op, arg, exp]
    MaxCalls,  \* calls per thread
    Width,     \* bits of an int: 16 (__I86__) or 32 (__i386__)
    NoResult,  \* no value returned
    NoCall     \* a thread that has made no call yet

VARIABLES obj, call, busy, res, n

vars == <<obj, call, busy, res, n>>

\* Two's-complement wrap-around of an int of Width bits.
Wrap(x) == ((x + 2^(Width - 1)) % 2^Width) - 2^(Width - 1)

\* Bit k of x in two's complement (floor division keeps the sign bits).
HasBit(x, k) == (x \div 2^k) % 2 = 1

(* `setg al; setl cl; sub al, cl`: after `lock add`/`inc`/`dec` the flags  *)
(* G and L (ZF, SF = OF) compare the true sum with 0, overflow included.   *)
FlagsSign(sum) == IF sum > 0 THEN 1 ELSE IF sum < 0 THEN -1 ELSE 0

(* The locked instructions of stdatomic.h: from the value x the           *)
(* instruction finds, the new value of obj and what the call returns.      *)
\* xchg, and an aligned mov for the load.
LockedExchange(c, x) ==
    CASE c.op = "exchange" -> [obj |-> c.arg, res |-> x]
      [] c.op = "store"    -> [obj |-> c.arg, res |-> NoResult]
      [] c.op = "load"     -> [obj |-> x, res |-> x]

\* lock add / inc / dec, returning the sign of the sum from the flags.
LockedAdd(c, x) ==
    LET sum == x + c.arg IN [obj |-> Wrap(sum), res |-> FlagsSign(sum)]

\* lock bts / btr, then `setc al`: the old bit.
LockedBit(c, x) ==
    [obj |-> CASE HasBit(x, c.arg) /\ c.op = "bit_test_and_clear" -> Wrap(x - 2^c.arg)
               [] ~HasBit(x, c.arg) /\ c.op = "bit_test_and_set"  -> Wrap(x + 2^c.arg)
               [] OTHER -> x,
     res |-> IF HasBit(x, c.arg) THEN 1 ELSE 0]

(* lock xadd; and lock cmpxchg, which on failure writes the value found to *)
(* *expected (the second component of the result).                         *)
LockedFetchAddCas(c, x) ==
    IF c.op = "fetch_add" THEN [obj |-> Wrap(x + c.arg), res |-> x]
    ELSE IF x = c.exp THEN [obj |-> c.arg, res |-> <<1, c.exp>>]
    ELSE [obj |-> x, res |-> <<0, x>>]

\* The instruction a call runs; inc and dec are add of 1 and -1.
Locked(c, x) ==
    CASE c.op \in {"exchange", "store", "load"} -> LockedExchange(c, x)
      [] c.op = "add" -> LockedAdd(c, x)
      [] c.op = "inc" -> LockedAdd([c EXCEPT !.arg = 1], x)
      [] c.op = "dec" -> LockedAdd([c EXCEPT !.arg = -1], x)
      [] c.op \in {"bit_test_and_set", "bit_test_and_clear"} -> LockedBit(c, x)
      [] OTHER -> LockedFetchAddCas(c, x)

Init ==
    /\ obj = 0
    /\ call = [t \in Threads |-> NoCall]
    /\ busy = [t \in Threads |-> FALSE]
    /\ res = [t \in Threads |-> NoResult]
    /\ n = [t \in Threads |-> 0]

\* A thread starts its next call.
Invoke(t) ==
    /\ ~busy[t] /\ n[t] < MaxCalls
    /\ \E c \in Calls : call' = [call EXCEPT ![t] = c]
    /\ busy' = [busy EXCEPT ![t] = TRUE]
    /\ res' = [res EXCEPT ![t] = NoResult]
    /\ UNCHANGED <<obj, n>>

\* The locked instruction: one indivisible step.
Execute(t) ==
    LET r == Locked(call[t], obj)
    IN  /\ busy[t]
        /\ obj' = r.obj
        /\ res' = [res EXCEPT ![t] = r.res]
        /\ busy' = [busy EXCEPT ![t] = FALSE]
        /\ n' = [n EXCEPT ![t] = @ + 1]
        /\ UNCHANGED call

Next == \E t \in Threads : Invoke(t) \/ Execute(t)

Spec == Init /\ [][Next]_vars
=============================================================================
