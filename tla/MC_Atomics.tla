------------------------------ MODULE MC_Atomics ------------------------------
EXTENDS Atomics, TLC

CONSTANTS t1, t2

MCThreads == {t1, t2}

(* One call of each function, with operands that make each path happen     *)
(* from obj = 0: compare-exchange both succeeding and failing, a bit both  *)
(* found set and found clear, and inc/dec crossing 0.  With bit 1 no     *)
(* sequence of calls comes near the int's limits, and add/inc/dec never   *)
(* overflow.                                                               *)
MCCallsOfBit(b) ==
    {[op |-> "exchange", arg |-> 1, exp |-> 0],
     [op |-> "store", arg |-> 0, exp |-> 0],
     [op |-> "load", arg |-> 0, exp |-> 0],
     [op |-> "fetch_add", arg |-> 1, exp |-> 0],
     [op |-> "add", arg |-> -1, exp |-> 0],
     [op |-> "inc", arg |-> 1, exp |-> 0],
     [op |-> "dec", arg |-> -1, exp |-> 0],
     [op |-> "compare_exchange", arg |-> 1, exp |-> 0],
     [op |-> "bit_test_and_set", arg |-> b, exp |-> 0],
     [op |-> "bit_test_and_clear", arg |-> b, exp |-> 0]}

MCCalls == MCCallsOfBit(1)

(* With bit 15 a bit_test_and_set makes *obj -32768, and a following       *)
(* _atomic_add(obj, -1) overflows: MC_Atomics_overflow.cfg shows the       *)
(* spinlock build returning 32767 where the locked build returns -1.       *)
MCCallsOverflow == MCCallsOfBit(15)

MCMaxCalls == 2

\* The 16-bit build (__I86__), the one both spinlocks exist for.
MCWidth == 16

MCKinds == {"xchg", "dec"}
=============================================================================
