--------------------------------- MODULE Tss ---------------------------------
(***************************************************************************)
(* The thread-specific storage of the threads library's OS/2 build         *)
(* (src/unnamed/part_001): tss_create, tss_delete, tss_set, and the loop   *)
(* of thrd_exit that calls the destructors and frees the thread's          *)
(* tls_data.                                                               *)
(*                                                                         *)
(* TLSIndexMap and TLSDestructors are global tables guarded by mtx_tls;    *)
(* each thread's tls_data array is its own and is written without a lock.  *)
(* thrd_exit tests a slot under mtx_tls but releases it before the call    *)
(* `TLSDestructors[i](tdata->tls_data[i])`, which reads the table again.   *)
(* mtx_tls is a one-step lock, as Sync justifies.  tss_get changes no      *)
(* state and is left out; call_once(init_stdthread) has run.               *)
(***************************************************************************)
EXTENDS Integers, FiniteSets

CONSTANTS
    Threads,   \* the threads using the keys; each ends in thrd_exit
    Slots,     \* MAX_TLS_KEY + 1, the size of the tables
    Dtors,     \* the destructors passed to tss_create
    Vals,      \* the non-NULL values passed to tss_set
    MaxOps,    \* the calls each thread makes before it exits
    NULL, None

ASSUME Slots \in Nat \ {0} /\ MaxOps \in Nat /\ NULL \notin Dtors \cup Vals

Keys == 0..(Slots - 1)

VARIABLES
    indexMap,  \* TLSIndexMap: -1 for a key in use, 0 for a free one
    dtors,     \* TLSDestructors
    tlsMtx,    \* mtx_tls's owner, or None
    tls,       \* per thread: its tls_data, or None once freed
    handles,   \* the keys the program holds: created and not yet deleted
    pc,        \* per thread
    ops,       \* per thread: calls made
    x,         \* per thread: i of thrd_exit's destructor loop
    setSince   \* per thread and key: tss_set since the key was created

vars == <<indexMap, dtors, tlsMtx, tls, handles, pc, ops, x, setSince>>

Init ==
    /\ indexMap = [k \in Keys |-> 0]
    /\ dtors = [k \in Keys |-> NULL]
    /\ tlsMtx = None
    /\ tls = [t \in Threads |-> [k \in Keys |-> NULL]]
    /\ handles = {}
    /\ pc = [t \in Threads |-> "idle"]
    /\ ops = [t \in Threads |-> 0]
    /\ x = [t \in Threads |-> 0]
    /\ setSince = [t \in Threads |-> [k \in Keys |-> FALSE]]

Goto(t, l) == pc' = [pc EXCEPT ![t] = l]

Called(t) == /\ ops[t] < MaxOps /\ pc[t] = "idle"
             /\ ops' = [ops EXCEPT ![t] = @ + 1]

-----------------------------------------------------------------------------
(* tss_create, under mtx_tls: the first free slot gets -1 and the          *)
(* destructor (thrd_error when none is free).  tls_data of the threads is  *)
(* not touched: a value left in a reused slot stays.                        *)
TssCreate(t) ==
    /\ Called(t) /\ tlsMtx = None
    /\ \E d \in Dtors \cup {NULL} :
         LET free == {k \in Keys : indexMap[k] = 0}
             k == CHOOSE j \in free : \A j2 \in free : j <= j2
         IN  IF free = {}
             THEN UNCHANGED <<indexMap, dtors, handles, setSince>>
             ELSE /\ indexMap' = [indexMap EXCEPT ![k] = -1]
                  /\ dtors' = [dtors EXCEPT ![k] = d]
                  /\ handles' = handles \cup {k}
                  /\ setSince' = [u \in Threads |-> [setSince[u] EXCEPT ![k] = FALSE]]
    /\ UNCHANGED <<tlsMtx, tls, pc, x>>

(* tss_delete, under mtx_tls: a slot in use is freed and its destructor    *)
(* cleared; no destructor runs.                                            *)
TssDelete(t) ==
    /\ Called(t) /\ tlsMtx = None
    /\ \E k \in handles :
         /\ indexMap' = [indexMap EXCEPT ![k] = 0]
         /\ dtors' = [dtors EXCEPT ![k] = NULL]
         /\ handles' = handles \ {k}
    /\ UNCHANGED <<tlsMtx, tls, pc, x, setSince>>

\* tss_set: THREAD_DATA->tls_data[key] = val, without a lock.
TssSet(t) ==
    /\ Called(t)
    /\ \E k \in handles, v \in Vals :
         /\ tls' = [tls EXCEPT ![t][k] = v]
         /\ setSince' = [setSince EXCEPT ![t][k] = TRUE]
    /\ UNCHANGED <<indexMap, dtors, tlsMtx, handles, pc, x>>

\* The thread function returns: thrd_exit.
Exit(t) ==
    /\ pc[t] = "idle"
    /\ Goto(t, "x_lock")
    /\ UNCHANGED <<indexMap, dtors, tlsMtx, tls, handles, ops, x, setSince>>

-----------------------------------------------------------------------------
(* mtx_lock(&mtx_tls), before the loop and again after each destructor.    *)
ExitLock(t) ==
    /\ pc[t] = "x_lock" /\ tlsMtx = None
    /\ tlsMtx' = t
    /\ Goto(t, "x_test")
    /\ UNCHANGED <<indexMap, dtors, tls, handles, ops, x, setSince>>

(* One iteration's test `TLSIndexMap[i] && TLSDestructors[i]`: unlock and  *)
(* call, or go on to i + 1; after the last slot free tls_data and unlock.  *)
ExitTest(t) ==
    LET i == x[t] IN
    /\ pc[t] = "x_test"
    /\ \/ /\ i = Slots
          /\ tls' = [tls EXCEPT ![t] = None]
          /\ tlsMtx' = None
          /\ Goto(t, "done")
          /\ UNCHANGED x
       \/ /\ i < Slots /\ indexMap[i] # 0 /\ dtors[i] # NULL
          /\ tlsMtx' = None
          /\ Goto(t, "x_call")
          /\ UNCHANGED <<tls, x>>
       \/ /\ i < Slots /\ ~(indexMap[i] # 0 /\ dtors[i] # NULL)
          /\ x' = [x EXCEPT ![t] = i + 1]
          /\ UNCHANGED <<tls, tlsMtx, pc>>
    /\ UNCHANGED <<indexMap, dtors, handles, ops, setSince>>

(* `TLSDestructors[i](tdata->tls_data[i])`: the pointer is loaded now,     *)
(* outside mtx_tls.  A NULL pointer is a call to address 0: the thread     *)
(* stops in "null_call".  Then mtx_lock and the next slot.                 *)
ExitCall(t) ==
    LET i == x[t] IN
    /\ pc[t] = "x_call"
    /\ IF dtors[i] = NULL
         THEN /\ Goto(t, "null_call") /\ UNCHANGED x
         ELSE /\ Goto(t, "x_lock") /\ x' = [x EXCEPT ![t] = i + 1]
    /\ UNCHANGED <<indexMap, dtors, tlsMtx, tls, handles, ops, setSince>>

Step(t) ==
    \/ TssCreate(t) \/ TssDelete(t) \/ TssSet(t) \/ Exit(t)
    \/ ExitLock(t) \/ ExitTest(t) \/ ExitCall(t)

Next == \E t \in Threads : Step(t)

Spec == Init /\ [][Next]_vars /\ \A t \in Threads : WF_vars(Step(t))

-----------------------------------------------------------------------------
TypeOK ==
    /\ indexMap \in [Keys -> {0, -1}]
    /\ dtors \in [Keys -> Dtors \cup {NULL}]
    /\ tlsMtx \in Threads \cup {None}
    /\ \A t \in Threads : tls[t] \in [Keys -> Vals \cup {NULL}] \cup {None}
    /\ handles \subseteq Keys
    /\ pc \in [Threads -> {"idle", "x_lock", "x_test", "x_call", "null_call", "done"}]
    /\ x \in [Threads -> 0..Slots]

(* thrd_exit never calls a destructor through a NULL pointer: a key it     *)
(* found in use with a destructor under mtx_tls still has it when the call *)
(* is made, whatever tss_delete another thread runs meanwhile.             *)
NoNullDestructorCall == \A t \in Threads : pc[t] # "null_call"

(* A key fresh from tss_create has the value NULL in every thread until    *)
(* the thread calls tss_set with it, as with C11's tss_create.             *)
FreshKeyNull ==
    \A t \in Threads, k \in Keys :
        (indexMap[k] # 0 /\ tls[t] # None /\ ~setSince[t][k]) => tls[t][k] = NULL
=============================================================================
