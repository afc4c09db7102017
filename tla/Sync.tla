-------------------------------- MODULE Sync --------------------------------
(***************************************************************************)
(* The mutex and condition variable of the threads library,               *)
(* src/threads/sync.c, in its Win32 and its OS/2 builds (the variable     *)
(* `build`); the OS/2 part is described with its actions below.            *)
(*                                                                         *)
(* The mutex: mtx_lock and mtx_unlock on the atomic words _lock and       *)
(* _count, and the user-space counting semaphore _usem                    *)
(* (_sema_count, _waiters, a critical section and an auto-reset event)     *)
(* that contenders sleep on.  The condition variable: the packed word      *)
(* _state = {sema, max_waiters} changed by compare-exchange loops, and the *)
(* kernel semaphore _ksem that sleepers wait on.                           *)
(*                                                                         *)
(* Each atomic operation (exchange, fetch_add, load, compare-exchange) is  *)
(* one step; a compare-exchange retry loop on _state is one step, taken    *)
(* at its successful exchange (or at the load whose test ends the loop).   *)
(* Each critical-section body of _usem_acquire/_usem_release is one step.  *)
(* A wait on the event or on _ksem is split into the call and the kernel's *)
(* release of a blocked waiter.  An auto-reset event wakes one blocked     *)
(* waiter on SetEvent, or stays set until the next wait if none is         *)
(* blocked.  ReleaseSemaphore(n) satisfies up to n blocked waiters at once *)
(* and adds the rest to the count.                                         *)
(*                                                                         *)
(* The threads run a program over one mtx_t and one cnd_t: a "consumer"    *)
(* takes Rounds items                                                      *)
(* one at a time, in `while (items == 0) cnd_wait(&cv, &m)`; the           *)
(* "producer" adds Rounds items per consumer, each followed by cnd_signal  *)
(* or cnd_broadcast while it holds the mutex.                              *)
(***************************************************************************)
EXTENDS Integers, SequencesExt

CONSTANTS
    Threads,   \* the threads using the mtx_t and the cnd_t
    Role,      \* Threads -> {"producer", "consumer"}
    Rounds,    \* items per consumer
    Builds,    \* the platforms checked: a subset of {"win32", "os2"}
    MaxInterrupts, \* bound on the OS/2 waits that ERROR_INTERRUPT ends
    NoOwner    \* no thread owns the mutex

VARIABLES
    lock,      \* mtx->_lock
    count,     \* mtx->_count
    sema,      \* mtx->_wait_sem._sema_count
    waiters,   \* mtx->_wait_sem._waiters
    event,     \* mtx->_wait_sem._event is signalled
    cv,        \* cond->_state as [sema, max_waiters]
    ksem,      \* the count of cond->_ksem
    items,     \* the items the program guards with the mutex
    pc,        \* where each thread is
    cur,       \* mtx_unlock's local `cur`
    cw,        \* in cnd_wait: "no", or should_wait as "go" / "sleep"
    relc,      \* the count a signaller is about to pass to ReleaseSemaphore
    cq,        \* OS/2: the queue of wait items, as the threads they belong to
    iset,      \* OS/2: each thread's item._wait_sema is set
    intr,      \* OS/2: waits interrupted so far
    rounds,    \* cycles or items each thread has completed
    build      \* the platform sync.c is compiled for

vars == <<lock, count, sema, waiters, event, cv, ksem, items, pc, cur, cw, relc,
         cq, iset, intr, rounds, build>>
mtxvars == <<lock, count, sema, waiters, event, cur>>
cndvars == <<cv, ksem, cw, relc, cq, iset, intr>>

PCs == {"lock", "dec", "ua", "prewait", "blocked", "reenter",
        "cs", "sig", "bcast", "krel", "cw_acq", "cw_wait", "cw_blocked", "cw_remove",
        "unlock", "ul_load", "ul_cas", "ur", "done"}

Consumers == {t \in Threads : Role[t] = "consumer"}

\* The cycles or items a thread's program makes.
Quota(t) == IF Role[t] = "producer" THEN Rounds * Cardinality(Consumers) ELSE Rounds

\* _usem_init(sem, 0, max_count): no units, no waiters, an auto-reset
\* event created not signalled.
UsemInit(initial_count) ==
    /\ sema = initial_count /\ waiters = 0 /\ event = FALSE

\* mtx_init: _lock and _count are 0, _usem_init(&_wait_sem, 0, _MAX_SEM).
MtxInit ==
    /\ lock = 0 /\ count = 0
    /\ UsemInit(0)

(* OS/2 _usem_init: memset to 0, so both RAM semaphores are clear: `event` *)
(* is TRUE when _event_sem is clear, that is when DosSemWait on it returns  *)
(* at once.                                                                *)
Os2UsemInit(initial_count) ==
    /\ sema = initial_count /\ waiters = 0 /\ event = TRUE

\* mtx_init over the OS/2 _usem.
Os2MtxInit ==
    /\ lock = 0 /\ count = 0
    /\ Os2UsemInit(0)

\* OS/2 cnd_init: memset to 0 (no wait items), _max_waiters 1.
Os2CndInit ==
    /\ cv = [sema |-> 0, max_waiters |-> 1]
    /\ cq = <<>>

\* cnd_init: max_waiters 1, sema 0, CreateSemaphoreA(NULL, 0, 0x7FFFFFFF).
CndInit ==
    /\ cv = [sema |-> 0, max_waiters |-> 1]
    /\ ksem = 0

Init ==
    /\ build \in Builds
    /\ IF build = "win32" THEN MtxInit /\ CndInit /\ cq = <<>>
                          ELSE Os2MtxInit /\ Os2CndInit /\ ksem = 0
    /\ iset = [t \in Threads |-> FALSE]
    /\ intr = 0
    /\ items = 0
    /\ pc = [t \in Threads |-> "lock"]
    /\ cur = [t \in Threads |-> 0]
    /\ cw = [t \in Threads |-> "no"]
    /\ relc = [t \in Threads |-> 0]
    /\ rounds = [t \in Threads |-> 0]

(***************************************************************************)
(* The atomic operations of atomics.c.  Each does its read and write      *)
(* between ACQUIRE_SPINLOCK and RELEASE_SPINLOCK on the one AtomicLockState *)
(* byte, so each is one indivisible step on an int.                        *)
(***************************************************************************)
\* __atomic_exchange_impl: result = *obj; *obj = value.
atomic_exchange(obj, value) == [result |-> obj, obj |-> value]

\* __atomic_fetch_add_impl: result = *obj; *obj = *obj + value.
atomic_fetch_add(obj, value) == [result |-> obj, obj |-> obj + value]

\* __atomic_load_impl: result = *obj.
atomic_load(obj) == obj

(* __atomic_compare_exchange_impl: if *obj equals *expected, *obj = desired *)
(* and the result is 1; otherwise *expected = *obj and the result is 0.    *)
atomic_compare_exchange(obj, expected, desired) ==
    IF obj = expected
    THEN [result |-> TRUE, obj |-> desired, expected |-> expected]
    ELSE [result |-> FALSE, obj |-> obj, expected |-> obj]

\* Where a thread goes when mtx_unlock returns: on into the wait if the
\* unlock is cnd_wait's, else its next cycle, or done.
AfterUnlock(t) ==
    IF cw[t] # "no" THEN "cw_wait"
    ELSE IF rounds[t] < Quota(t) THEN "lock" ELSE "done"

\* mtx_lock that takes the mutex without looking at the old _lock.
LockXchg_noguard(t) ==
    /\ pc[t] = "lock"
    /\ lock' = 1
    /\ pc' = [pc EXCEPT ![t] = "cs"]
    /\ UNCHANGED <<count, sema, waiters, event, cur, cndvars, items, rounds, build>>

(* mtx_lock: `while (atomic_exchange(&mtx->_lock, 1))`.  Old value 0: the  *)
(* thread owns the mutex.                                                   *)
LockXchg(t) ==
    LET r == atomic_exchange(lock, 1) IN
    /\ pc[t] = "lock"
    /\ lock' = r.obj
    /\ pc' = [pc EXCEPT ![t] = IF r.result = 0 THEN "cs" ELSE "dec"]
    /\ UNCHANGED <<count, sema, waiters, event, cur, cndvars, items, rounds, build>>

(* `if (atomic_fetch_add(&mtx->_count, -1) <= 0) _usem_acquire(...)`:      *)
(* sleep when the old count was not positive, else spin to the exchange.   *)
LockDec(t) ==
    LET r == atomic_fetch_add(count, -1) IN
    /\ pc[t] = "dec"
    /\ count' = r.obj
    /\ pc' = [pc EXCEPT ![t] = IF r.result <= 0 THEN "ua" ELSE "lock"]
    /\ UNCHANGED <<lock, sema, waiters, event, cur, cndvars, items, rounds, build>>

\* _usem_acquire that takes a unit without testing _sema_count.
UsemEnter_notest(t) ==
    /\ build = "win32"
    /\ pc[t] = "ua"
    /\ sema' = sema - 1
    /\ pc' = [pc EXCEPT ![t] = "lock"]
    /\ UNCHANGED <<lock, count, waiters, event, cur, cndvars, items, rounds, build>>

(* _usem_acquire, first pass of `while (sem->_sema_count == 0)` inside the  *)
(* critical section: either announce a waiter and leave to wait, or take   *)
(* a unit and return to mtx_lock's loop.                                   *)
UsemEnter(t) ==
    /\ build = "win32"
    /\ pc[t] = "ua"
    /\ IF sema = 0
         THEN /\ waiters' = waiters + 1
              /\ pc' = [pc EXCEPT ![t] = "prewait"]
              /\ UNCHANGED sema
         ELSE /\ sema' = sema - 1
              /\ pc' = [pc EXCEPT ![t] = "lock"]
              /\ UNCHANGED waiters
    /\ UNCHANGED <<lock, count, event, cur, cndvars, items, rounds, build>>

(* WaitForSingleObjectEx(sem->_event): returns at once, resetting the      *)
(* event, if it is set; otherwise the thread blocks.                       *)
UsemWait(t) ==
    /\ build = "win32"
    /\ pc[t] = "prewait"
    /\ event' = FALSE
    /\ pc' = [pc EXCEPT ![t] = IF event THEN "reenter" ELSE "blocked"]
    /\ UNCHANGED <<lock, count, sema, waiters, cur, cndvars, items, rounds, build>>

(* Back in the critical section after the wait: `_waiters--`, then the     *)
(* loop test again.                                                         *)
UsemReenter(t) ==
    /\ build = "win32"
    /\ pc[t] = "reenter"
    /\ IF sema = 0
         THEN /\ pc' = [pc EXCEPT ![t] = "prewait"]
              /\ UNCHANGED <<sema, waiters>>
         ELSE /\ sema' = sema - 1
              /\ waiters' = waiters - 1
              /\ pc' = [pc EXCEPT ![t] = "lock"]
    /\ UNCHANGED <<lock, count, event, cur, cndvars, items, rounds, build>>

(* mtx_unlock: `atomic_exchange(&mtx->_lock, 0)` by the owner.             *)
UnlockXchg(t) ==
    /\ pc[t] = "unlock"
    /\ lock' = atomic_exchange(lock, 0).obj
    /\ pc' = [pc EXCEPT ![t] = "ul_load"]
    /\ UNCHANGED <<count, sema, waiters, event, cur, cndvars, items, rounds, build>>

\* `int cur = atomic_load(&mtx->_count);`
UnlockLoad(t) ==
    /\ pc[t] = "ul_load"
    /\ cur' = [cur EXCEPT ![t] = atomic_load(count)]
    /\ pc' = [pc EXCEPT ![t] = "ul_cas"]
    /\ UNCHANGED <<lock, count, sema, waiters, event, cndvars, items, rounds, build>>

\* The loop test of mtx_unlock, `while (cur <= 0)`.
UnlockMustAdd_lt(c) == c < 0

UnlockMustAdd(c) == c <= 0

(* `while (cur <= 0) if (CAS(&_count, &cur, cur + 1)) { if (cur < 0)       *)
(* _usem_release(...); break; }`: a failed CAS reloads cur.                 *)
UnlockCas(t) ==
    LET r == atomic_compare_exchange(count, cur[t], cur[t] + 1) IN
    /\ pc[t] = "ul_cas"
    /\ IF ~UnlockMustAdd(cur[t])
         THEN /\ pc' = [pc EXCEPT ![t] = AfterUnlock(t)]
              /\ UNCHANGED <<count, cur>>
         ELSE /\ count' = r.obj
              /\ cur' = [cur EXCEPT ![t] = r.expected]
              /\ pc' = IF ~r.result THEN pc
                       ELSE [pc EXCEPT ![t] = IF cur[t] < 0 THEN "ur" ELSE AfterUnlock(t)]
    /\ UNCHANGED <<lock, sema, waiters, event, cndvars, items, rounds, build>>

(* _usem_release, in the critical section: `_sema_count++`, and SetEvent   *)
(* when there are waiters.  SetEvent releases one thread blocked in the    *)
(* wait if there is one, and otherwise leaves the event set.               *)
UsemRelease(t) ==
    LET blocked == {u \in Threads : pc[u] = "blocked"}
        done    == [pc EXCEPT ![t] = AfterUnlock(t)]
    IN  /\ build = "win32"
        /\ pc[t] = "ur"
        /\ sema' = sema + 1
        /\ \/ /\ waiters > 0 /\ blocked # {}
              /\ \E u \in blocked : pc' = [done EXCEPT ![u] = "reenter"]
              /\ UNCHANGED event
           \/ /\ waiters > 0 /\ blocked = {}
              /\ event' = TRUE
              /\ pc' = done
           \/ /\ waiters = 0
              /\ pc' = done
              /\ UNCHANGED event
        /\ UNCHANGED <<lock, count, waiters, cur, cndvars, items, rounds, build>>

-----------------------------------------------------------------------------
(* The program's critical section, with the mutex held.  A consumer that   *)
(* finds an item takes it and unlocks; a                                   *)
(* consumer that finds none calls cnd_wait; the producer adds an item and  *)
(* calls cnd_signal or cnd_broadcast before it unlocks.                    *)
Work(t) ==
    /\ pc[t] = "cs"
    /\ \/ /\ Role[t] = "consumer" /\ items > 0
          /\ items' = items - 1
          /\ pc' = [pc EXCEPT ![t] = "unlock"]
          /\ rounds' = [rounds EXCEPT ![t] = @ + 1]
       \/ /\ Role[t] = "consumer" /\ items = 0
          /\ pc' = [pc EXCEPT ![t] = "cw_acq"]
          /\ UNCHANGED <<items, rounds, cq, iset, intr, build>>
       \/ /\ Role[t] = "producer"
          /\ items' = items + 1
          /\ \E call \in {"sig", "bcast"} : pc' = [pc EXCEPT ![t] = call]
          /\ rounds' = [rounds EXCEPT ![t] = @ + 1]
    /\ UNCHANGED <<mtxvars, cndvars, build>>

(* _cnd_acquire_sema: `next.sema--`, max_waiters raised to -next.sema;     *)
(* the caller must wait when next.sema < 0.                                *)
cnd_acquire_sema(s) ==
    LET n == s.sema - 1
    IN  [next |-> [sema |-> n,
                   max_waiters |-> IF -n > s.max_waiters THEN -n ELSE s.max_waiters],
         wait |-> n < 0]

(* Mutant: _cnd_release_sema answering from the new sema, not the old.     *)
cnd_release_sema_next(s) ==
    IF s.sema < s.max_waiters
    THEN [next |-> [s EXCEPT !.sema = @ + 1], wake |-> s.sema + 1 < 0]
    ELSE [next |-> s, wake |-> FALSE]

(* _cnd_release_sema: while sema < max_waiters, `next.sema++`; the kernel  *)
(* semaphore must be released when the old sema was negative.              *)
cnd_release_sema(s) ==
    IF s.sema < s.max_waiters
    THEN [next |-> [s EXCEPT !.sema = @ + 1], wake |-> s.sema < 0]
    ELSE [next |-> s, wake |-> FALSE]

(* cnd_wait, first line: should_wait = _cnd_acquire_sema(cond), then       *)
(* mtx_unlock.  The sema is taken while the mutex is still held.           *)
CndAcquire(t) ==
    LET r == cnd_acquire_sema(cv)
    IN  /\ build = "win32"
        /\ pc[t] = "cw_acq"
        /\ cv' = r.next
        /\ cw' = [cw EXCEPT ![t] = IF r.wait THEN "sleep" ELSE "go"]
        /\ pc' = [pc EXCEPT ![t] = "unlock"]
        /\ UNCHANGED <<mtxvars, ksem, relc, items, rounds, cq, iset, intr, build>>

(* cnd_wait after mtx_unlock: without should_wait it goes straight to     *)
(* mtx_lock; otherwise WaitForSingleObjectEx(_ksem) takes a unit of the    *)
(* kernel semaphore or blocks.                                             *)
CndWait(t) ==
    /\ build = "win32"
    /\ pc[t] = "cw_wait"
    /\ \/ /\ cw[t] = "go"
          /\ UNCHANGED ksem
          /\ pc' = [pc EXCEPT ![t] = "lock"]
       \/ /\ cw[t] = "sleep" /\ ksem > 0
          /\ ksem' = ksem - 1
          /\ pc' = [pc EXCEPT ![t] = "lock"]
       \/ /\ cw[t] = "sleep" /\ ksem = 0
          /\ UNCHANGED ksem
          /\ pc' = [pc EXCEPT ![t] = "cw_blocked"]
    /\ cw' = IF pc'[t] = "lock" THEN [cw EXCEPT ![t] = "no"] ELSE cw
    /\ UNCHANGED <<mtxvars, cv, relc, items, rounds, cq, iset, intr, build>>

(* cnd_signal: if _cnd_release_sema says so, ReleaseSemaphore(_ksem, 1).   *)
CndSignal(t) ==
    LET r == cnd_release_sema(cv)
    IN  /\ build = "win32"
        /\ pc[t] = "sig"
        /\ cv' = r.next
        /\ relc' = [relc EXCEPT ![t] = 1]
        /\ pc' = [pc EXCEPT ![t] = IF r.wake THEN "krel" ELSE "unlock"]
        /\ UNCHANGED <<mtxvars, ksem, cw, items, rounds, cq, iset, intr, build>>

(* cnd_broadcast: while sema < max_waiters, CAS sema to max_waiters; a     *)
(* negative old sema is released to the kernel as -sema units.             *)
CndBroadcast(t) ==
    /\ build = "win32"
    /\ pc[t] = "bcast"
    /\ IF cv.sema < cv.max_waiters
         THEN /\ cv' = [cv EXCEPT !.sema = cv.max_waiters]
              /\ relc' = [relc EXCEPT ![t] = -cv.sema]
              /\ pc' = [pc EXCEPT ![t] = IF cv.sema < 0 THEN "krel" ELSE "unlock"]
         ELSE /\ pc' = [pc EXCEPT ![t] = "unlock"]
              /\ UNCHANGED <<cv, relc>>
    /\ UNCHANGED <<mtxvars, ksem, cw, items, rounds, cq, iset, intr, build>>

(* ReleaseSemaphore(_ksem, relc): up to relc threads blocked on _ksem      *)
(* return from their wait; the other units stay in the count.             *)
KernelRelease(t) ==
    LET blocked == {u \in Threads : pc[u] = "cw_blocked"}
        n       == IF relc[t] < Cardinality(blocked) THEN relc[t] ELSE Cardinality(blocked)
    IN  /\ build = "win32"
        /\ pc[t] = "krel"
        /\ \E W \in kSubset(n, blocked) :
              /\ pc' = [u \in Threads |-> IF u \in W THEN "lock"
                                          ELSE IF u = t THEN "unlock" ELSE pc[u]]
              /\ cw' = [u \in Threads |-> IF u \in W THEN "no" ELSE cw[u]]
        /\ ksem' = ksem + relc[t] - n
        /\ UNCHANGED <<mtxvars, cv, relc, items, rounds, cq, iset, intr, build>>

-----------------------------------------------------------------------------
(***************************************************************************)
(* The OS/2 build.  _usem is a count guarded by the RAM semaphore          *)
(* _mtx_sem, with the RAM semaphore _event_sem that waiters block on: set  *)
(* means DosSemWait blocks, clear releases every thread blocked on it and  *)
(* lets later waits through until it is set again.  _DosSemWait and       *)
(* _DosSemRequest retry on ERROR_INTERRUPT, so an interrupt is invisible   *)
(* there.  The condition variable is a FIFO of stack wait items, each with *)
(* its own RAM semaphore, and _sema_count/_max_waiters, all under the      *)
(* condition's own mtx_t _mtx; each _mtx critical section is one step.    *)
(***************************************************************************)

(* _usem_acquire: in _mtx_sem, `while (_sema_count == 0) { _waiters++;    *)
(* DosSemSet(&_event_sem); DosSemClear(&_mtx_sem); ...`, or `_sema_count--` *)
(* and return.                                                             *)
Os2UsemEnter(t) ==
    /\ build = "os2"
    /\ pc[t] = "ua"
    /\ IF sema = 0
         THEN /\ waiters' = waiters + 1
              /\ event' = FALSE
              /\ pc' = [pc EXCEPT ![t] = "prewait"]
              /\ UNCHANGED sema
         ELSE /\ sema' = sema - 1
              /\ pc' = [pc EXCEPT ![t] = "lock"]
              /\ UNCHANGED <<waiters, event>>
    /\ UNCHANGED <<lock, count, cur, cndvars, items, rounds, build>>

(* _DosSemWait(&_event_sem): returns at once if the semaphore is clear,    *)
(* else blocks; the wait does not set it again.                            *)
Os2UsemWait(t) ==
    /\ build = "os2"
    /\ pc[t] = "prewait"
    /\ pc' = [pc EXCEPT ![t] = IF event THEN "reenter" ELSE "blocked"]
    /\ UNCHANGED <<lock, count, sema, waiters, event, cur, cndvars, items, rounds, build>>

(* Back in _mtx_sem: `_waiters--`, then the loop test again, which either  *)
(* announces the waiter again and sets the event, or takes a unit.         *)
Os2UsemReenter(t) ==
    /\ build = "os2"
    /\ pc[t] = "reenter"
    /\ IF sema = 0
         THEN /\ event' = FALSE
              /\ pc' = [pc EXCEPT ![t] = "prewait"]
              /\ UNCHANGED <<sema, waiters>>
         ELSE /\ sema' = sema - 1
              /\ waiters' = waiters - 1
              /\ pc' = [pc EXCEPT ![t] = "lock"]
              /\ UNCHANGED event
    /\ UNCHANGED <<lock, count, cur, cndvars, items, rounds, build>>

(* _usem_release: `_sema_count++`, and DosSemClear(&_event_sem) when there *)
(* are waiters, which releases every thread blocked on it.                 *)
Os2UsemRelease(t) ==
    /\ build = "os2"
    /\ pc[t] = "ur"
    /\ sema' = sema + 1
    /\ IF waiters > 0
         THEN /\ event' = TRUE
              /\ pc' = [u \in Threads |-> IF u = t THEN AfterUnlock(t)
                                          ELSE IF pc[u] = "blocked" THEN "reenter"
                                          ELSE pc[u]]
         ELSE /\ pc' = [pc EXCEPT ![t] = AfterUnlock(t)]
              /\ UNCHANGED event
    /\ UNCHANGED <<lock, count, waiters, cur, cndvars, items, rounds, build>>

(* _cnd_try_enqueue_wait_item: `_sema_count--`, _max_waiters raised to    *)
(* -_sema_count; when _sema_count < 0 the item goes to the tail and its   *)
(* semaphore is set.                                                       *)
cnd_try_enqueue_wait_item(s, q, t) ==
    LET n == s.sema - 1
    IN  [next |-> [sema |-> n,
                   max_waiters |-> IF -n > s.max_waiters THEN -n ELSE s.max_waiters],
         wait |-> n < 0,
         q    |-> IF n < 0 THEN Append(q, t) ELSE q]

(* _cnd_remove_wait_item: unlinks the item if it is still queued; an item *)
(* already dequeued has null links and is left alone.                     *)
cnd_remove_wait_item(q, t) == SelectSeq(q, LAMBDA u : u # t)

(* _cnd_dequeue_wait_item on a non-empty queue: the head item, unlinked.  *)
cnd_dequeue_wait_item(q) == [item |-> Head(q), q |-> Tail(q)]

(* cnd_wait: under cond->_mtx, should_wait = _cnd_try_enqueue_wait_item,  *)
(* then mtx_unlock(mtx).                                                   *)
Os2CndEnqueue(t) ==
    LET r == cnd_try_enqueue_wait_item(cv, cq, t)
    IN  /\ build = "os2"
        /\ pc[t] = "cw_acq"
        /\ cv' = r.next
        /\ cq' = r.q
        /\ iset' = [iset EXCEPT ![t] = r.wait]
        /\ cw' = [cw EXCEPT ![t] = IF r.wait THEN "sleep" ELSE "go"]
        /\ pc' = [pc EXCEPT ![t] = "unlock"]
        /\ UNCHANGED <<mtxvars, ksem, relc, intr, items, rounds, build>>

(* cnd_wait after mtx_unlock: without should_wait straight to mtx_lock;   *)
(* otherwise DosSemWait(&item._wait_sema) returns NO_ERROR at once if the  *)
(* item's semaphore is already clear, or blocks.                           *)
Os2CndWait(t) ==
    /\ build = "os2"
    /\ pc[t] = "cw_wait"
    /\ IF cw[t] = "go" \/ ~iset[t]
         THEN /\ pc' = [pc EXCEPT ![t] = "lock"]
              /\ cw' = [cw EXCEPT ![t] = "no"]
         ELSE /\ pc' = [pc EXCEPT ![t] = "cw_blocked"]
              /\ UNCHANGED cw
    /\ UNCHANGED <<mtxvars, cv, ksem, relc, cq, iset, intr, items, rounds, build>>

\* The blocked DosSemWait returns NO_ERROR once the item's semaphore is clear.
Os2CndWake(t) ==
    /\ build = "os2"
    /\ pc[t] = "cw_blocked" /\ ~iset[t]
    /\ pc' = [pc EXCEPT ![t] = "lock"]
    /\ cw' = [cw EXCEPT ![t] = "no"]
    /\ UNCHANGED <<mtxvars, cv, ksem, relc, cq, iset, intr, items, rounds, build>>

(* DosSemWait returns ERROR_INTERRUPT (a signal to the thread) while the   *)
(* item is still set; at most MaxInterrupts times in a behaviour.          *)
Os2CndInterrupt(t) ==
    /\ build = "os2"
    /\ pc[t] = "cw_blocked" /\ iset[t]
    /\ intr < MaxInterrupts
    /\ intr' = intr + 1
    /\ pc' = [pc EXCEPT ![t] = "cw_remove"]
    /\ UNCHANGED <<mtxvars, cv, ksem, cw, relc, cq, iset, items, rounds, build>>

(* `if (wait_result != NO_ERROR)`: under cond->_mtx,                       *)
(* _cnd_remove_wait_item, then mtx_lock(mtx).  _sema_count is not given    *)
(* back.                                                                    *)
Os2CndRemove(t) ==
    /\ build = "os2"
    /\ pc[t] = "cw_remove"
    /\ cq' = cnd_remove_wait_item(cq, t)
    /\ pc' = [pc EXCEPT ![t] = "lock"]
    /\ cw' = [cw EXCEPT ![t] = "no"]
    /\ UNCHANGED <<mtxvars, cv, ksem, relc, iset, intr, items, rounds, build>>

\* The test of cnd_signal after `_sema_count++`: a waiter is owed a wakeup.
Os2SignalWakes_lt(n) == n < 0

Os2SignalWakes(n) == n <= 0

(* cnd_signal: under cond->_mtx, if _sema_count < _max_waiters then        *)
(* `_sema_count++`, and when it is still <= 0 the head item is dequeued    *)
(* and its semaphore cleared.                                              *)
Os2CndSignal(t) ==
    LET n    == cv.sema + 1
        wake == cv.sema < cv.max_waiters /\ Os2SignalWakes(n) /\ cq # <<>>
    IN  /\ build = "os2"
        /\ pc[t] = "sig"
        /\ cv' = IF cv.sema < cv.max_waiters THEN [cv EXCEPT !.sema = n] ELSE cv
        /\ cq' = IF wake THEN cnd_dequeue_wait_item(cq).q ELSE cq
        /\ iset' = IF wake THEN [iset EXCEPT ![cnd_dequeue_wait_item(cq).item] = FALSE]
                           ELSE iset
        /\ pc' = [pc EXCEPT ![t] = "unlock"]
        /\ UNCHANGED <<mtxvars, ksem, cw, relc, intr, items, rounds, build>>

(* cnd_broadcast: under cond->_mtx, `_sema_count = 0`, then every item is  *)
(* dequeued and its semaphore cleared.                                     *)
Os2CndBroadcast(t) ==
    /\ build = "os2"
    /\ pc[t] = "bcast"
    /\ cv' = [cv EXCEPT !.sema = 0]
    /\ cq' = <<>>
    /\ iset' = [u \in Threads |-> iset[u] /\ u \notin Range(cq)]
    /\ pc' = [pc EXCEPT ![t] = "unlock"]
    /\ UNCHANGED <<mtxvars, ksem, cw, relc, intr, items, rounds, build>>

Step(t) ==
    \/ LockXchg(t) \/ LockDec(t)
    \/ UsemEnter(t) \/ UsemWait(t) \/ UsemReenter(t)
    \/ UnlockXchg(t) \/ UnlockLoad(t) \/ UnlockCas(t) \/ UsemRelease(t)
    \/ Work(t)
    \/ CndAcquire(t) \/ CndWait(t) \/ CndSignal(t) \/ CndBroadcast(t)
    \/ KernelRelease(t)
    \/ Os2UsemEnter(t) \/ Os2UsemWait(t) \/ Os2UsemReenter(t) \/ Os2UsemRelease(t)
    \/ Os2CndEnqueue(t) \/ Os2CndWait(t) \/ Os2CndWake(t) \/ Os2CndRemove(t)
    \/ Os2CndSignal(t) \/ Os2CndBroadcast(t)

Next == \E t \in Threads : Step(t) \/ Os2CndInterrupt(t)

(* The operating system eventually runs every thread that is not blocked   *)
(* in a wait.  An interrupt is something that may happen, never one that   *)
(* must, so it has no fairness.                                            *)
Spec == Init /\ [][Next]_vars /\ \A t \in Threads : WF_vars(Step(t))

-----------------------------------------------------------------------------
TypeOK ==
    /\ lock \in {0, 1}
    /\ count \in Int /\ sema \in Nat /\ waiters \in Nat
    /\ event \in BOOLEAN
    /\ cv \in [sema : Int, max_waiters : Nat] /\ ksem \in Nat
    /\ items \in Nat
    /\ pc \in [Threads -> PCs]
    /\ cur \in [Threads -> Int]
    /\ cw \in [Threads -> {"no", "go", "sleep"}]
    /\ relc \in [Threads -> Nat]
    /\ rounds \in [Threads -> Nat]
    /\ cq \in Seq(Threads) /\ iset \in [Threads -> BOOLEAN]
    /\ intr \in 0..MaxInterrupts /\ build \in Builds

\* The thread between a successful exchange in mtx_lock
\* and the exchange in mtx_unlock owns the mutex.
Held == {"cs", "sig", "bcast", "krel", "cw_acq", "unlock"}

Owner == IF \E t \in Threads : pc[t] \in Held
         THEN CHOOSE t \in Threads : pc[t] \in Held
         ELSE NoOwner

Abs == INSTANCE AbstractLock WITH owner <- Owner

(* mtx_lock and mtx_unlock, also those inside cnd_wait,       *)
(* implement a lock: seen through Owner, every step of the exchange,       *)
(* counter and semaphore protocol is an acquire of a free mutex, a release *)
(* by its owner, or changes no owner.                                      *)
ImplementsLock == Abs!Spec

\* Units a signaller has claimed in _state and not yet given to _ksem.
InFlight == MapThenSumSet(LAMBDA t : relc[t], {t \in Threads : pc[t] = "krel"})

(* The condition variable's accounting: the threads in cnd_wait that      *)
(* _cnd_acquire_sema told to sleep and that have not yet been satisfied    *)
(* are exactly matched by the units in _ksem, the units a signaller is     *)
(* about to release, and the waiters the negative sema still owes, and     *)
(* sema never passes max_waiters.  Every sleeper is woken by exactly one   *)
(* unit, through every interleaving of acquire, unlock, signal, broadcast  *)
(* and the kernel wait.                                                    *)
KernelTokens ==
    build = "win32" =>
    /\ Cardinality({t \in Threads : cw[t] = "sleep"})
         = ksem + InFlight + (IF cv.sema < 0 THEN -cv.sema ELSE 0)
    /\ cv.sema <= cv.max_waiters

(* The OS/2 wait queue: a thread's item is queued exactly while cnd_wait  *)
(* has told it to sleep and no signal has cleared its semaphore, an item  *)
(* is queued once, and there are never more items than the negative       *)
(* _sema_count owes: a signal never dequeues an item that is not there,  *)
(* though after an interrupted wait, which leaves _sema_count lowered, it *)
(* may find _sema_count <= 0 and no waiter.  This must survive signals     *)
(* racing the removal.                                                    *)
QueueOwed ==
    build = "os2" =>
    /\ IsInjective(cq)
    /\ \A t \in Threads : t \in Range(cq) <=> (cw[t] = "sleep" /\ iset[t])
    /\ Len(cq) <= (IF cv.sema < 0 THEN -cv.sema ELSE 0)

(* Every thread's program ends: no mtx_lock sleeps on a free mutex and no  *)
(* cnd_wait sleeps through the signal for the item it waits for.          *)
AllComplete == <>(\A t \in Threads : pc[t] = "done")
=============================================================================
