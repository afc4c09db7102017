-------------------------------- MODULE Thrd --------------------------------
(***************************************************************************)
(* The OS/2 thread lifecycle of the threads library (src/unnamed/part_001, *)
(* the __OS2__ half): _thrd_create_ex and threadproc, thrd_exit,           *)
(* thrd_join, thrd_detach, the detach thread detach_thrdproc, and          *)
(* wait_for_thread_to_die, which frees a thread's data once its OS thread  *)
(* has ended.                                                              *)
(*                                                                         *)
(* A thread's _tld lives on its own stack (a local of threadproc), in a    *)
(* block _thrd_create_ex mallocs; its mutexes mtx_exit and mtx_joined and  *)
(* condition variables cnd_exited and cnd_joined guard thread_state.       *)
(* ThrdSem, an OS/2 RAM semaphore, serialises creation, is_thrd_valid and  *)
(* the clean-up.                                                           *)
(*                                                                         *)
(* The mutexes are one-step locks: Sync shows that mtx_lock/mtx_unlock     *)
(* implement AbstractLock.  Each condition variable has one waiter at most *)
(* (cnd_joined: the thread itself; cnd_exited: its one joiner; cnd_detach: *)
(* the detach thread), so its wait queue is a flag and _max_waiters stays  *)
(* 1; a signal with nobody waiting is stored, as in sync.c's OS/2 build.   *)
(***************************************************************************)
EXTENDS Integers, Sequences, FiniteSets

CONSTANTS
    Main,      \* the thread that creates, joins and detaches the workers
    Det,       \* the detach thread started by init_stdthread
    Workers,   \* the threads Main creates
    Order,     \* the order Main creates them in: a sequence of Workers
    Faults,    \* the failures explored: a subset of {"malloc", "begin", "tls"}
    None

Procs == {Main, Det} \cup Workers

\* The two mutexes and two condition variables of every _tld, and the
\* detach thread's mtx_detach and cnd_detach.
Detach == <<"detach", Det>>
MutexIds == ({"exit", "joined"} \X Workers) \cup {Detach}
CndIds == ({"exited", "joined"} \X Workers) \cup {Detach}

VARIABLES
    pc,        \* per process: its place in the program
    tgt,       \* per process: the thread its join, detach or clean-up is about
    i,         \* Main: the index in Order of the worker it is creating
    alive,     \* per worker: the OS thread exists (DosGetPrty succeeds)
    slot,      \* per worker: ThrdData[id] points to its _tld
    stack,     \* per worker: its malloc'd stack, "none", "alloc" or "freed"
    st,        \* per worker: thread_state, a set of flags
    created,   \* per worker: _thrd_create_ex returned thrd_success
    cleaned,   \* per worker: times wait_for_thread_to_die cleaned it up
    mtx,       \* per mutex: its owner, or None
    cnd,       \* per condition variable: [sema |-> _sema_count, q |-> waiter queued]
    tsem,      \* ThrdSem's owner, or None
    isem,      \* ThrdInitSem is set
    thrd,      \* Thrd._thr_id: the worker threadproc set up, or None for -1
    list       \* thread_data_list, newest first

vars == <<pc, tgt, i, alive, slot, stack, st, created, cleaned, mtx, cnd,
          tsem, isem, thrd, list>>

Init ==
    /\ pc = [p \in Procs |-> CASE p = Main -> "create"
                               [] p = Det  -> "dt_lock"
                               [] OTHER    -> "init"]
    /\ tgt = [p \in Procs |-> IF p \in Workers THEN p ELSE None]
    /\ i = 1
    /\ alive = [w \in Workers |-> FALSE]
    /\ slot = [w \in Workers |-> FALSE]
    /\ stack = [w \in Workers |-> "none"]
    /\ st = [w \in Workers |-> {}]
    /\ created = [w \in Workers |-> FALSE]
    /\ cleaned = [w \in Workers |-> 0]
    /\ mtx = [m \in MutexIds |-> None]
    /\ cnd = [c \in CndIds |-> [sema |-> 0, q |-> FALSE]]
    /\ tsem = None
    /\ isem = FALSE
    /\ thrd = None
    /\ list = <<>>

-----------------------------------------------------------------------------
Signal(cv) ==
    IF cv.sema < 1
    THEN [sema |-> cv.sema + 1, q |-> IF cv.sema + 1 <= 0 THEN FALSE ELSE cv.q]
    ELSE cv

(* cnd_wait's _cnd_try_enqueue_wait_item: take a signal, or queue.         *)
Enqueue(cv) == [sema |-> cv.sema - 1, q |-> cv.sema - 1 < 0]

Take(p, m) == /\ mtx[m] = None
              /\ mtx' = [mtx EXCEPT ![m] = p]
Drop(m) == mtx' = [mtx EXCEPT ![m] = None]

Goto(p, l) == pc' = [pc EXCEPT ![p] = l]

\* is_thrd_valid: DosGetPrty succeeds and ThrdData[id] is still its _tld.
Valid(w) == alive[w] /\ slot[w]

\* Where Main goes after it is done with a worker.
Advance == /\ i' = i + 1
           /\ Goto(Main, IF i < Len(Order) THEN "create" ELSE "done")

\* Where a thrd_detach returns to, and a clean-up.
AfterDetach(p) == IF p = Main THEN "next" ELSE "x_exit"
AfterDie(p) == IF p = Main THEN "next" ELSE "dt_lock"

-----------------------------------------------------------------------------
(* _thrd_create_ex, Main's part.  init_stdthread (the call_once) has run:  *)
(* Det exists.                                                             *)
CreateSem ==
    /\ pc[Main] = "create" /\ tsem = None
    /\ tsem' = Main
    /\ Goto(Main, "begin")
    /\ UNCHANGED <<tgt, i, alive, slot, stack, st, created, cleaned, mtx, cnd, isem, thrd, list>>

(* malloc of the stack, DosSemSet(&ThrdInitSem), _beginthread.  A failure  *)
(* frees what was allocated and ends at finalize_and_return.               *)
CreateBegin ==
    LET w == Order[i] IN
    /\ pc[Main] = "begin"
    /\ \/ /\ "malloc" \in Faults
          /\ tsem' = None /\ Advance
          /\ UNCHANGED <<alive, stack, isem>>
       \/ /\ "begin" \in Faults
          /\ stack' = [stack EXCEPT ![w] = "freed"]
          /\ tsem' = None /\ Advance
          /\ UNCHANGED <<alive, isem>>
       \/ /\ stack' = [stack EXCEPT ![w] = "alloc"]
          /\ isem' = TRUE
          /\ alive' = [alive EXCEPT ![w] = TRUE]
          /\ pc' = [pc EXCEPT ![Main] = "initwait", ![w] = "tp"]
          /\ UNCHANGED <<tsem, i>>
    /\ UNCHANGED <<tgt, slot, st, created, cleaned, mtx, cnd, thrd, list>>

(* DosSemWait(&ThrdInitSem); the result from Thrd._thr_id; DosSemClear.   *)
CreateWait ==
    LET w == Order[i] IN
    /\ pc[Main] = "initwait" /\ ~isem
    /\ tsem' = None
    /\ IF thrd = w
         THEN /\ created' = [created EXCEPT ![w] = TRUE]
              /\ Goto(Main, "choose")
              /\ UNCHANGED i
         ELSE /\ Advance /\ UNCHANGED created
    /\ UNCHANGED <<tgt, alive, slot, stack, st, cleaned, mtx, cnd, isem, thrd, list>>

\* Main joins or detaches the worker it created.
Choose ==
    /\ pc[Main] = "choose"
    /\ tgt' = [tgt EXCEPT ![Main] = Order[i]]
    /\ \E l \in {"j_sem", "d_sem"} : Goto(Main, l)
    /\ UNCHANGED <<i, alive, slot, stack, st, created, cleaned, mtx, cnd, tsem, isem, thrd, list>>

MainNext ==
    /\ pc[Main] = "next"
    /\ Advance
    /\ UNCHANGED <<tgt, alive, slot, stack, st, created, cleaned, mtx, cnd, tsem, isem, thrd, list>>

(* threadproc: calloc of the TLS array; on failure Thrd._thr_id = -1 and   *)
(* the thread ends; else the _tld is set up and published in ThrdData.     *)
ThreadProc(w) ==
    /\ pc[w] = "tp"
    /\ isem' = FALSE
    /\ \/ /\ "tls" \in Faults
          /\ thrd' = None
          /\ alive' = [alive EXCEPT ![w] = FALSE]
          /\ Goto(w, "gone")
          /\ UNCHANGED slot
       \/ /\ thrd' = w
          /\ slot' = [slot EXCEPT ![w] = TRUE]
          /\ Goto(w, "run")
          /\ UNCHANGED alive
    /\ UNCHANGED <<tgt, i, stack, st, created, cleaned, mtx, cnd, tsem, list>>

(* The thread function returns (or, first, detaches its own thread with    *)
(* thrd_detach(thrd_current())); thrd_exit stores exit_code and runs the   *)
(* TLS destructors, none here, and frees tls_data under mtx_tls.           *)
Run(w) ==
    /\ pc[w] = "run"
    /\ \E l \in {"x_exit", "d_sem"} : Goto(w, l)
    /\ UNCHANGED <<tgt, i, alive, slot, stack, st, created, cleaned, mtx, cnd, tsem, isem, thrd, list>>

(* thrd_exit: under mtx_exit, tstate_exited and cnd_signal(cnd_exited).    *)
ExitSignal(w) ==
    /\ pc[w] = "x_exit" /\ mtx[<<"exit", w>>] = None
    /\ st' = [st EXCEPT ![w] = @ \cup {"exited"}]
    /\ cnd' = [cnd EXCEPT ![<<"exited", w>>] = Signal(@)]
    /\ Goto(w, "x_lockj")
    /\ UNCHANGED <<tgt, i, alive, slot, stack, created, cleaned, mtx, tsem, isem, thrd, list>>

(* mtx_lock(&tdata->mtx_joined), before each of thrd_exit's two loops.     *)
ExitLockJoined(w) ==
    /\ pc[w] \in {"x_lockj", "x_lockd"}
    /\ Take(w, <<"joined", w>>)
    /\ Goto(w, IF pc[w] = "x_lockj" THEN "x_chkj" ELSE "x_chkd")
    /\ UNCHANGED <<tgt, i, alive, slot, stack, st, created, cleaned, cnd, tsem, isem, thrd, list>>

(* The test of a `while (!(thread_state & flags)) cnd_wait(&cnd_joined,    *)
(* &mtx_joined)` loop: unlock and go on, or queue on cnd_joined and unlock *)
(* (cnd_wait's enqueue and mtx_unlock in one step: the unlock can only be  *)
(* moved earlier).  The first loop waits for a joiner or thrd_detach, the  *)
(* second for tstate_die.                                                  *)
ExitCheck(w) ==
    LET flags == IF pc[w] = "x_chkj" THEN {"joined", "detached"} ELSE {"die"}
    IN
    /\ pc[w] \in {"x_chkj", "x_chkd"}
    /\ Drop(<<"joined", w>>)
    /\ IF flags \cap st[w] # {}
         THEN /\ Goto(w, IF pc[w] = "x_chkj" THEN "x_detq" ELSE "x_end")
              /\ UNCHANGED cnd
         ELSE /\ cnd' = [cnd EXCEPT ![<<"joined", w>>] = Enqueue(@)]
              /\ Goto(w, IF pc[w] = "x_chkj" THEN "x_cwj" ELSE "x_cwd")
    /\ UNCHANGED <<tgt, i, alive, slot, stack, st, created, cleaned, tsem, isem, thrd, list>>

(* cnd_wait's DosSemWait on its item: returns once cnd_signal dequeued it *)
(* (at once if a stored signal was taken); then mtx_lock again.            *)
ExitWake(w) ==
    /\ pc[w] \in {"x_cwj", "x_cwd"}
    /\ ~cnd[<<"joined", w>>].q
    /\ Goto(w, IF pc[w] = "x_cwj" THEN "x_lockj" ELSE "x_lockd")
    /\ UNCHANGED <<tgt, i, alive, slot, stack, st, created, cleaned, mtx, cnd, tsem, isem, thrd, list>>

(* A detached thread pushes its _tld on thread_data_list and signals       *)
(* cnd_detach under mtx_detach.                                            *)
ExitQueue(w) ==
    /\ pc[w] = "x_detq"
    /\ IF "detached" \in st[w]
         THEN /\ mtx[Detach] = None
              /\ list' = <<w>> \o list
              /\ cnd' = [cnd EXCEPT ![Detach] = Signal(@)]
         ELSE UNCHANGED <<list, cnd>>
    /\ Goto(w, "x_lockd")
    /\ UNCHANGED <<tgt, i, alive, slot, stack, st, created, cleaned, mtx, tsem, isem, thrd>>

\* _endthread: the OS thread ends.
ExitEnd(w) ==
    /\ pc[w] = "x_end"
    /\ alive' = [alive EXCEPT ![w] = FALSE]
    /\ Goto(w, "gone")
    /\ UNCHANGED <<tgt, i, slot, stack, st, created, cleaned, mtx, cnd, tsem, isem, thrd, list>>

-----------------------------------------------------------------------------
(* thrd_join and thrd_detach start alike: DosSemRequest(&ThrdSem) and      *)
(* is_thrd_valid, returning thrd_error if the thread is gone.              *)
ClaimSem(p) ==
    LET w == tgt[p] IN
    /\ pc[p] \in {"j_sem", "d_sem"} /\ tsem = None
    /\ IF Valid(w)
         THEN /\ tsem' = p
              /\ Goto(p, IF pc[p] = "j_sem" THEN "j_lock" ELSE "d_lock")
         ELSE /\ UNCHANGED tsem
              /\ Goto(p, IF pc[p] = "j_sem" THEN "next" ELSE AfterDetach(p))
    /\ UNCHANGED <<tgt, i, alive, slot, stack, st, created, cleaned, mtx, cnd, isem, thrd, list>>

(* thrd_join: under mtx_exit, if neither detached nor joining, release     *)
(* ThrdSem and set tstate_joining, keeping mtx_exit; else release both.    *)
JoinLock(p) ==
    LET w == tgt[p] IN
    /\ pc[p] = "j_lock" /\ mtx[<<"exit", w>>] = None
    /\ tsem' = None
    /\ IF {"detached", "joining"} \cap st[w] = {}
         THEN /\ st' = [st EXCEPT ![w] = @ \cup {"joining"}]
              /\ mtx' = [mtx EXCEPT ![<<"exit", w>>] = p]
              /\ Goto(p, "j_chk")
         ELSE /\ UNCHANGED <<st, mtx>>
              /\ Goto(p, "next")
    /\ UNCHANGED <<tgt, i, alive, slot, stack, created, cleaned, cnd, isem, thrd, list>>

(* `while (!(thread_state & tstate_exited)) cnd_wait(&cnd_exited,          *)
(* &mtx_exit)`; once exited, read exit_code and unlock mtx_exit.           *)
JoinCheck(p) ==
    LET w == tgt[p] IN
    /\ pc[p] = "j_chk"
    /\ Drop(<<"exit", w>>)
    /\ IF "exited" \in st[w]
         THEN /\ Goto(p, "j_lockj") /\ UNCHANGED cnd
         ELSE /\ cnd' = [cnd EXCEPT ![<<"exited", w>>] = Enqueue(@)]
              /\ Goto(p, "j_cw")
    /\ UNCHANGED <<tgt, i, alive, slot, stack, st, created, cleaned, tsem, isem, thrd, list>>

JoinWake(p) ==
    /\ pc[p] = "j_cw"
    /\ ~cnd[<<"exited", tgt[p]>>].q
    /\ Goto(p, "j_relock")
    /\ UNCHANGED <<tgt, i, alive, slot, stack, st, created, cleaned, mtx, cnd, tsem, isem, thrd, list>>

JoinRelock(p) ==
    /\ pc[p] = "j_relock"
    /\ Take(p, <<"exit", tgt[p]>>)
    /\ Goto(p, "j_chk")
    /\ UNCHANGED <<tgt, i, alive, slot, stack, st, created, cleaned, cnd, tsem, isem, thrd, list>>

(* mtx_lock(&tdata->mtx_joined) and the flags set under it before          *)
(* wait_for_thread_to_die signals: tstate_joined (thrd_join only) and      *)
(* tstate_die.  The detach thread comes here for a _tld it popped.         *)
LockJoined(p) ==
    LET w == tgt[p] IN
    /\ pc[p] \in {"j_lockj", "dt_lockj"}
    /\ Take(p, <<"joined", w>>)
    /\ st' = [st EXCEPT ![w] = @ \cup
                 (IF pc[p] = "j_lockj" THEN {"joined", "die"} ELSE {"die"})]
    /\ Goto(p, "die_sig")
    /\ UNCHANGED <<tgt, i, alive, slot, stack, created, cleaned, cnd, tsem, isem, thrd, list>>

(* wait_for_thread_to_die: DosSemRequest(&ThrdSem), cnd_signal(cnd_joined) *)
(* and mtx_unlock(mtx_joined).                                             *)
DieSignal(p) ==
    LET w == tgt[p] IN
    /\ pc[p] = "die_sig" /\ tsem = None
    /\ tsem' = p
    /\ cnd' = [cnd EXCEPT ![<<"joined", w>>] = Signal(@)]
    /\ Drop(<<"joined", w>>)
    /\ Goto(p, "die_spin")
    /\ UNCHANGED <<tgt, i, alive, slot, stack, st, created, cleaned, isem, thrd, list>>

\* The clean-up without its wait for the OS thread to end.
DieCleanup_nospin(p) ==
    LET w == tgt[p] IN
    /\ pc[p] = "die_spin"
    /\ cleaned' = [cleaned EXCEPT ![w] = @ + 1]
    /\ stack' = [stack EXCEPT ![w] = "freed"]
    /\ Goto(p, "die_clear")
    /\ UNCHANGED <<tgt, i, alive, slot, st, created, mtx, cnd, tsem, isem, thrd, list>>

(* `while (is_thrd_valid(tdata->thr)) DosSleep(0)`, the iterations that    *)
(* find the thread alive changing nothing; then cnd_destroy/mtx_destroy    *)
(* and free(tdata->dyn_stack).  The _tld is threadproc's local, so it lies *)
(* in the block just freed.                                                *)
DieCleanup(p) ==
    LET w == tgt[p] IN
    /\ pc[p] = "die_spin" /\ ~Valid(w)
    /\ cleaned' = [cleaned EXCEPT ![w] = @ + 1]
    /\ stack' = [stack EXCEPT ![w] = "freed"]
    /\ Goto(p, "die_clear")
    /\ UNCHANGED <<tgt, i, alive, slot, st, created, mtx, cnd, tsem, isem, thrd, list>>

(* The rest of wait_for_thread_to_die, through tdata: dyn_stack = NULL,    *)
(* ThrdData[tdata->thr._thr_id] = NULL, then DosSemClear(&ThrdSem).        *)
DieClear(p) ==
    LET w == tgt[p] IN
    /\ pc[p] = "die_clear"
    /\ slot' = [slot EXCEPT ![w] = FALSE]
    /\ tsem' = None
    /\ Goto(p, AfterDie(p))
    /\ UNCHANGED <<tgt, i, alive, stack, st, created, cleaned, mtx, cnd, isem, thrd, list>>

\* thrd_detach that sets tstate_detached without waking the exiting thread.
DetachLock_nosignal(p) ==
    LET w == tgt[p] IN
    /\ pc[p] = "d_lock" /\ mtx[<<"exit", w>>] = None
    /\ tsem' = None
    /\ IF {"joining", "detached"} \cap st[w] = {}
         THEN /\ st' = [st EXCEPT ![w] = @ \cup {"detached"}]
         ELSE UNCHANGED st
    /\ Goto(p, AfterDetach(p))
    /\ UNCHANGED <<tgt, i, alive, slot, stack, created, cleaned, mtx, cnd, isem, thrd, list>>

(* thrd_detach under mtx_exit: if neither joining nor detached, release    *)
(* ThrdSem, set tstate_detached and cnd_signal(cnd_joined), without        *)
(* holding mtx_joined; else release ThrdSem and fail.                      *)
DetachLock(p) ==
    LET w == tgt[p] IN
    /\ pc[p] = "d_lock" /\ mtx[<<"exit", w>>] = None
    /\ tsem' = None
    /\ IF {"joining", "detached"} \cap st[w] = {}
         THEN /\ st' = [st EXCEPT ![w] = @ \cup {"detached"}]
              /\ cnd' = [cnd EXCEPT ![<<"joined", w>>] = Signal(@)]
         ELSE UNCHANGED <<st, cnd>>
    /\ Goto(p, AfterDetach(p))
    /\ UNCHANGED <<tgt, i, alive, slot, stack, created, cleaned, mtx, isem, thrd, list>>

-----------------------------------------------------------------------------
(* detach_thrdproc.  The unlock at the end of the inner loop and the lock  *)
(* at the top of the outer one are merged: both are followed by the same   *)
(* test of thread_data_list under mtx_detach.                              *)
DetLock ==
    /\ pc[Det] = "dt_lock"
    /\ Take(Det, Detach)
    /\ Goto(Det, "dt_chk")
    /\ UNCHANGED <<tgt, i, alive, slot, stack, st, created, cleaned, cnd, tsem, isem, thrd, list>>

(* An empty list: cnd_wait(&cnd_detach); else pop a _tld and unlock.       *)
DetCheck ==
    /\ pc[Det] = "dt_chk"
    /\ Drop(Detach)
    /\ IF list = <<>>
         THEN /\ cnd' = [cnd EXCEPT ![Detach] = Enqueue(@)]
              /\ Goto(Det, "dt_cw")
              /\ UNCHANGED <<tgt, list>>
         ELSE /\ tgt' = [tgt EXCEPT ![Det] = Head(list)]
              /\ list' = Tail(list)
              /\ Goto(Det, "dt_lockj")
              /\ UNCHANGED cnd
    /\ UNCHANGED <<i, alive, slot, stack, st, created, cleaned, tsem, isem, thrd>>

DetWake ==
    /\ pc[Det] = "dt_cw"
    /\ ~cnd[Detach].q
    /\ Goto(Det, "dt_lock")
    /\ UNCHANGED <<tgt, i, alive, slot, stack, st, created, cleaned, mtx, cnd, tsem, isem, thrd, list>>

-----------------------------------------------------------------------------
MainStep ==
    \/ CreateSem \/ CreateBegin \/ CreateWait \/ Choose \/ MainNext

WorkerStep(w) ==
    \/ ThreadProc(w) \/ Run(w) \/ ExitSignal(w) \/ ExitLockJoined(w)
    \/ ExitCheck(w) \/ ExitWake(w) \/ ExitQueue(w) \/ ExitEnd(w)

\* The steps of thrd_join, thrd_detach and wait_for_thread_to_die.
ClaimStep(p) ==
    \/ ClaimSem(p) \/ JoinLock(p) \/ JoinCheck(p) \/ JoinWake(p)
    \/ JoinRelock(p) \/ LockJoined(p) \/ DieSignal(p) \/ DieCleanup(p)
    \/ DieClear(p)
    \/ DetachLock(p)

DetStep == DetLock \/ DetCheck \/ DetWake

Step(p) ==
    \/ p = Main /\ MainStep
    \/ p = Det /\ DetStep
    \/ p \in Workers /\ WorkerStep(p)
    \/ ClaimStep(p)

Next == \E p \in Procs : Step(p)

(* OS/2 schedules every ready thread; a thread blocked on a semaphore or   *)
(* a mutex that stays free, or spinning in DosSleep(0), gets to run.       *)
Spec == Init /\ [][Next]_vars /\ \A p \in Procs : WF_vars(Step(p))

-----------------------------------------------------------------------------
PCs == {"create", "begin", "initwait", "choose", "next", "done",
        "init", "tp", "run", "x_exit", "x_lockj", "x_chkj", "x_cwj", "x_detq",
        "x_lockd", "x_chkd", "x_cwd", "x_end", "gone",
        "j_sem", "j_lock", "j_chk", "j_cw", "j_relock", "j_lockj",
        "d_sem", "d_lock", "die_sig", "die_spin", "die_clear",
        "dt_lock", "dt_chk", "dt_cw", "dt_lockj"}

Flags == {"exited", "detached", "joining", "joined", "die"}

(* Types.  A condition variable's _sema_count stays within -1..1: one      *)
(* waiter at most, and cnd_signal stores no signal past _max_waiters.      *)
TypeOK ==
    /\ pc \in [Procs -> PCs]
    /\ tgt \in [Procs -> Workers \cup {None}]
    /\ i \in 1..Len(Order) + 1
    /\ alive \in [Workers -> BOOLEAN] /\ slot \in [Workers -> BOOLEAN]
    /\ stack \in [Workers -> {"none", "alloc", "freed"}]
    /\ st \in [Workers -> SUBSET Flags]
    /\ created \in [Workers -> BOOLEAN] /\ cleaned \in [Workers -> Nat]
    /\ mtx \in [MutexIds -> Procs \cup {None}]
    /\ cnd \in [CndIds -> [sema : -1..1, q : BOOLEAN]]
    /\ tsem \in Procs \cup {None} /\ isem \in BOOLEAN
    /\ thrd \in Workers \cup {None}
    /\ list \in Seq(Workers)

\* The places where a process uses a worker's _tld: its flags, mutexes and
\* condition variables, and the clean-up's last writes and reads of it.
UsesTld(p, w) ==
    tgt[p] = w /\ pc[p] \in {"j_lock", "j_chk", "j_cw", "j_relock", "j_lockj",
                              "d_lock", "die_sig", "dt_lockj", "die_clear"}

\* The state of a worker whose stack wait_for_thread_to_die has freed.
Released(w) ==
    /\ ~alive[w] /\ stack[w] = "freed"
    /\ \A m \in {"exit", "joined"} : mtx[<<m, w>>] = None
    /\ \A c \in {"exited", "joined"} : ~cnd[<<c, w>>].q
    /\ \A k \in DOMAIN list : list[k] # w

(* wait_for_thread_to_die frees a thread's stack, which holds its _tld,    *)
(* once, and only after its OS thread has ended (the is_thrd_valid spin)   *)
(* and no joiner, detacher, the detach thread or the thread itself uses    *)
(* the _tld any more: not queued on thread_data_list, no mutex of it held, *)
(* nobody waiting on its condition variables, no other join, detach or     *)
(* clean-up of it under way.  Joins and detaches of the thread, by Main    *)
(* and by the thread itself, race for it under ThrdSem and mtx_exit.  The  *)
(* cleaner's own accesses after the free are NoUseAfterFree's subject.     *)
FreeWhenUnused ==
    \A w \in Workers :
        /\ cleaned[w] <= 1
        /\ cleaned[w] = 1 =>
             /\ Released(w)
             /\ \A p \in Procs : UsesTld(p, w) => pc[p] = "die_clear"

(* No process touches a _tld after the stack holding it is freed, the      *)
(* cleaner included: the comment at part_001:334 relies on the stack       *)
(* staying valid while ThrdSem is held.                                    *)
NoUseAfterFree ==
    \A w \in Workers : cleaned[w] = 1 => \A p \in Procs : ~UsesTld(p, w)

(* Every thread Main creates, joined or detached by Main or by itself,     *)
(* ends, and its stack and ThrdData slot are reclaimed by the joiner or    *)
(* the detach thread; Main finishes, and no thread is left running.        *)
AllReclaimed ==
    <>(/\ pc[Main] = "done"
       /\ \A w \in Workers :
            /\ pc[w] \in {"init", "gone"}
            /\ created[w] => stack[w] = "freed" /\ ~slot[w])

(* No malloc'd thread stack stays allocated once the program is done,     *)
(* whether _thrd_create_ex succeeded or not.                               *)
NoStackLeak ==
    <>(pc[Main] = "done" /\ \A w \in Workers : stack[w] # "alloc")
=============================================================================
