------------------------------- MODULE RWLock -------------------------------
(***************************************************************************)
(* The upgradable, non-recursive read/write lock rwl_t of avstor.c         *)
(* (src/unnamed/part_005) and the three ways the library takes it:         *)
(*                                                                         *)
(*   - readers (avstor_find, avstor_get_..., avstor_inorder_...) take it       *)
(*     shared and release it;                                              *)
(*   - writers (avstor_create_..., avstor_update_..., avstor_commit) take it   *)
(*     exclusive and release it;                                           *)
(*   - avstor_delete takes it shared, validates, and then either releases  *)
(*     it (not found), upgrades it (retrying the whole operation when the  *)
(*     upgrade is refused), or throws, in which case rollback() calls      *)
(*     rwl_upgrade_or_lock_exclusive.                                      *)
(*                                                                         *)
(* The lock word `lock' is the field rwl_t.lock: 2 * readers, plus bit 0   *)
(* while an upgrader waits, or -2 while held exclusive.  Every stretch of  *)
(* code between avmtx_lock and avmtx_unlock (or cnd_wait) is one atomic    *)
(* action, so the mutex itself needs no variable.  A condition variable    *)
(* is the set of threads blocked in cnd_wait on it; signal removes one,    *)
(* broadcast removes all, and a woken thread re-runs its loop test.        *)
(* Spurious wake-ups are not modelled.                                     *)
(***************************************************************************)
EXTENDS Integers, FiniteSets

CONSTANTS Readers,   \* threads that only read
          Writers,   \* threads that only create/update/commit
          Deleters   \* threads running avstor_delete

Threads == Readers \cup Writers \cup Deleters

VARIABLES lock,    \* rwl_t.lock
          cv,      \* threads blocked on rwl_t.cv
          cvUpgr,  \* threads blocked on rwl_t.cv_upgr
          pc       \* where each thread is

vars == <<lock, cv, cvUpgr, pc>>

(* Program points.  A thread at a point named ..._cs holds the lock.        *)
ReaderPcs  == {"r_acq", "r_cs"}
WriterPcs  == {"w_acq", "w_cs"}
DeleterPcs == {"d_acq", "d_val", "d_upg", "d_upg_w", "d_cs", "d_retry",
               "rb_upg", "rb_upg_w", "rb_rel", "rb_excl", "rb_cs"}
Pcs == {"idle", "done", "bcast"} \cup ReaderPcs \cup WriterPcs \cup DeleterPcs

(* Bit 0 of the lock word, and the word with bit 0 cleared (lock & ~1).  *)
(* TLA+ % is non-negative, so ClearBit0(-1) = -2 as in two's complement. *)
Bit0(l) == l % 2
ClearBit0(l) == l - (l % 2)

-----------------------------------------------------------------------------
(* rwl_lock_shared: while (lock < 0 || (lock & 1)) wait(cv); lock += 2.   *)
(* Mutant: readers only held back by a pending upgrade.                   *)
SharedBlocked_noExcl(l) == Bit0(l) = 1

SharedBlocked(l) == l < 0 \/ Bit0(l) = 1

LockShared(t, to) ==
    /\ t \notin cv
    /\ IF SharedBlocked(lock)
         THEN /\ cv' = cv \cup {t}
              /\ UNCHANGED <<lock, pc>>
         ELSE /\ lock' = lock + 2
              /\ pc' = [pc EXCEPT ![t] = to]
              /\ UNCHANGED cv
    /\ UNCHANGED cvUpgr

(* rwl_lock_exclusive: while (lock != 0) wait(cv); lock = -2.             *)
ExclBlocked(l) == l # 0

LockExclusive(t, to) ==
    /\ t \notin cv
    /\ IF ExclBlocked(lock)
         THEN /\ cv' = cv \cup {t}
              /\ UNCHANGED <<lock, pc>>
         ELSE /\ lock' = -2
              /\ pc' = [pc EXCEPT ![t] = to]
              /\ UNCHANGED cv
    /\ UNCHANGED cvUpgr

(* avcnd_signal(cv_upgr): wake one waiter, if any.                        *)
SignalUpgr ==
    IF cvUpgr = {} THEN UNCHANGED cvUpgr
    ELSE \E w \in cvUpgr : cvUpgr' = cvUpgr \ {w}

(* The new lock word computed by rwl_release.                             *)
(* Mutant: the exclusive hold released with the wrong sign.               *)
Released_sign(l) ==
    IF l > 1 THEN l - 2
    ELSE IF ClearBit0(l) <= -2 THEN l - 2
    ELSE l

Released(l) ==
    IF l > 1 THEN l - 2
    ELSE IF ClearBit0(l) <= -2 THEN l + 2
    ELSE l

(* rwl_release.  When neither branch applies it changes nothing (new =   *)
(* lock).  Inside the mutex it signals cv_upgr when the word             *)
(* becomes 3; when an exclusive hold ends it unlocks the mutex first and *)
(* broadcasts cv afterwards, which is the separate step Broadcast.       *)
NeedsBroadcast(old, new) == ClearBit0(old) = -2 /\ ClearBit0(new) = 0

(* Mutant: rwl_release without the avcnd_signal of cv_upgr.               *)
Release_nosignal(t, to) ==
    LET new == Released(lock) IN
    /\ lock' = new
    /\ UNCHANGED cvUpgr
    /\ pc' = [pc EXCEPT ![t] = IF new # lock /\ new # 3 /\ NeedsBroadcast(lock, new)
                                  THEN "bcast" ELSE to]
    /\ UNCHANGED cv

Release(t, to) ==
    LET new == Released(lock) IN
    /\ lock' = new
    /\ IF new # lock /\ new = 3 THEN SignalUpgr ELSE UNCHANGED cvUpgr
    /\ pc' = [pc EXCEPT ![t] = IF new # lock /\ new # 3 /\ NeedsBroadcast(lock, new)
                                  THEN "bcast" ELSE to]
    /\ UNCHANGED cv

(* The avcnd_broadcast(&rwl->cv) after the mutex is released.  Every     *)
(* caller that releases an exclusive hold then returns to its caller.    *)
Broadcast(t) ==
    /\ pc[t] = "bcast"
    /\ cv' = {}
    /\ pc' = [pc EXCEPT ![t] = "idle"]
    /\ UNCHANGED <<lock, cvUpgr>>

(* rwl_upgrade, first entry: refused (result 0) when another upgrader    *)
(* already set bit 0; otherwise wait on cv_upgr, with bit 0 set, until   *)
(* this thread is the only reader left, then take the lock exclusive.    *)
UpgradeMustWait(l) == l # 2 /\ l > 0

(* Mutant: the upgrader waits without setting bit 0.                       *)
UpgradeFinish_nobit(t, waitPc, okPc) ==
    LET l == ClearBit0(lock) IN
    IF UpgradeMustWait(l)
      THEN /\ lock' = l
           /\ cvUpgr' = cvUpgr \cup {t}
           /\ pc' = [pc EXCEPT ![t] = waitPc]
      ELSE /\ lock' = IF l = 2 THEN -2 ELSE l
           /\ pc' = [pc EXCEPT ![t] = okPc]
           /\ UNCHANGED cvUpgr

UpgradeFinish(t, waitPc, okPc) ==
    LET l == ClearBit0(lock) IN
    IF UpgradeMustWait(l)
      THEN /\ lock' = l + 1
           /\ cvUpgr' = cvUpgr \cup {t}
           /\ pc' = [pc EXCEPT ![t] = waitPc]
      ELSE /\ lock' = IF l = 2 THEN -2 ELSE l
           /\ pc' = [pc EXCEPT ![t] = okPc]
           /\ UNCHANGED cvUpgr

Upgrade(t, waitPc, okPc, failPc) ==
    /\ IF Bit0(lock) = 0
         THEN UpgradeFinish(t, waitPc, okPc)
         ELSE /\ pc' = [pc EXCEPT ![t] = failPc]
              /\ UNCHANGED <<lock, cvUpgr>>
    /\ UNCHANGED cv

(* rwl_upgrade after a wake-up on cv_upgr: re-test the loop condition.   *)
UpgradeResume(t, waitPc, okPc) ==
    /\ t \notin cvUpgr
    /\ UpgradeFinish(t, waitPc, okPc)
    /\ UNCHANGED cv

-----------------------------------------------------------------------------
(* The callers.                                                           *)

Start(t) ==
    /\ pc[t] = "idle"
    /\ pc' = [pc EXCEPT ![t] = CASE t \in Readers -> "r_acq"
                                 [] t \in Writers -> "w_acq"
                                 [] t \in Deleters -> "d_acq"]
    /\ UNCHANGED <<lock, cv, cvUpgr>>

(* A thread may stop using the database between two calls.               *)
Stop(t) ==
    /\ pc[t] = "idle"
    /\ pc' = [pc EXCEPT ![t] = "done"]
    /\ UNCHANGED <<lock, cv, cvUpgr>>

(* avstor_find, avstor_get_..., avstor_inorder_...                           *)
ReaderAcquire(t) == pc[t] = "r_acq" /\ LockShared(t, "r_cs")
ReaderRelease(t) == pc[t] = "r_cs"  /\ Release(t, "idle")

(* avstor_create_..., avstor_update_..., avstor_commit; a failure inside     *)
(* calls rollback(), whose upgrade of an exclusive hold changes nothing. *)
WriterAcquire(t) == pc[t] = "w_acq" /\ LockExclusive(t, "w_cs")
WriterRelease(t) == pc[t] = "w_cs"  /\ Release(t, "idle")

(* avstor_delete: the loop body starts with rwl_lock_shared.             *)
DeleteAcquire(t) == pc[t] = "d_acq" /\ LockShared(t, "d_val")

(* The search and the checks made under the shared lock end in one of    *)
(* three ways: the node is found and may be deleted (rwl_upgrade), it is *)
(* not found (rwl_release, NOTFOUND), or a check throws INVOPER and the  *)
(* CATCH block calls rollback().                                         *)
DeleteValidate(t) ==
    /\ pc[t] = "d_val"
    /\ \/ pc' = [pc EXCEPT ![t] = "d_upg"]
       \/ pc' = [pc EXCEPT ![t] = "rb_upg"]
    /\ UNCHANGED <<lock, cv, cvUpgr>>

DeleteNotFound(t) == pc[t] = "d_val" /\ Release(t, "idle")

DeleteUpgrade(t) == pc[t] = "d_upg" /\ Upgrade(t, "d_upg_w", "d_cs", "d_retry")
DeleteUpgradeResume(t) == pc[t] = "d_upg_w" /\ UpgradeResume(t, "d_upg_w", "d_cs")

(* Upgrade refused: release the shared lock and `continue' the loop.    *)
DeleteRetry(t) == pc[t] = "d_retry" /\ Release(t, "d_acq")

(* delete_backlink and delete_node run with the lock exclusive.          *)
DeleteRelease(t) == pc[t] = "d_cs" /\ Release(t, "idle")

(* rollback(): rwl_upgrade_or_lock_exclusive, then the final release.    *)
RollbackUpgrade(t) == pc[t] = "rb_upg" /\ Upgrade(t, "rb_upg_w", "rb_cs", "rb_rel")
RollbackUpgradeResume(t) == pc[t] = "rb_upg_w" /\ UpgradeResume(t, "rb_upg_w", "rb_cs")
RollbackRelease(t) == pc[t] = "rb_rel" /\ Release(t, "rb_excl")
RollbackLockExclusive(t) == pc[t] = "rb_excl" /\ LockExclusive(t, "rb_cs")
RollbackDone(t) == pc[t] = "rb_cs" /\ Release(t, "idle")

(* Every step of a thread that is inside a library call.                  *)
Work(t) ==
    \/ Broadcast(t)
    \/ ReaderAcquire(t) \/ ReaderRelease(t)
    \/ WriterAcquire(t) \/ WriterRelease(t)
    \/ DeleteAcquire(t) \/ DeleteValidate(t) \/ DeleteNotFound(t)
    \/ DeleteUpgrade(t) \/ DeleteUpgradeResume(t) \/ DeleteRetry(t)
    \/ DeleteRelease(t)
    \/ RollbackUpgrade(t) \/ RollbackUpgradeResume(t) \/ RollbackRelease(t)
    \/ RollbackLockExclusive(t) \/ RollbackDone(t)

Init ==
    /\ lock = 0
    /\ cv = {}
    /\ cvUpgr = {}
    /\ pc = [t \in Threads |-> "idle"]

Next == \E t \in Threads : Start(t) \/ Work(t) \/ Stop(t)

(* Threads are scheduled by the OS: a thread inside a call that can run  *)
(* eventually does.  Blocked threads (in cv or cv_upgr) have no enabled  *)
(* step, and whether a thread makes another call is up to its caller, so *)
(* Start and Stop carry no fairness.                                     *)
Spec == Init /\ [][Next]_vars /\ \A t \in Threads : WF_vars(Work(t))

-----------------------------------------------------------------------------
TypeOK ==
    /\ lock \in -2..(2 * Cardinality(Threads) + 1)
    /\ cv \subseteq Threads
    /\ cvUpgr \subseteq Threads
    /\ pc \in [Threads -> Pcs]

SharedHolders == {t \in Threads : pc[t] \in {"r_cs", "d_val", "d_upg", "d_upg_w",
                                             "d_retry", "rb_upg", "rb_upg_w", "rb_rel"}}
ExclHolders == {t \in Threads : pc[t] \in {"w_cs", "d_cs", "rb_cs"}}
Upgrading == {t \in Threads : pc[t] \in {"d_upg_w", "rb_upg_w"}}

(* Mutual exclusion: a thread holding the lock exclusive (a writer, a    *)
(* deleter after its upgrade, a rollback) holds it alone.                *)
Exclusion ==
    ExclHolders # {} => Cardinality(ExclHolders) = 1 /\ SharedHolders = {}

(* The lock word always describes the threads holding the lock: -2 for   *)
(* an exclusive holder, else twice the number of shared holders plus the *)
(* upgrade-pending bit exactly while an upgrader waits.  rwl_release and *)
(* rwl_upgrade rely on this when they test for 3 and 2.                  *)
LockAccounting ==
    lock = IF ExclHolders # {} THEN -2
           ELSE 2 * Cardinality(SharedHolders) + (IF Upgrading # {} THEN 1 ELSE 0)

(* A writer that calls rwl_lock_exclusive eventually holds the lock:     *)
(* spec.md section 5 says blocked calls complete or fail.  It fails      *)
(* when the last reader's rwl_release takes the word from 2 to 0, which  *)
(* broadcasts nothing, so a writer already blocked on cv sleeps on.      *)
WriterProgress ==
    \A t \in Writers : pc[t] = "w_acq" ~> pc[t] = "w_cs"

(* A deleter that is waiting to upgrade eventually holds the lock        *)
(* exclusive: the pending bit keeps new readers out, so the readers      *)
(* drain and the release that leaves the word at 3 wakes it.             *)
UpgradeCompletes ==
    \A t \in Deleters : pc[t] = "d_upg_w" ~> pc[t] = "d_cs"
=============================================================================
