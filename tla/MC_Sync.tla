------------------------------- MODULE MC_Sync -------------------------------
EXTENDS Sync, TLC

CONSTANTS t1, t2, t3

\* A producer and a consumer: every path of mtx_lock, mtx_unlock,
\* cnd_wait, cnd_signal and cnd_broadcast, with the consumer asleep in
\* cnd_wait or on _wait_sem while the producer signals.
MCThreads2 == {t1, t2}
MCRole2 == (t1 :> "producer") @@ (t2 :> "consumer")

\* A producer and two consumers: two contenders asleep on _wait_sem at once.
MCThreads3 == {t1, t2, t3}
MCRole3 == (t1 :> "producer") @@ (t2 :> "consumer") @@ (t3 :> "consumer")

MCRounds == 2

\* One item per consumer in the three-thread run.
MCRounds1 == 1

\* Both builds side by side, and the Win32 build alone.
MCBuilds == {"win32", "os2"}
MCWin32 == {"win32"}
MCOs2 == {"os2"}

\* One interrupted OS/2 wait per behaviour.
MCMaxInterrupts == 1
=============================================================================
