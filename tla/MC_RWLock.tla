----------------------------- MODULE MC_RWLock -----------------------------
(* Model-checking instance of RWLock: one reader, one writer and two      *)
(* deleters, so that an upgrade can be refused by a second upgrader.     *)
EXTENDS RWLock

CONSTANTS r1, w1, d1, d2

MCReaders == {r1}
MCWriters == {w1}
MCDeleters == {d1, d2}
NoThreads == {}
=============================================================================
