------------------------------- MODULE MC_Thrd -------------------------------
EXTENDS Thrd, TLC

CONSTANTS w1, w2

MCWorkers == {w1, w2}

(* Main creates w1, joins or detaches it, then does the same with w2, so   *)
(* the clean-up of w1 competes for ThrdSem with the creation of w2.        *)
MCOrder == <<w1, w2>>

(* malloc of the stack and _beginthread failing in _thrd_create_ex, and    *)
(* the calloc of the TLS array failing in threadproc.                      *)
MCFaults == {"malloc", "begin", "tls"}

\* Only the calloc failure, for MC_Thrd_tls.cfg.
MCFaultsTls == {"tls"}
=============================================================================
