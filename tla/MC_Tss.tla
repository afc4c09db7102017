-------------------------------- MODULE MC_Tss --------------------------------
EXTENDS Tss, TLC

CONSTANTS t1, t2, d1, v1

MCThreads == {t1, t2}

(* Two slots: a delete frees the lower one and the next create reuses it   *)
(* while the other stays in use, so the exit loop meets both kinds.        *)
MCSlots == 2

MCDtors == {d1}
MCVals == {v1}

\* Three calls each: a create, a set and a delete, in any order.
MCMaxOps == 3
=============================================================================
