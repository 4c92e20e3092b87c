------------------------------ MODULE MCEngine ------------------------------
(***************************************************************************)
(* The engine for TLC: three events, two of them in the index [0,2) and    *)
(* one in [2,4).  The clock passes the end of the retention of the first   *)
(* index, so that retention can delete it while a call of Index that has   *)
(* routed an event to it waits for the write lock.                         *)
(***************************************************************************)
EXTENDS Engine

MCEvents == 1..3
MCRefTime == <<0, 3, 1>>
MCHash == <<4, 5, 7>>
MCNumShards == 2
MCIndexDuration == 2
MCRetentionPeriod == 1
MCMaxNow == 4
=============================================================================
