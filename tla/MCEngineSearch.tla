--------------------------- MODULE MCEngineSearch ---------------------------
(***************************************************************************)
(* The engine and one search for TLC.  Two of the three events share an    *)
(* index, whose documents reach the limit on hits, and arrive against the  *)
(* order of their times; the third has a later index, so that an index can *)
(* be created in front of one that is being searched.  The clock passes    *)
(* the end of the retention of the earlier index.                          *)
(***************************************************************************)
EXTENDS EngineSearch

MCEvents == 1..3
MCRefTime == <<3, 1, 0>>
MCHash == <<4, 5, 7>>
MCNumShards == 2
MCIndexDuration == 2
MCRetentionPeriod == 0
MCMaxNow == 3
=============================================================================
