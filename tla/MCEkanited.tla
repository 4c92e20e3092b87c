----------------------------- MODULE MCEkanited -----------------------------
(***************************************************************************)
(* ekanited for TLC: batches of two, a channel of one, two runs of the     *)
(* process, and messages from before 1970, from its first moment and       *)
(* without a timestamp.                                                    *)
(***************************************************************************)
EXTENDS Ekanited

MCTimestamps ==
  <<{-1}, {NoTimestamp}, {-1, 1}, {-1, NoTimestamp}, {-2}>>
MCDowntimes == {-2, 0}
=============================================================================
