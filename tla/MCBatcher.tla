----------------------------- MODULE MCBatcher -----------------------------
(***************************************************************************)
(* The batcher for TLC.  Batches of three and a channel of two let the timer *)
(* and the last event of a batch race, the channel fill up behind a batch  *)
(* that is being indexed, and a batch follow another one.                  *)
(***************************************************************************)
EXTENDS Batcher

MCSize == 3
MCMaxPending == 2
MCNumEvents == 8
=============================================================================
