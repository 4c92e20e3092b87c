-------------------------- MODULE OrderedDelivery --------------------------
(***************************************************************************)
(* What ingestion promises to the people who send log events, with no      *)
(* batches, timers or channels in it: an accepted event is handed to the   *)
(* indexer at most once, in the order of acceptance, and nothing that was  *)
(* not accepted is ever handed over.  Events are named by the order in     *)
(* which they were accepted: the k-th one is the number k.                 *)
(***************************************************************************)
EXTENDS Naturals, Sequences

VARIABLES accepted,     \* how many events have been accepted
          delivered     \* the events the indexer has taken, in its order

ODVars == <<accepted, delivered>>

FirstEvents(n) == [i \in 1..n |-> i]

ODInit == accepted = 0 /\ delivered = << >>

Accept == accepted' = accepted + 1 /\ UNCHANGED delivered

(* The indexer takes any number of the oldest outstanding events at once. *)
Deliver ==
  /\ \E n \in Len(delivered)..accepted : delivered' = FirstEvents(n)
  /\ UNCHANGED accepted

ODNext == Accept \/ Deliver

ODSpec == ODInit /\ [][ODNext]_ODVars
=============================================================================
