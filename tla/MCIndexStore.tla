---------------------------- MODULE MCIndexStore ----------------------------
(***************************************************************************)
(* An index on disk for TLC.  Names have one digit of four, so that five   *)
(* shards, which NewIndex refuses, would be listed as 0 1 10 2 3, as       *)
(* 10000 shards would be with four digits of ten.  The documents' hashes   *)
(* differ modulo two, three and five.                                      *)
(***************************************************************************)
EXTENDS IndexStore

CONSTANTS d1, d2, d3

MCDocs == {d1, d2, d3}
MCHash == [d \in MCDocs |-> CASE d = d1 -> 0 [] d = d2 -> 7 [] d = d3 -> 14]
MCShardFlags == {-1, 0, 2, 3, 5}
=============================================================================
