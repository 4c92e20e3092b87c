--------------------------- MODULE MCQueryServer ---------------------------
(***************************************************************************)
(* The query servers for TLC: a query with three results, one of them of   *)
(* two lines, a query with none, and a socket that holds one write.        *)
(***************************************************************************)
EXTENDS QueryServer, TLC

MCResults ==
  ("many" :> << <<"t1">>, <<"t2", "\n", "t3">>, <<"t4">> >>) @@ ("none" :> << >>)

Telnet(items) == [proto |-> "telnet", items |-> items]
HTTP(items) == [proto |-> "http", items |-> items]

Line == {"many", "none", "bad", "blank", "partial"}
MCInputs ==
  {Telnet(s) : s \in {t \in [1..3 -> Line] : t[1] # "partial" /\ t[2] # "partial"}}
  \cup {HTTP(<<a, b>>) : a, b \in {"GET", "HEAD", "PUT", "malformedPOST",
                                    "emptyPOST", "bad", "many", "none"}}
=============================================================================
