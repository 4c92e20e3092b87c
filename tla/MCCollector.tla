----------------------------- MODULE MCCollector -----------------------------
(***************************************************************************)
(* The collectors for TLC: a connection whose peer sends one of three      *)
(* streams and pauses at most twice within it, a UDP packet whose text the *)
(* buffer cuts off and a shorter one after it, and a channel of one, for   *)
(* which both goroutines compete.                                          *)
(***************************************************************************)
EXTENDS Collector

Pri == <<"<", "digit", ">">>

(* Two messages with CRLF, the first of two lines. *)
TwoLines == Pri \o <<"head", "text", "\n", "text", "\r", "\n">>
            \o Pri \o <<"head", "text", "\r", "\n">>
(* Garbage, then a message with a priority inside and an empty line at its *)
(* end, then one more.                                                     *)
Garbage == <<"text", "digit">> \o Pri \o <<"head", "text">> \o Pri
           \o <<"\n", "\n">> \o Pri \o <<"head", "text">>
(* Three short messages, the second without a text. *)
Short == Pri \o <<"head", "text", "\n">> \o Pri \o <<"head", "\n">>
         \o Pri \o <<"head", "text", "\n">>

MCStreams == {TwoLines, Garbage, Short}
MCPackets == << <<"text", "text">> \o Pri \o <<"head", "text">>,
                Pri \o <<"head", "text">> >>
MCMsgBufSize == 6
=============================================================================
