------------------------------- MODULE MC_EvRW -------------------------------
(* One client connection: the greeting is one reply unit, the space bound *)
(* two, and a "bulk" reply two, so a bulk reply on top of the greeting     *)
(* exceeds the space bound and abandons the writer.                        *)
EXTENDS EvRW, TLC

MCLines == {"reply", "bulk", "stats"}
\* without "stats": no deferred command, no incomplete reader
MCLinesNoStats == {"reply", "bulk"}

\* the loop state, without the history of the peer's line count
StateView == <<w, r, ev, c, sock, client.data, client.eof, client.reset, crash>>
=============================================================================
