----------------------------- MODULE MC_Reactor -----------------------------
(* Model values and bounds for Reactor. *)
EXTENDS Reactor

CONSTANTS p1, p2, p3

MCPid == {p1, p2, p3}

\* Two children running when the loop starts, as after a rescan and a
\* decoder have been forked; a callback may start a third.
MCInitChildren == <<p1, p2>>
=============================================================================
