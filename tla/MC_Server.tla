----------------------------- MODULE MC_Server -----------------------------
(* Model values and command alphabets for checking Server with TLC. *)
EXTENDS Server, TLC

CONSTANTS c1, c2, ua, ub, p1

MCConn == {c1, c2}
MCUser == {ua, ub}
MCPlaylist == {p1}

\* ua is an administrator already in the database; ub does not exist yet.
AdminRights == {"read", "play", "admin", "register", "rescan", "userinfo"}
MCUsers0 == [u \in MCUser |-> IF u = ua THEN "confirmed" ELSE "absent"]
MCRights0 == [u \in MCUser |-> IF u = ua THEN AdminRights ELSE {}]
MCDefaultRights == {"read", "play", "register"}
MCNewRights == {"read"}

Ln(cmd, arg, opt) == [cmd |-> cmd, arg |-> arg, opt |-> opt]

\* Logging in, registering, confirming, creating, deleting and editing users.
LinesSessions ==
    { Ln("user", ua, "good"), Ln("user", ua, "bad"), Ln("user", ub, "good"),
      Ln("register", ub, "-"), Ln("confirm", ub, "good"),
      Ln("adduser", ub, "-"), Ln("deluser", ub, "-"),
      Ln("edituser", ub, "rights"), Ln("edituser", ua, "password"),
      Ln("garbage", NoArg, "-") }

\* Playlist locks and bodies, the log reader, and unparseable lines.
LinesLocks ==
    { Ln("user", ua, "good"), Ln("playlist-lock", p1, "-"),
      Ln("playlist-lock", p1, "denied"), Ln("playlist-unlock", NoArg, "-"),
      Ln("playlist-set", p1, "-"), Ln(".", NoArg, "-"), Ln("text", NoArg, "-"),
      Ln("log", NoArg, "-") }

\* RTP unicast requests.
LinesRtp ==
    { Ln("user", ua, "good"), Ln("rtp-request", NoArg, "-"),
      Ln("rtp-request", NoArg, "bad"), Ln("rtp-cancel", NoArg, "-"),
      Ln("nop", NoArg, "-"), Ln("playing-hls", NoArg, "-"),
      Ln("reminder", ua, "bad") }

\* Commands answered by a subprocess or the rescan, and immediate ones.
LinesDeferred ==
    { Ln("user", ua, "good"), Ln("stats", NoArg, "-"),
      Ln("reminder", ua, "-"),
      Ln("rescan", NoArg, "wait"), Ln("rescan", NoArg, "-"),
      Ln("log", NoArg, "-") }

\* Sessions, RTP requests and playlist locks together, for the one safety
\* run over all three.
LinesSessionsRtp ==
    LinesSessions \cup LinesRtp
        \cup { Ln("playlist-lock", p1, "-"), Ln("playlist-set", p1, "-"),
              Ln(".", NoArg, "-") }

\* A user changing its own password while another client has not logged in.
LinesPassword == { Ln("user", ua, "good"), Ln("edituser", ua, "password") }

\* A deferred command pipelined with an immediate one.
LinesPipelined == { Ln("user", ua, "good"), Ln("stats", NoArg, "-"), Ln("nop", NoArg, "-") }

LinesStats == { Ln("user", ua, "good"), Ln("stats", NoArg, "-") }

ConnSymmetry == Permutations(MCConn)
=============================================================================
