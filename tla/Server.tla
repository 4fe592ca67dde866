------------------------------- MODULE Server -------------------------------
(***************************************************************************)
(* The connection and protocol engine of the DisOrder server               *)
(* (src/server/server.c).  Every connection is a `struct conn': the        *)
(* authenticated user (who), its rights, its reader state (command, body   *)
(* or log), a held playlist lock, an RTP unicast request, and the deferred *)
(* replies of commands that finish in a subprocess (stats, reminder,       *)
(* rescan wait).  The reactor (event.c) is abstracted to its effect here:  *)
(* one line of a connection's input is handled per step, and the steps of *)
(* different connections, of child-process exits and of rescan completion *)
(* interleave arbitrarily, as they do across iterations of ev_run().       *)
(*                                                                         *)
(* Replies are abstracted to the number of the command they answer; the    *)
(* text of a reply is left out.  The track database (trackdb) is not in    *)
(* the source tree: its user table is the variable `users'/`urights'.      *)
(***************************************************************************)
EXTENDS Naturals, SequencesExt

CONSTANTS
    Conn,          \* connection objects (model values)
    User,          \* user names
    Playlist,      \* playlist names
    Lines,         \* the command lines clients may send
    MaxLines,      \* bound: lines one client sends over its connection
    MaxInbuf,      \* bound: lines a client sends ahead of the server
    Users0,        \* initial state of each user in the database
    Rights0,       \* initial stored rights of each user
    DefaultRights, \* config->default_rights
    NewRights,     \* the rights an `edituser NAME rights ...' installs
    Listeners,     \* the kinds of listener configured (a subset of ListenerKind)
    RemoteUserman, \* config->remote_userman
    HlsEnabled,    \* config->hls_enable && config->hls_baseurl
    NoUser, NoPlaylist, NoBody, NoArg

Right == {"read", "play", "admin", "userinfo", "register", "rescan", "local"}
ListenerKind == {"privileged", "unix", "tcp"}
UserState == {"absent", "unconfirmed", "confirmed"}
Id == 1..MaxLines

VARIABLES
    conn,          \* "none" (not yet accepted), "open" (on `connections'), "gone"
    listener,      \* c->l: which listener accepted the connection
    who,           \* c->who
    rights,        \* c->rights
    reader,        \* c->reader: reader_callback or logging_reader_callback
    bodyFor,       \* c->line_reader = body_line: playlist and command id
    locked,        \* c->locked_playlist
    rtpRequested,  \* c->rtp_requested
    rtpDests,      \* destinations registered with rtp_request()
    deferred,      \* children whose callback will answer command <<kind, id>>
    rescanning,    \* trackdb_rescan_underway()
    rescanWaiters, \* finished_rescan callbacks registered: <<conn, id>>
    users,         \* trackdb user table: state of each user
    urights,       \* trackdb user table: stored rights
    inbuf,         \* lines sent by the client and not yet handled
    nsent,         \* lines the client has sent
    eof,           \* the client has closed its end
    parsed,        \* commands command() has handled on this connection
    out,           \* ids of the commands answered, in the order written
    crash          \* "none", or why the server process died

authVars  == <<who, rights, users, urights>>
lockVars  == <<locked, bodyFor>>
rtpVars   == <<rtpRequested, rtpDests>>
deferVars == <<deferred, rescanning, rescanWaiters>>
clientVars == <<inbuf, nsent, eof>>
vars == <<conn, listener, reader, authVars, lockVars, rtpVars, deferVars,
          clientVars, parsed, out, crash>>

Alive == crash = "none"

\* The `connections' list: every connection accepted and not yet removed.
Listed == {c \in Conn : conn[c] = "open"}

\* connection_host(): "local" for a connection over a PF_UNIX listener.
HostRights(c) == IF listener[c] \in {"privileged", "unix"} THEN {"local"} ELSE {}

\* The rights column of the commands[] table.
CmdRights(cmd) ==
    CASE cmd \in {"adduser", "deluser"}                        -> {"admin"}
      [] cmd = "edituser"                                      -> {"admin", "userinfo"}
      [] cmd \in {"log", "playing-hls", "rtp-request", "stats"} -> {"read"}
      [] cmd \in {"playlist-lock", "playlist-set", "playlist-unlock"} -> {"play"}
      [] cmd = "register"                                      -> {"register"}
      [] cmd = "reminder"                                      -> {"local"}
      [] cmd = "rescan"                                        -> {"rescan"}
      [] OTHER                                                 -> {}

\* The user-management guard at the head of c_adduser/c_deluser/c_edituser.
UsermanAllowed(c) == RemoteUserman \/ "local" \in rights[c]

Reply(c, id) == out' = [out EXCEPT ![c] = Append(@, id)]

\* A reply and nothing else: every refusal and error path of a handler.
Refuse(c, id) ==
    /\ Reply(c, id)
    /\ UNCHANGED <<authVars, lockVars, rtpVars, deferVars, reader, crash>>

Init ==
    /\ conn = [c \in Conn |-> "none"]
    /\ listener = [c \in Conn |-> "tcp"]
    /\ who = [c \in Conn |-> NoUser]
    /\ rights = [c \in Conn |-> {}]
    /\ reader = [c \in Conn |-> "command"]
    /\ bodyFor = [c \in Conn |-> NoBody]
    /\ locked = [c \in Conn |-> NoPlaylist]
    /\ rtpRequested = [c \in Conn |-> FALSE]
    /\ rtpDests = {}
    /\ deferred = [c \in Conn |-> {}]
    /\ rescanning = FALSE
    /\ rescanWaiters = {}
    /\ users = Users0
    /\ urights = Rights0
    /\ inbuf = [c \in Conn |-> <<>>]
    /\ nsent = [c \in Conn |-> 0]
    /\ eof = [c \in Conn |-> FALSE]
    /\ parsed = [c \in Conn |-> 0]
    /\ out = [c \in Conn |-> <<>>]
    /\ crash = "none"

-----------------------------------------------------------------------------
(* Command handlers.  Each takes the connection, the line and the id the   *)
(* command gets; a handler that does not answer at once returns 0 in the   *)
(* code and leaves `out' alone here.                                       *)

\* c_user: refuse a second login, unknown and unconfirmed users, and a wrong
\* response unless the listener is privileged; a PF_UNIX peer gains `local'.
C_user(c, l, id) ==
    LET u == l.arg IN
    IF /\ who[c] = NoUser
       /\ users[u] = "confirmed"
       /\ listener[c] = "privileged" \/ l.opt = "good"
    THEN /\ who' = [who EXCEPT ![c] = u]
         /\ rights' = [rights EXCEPT ![c] = urights[u] \cup HostRights(c)]
         /\ Reply(c, id)
         /\ UNCHANGED <<users, urights, lockVars, rtpVars, deferVars, reader, crash>>
    ELSE Refuse(c, id)

\* c_confirm with trackdb_confirm(): the right confirmation string of an
\* unconfirmed user confirms it and logs the connection in as that user.
C_confirm(c, l, id) ==
    LET u == l.arg IN
    IF users[u] = "unconfirmed" /\ l.opt = "good"
    THEN /\ users' = [users EXCEPT ![u] = "confirmed"]
         /\ who' = [who EXCEPT ![c] = u]
         /\ rights' = [rights EXCEPT ![c] = urights[u] \cup HostRights(c)]
         /\ Reply(c, id)
         /\ UNCHANGED <<urights, lockVars, rtpVars, deferVars, reader, crash>>
    ELSE Refuse(c, id)

\* c_register: trackdb_adduser() of an unconfirmed user with default rights.
C_register(c, l, id) ==
    LET u == l.arg IN
    IF users[u] = "absent"
    THEN /\ users' = [users EXCEPT ![u] = "unconfirmed"]
         /\ urights' = [urights EXCEPT ![u] = DefaultRights]
         /\ Reply(c, id)
         /\ UNCHANGED <<who, rights, lockVars, rtpVars, deferVars, reader, crash>>
    ELSE Refuse(c, id)

\* c_adduser: a confirmed user with default rights.
C_adduser(c, l, id) ==
    LET u == l.arg IN
    IF UsermanAllowed(c) /\ users[u] = "absent"
    THEN /\ users' = [users EXCEPT ![u] = "confirmed"]
         /\ urights' = [urights EXCEPT ![u] = DefaultRights]
         /\ Reply(c, id)
         /\ UNCHANGED <<who, rights, lockVars, rtpVars, deferVars, reader, crash>>
    ELSE Refuse(c, id)

\* Mutant: the zap loop compares with the acting user (c->who) instead of
\* the user named in the command.
ZapSessionsActingUser(c, id, u, r) ==
    IF \E d \in Listed : who[d] = NoUser
    THEN /\ crash' = "null_who"
         /\ UNCHANGED <<rights, out>>
    ELSE /\ rights' = [d \in Conn |->
                         IF d \in Listed /\ who[d] = who[c] THEN r ELSE rights[d]]
         /\ Reply(c, id)
         /\ UNCHANGED crash

\* The loop `for(d = connections; d; d = d->next) if(!strcmp(d->who, u))
\* d->rights = r': strcmp() on the NULL `who' of a connection that has not
\* logged in dereferences NULL and the server dies of SIGSEGV.
ZapSessions(c, id, u, r) ==
    IF \E d \in Listed : who[d] = NoUser
    THEN /\ crash' = "null_who"
         /\ UNCHANGED <<rights, out>>
    ELSE /\ rights' = [d \in Conn |->
                         IF d \in Listed /\ who[d] = u THEN r ELSE rights[d]]
         /\ Reply(c, id)
         /\ UNCHANGED crash

\* c_deluser: delete the user, then zero the rights of its sessions.
C_deluser(c, l, id) ==
    LET u == l.arg IN
    IF UsermanAllowed(c) /\ users[u] # "absent"
    THEN /\ users' = [users EXCEPT ![u] = "absent"]
         /\ ZapSessions(c, id, u, {})
         /\ UNCHANGED <<who, urights, lockVars, rtpVars, deferVars, reader>>
    ELSE Refuse(c, id)

\* c_edituser: an admin edits anything, a user its own email and password;
\* a new password zeroes the user's sessions, new rights replace theirs.
C_edituser(c, l, id) ==
    LET u == l.arg
        field == l.opt IN
    IF /\ UsermanAllowed(c)
       /\ "admin" \in rights[c] \/ (who[c] = u /\ field \in {"email", "password"})
       /\ users[u] # "absent"
    THEN /\ CASE field = "password" ->
                   /\ ZapSessions(c, id, u, {})
                   /\ UNCHANGED urights
              [] field = "rights" ->
                   /\ urights' = [urights EXCEPT ![u] = NewRights]
                   /\ ZapSessions(c, id, u, NewRights)
              [] field = "email" ->
                   /\ Reply(c, id)
                   /\ UNCHANGED <<rights, urights, crash>>
         /\ UNCHANGED <<who, users, lockVars, rtpVars, deferVars, reader>>
    ELSE Refuse(c, id)

\* c_log: answer, subscribe to the event log and switch to the logging reader.
C_log(c, l, id) ==
    /\ Reply(c, id)
    /\ reader' = [reader EXCEPT ![c] = "log"]
    /\ UNCHANGED <<authVars, lockVars, rtpVars, deferVars, crash>>

\* c_playing_hls: with HLS off it writes "550 HLS not enabled" and goes on
\* to write the 259/252 answer as well.
C_playing_hls(c, l, id) ==
    /\ out' = [out EXCEPT ![c] = @ \o (IF HlsEnabled THEN <<id>> ELSE <<id, id>>)]
    /\ UNCHANGED <<authVars, lockVars, rtpVars, deferVars, reader, crash>>

\* Mutant: no scan of the other connections' locks.
C_playlist_lockNoScan(c, l, id) ==
    LET p == l.arg IN
    IF l.opt # "denied" /\ locked[c] = NoPlaylist
    THEN /\ locked' = [locked EXCEPT ![c] = p]
         /\ Reply(c, id)
         /\ UNCHANGED <<authVars, bodyFor, rtpVars, deferVars, reader, crash>>
    ELSE Refuse(c, id)

\* c_playlist_lock: the trackdb permission check (l.opt = "denied" when it
\* fails), one lock per connection, and a scan of `connections' for another
\* holder of the same playlist.
C_playlist_lock(c, l, id) ==
    LET p == l.arg IN
    IF /\ l.opt # "denied"
       /\ locked[c] = NoPlaylist
       /\ ~\E d \in Listed : locked[d] = p
    THEN /\ locked' = [locked EXCEPT ![c] = p]
         /\ Reply(c, id)
         /\ UNCHANGED <<authVars, bodyFor, rtpVars, deferVars, reader, crash>>
    ELSE Refuse(c, id)

C_playlist_unlock(c, l, id) ==
    IF locked[c] # NoPlaylist
    THEN /\ locked' = [locked EXCEPT ![c] = NoPlaylist]
         /\ Reply(c, id)
         /\ UNCHANGED <<authVars, bodyFor, rtpVars, deferVars, reader, crash>>
    ELSE Refuse(c, id)

\* Mutant: fetch_body() passed vec[1] (NULL) as the playlist name.
C_playlist_setWrongArg(c, l, id) ==
    /\ bodyFor' = [bodyFor EXCEPT ![c] = [pl |-> NoPlaylist, id |-> id]]
    /\ UNCHANGED <<authVars, locked, rtpVars, deferVars, reader, out, crash>>

\* c_playlist_set -> fetch_body(): the following lines are the body.
C_playlist_set(c, l, id) ==
    /\ bodyFor' = [bodyFor EXCEPT ![c] = [pl |-> l.arg, id |-> id]]
    /\ UNCHANGED <<authVars, locked, rtpVars, deferVars, reader, out, crash>>

\* c_rtp_request: an unparseable address (l.opt = "bad") is refused; a
\* previous request of this connection is cancelled before the new one.
C_rtp_request(c, l, id) ==
    IF l.opt # "bad"
    THEN /\ rtpDests' = (rtpDests \ {c}) \cup {c}
         /\ rtpRequested' = [rtpRequested EXCEPT ![c] = TRUE]
         /\ Reply(c, id)
         /\ UNCHANGED <<authVars, lockVars, deferVars, reader, crash>>
    ELSE Refuse(c, id)

C_rtp_cancel(c, l, id) ==
    IF rtpRequested[c]
    THEN /\ rtpDests' = rtpDests \ {c}
         /\ rtpRequested' = [rtpRequested EXCEPT ![c] = FALSE]
         /\ Reply(c, id)
         /\ UNCHANGED <<authVars, lockVars, deferVars, reader, crash>>
    ELSE Refuse(c, id)

\* c_stats: trackdb_stats_subprocess(got_stats, c) and return 0.
C_stats(c, l, id) ==
    /\ deferred' = [deferred EXCEPT ![c] = @ \cup {<<"stats", id>>}]
    /\ UNCHANGED <<authVars, lockVars, rtpVars, rescanning, rescanWaiters,
                   reader, out, crash>>

\* c_reminder: every check before the fork (mail_sender, user, email,
\* password, the rate limit, sendmail_subprocess) failing is l.opt = "bad";
\* otherwise ev_child(sent_reminder, c) and return 0.
C_reminder(c, l, id) ==
    IF l.opt # "bad"
    THEN /\ deferred' = [deferred EXCEPT ![c] = @ \cup {<<"reminder", id>>}]
         /\ UNCHANGED <<authVars, lockVars, rtpVars, rescanning, rescanWaiters,
                        reader, out, crash>>
    ELSE Refuse(c, id)

\* Mutant: a `rescan wait' arriving while a rescan is underway answers
\* nothing and registers no callback.
C_rescanNoPiggyback(c, l, id) ==
    /\ rescanning' = TRUE
    /\ IF l.opt = "wait"
       THEN /\ rescanWaiters' = IF rescanning THEN rescanWaiters
                                ELSE rescanWaiters \cup {<<c, id>>}
            /\ UNCHANGED out
       ELSE /\ Reply(c, id)
            /\ UNCHANGED rescanWaiters
    /\ UNCHANGED <<authVars, lockVars, rtpVars, deferred, reader, crash>>

\* c_rescan ("fresh" is compiled out): `wait' registers finished_rescan and
\* returns 0, starting a rescan unless one is underway; without `wait' the
\* answer is immediate.
C_rescan(c, l, id) ==
    /\ rescanning' = TRUE
    /\ IF l.opt = "wait"
       THEN /\ rescanWaiters' = rescanWaiters \cup {<<c, id>>}
            /\ UNCHANGED out
       ELSE /\ Reply(c, id)
            /\ UNCHANGED rescanWaiters
    /\ UNCHANGED <<authVars, lockVars, rtpVars, deferred, reader, crash>>

C_nop(c, l, id) == Refuse(c, id)

-----------------------------------------------------------------------------
(* Reactor-level steps.                                                    *)

\* The names of the commands[] table that are modelled.
CommandNames ==
    {"user", "confirm", "register", "adduser", "deluser", "edituser", "log",
     "playing-hls", "playlist-lock", "playlist-unlock", "playlist-set",
     "rtp-request", "rtp-cancel", "stats", "reminder", "rescan", "nop"}

\* The commands[] table: name -> handler.
Handler(c, l, id) ==
    CASE l.cmd = "user"            -> C_user(c, l, id)
      [] l.cmd = "confirm"         -> C_confirm(c, l, id)
      [] l.cmd = "register"        -> C_register(c, l, id)
      [] l.cmd = "adduser"         -> C_adduser(c, l, id)
      [] l.cmd = "deluser"         -> C_deluser(c, l, id)
      [] l.cmd = "edituser"        -> C_edituser(c, l, id)
      [] l.cmd = "log"             -> C_log(c, l, id)
      [] l.cmd = "playing-hls"     -> C_playing_hls(c, l, id)
      [] l.cmd = "playlist-lock"   -> C_playlist_lock(c, l, id)
      [] l.cmd = "playlist-unlock" -> C_playlist_unlock(c, l, id)
      [] l.cmd = "playlist-set"    -> C_playlist_set(c, l, id)
      [] l.cmd = "rtp-request"     -> C_rtp_request(c, l, id)
      [] l.cmd = "rtp-cancel"      -> C_rtp_cancel(c, l, id)
      [] l.cmd = "stats"           -> C_stats(c, l, id)
      [] l.cmd = "reminder"        -> C_reminder(c, l, id)
      [] l.cmd = "rescan"          -> C_rescan(c, l, id)
      [] l.cmd = "nop"             -> C_nop(c, l, id)

\* reader_callback -> command(): one complete line while the line reader is
\* `command'.  A line that fails NFC, splitting or TABLE_FIND gets a 500; the rights check comes before the handler.  Nothing here looks
\* at `deferred' or `rescanWaiters': a handler returning 0 does not stop
\* the next line from being read.
Command(c) ==
    /\ Alive
    /\ conn[c] = "open"
    /\ reader[c] = "command"
    /\ bodyFor[c] = NoBody
    /\ inbuf[c] # <<>>
    /\ LET l == Head(inbuf[c])
           id == parsed[c] + 1
       IN /\ inbuf' = [inbuf EXCEPT ![c] = Tail(@)]
          /\ parsed' = [parsed EXCEPT ![c] = id]
          /\ IF l.cmd \notin CommandNames
                \/ (CmdRights(l.cmd) # {} /\ CmdRights(l.cmd) \cap rights[c] = {})
             THEN Refuse(c, id)
             ELSE Handler(c, l, id)
    /\ UNCHANGED <<conn, listener, nsent, eof>>

\* c_playlist_set_body: "550 Playlist is not locked" unless the connection
\* holds the lock of the body's playlist, else the trackdb_playlist_set()
\* result; either way the playlist-set command is answered now.
C_playlist_set_body(c) == Reply(c, bodyFor[c].id)

\* reader_callback -> body_line(): a line "." ends the body and runs
\* c_playlist_set_body; other lines are collected (their content is not
\* modelled).
BodyLine(c) ==
    /\ Alive
    /\ conn[c] = "open"
    /\ reader[c] = "command"
    /\ bodyFor[c] # NoBody
    /\ inbuf[c] # <<>>
    /\ inbuf' = [inbuf EXCEPT ![c] = Tail(@)]
    /\ IF Head(inbuf[c]).cmd = "."
       THEN /\ bodyFor' = [bodyFor EXCEPT ![c] = NoBody]
            /\ C_playlist_set_body(c)
       ELSE UNCHANGED <<bodyFor, out>>
    /\ UNCHANGED <<conn, listener, reader, authVars, locked, rtpVars, deferVars,
                   nsent, eof, parsed, crash>>

\* logging_reader_callback: input on a log connection is discarded.
LogLine(c) ==
    /\ Alive
    /\ conn[c] = "open"
    /\ reader[c] = "log"
    /\ inbuf[c] # <<>>
    /\ inbuf' = [inbuf EXCEPT ![c] = Tail(@)]
    /\ UNCHANGED <<conn, listener, reader, authVars, lockVars, rtpVars, deferVars,
                   nsent, eof, parsed, out, crash>>

\* Mutant: remove_connection() without the RTP cancel (the "TODO teardown on
\* connection close" of c_rtp_request).
RemoveConnectionKeepRtp(c) ==
    /\ conn' = [conn EXCEPT ![c] = "gone"]
    /\ UNCHANGED <<rtpDests, rtpRequested>>

\* remove_connection(): cancel the RTP request and unlink from
\* `connections' (which is also what releases a playlist lock: lock checks
\* only scan the list).  Callers have set c->r = c->w = 0.
RemoveConnection(c) ==
    /\ conn' = [conn EXCEPT ![c] = "gone"]
    /\ rtpDests' = rtpDests \ {c}
    /\ rtpRequested' = [rtpRequested EXCEPT ![c] = FALSE]

\* reader_callback/logging_reader_callback at eof, all lines handled: close
\* the writer, c->r = c->w = 0, remove_connection.
ReaderEOF(c) ==
    /\ Alive
    /\ conn[c] = "open"
    /\ eof[c]
    /\ inbuf[c] = <<>>
    /\ RemoveConnection(c)
    /\ UNCHANGED <<listener, reader, authVars, lockVars, deferVars, clientVars,
                   parsed, out, crash>>

\* writer_error (write error, EPIPE, time or space bound exceeded) or
\* reader_error: the other half is cancelled, c->r = c->w = 0,
\* remove_connection.  Unread input is lost.
ConnError(c) ==
    /\ Alive
    /\ conn[c] = "open"
    /\ RemoveConnection(c)
    /\ UNCHANGED <<listener, reader, authVars, lockVars, deferVars, clientVars,
                   parsed, out, crash>>

\* A deferred command's child has exited and its callback runs: it writes
\* to c->w, which ev_writer_sink() turns into disorder_fatal() once the
\* connection is gone, then calls ev_reader_enable(c->r).
ChildDone(c, kind) ==
    /\ Alive
    /\ \E k \in deferred[c] :
         /\ k[1] = kind
         /\ deferred' = [deferred EXCEPT ![c] = @ \ {k}]
         /\ IF conn[c] = "open"
            THEN Reply(c, k[2]) /\ UNCHANGED crash
            ELSE crash' = "null_writer" /\ UNCHANGED out
    /\ UNCHANGED <<conn, listener, reader, authVars, lockVars, rtpVars,
                   rescanning, rescanWaiters, clientVars, parsed>>

\* got_stats: the stats subprocess has answered.
GotStats(c) == ChildDone(c, "stats")

\* sent_reminder: the sendmail child has exited ("250 OK" or 550).
SentReminder(c) == ChildDone(c, "reminder")

\* The rescan finishes: every registered finished_rescan callback runs and
\* writes to its connection's writer.
RescanDone ==
    /\ Alive
    /\ rescanning
    /\ rescanning' = FALSE
    /\ rescanWaiters' = {}
    /\ IF \E w \in rescanWaiters : conn[w[1]] # "open"
       THEN crash' = "null_writer" /\ UNCHANGED out
       ELSE /\ out' = [c \in Conn |->
                         out[c] \o SetToSortSeq({w[2] : w \in {x \in rescanWaiters : x[1] = c}}, <)]
            /\ UNCHANGED crash
    /\ UNCHANGED <<conn, listener, reader, authVars, lockVars, rtpVars, deferred,
                   clientVars, parsed>>

\* listen_callback: a new connection on listener k, not logged in, rights 0,
\* command reader, added to `connections'.
Accept(c, k) ==
    /\ Alive
    /\ conn[c] = "none"
    /\ conn' = [conn EXCEPT ![c] = "open"]
    /\ listener' = [listener EXCEPT ![c] = k]
    /\ UNCHANGED <<reader, authVars, lockVars, rtpVars, deferVars, clientVars,
                   parsed, out, crash>>

\* The client sends one line.
Send(c, l) ==
    /\ Alive
    /\ conn[c] = "open"
    /\ ~eof[c]
    /\ nsent[c] < MaxLines
    /\ Len(inbuf[c]) < MaxInbuf
    /\ inbuf' = [inbuf EXCEPT ![c] = Append(@, l)]
    /\ nsent' = [nsent EXCEPT ![c] = @ + 1]
    /\ UNCHANGED <<conn, listener, reader, authVars, lockVars, rtpVars, deferVars,
                   eof, parsed, out, crash>>

\* The client closes its end of the socket.
Close(c) ==
    /\ Alive
    /\ conn[c] = "open"
    /\ ~eof[c]
    /\ eof' = [eof EXCEPT ![c] = TRUE]
    /\ UNCHANGED <<conn, listener, reader, authVars, lockVars, rtpVars, deferVars,
                   inbuf, nsent, parsed, out, crash>>

\* One step of the reactor (ev_run) on behalf of connection c.
ServerStep(c) ==
    \/ Command(c)
    \/ BodyLine(c)
    \/ LogLine(c)
    \/ ReaderEOF(c)
    \/ GotStats(c)
    \/ SentReminder(c)

Next ==
    \/ \E c \in Conn, k \in Listeners : Accept(c, k)
    \/ \E c \in Conn, l \in Lines : Send(c, l)
    \/ \E c \in Conn : Close(c) \/ ConnError(c) \/ ServerStep(c)
    \/ RescanDone

\* ev_run() serves every ready fd and child on some later iteration, and a
\* started rescan or subprocess finishes; clients and the network owe
\* nothing.
Fairness ==
    /\ \A c \in Conn : WF_vars(ServerStep(c))
    /\ WF_vars(RescanDone)

Spec == Init /\ [][Next]_vars /\ Fairness

-----------------------------------------------------------------------------
(* Properties.                                                             *)

TypeOK ==
    /\ conn \in [Conn -> {"none", "open", "gone"}]
    /\ listener \in [Conn -> ListenerKind]
    /\ who \in [Conn -> User \cup {NoUser}]
    /\ rights \in [Conn -> SUBSET Right]
    /\ reader \in [Conn -> {"command", "log"}]
    /\ bodyFor \in [Conn -> {NoBody} \cup [pl : Playlist, id : Id]]
    /\ locked \in [Conn -> Playlist \cup {NoPlaylist}]
    /\ rtpRequested \in [Conn -> BOOLEAN]
    /\ rtpDests \subseteq Conn
    /\ deferred \in [Conn -> SUBSET ({"stats", "reminder"} \X Id)]
    /\ rescanning \in BOOLEAN
    /\ rescanWaiters \subseteq Conn \X Id
    /\ users \in [User -> UserState]
    /\ urights \in [User -> SUBSET Right]
    /\ inbuf \in [Conn -> Seq(Lines)]
    /\ nsent \in [Conn -> 0..MaxLines]
    /\ eof \in [Conn -> BOOLEAN]
    /\ parsed \in [Conn -> 0..MaxLines]
    /\ out \in [Conn -> Seq(Id)]
    /\ crash \in {"none", "null_who", "null_writer"}

\* A live session never holds more rights than its user's current database
\* record grants (plus `local'): deluser must zero the sessions of a deleted
\* user and `edituser NAME rights' must replace the rights of its sessions
\* (c_deluser, c_edituser), whichever connections they run on.
SessionRightsBounded ==
    Alive =>
      \A d \in Listed :
        who[d] # NoUser =>
          rights[d] \subseteq (IF users[who[d]] = "absent" THEN {}
                               ELSE urights[who[d]] \cup HostRights(d))

\* No two connections on the `connections' list hold the lock of the same
\* playlist (c_playlist_lock's scan), including after the holder has gone
\* and its stale c->locked_playlist is left behind.
LockExclusive ==
    Alive =>
      \A c, d \in Listed : c # d /\ locked[c] # NoPlaylist => locked[c] # locked[d]

\* The RTP destinations registered are exactly those of live connections
\* with an active request: rtp-request replaces, rtp-cancel removes, and
\* every way a connection is closed (eof, read or write error) cancels it
\* in remove_connection.
RtpDestsLive ==
    Alive => rtpDests = {c \in Listed : rtpRequested[c]}

\* The state without the reply log: for runs whose properties do not read
\* `out' or `parsed' (neither affects any guard).
StateView == <<conn, listener, reader, authVars, lockVars, rtpVars, deferVars,
               clientVars, crash>>

Answered(c, n) == \E i \in DOMAIN out[c] : out[c][i] = n

\* Command n of c is a playlist-set whose body the client is still to send.
AwaitsBody(c, n) == bodyFor[c] # NoBody /\ bodyFor[c].id = n

\* Every command handled on a connection is eventually answered while the
\* connection stays open: the deferred replies of stats, reminder and
\* rescan wait (got_stats, sent_reminder, finished_rescan) do arrive.  A
\* playlist-set waits on its client for the body, not on the server.
EveryCommandAnswered ==
    \A c \in Conn, n \in Id :
        parsed[c] >= n ~> (Answered(c, n) \/ AwaitsBody(c, n)
                           \/ conn[c] = "gone" \/ ~Alive)

\* The server never dereferences the NULL `who' of a connection that has
\* not logged in (the zap loops of c_deluser and c_edituser).
NoNullWhoCrash == crash # "null_who"

\* The server never writes a deferred reply to a connection whose writer
\* is gone (got_stats, sent_reminder, finished_rescan after the client
\* closed or the connection failed).
NoNullWriterFatal == crash # "null_writer"

\* Replies are written in the order the commands arrived (a command that
\* returns 0 must keep the next one from being read until it is answered).
RepliesInOrder ==
    \A c \in Conn : \A i, j \in DOMAIN out[c] : i < j => out[c][i] <= out[c][j]

=============================================================================
