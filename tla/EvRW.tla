-------------------------------- MODULE EvRW --------------------------------
(***************************************************************************)
(* The buffered reader/writer pair of lib/event.c, tied to one client      *)
(* socket, together with the parts of ev_run() that call them and the      *)
(* server.c callbacks that use them for one connection: writer_error,      *)
(* reader_error, the command reader_callback, command() and got_stats().   *)
(*                                                                         *)
(* Each C function of the pair is an operator from a world record to a     *)
(* world record (World below), so that a callback that calls another one   *)
(* is the composition of their operators, and an action is one callback    *)
(* run by ev_run() from its start to its return.  Bytes are abstracted to  *)
(* units of one reply; a line the client sends is one of Lines.            *)
(***************************************************************************)
EXTENDS Integers, Sequences, SequencesExt, Buffer

CONSTANTS
  SpaceBound,   \* w->spacebound, in reply units (a byte of Buffer is a unit here)
  Big,          \* size of the reply to a "bulk" command, in reply units
  MaxLines,     \* number of lines the client sends
  Lines         \* kinds of line: "reply", "bulk" (reply of Big units), "stats"

ASSUME SpaceBound \in Nat \ {0} /\ Big \in Nat \ {0} /\ MaxLines \in Nat
ASSUME Lines \subseteq {"reply", "bulk", "stats"}

Ok == "ok"                                  \* errno 0
Errno == {Ok, "EPIPE", "ETIMEDOUT"}
Mode == {"r", "w"}                          \* ev_read, ev_write for this fd
\* zero-delay timeout callbacks, and the writer's time bound
TimeoutCb == {"writer_shutdown", "reader_shutdown", "reader_continuation",
              "reader_enabled", "timebound"}
\* w->timeout: none; armed in the heap; due (its time has passed, still in
\* the heap); fired (taken out of the heap by ev_run, handle not cleared)
TbState == {"none", "armed", "due", "fired"}
Crashes == {"none", "command", "got_stats", "null_reader", "assert"}

Size(l) == IF l = "bulk" THEN Big ELSE 1

VARIABLES
  w,        \* struct ev_writer: fd # -1, eof, abandoned, error, buffer b, reader, timeout
  r,        \* struct ev_reader: fd # -1, eof, error, writer, unconsumed lines
  ev,       \* ev_source: timeout heap, running batch, loop phase, fd tables
  c,        \* struct conn: c->w, c->r, on the list, pending stats, callback state
  sock,     \* the socket: close() calls, shutdown() halves, misuse after close
  client,   \* the peer: lines sent, data in flight, EOF, reset
  crash     \* the server stopped with a fatal error or failed assertion

vars == <<w, r, ev, c, sock, client, crash>>

World == [w |-> w, r |-> r, ev |-> ev, c |-> c, sock |-> sock,
          client |-> client, crash |-> crash]

Become(T) == /\ w' = T.w /\ r' = T.r /\ ev' = T.ev /\ c' = T.c
             /\ sock' = T.sock /\ client' = T.client /\ crash' = T.crash

TypeOK ==
  /\ w \in [fd: BOOLEAN, eof: BOOLEAN, abandoned: BOOLEAN, error: Errno,
            b: [size: Nat, start: Nat, end: Nat], reader: BOOLEAN, tb: TbState]
  /\ Buffered(w.b) \in 0..SpaceBound
  /\ r \in [fd: BOOLEAN, eof: BOOLEAN, error: BOOLEAN, writer: BOOLEAN,
            buf: Seq(Lines)]
  /\ ev \in [pending: Seq(TimeoutCb), batch: Seq(TimeoutCb),
             phase: {"begin", "timeouts", "fds"}, tripped: SUBSET (Mode \cup {"sig"}),
             escape: BOOLEAN, en: [Mode -> BOOLEAN], reg: [Mode -> BOOLEAN]]
  /\ c \in [w: BOOLEAN, r: BOOLEAN, listed: BOOLEAN, stats: 0..MaxLines,
            cb: {"idle", "reading"}, eof: BOOLEAN]
  /\ sock \in [closes: Nat, shut: SUBSET {"RD", "WR"}, misuse: BOOLEAN]
  /\ client \in [sent: 0..MaxLines, data: Seq(Lines), eof: BOOLEAN, reset: BOOLEAN]
  /\ crash \in Crashes

-----------------------------------------------------------------------------
(* The fd table and the timeout heap. *)

\* ev_fd(): the fd is added to the mode's table and enabled
FdAdd(T, m) == [T EXCEPT !.ev.reg[m] = TRUE, !.ev.en[m] = TRUE, !.ev.escape = TRUE]

FdDisable(T, m) ==
  [T EXCEPT !.ev.en[m] = FALSE, !.ev.tripped = @ \ {m}, !.ev.escape = TRUE]

\* assert(fd >= 0): enabling the fd of a shut-down reader or writer aborts
FdEnable(T, m, valid) ==
  IF valid THEN [T EXCEPT !.ev.en[m] = TRUE] ELSE [T EXCEPT !.crash = "assert"]

FdCancel(T, m) ==
  [T EXCEPT !.ev.reg[m] = FALSE, !.ev.en[m] = FALSE,
            !.ev.tripped = @ \ {m}, !.ev.escape = TRUE]

AddTimeout(T, cb) == [T EXCEPT !.ev.pending = Append(@, cb)]

\* xclose() and shutdown() on the socket; any call after close is misuse
XClose(T) == [T EXCEPT !.sock.closes = @ + 1, !.sock.misuse = @ \/ T.sock.closes > 0]
HalfShut(T, how) ==
  [T EXCEPT !.sock.shut = @ \cup {how}, !.sock.misuse = @ \/ T.sock.closes > 0]

-----------------------------------------------------------------------------
(* The reader and writer, and the server's callbacks they call. *)

ReaderCancel(T) ==
  IF ~T.r.fd THEN T
  ELSE AddTimeout(FdDisable(T, "r"), "reader_shutdown")

WriterErrorKeepW(T) ==
  IF T.w.error # Ok /\ T.c.r THEN [ReaderCancel(T) EXCEPT !.c.r = FALSE] ELSE T

\* server.c writer_error(): cancel the reader on an error, forget the writer
WriterError(T) ==
  LET T1 == IF T.w.error # Ok /\ T.c.r
            THEN [ReaderCancel(T) EXCEPT !.c.r = FALSE] ELSE T
  IN  [T1 EXCEPT !.c.w = FALSE, !.c.listed = FALSE]

\* ev_timeout_cancel(): the writer's time bound is deactivated in the heap
TimeoutCancel(T) == [T EXCEPT !.w.tb = "none"]

WriterShutdownNoTie(T) ==
  IF ~T.w.fd THEN T
  ELSE WriterError([XClose(FdCancel(TimeoutCancel(T), "w")) EXCEPT !.w.fd = FALSE])

WriterShutdown(T) ==
  IF ~T.w.fd THEN T
  ELSE LET T1 == FdCancel(TimeoutCancel(T), "w")
           T2 == IF T.w.reader
                 THEN HalfShut([T1 EXCEPT !.r.writer = FALSE], "WR")
                 ELSE XClose(T1)
       IN  WriterError([T2 EXCEPT !.w.fd = FALSE])

WriterClose(T) ==
  IF T.w.eof THEN T
  ELSE IF Buffered(T.w.b) = 0
       THEN AddTimeout([T EXCEPT !.w.eof = TRUE, !.w.error = Ok], "writer_shutdown")
       ELSE [T EXCEPT !.w.eof = TRUE]

\* server.c reader_error(): close the writer and forget both halves
ReaderError(T) ==
  LET T1 == IF T.c.w THEN WriterClose(T) ELSE T
  IN  [T1 EXCEPT !.c.w = FALSE, !.c.r = FALSE, !.c.listed = FALSE]

ReaderShutdown(T) ==
  IF ~T.r.fd THEN T
  ELSE LET T1 == [FdCancel(T, "r") EXCEPT !.r.eof = TRUE]
           T2 == IF T.r.writer
                 THEN HalfShut([T1 EXCEPT !.w.reader = FALSE], "RD")
                 ELSE XClose(T1)
           T3 == [T2 EXCEPT !.r.fd = FALSE]
       IN  IF T.r.error THEN ReaderError(T3) ELSE T3

WriterSetTimebound(T) ==
  IF T.w.tb = "none" THEN [T EXCEPT !.w.tb = "armed"] ELSE T

TimeboundExceeded(T) ==
  WriterShutdown(IF ~T.w.abandoned
                 THEN [T EXCEPT !.w.abandoned = TRUE, !.w.error = "ETIMEDOUT"]
                 ELSE T)

\* buffer_space(), then the fd is enabled if the buffer was empty, the n
\* units are copied in after end, and the time bound is armed
CopyIn(T, n) ==
  LET b == buffer_space(T.w.b, n)
      T1 == IF Buffered(b) = 0 THEN FdEnable(T, "w", T.w.fd) ELSE T
  IN  WriterSetTimebound([T1 EXCEPT !.w.b = [b EXCEPT !.end = @ + n]])

\* Mutant of WriterWrite: no space bound.
WriterWriteNoBound(T, n) == CopyIn(T, n)

\* ev_writer_write(): over the space bound the writer is abandoned once
WriterWrite(T, n) ==
  IF Buffered(T.w.b) + n > SpaceBound
  THEN IF ~T.w.abandoned
       THEN AddTimeout([FdDisable(T, "w") EXCEPT !.w.abandoned = TRUE,
                                                 !.w.error = "EPIPE"],
                       "writer_shutdown")
       ELSE T
  ELSE CopyIn(T, n)

WriterCallbackNoEofShutdown(T, n) ==
  IF n = -1
  THEN WriterShutdown([T EXCEPT !.w.error = "EPIPE"])
  ELSE LET T1 == TimeoutCancel([T EXCEPT !.w.b.start = @ + n])
       IN  IF Buffered(T1.w.b) = 0 THEN FdDisable(T1, "w") ELSE WriterSetTimebound(T1)

\* writer_callback(): n units written, or n = -1 when write() fails
WriterCallback(T, n) ==
  IF n = -1
  THEN WriterShutdown([T EXCEPT !.w.error = "EPIPE"])
  ELSE LET T1 == TimeoutCancel([T EXCEPT !.w.b.start = @ + n])
       IN  IF Buffered(T1.w.b) = 0
           THEN IF T.w.eof THEN WriterShutdown([T1 EXCEPT !.w.error = Ok])
                ELSE FdDisable(T1, "w")
           ELSE WriterSetTimebound(T1)

\* redirect_reader_callback() into the server's reader_callback(): the
\* server then handles the buffered lines in steps of its own (ServerLine)
ServerCallback(T, eof) == [T EXCEPT !.c.cb = "reading", !.c.eof = eof]

ReaderIncomplete(T) == AddTimeout(FdDisable(T, "r"), "reader_continuation")

ReaderContinuation(T) ==
  ServerCallback(IF ~T.r.eof THEN FdEnable(T, "r", T.r.fd) ELSE T, T.r.eof)

ReaderEnabled(T) == ServerCallback(T, T.r.eof)

ReaderEnable(T) ==
  AddTimeout(IF ~T.r.eof THEN FdEnable(T, "r", T.r.fd) ELSE T, "reader_enabled")

RunTimeoutCb(T, cb) ==
  CASE cb = "writer_shutdown"     -> WriterShutdown(T)
    [] cb = "reader_shutdown"     -> ReaderShutdown(T)
    [] cb = "reader_continuation" -> ReaderContinuation(T)
    [] cb = "reader_enabled"      -> ReaderEnabled(T)
    [] cb = "timebound"           -> TimeboundExceeded(T)

-----------------------------------------------------------------------------
(* Creating the connection. *)

\* The world as listen_callback() finds it, inside an fd callback of ev_run;
\* xmalloc() zeroes the writer, the reader and the conn it allocates.
Fresh ==
  [w |-> [fd |-> FALSE, eof |-> FALSE, abandoned |-> FALSE, error |-> Ok,
          b |-> NoBuffer, reader |-> FALSE, tb |-> "none"],
   r |-> [fd |-> FALSE, eof |-> FALSE, error |-> FALSE, writer |-> FALSE, buf |-> <<>>],
   ev |-> [pending |-> <<>>, batch |-> <<>>, phase |-> "begin", tripped |-> {},
           escape |-> FALSE, en |-> [m \in Mode |-> FALSE], reg |-> [m \in Mode |-> FALSE]],
   c |-> [w |-> FALSE, r |-> FALSE, listed |-> FALSE, stats |-> 0, cb |-> "idle", eof |-> FALSE],
   sock |-> [closes |-> 0, shut |-> {}, misuse |-> FALSE],
   client |-> [sent |-> 0, data |-> <<>>, eof |-> FALSE, reset |-> FALSE],
   crash |-> "none"]

\* ev_writer_new(): register the fd for writing, then disable it, since the
\* buffer is empty
WriterNew(T) == FdDisable(FdAdd([T EXCEPT !.w.fd = TRUE], "w"), "w")

\* ev_reader_new(): register the fd for reading
ReaderNew(T) == FdAdd([T EXCEPT !.r.fd = TRUE], "r")

\* ev_tie(): both halves must still be untied
Tie(T) ==
  IF T.r.writer \/ T.w.reader THEN [T EXCEPT !.crash = "assert"]
  ELSE [T EXCEPT !.r.writer = TRUE, !.w.reader = TRUE]

\* server.c listen_callback(): the writer, the reader, the tie, the conn on
\* the list, and the greeting, one reply unit, written to c->w
ListenCallback ==
  LET T == Tie(ReaderNew(WriterNew(Fresh)))
  IN  WriterWrite([T EXCEPT !.c.w = TRUE, !.c.r = TRUE, !.c.listed = TRUE], 1)

Init ==
  LET T == ListenCallback
  IN  /\ w = T.w /\ r = T.r /\ ev = T.ev /\ c = T.c
      /\ sock = T.sock /\ client = T.client /\ crash = T.crash

-----------------------------------------------------------------------------
(* ev_run(): one loop iteration takes every due timeout out of the heap    *)
(* into a batch and runs it, then selects and runs the fd callbacks.       *)

Running == c.cb = "idle" /\ crash = "none"

\* the batch holds the zero-delay timeouts, then the time bound if it is due
BeginIteration ==
  /\ Running /\ ev.phase = "begin"
  /\ ev' = [ev EXCEPT !.batch = ev.pending \o (IF w.tb = "due" THEN <<"timebound">> ELSE <<>>),
                      !.pending = <<>>, !.phase = "timeouts"]
  /\ w' = [w EXCEPT !.tb = IF @ = "due" THEN "fired" ELSE @]
  /\ UNCHANGED <<r, c, sock, client, crash>>

\* zero-delay timeouts have equal keys, so the heap yields them in any order
RunTimeout(i) ==
  /\ Running /\ ev.phase = "timeouts" /\ i \in DOMAIN ev.batch
  /\ ev.batch[i] = "timebound" => Len(ev.batch) = 1
  /\ Become(RunTimeoutCb([World EXCEPT !.ev.batch = RemoveAt(@, i)], ev.batch[i]))

Readable == client.data # <<>> \/ client.eof \/ client.reset

\* select() reports the readable fd; writability and the exit of a stats
\* subprocess (signalled through the signal pipe) depend on the outside world
Select ==
  /\ Running /\ ev.phase = "timeouts" /\ ev.batch = <<>>
  /\ \E wr, sig \in BOOLEAN:
       LET T == {m \in {"r"} : ev.reg.r /\ ev.en.r /\ Readable}
                \cup (IF wr THEN {"w"} ELSE {}) \cup (IF sig THEN {"sig"} ELSE {})
       IN  /\ wr => ev.reg.w /\ ev.en.w
           /\ sig => c.stats > 0
           /\ T # {} \/ ev.pending # <<>> \/ w.tb \in {"armed", "due"}
           /\ ev' = [ev EXCEPT !.tripped = T, !.escape = FALSE, !.phase = "fds"]
  /\ UNCHANGED <<w, r, c, sock, client, crash>>

FdTurn(m) ==
  /\ Running /\ ev.phase = "fds" /\ ~ev.escape /\ m \in ev.tripped
  /\ m = "w" => ev.tripped = {"w"}          \* read fds are scanned first

\* event.c reader_callback(): read() returns data, 0 at EOF, or ECONNRESET
ReadCallback ==
  /\ FdTurn("r")
  /\ LET T == [World EXCEPT !.ev.tripped = @ \ {"r"}]
     IN  Become(
           IF client.reset
           THEN ReaderShutdown([T EXCEPT !.r.error = TRUE])
           ELSE IF client.data # <<>>
           THEN ServerCallback([T EXCEPT !.r.buf = @ \o client.data,
                                         !.client.data = <<>>], FALSE)
           ELSE ServerCallback(AddTimeout(FdDisable(T, "r"), "reader_shutdown"), TRUE))

\* event.c writer_callback(): write() sends part or all, EAGAIN, or EPIPE
WriteCallback ==
  /\ FdTurn("w")
  /\ LET T == [World EXCEPT !.ev.tripped = @ \ {"w"}]
     IN  \/ client.reset /\ Become(WriterCallback(T, -1))
         \/ ~client.reset /\ Buffered(w.b) > 0 /\ Become(T)     \* EAGAIN
         \/ ~client.reset /\ \E n \in IF Buffered(w.b) = 0 THEN {0} ELSE 1..Buffered(w.b) :
               Become(WriterCallback(T, n))

\* server.c got_stats(): reply, then turn the reader back on
GotStats ==
  /\ FdTurn("sig")
  /\ LET T == [World EXCEPT !.ev.tripped = @ \ {"sig"}, !.c.stats = @ - 1]
     IN  Become(IF ~c.w THEN [T EXCEPT !.crash = "got_stats"]
                ELSE IF ~c.r THEN [T EXCEPT !.crash = "null_reader"]
                ELSE ReaderEnable(WriterWrite(T, 1)))

EndFds ==
  /\ Running /\ ev.phase = "fds" /\ (ev.escape \/ ev.tripped = {})
  /\ ev' = [ev EXCEPT !.tripped = {}, !.phase = "begin"]
  /\ UNCHANGED <<w, r, c, sock, client, crash>>

-----------------------------------------------------------------------------
(* server.c reader_callback(): one line handed to command(), or the end of *)
(* the buffer.  A reply written while c->w is NULL is fatal.               *)

\* ev_reader_consume(): the line and its newline leave the reader's buffer
ReaderConsume(T) == [T EXCEPT !.r.buf = Tail(@)]

ServerLine ==
  /\ c.cb = "reading" /\ crash = "none" /\ r.buf # <<>>
  /\ LET l == Head(r.buf)
         T == ReaderConsume(World)
     IN  Become(
           IF l = "stats"
           THEN LET T1 == [T EXCEPT !.c.stats = @ + 1, !.c.cb = "idle"]
                IN  IF T.r.buf # <<>> \/ c.eof THEN ReaderIncomplete(T1) ELSE T1
           ELSE IF ~c.w THEN [T EXCEPT !.crash = "command"]
           ELSE WriterWrite(T, Size(l)))

ServerEnd ==
  /\ c.cb = "reading" /\ crash = "none" /\ r.buf = <<>>
  /\ Become(IF c.eof
            THEN LET T == IF c.w THEN WriterClose(World) ELSE World
                 IN  [T EXCEPT !.c.r = FALSE, !.c.w = FALSE, !.c.listed = FALSE,
                               !.c.cb = "idle"]
            ELSE [World EXCEPT !.c.cb = "idle"])

-----------------------------------------------------------------------------
(* The peer, and the passing of the ten minutes of the time bound. *)

ClientSend(l) ==
  /\ crash = "none" /\ client.sent < MaxLines /\ ~client.eof /\ ~client.reset
  /\ client' = [client EXCEPT !.sent = @ + 1, !.data = Append(@, l)]
  /\ UNCHANGED <<w, r, ev, c, sock, crash>>

ClientEOF ==
  /\ crash = "none" /\ ~client.eof /\ ~client.reset
  /\ client' = [client EXCEPT !.eof = TRUE]
  /\ UNCHANGED <<w, r, ev, c, sock, crash>>

ClientReset ==
  /\ crash = "none" /\ ~client.reset
  /\ client' = [client EXCEPT !.reset = TRUE, !.data = <<>>]
  /\ UNCHANGED <<w, r, ev, c, sock, crash>>

Expire ==
  /\ crash = "none" /\ w.tb = "armed"
  /\ w' = [w EXCEPT !.tb = "due"]
  /\ UNCHANGED <<r, ev, c, sock, client, crash>>

Loop ==
  \/ BeginIteration \/ (\E i \in 1..Len(ev.batch) : RunTimeout(i)) \/ Select
  \/ ReadCallback \/ WriteCallback \/ GotStats \/ EndFds \/ ServerLine \/ ServerEnd

Next ==
  \/ Loop \/ Expire
  \/ (\E l \in Lines : ClientSend(l)) \/ ClientEOF \/ ClientReset

\* The loop runs whenever it can, and ten minutes eventually pass.  The
\* peer is not assumed to send, read or close.
Spec == Init /\ [][Next]_vars /\ WF_vars(Loop) /\ WF_vars(Expire)

-----------------------------------------------------------------------------
(* Properties *)

(* The tie hands the close of the socket to whichever half shuts down last: *)
(* writer_shutdown() and reader_shutdown() each call shutdown() while the   *)
(* other half is still tied and close() otherwise.  The fd is closed at     *)
(* most once, nothing is done to it after the close, and it is no longer in *)
(* the event loop's fd tables when it is closed.                            *)
FdReleasedOnce ==
  /\ sock.closes <= 1
  /\ ~sock.misuse
  /\ sock.closes = 1 => ~ev.reg.r /\ ~ev.reg.w

(* While the connection still holds its writer (c->w is not NULL), that    *)
(* writer has not been shut down or closed: writer_error() and every       *)
(* ev_writer_close() call in server.c clear c->w, so no reply is written   *)
(* to a writer whose fd is gone (ev_writer_write would then enable fd -1). *)
WriterHandleLive == c.w => w.fd /\ ~w.eof

(* Once the peer has closed or reset its end, the server eventually closes *)
(* the socket: the reader sees EOF or the error, the writer drains or is   *)
(* abandoned by its time bound, and the tie makes the last half close it. *)
PeerGoneReleased ==
  (client.eof \/ client.reset) ~> (sock.closes > 0 \/ crash # "none")

(* ev_writer_write() copies each reply to end after buffer_space() has     *)
(* made room for it, and writer_callback() writes from start to end, so    *)
(* the writer's buffered bytes always lie inside its block: through the   *)
(* first block, its compactions and the moves to larger blocks, no copy   *)
(* runs past top.                                                          *)
WriterBufferInBlock == w.b.start <= w.b.end /\ w.b.end <= w.b.size

(* command() writes every reply through c->w; it is never run for a line  *)
(* after writer_error() has set c->w to NULL.                               *)
CommandHasWriter == crash # "command"

=============================================================================
