# TLA+ models of the DisOrder server

This directory holds TLA+ models of the DisOrder jukebox server (`src/`),
the TLC configurations that check them, and `PROJECT.json`. That file lists
the components, the runs, the mutants, the source lines each definition
models, the findings and the hazards.

## The system

DisOrder is one long-running, single-threaded server process. Everything
runs from a `select()` reactor (`src/lib/event.c`, `ev_run`). The reactor
dispatches:

- readable and writable fds;
- timeouts, both expired and zero-delay;
- signals, through a self-pipe;
- child-process exits, through the SIGCHLD handler and `sigchld_callback`;
- new connections on listeners.

No code runs concurrently with anything else. The hard behaviours all come
from the order in which callbacks of different actors run across iterations
of the loop.

| Part | Source | State | Operations | Interacts with |
|---|---|---|---|---|
| A Event reactor | `lib/event.c` | fd tables with an `escape` flag, timeout heap, signal table, child table, reader/writer buffers, `ev_tie` | `ev_run`, `ev_fd*`, `ev_timeout*`, `ev_signal*`, `ev_child*`, `ev_writer_*`, `ev_reader_*` | every other part |
| F Listener / connection | `server/server.c` `listen_callback`, `reader_callback`, `writer_error`, `reader_error`, `remove_connection` | the `connections` list; per connection `struct conn` (lines 77-127) | accept, line splitting, eof, I/O errors, teardown | A, D |
| D Protocol engine | `server/server.c` commands table (lines 1968-2059) and the `c_*` handlers | `who`, `rights`, `reader` (command or log), `line_reader` (command or body), `locked_playlist`, `rtp_requested`, `lo` | roughly 90 commands: authentication, user management, playlists, log, stats, rescan, reminder, RTP requests, queue commands | A, C, E, trackdb |
| C Queue engine | `server/server.c` `c_play` … `c_adopt`; `lib/queue.h` | the queue and `playing` (`server-queue.c` and `play.c` are not in the tree) | play, playafter, remove, scratch, move, moveafter, adopt, pause, resume | D, decoder children via A |
| E RTP sender | `server/speaker-network.c`, `lib/uaudio-rtp.c`, `lib/rtp.h` | `rtp_time`, `rtp_time_0`, `rtp_seq`, `audio_errors`, `idled` | `network_play`, `network_beforepoll`, `rtp_play`, `rtp_start` | the speaker loop |
| Hash table | `lib/hash.c` | slots and chained entries | `hash_add`, `hash_find`, `hash_remove`, `grow`, `hash_count`, `hash_keys`, `hash_foreach` | D (`c_reminder` rate limit) |
| Client library | `lib/client.c` | the connection, its greeting and authentication state | `disorder_simple_v` (dot-stuffed bodies), `readlist`, `disorder_connect_generic` | D over the wire |
| CGI, GUI, MIME parsing | `server/cgi.c`, `server/lookup.c`, `disobedience/*`, `lib/mime.c` | per-request state | template expansion, GTK callbacks, string parsing | D as a client |

### The hard behaviours in this code

- **Pipelined commands and deferred replies.** Three commands answer from a
  later callback: `stats` (through `got_stats`), `reminder` (through
  `sent_reminder`) and `rescan wait` (through `finished_rescan`). Each
  returns 0, but nothing disables the reader. The specification says input
  is disabled until completion. In the code, the next pipelined line is
  parsed at once.
- **Teardown racing a callback.** A connection can vanish between a
  command and its deferred callback, through eof, a read error, or a write
  error (EPIPE, time bound or space bound). `c->w` is then NULL when the
  callback writes.
- **Cross-connection state.**
  - Lock holders are found by scanning the `connections` list.
  - The rights of every session of a user are zeroed by the loops in
    `c_deluser` and `c_edituser`.
  - RTP unicast destinations are dropped by `remove_connection`.
- **Authentication sequences:** `user`, `confirm`, `register`, `cookie`.
- **Reactor internals:**
  - swap-removal during the fd scan and the SIGCHLD scan;
  - the batch of expired timeouts;
  - the tied reader/writer closing one fd exactly once;
  - the writer's time and space bounds.
- **Numeric edges in the RTP sender:**
  - the 64-bit `rtp_time` truncated to a 32-bit timestamp;
  - idle-gap catch-up;
  - the error counter that is halved on success and fatal at exactly 10.
- **The hash table's key comparison.**

## Modules

| Module | Models | Status |
|---|---|---|
| `Server.tla` | parts D and F: connections, authentication, user management, playlist locks and bodies, RTP requests, log subscription, deferred commands, teardown | built |
| `MC_Server.tla` | model values and command alphabets for `Server` | built |
| `EvRW.tla` | part A: the buffered reader/writer pair tied to one socket, `ev_run`'s timeout batch and fd scan, and the `server.c` callbacks of one connection | built |
| `Buffer.tla` | `struct buffer` and `buffer_space` of `lib/event.c`: the writer's block as size, start and end offsets | built |
| `MC_EvRW.tla` | line alphabets for `EvRW` | built |
| `HashMap.tla` | what `lib/hash.c` promises: a map with `hash_add`'s three modes, `hash_remove`, `hash_find`, `hash_count`, and `hash_keys`/`hash_foreach` listing every stored key once in no particular order; `seen` holds the keys the last call listed or visited | built |
| `HashTable.tla` | `lib/hash.c`: the chained table, `hashfn`, `grow`, and all six calls; `hash_keys` and `hash_foreach` walk bucket 0 upwards and each chain from its head, and the callback of `hash_foreach` continues or stops the walk; refines `HashMap` | built |
| `MC_HashTable.tla` | keys as byte sequences, including two whose hashes collide | built |
| `RtpSender.tla` | part E, the speaker's two RTP backends: `network_beforepoll` and `network_play` of `speaker-network.c`, driven by the speaker loop, or `rtp_start` and `rtp_play` of `uaudio-rtp.c`, called by the uaudio play thread | built |
| `MC_RtpSender.tla` | the state view for `RtpSender` | built |
| `Reactor.tla` | part A, the reactor itself: `ev_run`'s select and readiness scan over the read and write fd tables, `ev_fd`, `ev_fd_cancel`, `ev_fd_enable`, `ev_fd_disable`, the listeners (`ev_listen`, `listen_callback`'s accept loop, `server.c`'s `listen_callback` registering each socket with `ev_writer_new` and `ev_reader_new`), the signal pipe, and the SIGCHLD reaper (`sigchld_callback`, `ev_child`, `ev_child_cancel`) | built |
| `MC_Reactor.tla` | pids for `Reactor` | built |

### How `Server` corresponds to the code

Each connection `c` of the constant set `Conn` is one `struct conn`. Its
variables, and the code they stand for:

| Variable | Code |
|---|---|
| `conn[c]` | `"open"` while on the `connections` list; `"gone"` once `remove_connection` has run and `c->r` and `c->w` are 0 |
| `listener[c]` | `c->l`: privileged UNIX, unprivileged UNIX, or TCP |
| `who[c]`, `rights[c]` | `c->who`, `c->rights` |
| `reader[c]` | `c->reader`: `reader_callback` or `logging_reader_callback` |
| `bodyFor[c]` | `c->line_reader == body_line`, holding the body's playlist and the command it answers |
| `locked[c]` | `c->locked_playlist` |
| `rtpRequested[c]` | `c->rtp_requested` |

The shared variables:

| Variable | Stands for |
|---|---|
| `rtpDests` | the destinations registered with `rtp_request()` |
| `deferred[c]` | the children whose callbacks (`got_stats`, `sent_reminder`) will answer a command |
| `rescanning`, `rescanWaiters` | `trackdb_rescan_underway()` and the registered `finished_rescan` callbacks |
| `users`, `urights` | the trackdb user table |

The client side:
- `inbuf[c]` holds lines sent and not yet handled.
- `nsent[c]` counts the lines sent.
- `eof[c]` records that the client has closed.

Replies are abstracted to the number of the command they answer. `out[c]`
lists them in the order written; `parsed[c]` numbers the commands.
`crash` records that the process died: through `disorder_fatal` from
`ev_writer_sink(NULL)`, or through SIGSEGV from `strcmp(NULL, …)`. Once it
is set, no step runs.

Actions, one per handler or callback:
- `Command(c)` is `reader_callback` → `command()`. It covers unknown and
  unparseable lines (500), then the rights check against the `commands`
  table (510), then the handler `C_<name>`.
- `BodyLine(c)` is `body_line` with `c_playlist_set_body`.
- `LogLine(c)` is `logging_reader_callback`.
- `ReaderEOF(c)` is the eof branch of the reader callbacks.
- `ConnError(c)` is `writer_error` or `reader_error`.
- `GotStats(c)`, `SentReminder(c)` and `RescanDone` are the completion
  callbacks.
- `Accept(c, k)` is `listen_callback`.
- `Send` and `Close` are the client.

Data the handlers take from outside is an input of the line (`l.opt`):
- whether the login response or confirmation string is right;
- whether trackdb allows a playlist;
- whether an RTP address parses;
- whether the checks of `c_reminder` before the fork pass (mail sender,
  user, email, password, rate limit, fork).

Outcomes the code takes from trackdb and does not examine further are
left to the line: `register`, `adduser`, `deluser` and `edituser` succeed
or fail by the user's state in `users`. The text of every reply is left
out.

### How `EvRW` corresponds to the code

`EvRW` follows one client connection from `listen_callback` to the close
of its socket. It works at the level of `lib/event.c`:
- `w` is the `struct ev_writer`: whether its fd is still set, `eof`,
  `abandoned`, `error`, its buffer `b` (the block's size and the `start` and
  `end` offsets, with `Buffer`'s `buffer_space`), its `reader` tie, and its
  time-bound handle `timeout`;
- `r` is the `struct ev_reader`: fd, `eof`, `error`, its `writer` tie, and
  the unconsumed lines in its buffer;
- `ev` is the `ev_source`: the heap of pending zero-delay timeouts, the
  batch `ev_run` is running, the loop phase, the `tripped` fds, `escape`,
  and the enabled and registered bits of the read and write fd;
- `c` is the server's `struct conn`: `c->w`, `c->r`, whether it is still
  listed, the pending stats subprocesses, and whether `reader_callback` is
  running;
- `sock` counts `close()` calls and records the `shutdown()` halves.
  `sock.misuse` is set by any of them after the close.

`Init` is the state `listen_callback` leaves: `ev_writer_new` registers
the write fd and disables it, `ev_reader_new` registers and enables the
read fd, `ev_tie` ties them, and the greeting is written with
`ev_writer_write`. Each write makes room with `buffer_space`: an empty
buffer is rewound, and a short one is compacted or copied into the first
doubling of `MinBlock` that holds the old and new bytes.

Each C function is an operator from a world record to a world record. A
function that calls another is the composition of their operators. For
example, `WriterShutdown` ends in `WriterError`, which may call
`ReaderCancel`. An action is one callback that `ev_run` makes:
- `BeginIteration` snapshots the due timeouts;
- `RunTimeout(i)` runs one of them. Equal-time timeouts leave the binary
  heap in an order its code (not in the tree) does not fix, so any order
  is allowed. The time bound runs last, since its key is later;
- `Select` reports the readable fd, and nondeterministically the writable
  fd and an exited stats child;
- `ReadCallback`, `WriteCallback` and `GotStats` are the fd callbacks.
  They are scanned reads first and stop at `escape`;
- `EndFds` ends the iteration.

`ServerLine` and `ServerEnd` are the loop body and the eof tail of the
server's `reader_callback`. The command's reply is abstracted to a write
of one unit, or `Big` units for `bulk`. `stats` is `c_stats` returning 0.
A reply written while `c->w` is NULL is the fatal error of
`ev_writer_sink(NULL)`. The client sends lines, closes, or resets;
`Expire` is the passing of the ten-minute time bound.

### How `RtpSender` corresponds to the code

Time and `rtp_time` count samples, two per stereo frame. `now` is the
wall clock and `Target` is `now - rtp_time_0`, the sample count the
clock says should have gone out. It is the conversion `network_play` and
`network_beforepoll` make from `tvsub_us(now, rtp_time_0)`.

| Model | Code |
|---|---|
| `rtp_time`, `rtp_time_0`, `rtp_seq`, `audio_errors` | the statics of the same names in `speaker-network.c`; for the uaudio backend, the schedule's sample count, `rtp_sequence` and `rtp_errors` |
| `backend`, `rtp_base` | the backend the speaker was built with; `uaudio-rtp.c`'s `rtp_base` (0 for the network backend, which has none) |
| `idled` | the speaker loop's `idled`, which `network_play` reads and clears |
| `registered` | `network_beforepoll` added `bfd` to the poll set with `POLLOUT` in this iteration |
| `slotReady` | `fds[bfd_slot].revents` has `POLLOUT` or `POLLERR`: what `network_ready` returns |
| `sent` | the last packet `writev` put on the wire: its first sample, its length, and its `seq`, `timestamp` and marker header fields |
| `idleSince` | auxiliary: the loop went idle since the last packet was sent |
| `failRun` | auxiliary: writes failed in a row since the last success |

The two backend functions are modelled whole:
- `network_beforepoll` re-takes the base time while `rtp_time` is 0. It
  registers `bfd` only while the sender is less than `samples_ahead` ahead
  of the clock.
- `network_play(frames, ok)` does the following:
  - after an idle gap, it catches `rtp_time` up to the even target, never
    back;
  - it caps the packet at `NETWORK_BYTES`;
  - it fills the header from `rtp_seq++`, `(uint32_t)rtp_time` and
    `idled`, then clears `idled`;
  - it writes. A success (`ok`) halves `audio_errors` and advances
    `rtp_time`. A failure counts an error, and at 10 errors it calls
    `fatal`.

  The parts of `network_play` are named operators (`CatchUp`, `Capped`,
  `NextSeq`, `ErrorCount`), so that each mutant replaces one of them.

`speaker.c` is not in the tree. Its loop is modelled from the backend
contract of `speaker.h` and specification 4.E (spec_modelled):
beforepoll, `poll` taking any time up to `MaxTick`, and then one of
three steps:
- `Play`: the backend is ready and a track has data;
- `Idle`: no track is playing;
- `Wait`: a track is playing but `network_ready` returns 0.

`network_ready` reads `fds[bfd_slot]`, and `bfd_slot` is only set when
`network_beforepoll` adds `bfd`. `SlotAfterPoll` is what `poll` leaves
in that slot:
- when `bfd` was added, whether the socket is writable;
- otherwise the slot is left over from an earlier iteration. If this
  iteration's array is shorter, `poll` leaves the slot alone and its old
  `POLLOUT` stays. If the array is longer, the slot holds another fd,
  polled for input, which reports no `POLLOUT`.

`Play` is guarded by `slotReady`, as the code is. Sends on a stale slot
could run ahead without end, so `SentBound` (`MaxTime + Ahead`) caps
`rtp_time` before a `network_play`. Every send that `beforepoll` asked
for starts below that bound, so the cap only cuts off stale sends.

Tracks start and end at any time.

`backend` is the backend the speaker was built with, chosen in `Init`
from `Backends`. With `"uaudio"` the state starts as `rtp_start` leaves
it. `rtp_base` and `rtp_seq` take any initial value, as
`gcry_create_nonce` gives them. One action, `UaudioPlay(ns, paused,
resume, ok)`, is a call of `rtp_play` by the play thread:
- `rtp_seq` advances on every call, before the paused test and before
  `writev`;
- with `UAUDIO_PAUSED` nothing is sent, and the samples are reported to
  the schedule;
- a failed write counts an error in `rtp_errors` (`audio_errors` here),
  fatal at 10, and reports nothing;
- a successful write halves the count and puts on the wire a packet
  stamped `rtp_base` plus the schedule's count, with the marker bit from
  `UAUDIO_RESUME`. It reports the samples sent.

For this backend `rtp_time` is the schedule's count of samples reported
sent. `uaudio-schedule.c` and `uaudio-thread.c` are not in the tree, so
the model assumes only what `rtp_play` relies on:
- the timestamp is the count of samples reported so far;
- the thread passes between one frame and a packet's worth of samples
  (the limits `rtp_start` hands to `uaudio_thread_start`);
- it may pass `PAUSED`, or `RESUME` on a call that is not paused, on any
  call.

`MaxTime` bounds the samples reported. The schedule's pacing against the
clock is not modelled, so `PacedWhenPolled` is stated for the network
backend only.

### How `Reactor` corresponds to the code

`Reactor` is the `ev_source` without its timeouts, which are in `EvRW`:

| Model | Code |
|---|---|
| `fds[m]` | `ev->mode[m].fds[0..nfds-1]`, in table order; each entry is the fd and a registration number, which tells a re-used fd number apart |
| `enabled[m]`, `tripped[m]` | the `fd_set`s of the same names |
| `escape` | `ev->escape` |
| `phase`, `mi`, `n` | where `ev_run` is: in `select()`, in the scan at mode `mi` and index `n`, inside `listen_callback`'s accept loop, or inside `sigchld_callback` |
| `polled` | the registrations in the tables when `select()` returned |
| `children`, `cn`, `revisit` | `ev->children[0..nchildren-1]` and `sigchld_callback`'s locals |
| `sigpending`, `pipe` | a blocked, pending SIGCHLD, and the bytes in the signal pipe |
| `alive`, `exited`, `reaped` | the kernel's view of each child, and whether its callback has run |
| `backlog`, `nconn` | the connections waiting in each listener's accept queue, and those clients have made |
| `fatal` | `disorder_fatal()` has ended the process |

The actions are the following:
- `Select` is `tripped = enabled`, the unblocked `select()` (during which
  a pending SIGCHLD writes its byte), and `escape = 0`.
- `ScanSkip`, `DispatchFd` and `ScanNextMode` are the two nested scan
  loops with their `!ev->escape` conditions.
- `DispatchSignal` is `signal_read`.
- `DispatchListener`, `Accept` and `AcceptEnd` are `listen_callback`,
  which `ev_listen` registered on the listener. `Accept` is one turn of
  its accept loop. The kernel hands out the lowest free descriptor
  (`FreeFd`). With none free, `accept()` fails with `EMFILE`, and the
  switch's default case calls `disorder_fatal`. A descriptor at or above
  `FD_SETSIZE` makes `ev_writer_new` fail, and the socket is closed.
  Otherwise `NewConnection` is `server.c`'s `listen_callback`:
  `ev_writer_new` (`ev_fd` for write, then `ev_fd_disable`) and
  `ev_reader_new` (`ev_fd` for read), both of which set `escape`.
  `AcceptEnd` is the loop ending on `ECONNABORTED`/`EPROTO` (the
  connection is dropped) or `EAGAIN` (the queue is empty).
- `Connect` is a client connecting; `Exited` is the dead process.
- `ReapWait` and `ReapEnd` are one `wait4` of `sigchld_callback` and the
  end of one pass of its `do … while(revisit)`.
- `ChildExit` is the kernel.

A fd callback (`FdCallback`) stands for the callers' callbacks. It may
make one of the calls they make: `ev_fd` of a new fd, `ev_fd_cancel`,
`ev_fd_enable` or `ev_fd_disable` of a registered one, or `ev_child` after
a fork. A child's callback may start another child. Those calls are
modelled from the code and bounded by `MaxOps`. Server startup is not in
the tree, so the listeners and the signal pipe are registered in any
order. Listeners are read only by `listen_callback`: the callbacks' own
calls act on the other descriptors (`CallerFd`). A listener is readable
exactly while its accept queue is not empty (`Pending`), and `select()`
reports it then; other descriptors become ready at any time.

### Fairness

In `EvRW` the loop is weakly fair (`WF_vars(Loop)`) and so is the passing
of time (`WF_vars(Expire)`). Nothing is assumed of the peer: it may never
read again, so the writer may see `EAGAIN` forever.

`ev_run` serves every ready fd, expired timeout and exited child on some
later iteration: select is level-triggered, and the scan restarts on the
next iteration after an `escape`. A started subprocess (stats, sendmail)
and a started rescan finish. So each connection's server steps
(`ServerStep(c)`) and `RescanDone` are weakly fair. Clients and the
network owe nothing: `Send`, `Close`, `Accept` and `ConnError` have no
fairness.

In `Reactor` the loop is weakly fair (`WF_vars(Loop)`), for the same
reasons as in `EvRW`. A child owes nothing: it may run forever. Neither do
clients: `Connect` has no fairness. After `disorder_fatal` the loop is
gone, so `EveryExitReaped` is stated up to `fatal`.

`RtpSender` checks safety only. Its progress depends on the decoder and
the network, which owe it nothing.

## Runs

All Server runs use two connections (`c1`, `c2`), users `ua` and `ub`, and
one playlist `p1`:
- `ua` is a confirmed administrator with read, play, admin, register,
  rescan and userinfo rights;
- `ub` starts absent;
- `config->remote_userman` is off, so user management needs the `local`
  right.

Each run has a command alphabet `Lines…` chosen for its question. Two
bounds apply:
- `MaxLines` bounds the lines a client sends. Three lines is enough for a
  login plus two commands: a lock and a `playlist-set`, or a
  `playlist-set` and its terminating `.` (answered 550 without the lock).
  A lock, a body and an I/O error on the other connection all fit.
- `MaxInbuf` bounds how many lines a client sends ahead of the server. It
  is 1, except 2 in the pipelining run.

`CHECK_DEADLOCK FALSE`: when the clients have used their lines, the
server idles in `select()`. That is a real stop of the bounded system, not
a deadlock.

`SYMMETRY` on the connections is used in the safety runs. Nothing in the
model orders connections: the zap loops act on all of them. The liveness
run has no symmetry. `VIEW StateView` leaves out `out` and `parsed` in
runs whose properties do not read them. No guard reads them.

| Run | Expect | Property | What it shows |
|---|---|---|---|
| `server_safety` | pass | `TypeOK`, `SessionRightsBounded`, `RtpDestsLive`, `LockExclusive` | After any sequence of login, confirm, register, adduser, deluser and edituser (rights or password) on two connections, no live session holds more rights than its user's current database record plus `local`. A deleted user's sessions hold none. Over the same runs, the registered RTP destinations are exactly those of live connections with an active request, after request, re-request, cancel, eof and errors. No two live connections hold the same playlist lock, including when a holder goes and its stale `locked_playlist` is left in the freed struct. The alphabet is the union of the session, RTP and lock commands. The listeners are the privileged UNIX socket and TCP. The unprivileged UNIX socket gives `local` as the privileged one does, and checks the password as TCP does, so it adds no case. |
| `server_deferred` | pass | `EveryCommandAnswered` | Under the reactor's fairness, every handled command on a connection that stays open is answered, including stats, reminder, and rescan wait piggybacking on an underway rescan. Listeners are limited to the unprivileged UNIX socket, which gives the `local` right that `reminder` needs. `log` is in the alphabet, so a connection can turn into a log subscriber. A `playlist-set` whose body the client has not finished waits on the client, so it is exempt (`AwaitsBody`). |
| `server_null_who` | violation | `NoNullWhoCrash` | `c1` logs in and changes its own password while `c2` is connected but not logged in; `strcmp(NULL, …)` kills the server. |
| `server_reply_order` | violation | `RepliesInOrder` | `stats` then `nop` pipelined: `nop` is answered first. |
| `server_null_writer` | violation | `NoNullWriterFatal` | `stats` then client close: `got_stats` writes to `c->w == NULL`, which is fatal. |

The EvRW runs use a space bound of 2 units. The greeting is 1 unit and a
`bulk` reply 2, so one `bulk` reply on top of the unread greeting
abandons the writer; that is the 512 KiB bound in miniature. The client
sends up to `MaxLines` lines from `reply`, `bulk` and `stats`, then may
close or reset at any time. `MinBlock` is 1 unit rather than 16 bytes, so
the greeting takes a new block, a later reply a larger one, and a reply
after a partial write compacts the block. Four lines allow a bulk reply, a deferred
command and a line behind it, plus one more.

| Run | Expect | Property | What it shows |
|---|---|---|---|
| `evrw_pair` | pass | `TypeOK`, `FdReleasedOnce`, `WriterHandleLive`, `WriterBufferInBlock`, `PeerGoneReleased` | In every interleaving of peer, timeouts, fd callbacks and server callbacks, the tie hands the close to the last half. The socket is closed at most once, nothing touches it after that, and it has left the fd tables when it is closed. `c->w` never names a writer that has shut down. The writer's `start` and `end` stay inside its block through the first allocation, growth and compaction. This includes a time bound that fires in the same batch after `writer_shutdown`. Once the peer has closed or reset, the socket is eventually closed, assuming only fairness of the loop and of time, even if the peer never reads again. |
| `evrw_cmd_null_writer` | violation | `CommandHasWriter` | `bulk`, `stats` and `reply` arrive in one read. `bulk` abandons the writer and queues `writer_shutdown`. `stats` leaves `reply` for a queued `reader_continuation`. In the next batch `writer_shutdown` runs `writer_error`, which sets `c->w = NULL`. The continuation then runs `reply`, which is fatal. |

The Reactor run registers the listener (3) and the signal pipe (0) before
the loop. `accept()` can hand out descriptor 4 only, so a second
connection while the first is open finds the process at its descriptor
limit (`EMFILE`). `FD_SETSIZE` is 1024, as on Linux, where the default
descriptor limit is also 1024: the `ev_writer_new` failure is in the
model but not reached. Clients connect at most twice (`MaxConns` = 2).
Two children `p1` and `p2` are in the table, with a third pid to spare.
Callbacks make at most two library calls (`MaxOps` = 2). That is enough
for the following cases:
- a cancel that swaps the last entry into the slot being scanned;
- a disable of an fd `select()` has already reported;
- a cancel followed by an `ev_fd` that re-uses the fd number in the
  other mode;
- a connection closed early in a scan whose descriptor number the
  listener's next `accept()` hands to a new connection, with the old
  readiness still in `tripped`;
- an `EMFILE` that ends the server;
- two exits coalescing into one signal byte, where reaping the first
  swaps the second into its slot;
- a child callback that starts a fresh child, which then exits.

A third child, or a second descriptor for connections, multiplies the
states by four and adds no new case.

| Run | Expect | Property | What it shows |
|---|---|---|---|
| `reactor` | pass | `TypeOK`, `DispatchCurrent`, `ChildrenTracked`, `EveryExitReaped` | `ev_run` calls a fd callback only for a registration that is still in its table, still enabled, and was there when `select()` returned. This includes the sockets `listen_callback` registers in mid-scan, which may reuse the descriptor number of a connection closed earlier in the same scan. The masks handed to `select()` name only registered fds (a stale one would be `EBADF`). The children table holds each unreaped child once, through swap-removals in mid-scan. Under the loop's fairness, every child that exits has its callback run, even when SIGCHLDs coalesce and `ev_child_cancel` moves a child into a slot already passed. |

The HashTable runs use values `v1`, `v2`, and keys written as byte
sequences. `InitSlots` is 1 where `hash_new` uses 256. A table of one slot
makes four keys grow it three times (1, 2, 4, 8). That exercises `grow`
and the `nitems >= nslots` threshold, which 256 slots would reach only
after 256 keys. The keys hash below 2^12, so reducing `hashfn` modulo
2^64 never changes a value. `SizeMod` is therefore given a value TLC's
integers hold. `"aB"` and `"b!"` hash to 3267 at any width
(33·97+66 = 33·98+33), so the collision is not an artefact of a small
word. No `CHECK_DEADLOCK FALSE` is needed here: a caller can always make
another call.

| Run | Expect | Property | What it shows |
|---|---|---|---|
| `hash_refines` | pass | `TypeOK`, `LoadBounded`, `ImplementsHashMap` | Keys `a`, `b`, `c`, `aB` have distinct hashes, but they share buckets at every size. For them, every sequence of `hash_add` in all three modes, `hash_remove`, `hash_find`, `hash_count`, `hash_keys` and `hash_foreach` refines `HashMap` under the mapping "each key to the value of the entry holding it". That holds through three grows, which reverse chains. Every call returns what the map says: the count is the number of stored keys, and the walk lists each stored key exactly once. `nitems` always equals the entries the chains hold and never exceeds `nslots`. |
| `hash_collision` | violation | `ImplementsHashMap` | `hash_add("aB", v1)`, then `hash_add("b!", v1)`. The second call finds `aB`'s entry, overwrites its value and returns 0. `b!` is not stored, yet `HashMap` says it now is. |

The RtpSender runs use the following bounds:
- `Ahead` is 8 samples;
- a packet holds at most `MaxFrames` = 2 frames;
- the loop offers 1 or 3 frames, so the cap is exercised;
- one `poll` takes 0 to 4 samples of wall time;
- the clock stops at 12;
- two tracks start;
- `rtp_seq` is taken modulo 4 and the timestamp modulo 8, so both wrap
  within the bound.

Together these allow an idle gap long enough for the catch-up, and a
track ending while the sender is still ahead. Failed writes take no wall time (a
poll may take 0 samples), so any pattern of failures fits. That includes
ten in a row, and nine, a success, then the six more that are fatal.

`CHECK_DEADLOCK FALSE` is set because `fatal()` ends the speaker
process. `rtp_pacing` lets `Init` choose either backend, and `rtp_marker`
the network backend only, whose loop sets `idled`.
`VIEW StateView` leaves out `rtp_seq`, `rtp_base` and the header fields
(`seq`, `ts`) of the last packet. No guard reads them, and
`rtp_seq` advances the same way on every path, so states that differ
only in them have the same futures. `MarkerAfterIdle` reads only the
marker bit.

| Run | Expect | Property | What it shows |
|---|---|---|---|
| `rtp_pacing` | pass | `TypeOK`, `FatalNeedsBurst`, `NoOverlap`, `PacedWhenPolled` | Through tracks starting and ending, idle gaps, polls of any length and failed writes, a `network_play` in an iteration whose `beforepoll` added `bfd` leaves the sender less than a whole packet past `samples_ahead` ahead of the clock. A stale `bfd_slot` breaks that bound (see the findings). With either backend, no packet on the wire starts before the previous one ended. For the network backend this holds even after an idle catch-up while still ahead. For `rtp_play` it holds through paused buffers and failed writes. With either backend, the speaker dies of "too many audio errors" only after at least 6 failed writes in a row. After a success the halved count is at most 4, so failures scattered among successful writes never reach 10. |
| `rtp_marker` | violation | `MarkerAfterIdle` | The sequence is: idle, then a `network_play` whose `writev` fails, then a `network_play` that succeeds. The packet that goes out is the first after the idle gap, and it has no marker bit. |

Each property of a passing run is also checked against a mutant of the
code it depends on (`PROJECT.json` "mutants"), and TLC finds every mutant
violated:
- a zap loop that compares against the acting user;
- `playlist-lock` without the scan of other connections;
- `fetch_body` given the wrong argument;
- `remove_connection` without the RTP cancel;
- `rescan wait` that does not register when a rescan is underway;
- `ev_writer_write` without the space bound;
- `buffer_space` that sizes a new block for the new bytes only;
- `writer_shutdown` that closes the fd whether or not the reader is tied;
- `writer_error` that leaves `c->w` set;
- `writer_callback` that does not shut down a closed writer once it
  drains;
- `hash_remove` that decrements `nitems` even when the key is absent;
- `hash_add` that grows only once `nitems > nslots`;
- `grow` that re-buckets with the old mask;
- `network_play` without the `NETWORK_BYTES` cap;
- `network_play` that moves `rtp_time` back to the clock after idling;
- `network_play` with `rtp_seq` not wrapped at 16 bits;
- `network_play` whose success leaves `audio_errors` undecayed;
- `ev_fd_cancel` that leaves the fd in `enabled`;
- `ev_fd_disable` that neither clears `tripped` nor sets `escape`;
- `ev_child_cancel` that drops the last entry instead of swapping it in;
- `sigchld_callback` that ignores `revisit`.

## Findings

`PROJECT.json` "findings" lists the violations with the lines they
come from. In short:
1. The zap loops of `c_deluser` and `c_edituser` call `strcmp` on a NULL
   `who`.
2. Deferred commands do not suspend input.
3. The deferred callbacks write to a torn-down connection, which is fatal.
4. `hash.c` compares keys with `e->h == n || !strcmp(...)`. Equal keys
   always have equal hashes, so this compares only hashes. Two user names
   with the same `hashfn` value share one entry, and hence one
   `c_reminder` rate limit (`server.c:1664`).
5. A reader continuation queued before the writer is abandoned still runs
   after `writer_error` clears `c->w`. The next pipelined command's reply
   is then fatal (`event.c:1410`, `server.c:2192`).
6. `network_play` takes the marker bit from `idled` and clears `idled`
   before `writev`. When that write fails, the packet that does go out
   after an idle gap has no marker bit. Its timestamp jump, from the
   catch-up made in the failed call, arrives unmarked
   (`speaker-network.c:275`).

Three more problems in the RTP backends were met while modelling
them. They are not runs, because every one of the twelve run slots
holds a check:
- `network_ready` (`speaker-network.c:340`) reads
  `fds[bfd_slot].revents` even in an iteration where
  `network_beforepoll` did not add `bfd`. The slot then still holds the
  `POLLOUT` of an earlier poll whenever this iteration's poll array is
  shorter. `network_play` then sends although the sender is already
  `samples_ahead` ahead, and it can keep doing so. TLC shows this with
  the invariant `rtp_time - Target < Ahead + MaxFrames * Channels` under
  the `rtp_pacing` constants and `Backends = {"network"}`. Its 11-state
  trace adds `bfd` twice, then skips it, and sends on the stale slot to 12
  samples ahead at time 0. `PacedWhenPolled` checks the bound for the
  sends `beforepoll` asked for.
- Both backends take the sequence number before `writev`, and `rtp_play`
  also takes it before its paused test (`uaudio-rtp.c:147`,
  `speaker-network.c:267`). A failed write or a paused buffer therefore
  leaves a gap in the numbers of the packets on the wire. Specification
  scenario 3 asks for sequentially increasing numbers. TLC finds the gap
  with a property stating that consecutive packets have
  consecutive numbers added to `RtpSender` and `Backends = {"uaudio"}`.
- While paused, `rtp_play` sends nothing (`uaudio-rtp.c:168`).
  Specification 4.C says the sender keeps sending timestamped packets
  while paused, so that receivers keep their clock.

Four defects are plain enough for a unit test to reach in a call or
three, so they are not runs. `Server` models the handlers as written;
the defects are noted here:
- `c_confirm` has no "already authenticated" check. `user ua`,
  `register ub`, `confirm ub` on one connection turns `ua`'s connection
  into `ub`'s (`server.c:1573`).
- `connection_host` makes every UNIX-socket peer `local`, including
  those on the unprivileged socket (`server.c:587`).
- `c_playing_hls` with HLS off writes "550 HLS not enabled" without
  returning, then writes the 259/252 answer as well (`server.c:543`).
- `command()` checks rights before the argument count (`server.c:2133`).

Specification 4.A also says that a close "never happens inside another
callback on the same fd". The code does close there:
- `writer_callback` calls `writer_shutdown` directly on a write error;
- `reader_callback` calls `reader_shutdown` directly on a read error.

When the other half has already been untied, the socket is closed inside
its own fd callback. `ev_fd_cancel` sets `escape` first, so the scan stops
and this is harmless. `FdReleasedOnce` covers its safety.

## Plan for the rest of the project

Modules in order of importance, each with an MC module and configurations:

1. **`EvRW` refinement**. `EvRW` is built. What remains is to show that
   `Server`'s `ConnError` and `ReaderEOF` are implemented by it, through a
   refinement mapping from `EvRW` states to the connection's `conn`.
2. **`Reactor`**: built (see above), listeners included. What remains
   is `ev_listen_cancel`, `ev_signal_cancel`, `ev_child_killall`, and the
   composition of `Reactor` with `EvRW`, so that several connections'
   reader/writer pairs share one fd table.
3. **`Queue`** (`server.c` queue handlers, with the queue itself
   spec_modelled). Invariants:
   - ids are unique;
   - at most one entry is playing;
   - the journal equals memory after every handler.

   The partial failure of `c_playafter` and the rights checks of
   `c_scratch`, `c_remove` and `c_move` belong here. An abstract queue
   specification is refined by the handler model.
4. **`RtpSender`**: both backends are built (see above). The 32-bit header timestamp wraps
   (`TsMod`). Read literally, the specification's "never less than its
   predecessor" fails at the wrap. RTP means the timestamp modulo 2^32,
   so this is not checked as a defect.
5. **`HashTable`**: built (see above).
6. **`DotStuffing`** (`client.c` `disorder_simple_v` and `readlist`
   against `server.c` `body_line`, `list_response` and `output_list`). The
   round trip of bodies, and the unstuffed `output_list`.

## Not modelled

- **CGI** (`cgi.c`, `lookup.c`) and **Disobedience**: out of scope by the
  specification.
- **`mime.c`**: string parsing with no state across calls.
- **The text of replies and log lines.**
- **The reader's buffer** as bytes: `reader_callback` grows it without
  limit (hazard in `PROJECT.json`), so there is no bound to check.
- **A `hash_foreach` callback that changes the table**: no caller in the
  tree does, so `HashTable` has the callback read only.
- **The queue commands (part C), cookie login and the client library**
  (`client.c`). Each needs runs of its own. A `Queue` module would need a
  pass run and a violation run for the missing `queue_write` in
  `c_move`/`c_moveafter`. A client/server `DotStuffing` module would need
  a pass run for the body round trip and a violation run for
  `disorder_simple_v`'s list arguments (`client.c:273`). The project's
  twelve runs are all in use: six pass runs, and six violation runs each
  showing a different defect. The Queue and client models cannot join the
  existing Server runs either:
  - `server_safety` already explores 1.6 million states;
  - `server_deferred` checks liveness over 180 thousand states in about
    two minutes.

  Adding them there would push those runs and their mutants past their
  time limits. Cookie login cannot join `server_safety` for another
  reason. Specification section 3 describes a cookie as carrying the
  user's rights, and `verify_cookie` (in `cookies.c`, not in the tree)
  could only be modelled from that. A cookie made before an `edituser`
  that narrows the user's rights would then log in with the old rights,
  which breaks `SessionRightsBounded`. That is a question for the
  specification, not the code in the tree.
- **`uaudio-rtp.c`'s socket setup** (`rtp_open`, `rtp_configure`, the
  netconfig helpers) and `rtp_stop`: option handling and system calls
  with no state the models read.
- **Configuration parsing and trackdb internals:** not in the tree. Only
  their effect on the handlers is modelled.
- **The lock timeout**: `playlist_lock_timeout` is not implemented in the
  code (`server.c:1945`). A lock held by an idle connection is never taken
  away. Clients owe the model no progress, so no liveness property can
  fairly demand that a waiting locker gets the lock.
