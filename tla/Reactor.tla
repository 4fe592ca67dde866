------------------------------ MODULE Reactor ------------------------------
(* lib/event.c, the reactor itself: ev_run's select and readiness scan over
   the per-mode fd tables; ev_fd, ev_fd_cancel, ev_fd_enable and
   ev_fd_disable, with swap-removal and the escape flag; the listeners
   (ev_listen, listen_callback's accept loop, and server.c's listen_callback
   registering each new connection with ev_writer_new and ev_reader_new);
   the signal pipe; and the SIGCHLD reaper (sigchld_callback, ev_child,
   ev_child_cancel) with its revisit pass.  Timeouts and the buffered reader/writer pair are
   modelled in EvRW.
   The callbacks are the library's callers.  Each callback makes at most one
   of the calls DisOrder's callbacks make (register, cancel, enable or
   disable an fd; start a child), and MaxOps of them in all.             *)
EXTENDS Integers, Sequences, SequencesExt, FiniteSets

CONSTANTS Fd,            \* descriptor numbers callers register (sockets, pipes)
          SigFd,         \* ev->sigpipe[0]
          Pid,           \* child process ids
          InitFds,       \* the listeners, registered with ev_listen before ev_run
          ConnFd,        \* the descriptors accept() may return, lowest first
          FdSetSize,     \* FD_SETSIZE: ev_fd refuses a descriptor >= this
          MaxConns,      \* bound on the connections clients make
          InitChildren,  \* children registered before ev_run, in table order
          MaxOps         \* bound on the library calls the callbacks make

ASSUME SigFd \notin Fd /\ InitFds \subseteq Fd /\ ConnFd \subseteq Fd \ InitFds

\* The modes in the order ev_run scans them.  DisOrder registers no
\* ev_except descriptor.
Modes == <<"read", "write">>
ModeSet == {"read", "write"}

VARIABLES fds,         \* ev->mode[m].fds[0..nfds-1]: [fd, reg] in table order
          enabled,     \* ev->mode[m].enabled
          tripped,     \* ev->mode[m].tripped
          escape,      \* ev->escape
          phase,       \* "select", "scan" (the fd loops), "listen" (listen_callback)
                       \* or "reap" (sigchld_callback)
          mi,          \* the scan's mode, an index into Modes
          n,           \* the scan's n
          polled,      \* registrations in the tables when select() last returned
          nextReg,     \* registrations made so far: tells a re-used number apart
          children,    \* ev->children[0..nchildren-1]: pids in table order
          cn,          \* sigchld_callback's n
          revisit,     \* sigchld_callback's revisit
          alive,       \* children running
          exited,      \* children exited and not yet waited for
          reaped,      \* children whose callback has run
          sigpending,  \* SIGCHLD pending while blocked (standard signals coalesce)
          pipe,        \* bytes in the signal pipe
          ops,         \* library calls made by callbacks
          lastCb,      \* the last fd callback ev_run made, with a parity bit
          backlog,     \* connections waiting in each listener's accept queue
          nconn,       \* connections clients have made
          fatal        \* disorder_fatal() has ended the process

vars == <<fds, enabled, tripped, escape, phase, mi, n, polled, nextReg,
          children, cn, revisit, alive, exited, reaped, sigpending, pipe, ops,
          lastCb, backlog, nconn, fatal>>

fdVars == <<fds, enabled, tripped, escape, nextReg>>
childVars == <<children, alive>>
listenVars == <<backlog, nconn, fatal>>

\* The descriptors the callbacks register themselves (the connections'
\* sockets, subprocess pipes); the listeners are only ever read.
CallerFd == Fd \ InitFds

Entry == [fd : Fd \cup {SigFd}, reg : Nat]

TableFds(m) == {e.fd : e \in ToSet(fds[m])}

Started == alive \cup exited \cup reaped

\* Remove element i by copying the last element over it and shortening the
\* array: ev_fd_cancel and ev_child_cancel.
SwapRemove(s, i) ==
    LET t == SubSeq(s, 1, Len(s) - 1)
    IN IF i = Len(s) THEN t ELSE [t EXCEPT ![i] = s[Len(s)]]

\* ev_new, ev_signal(SIGCHLD), the listeners' ev_fd and the children
\* started before the loop runs; server startup is not in the tree, so the
\* listeners and the signal pipe may be registered in any order.
Init ==
    /\ \E order \in SetToSeqs(InitFds \cup {SigFd}) :
          fds = [m \in ModeSet |->
                   IF m = "read"
                   THEN [i \in 1..Len(order) |-> [fd |-> order[i], reg |-> i]]
                   ELSE <<>>]
    /\ nextReg = Cardinality(InitFds) + 2
    /\ enabled = [m \in ModeSet |-> IF m = "read" THEN InitFds \cup {SigFd} ELSE {}]
    /\ tripped = [m \in ModeSet |-> {}]
    /\ escape = FALSE
    /\ phase = "select" /\ mi = 1 /\ n = 0
    /\ polled = {}
    /\ children = InitChildren
    /\ cn = 0 /\ revisit = FALSE
    /\ alive = ToSet(InitChildren) /\ exited = {} /\ reaped = {}
    /\ sigpending = FALSE /\ pipe = 0
    /\ ops = 0
    /\ lastCb = [m |-> "read", e |-> [fd |-> SigFd, reg |-> 0], flip |-> FALSE]
    /\ backlog = [l \in InitFds |-> 0]
    /\ nconn = 0
    /\ fatal = FALSE

-----------------------------------------------------------------------------
(* The library calls a callback makes. *)

\* ev_fd: append to the mode's table, enable, escape.
ev_fd(m, f) ==
    /\ fds' = [fds EXCEPT ![m] = Append(@, [fd |-> f, reg |-> nextReg])]
    /\ enabled' = [enabled EXCEPT ![m] = @ \cup {f}]
    /\ nextReg' = nextReg + 1
    /\ escape' = TRUE
    /\ UNCHANGED <<tripped, children, alive>>

\* Mutant of ev_fd_cancel: the fd is left in enabled.
ev_fd_cancelNoClear(m, f) ==
    /\ fds' = [fds EXCEPT ![m] = SwapRemove(@, SelectInSeq(@, LAMBDA e : e.fd = f))]
    /\ escape' = TRUE
    /\ UNCHANGED <<enabled, tripped, nextReg, children, alive>>

\* ev_fd_cancel: find the fd, swap the last entry into its slot, shorten the
\* table, FD_CLR it from enabled (not from tripped), escape.
ev_fd_cancel(m, f) ==
    /\ fds' = [fds EXCEPT ![m] = SwapRemove(@, SelectInSeq(@, LAMBDA e : e.fd = f))]
    /\ enabled' = [enabled EXCEPT ![m] = @ \ {f}]
    /\ escape' = TRUE
    /\ UNCHANGED <<tripped, nextReg, children, alive>>

\* ev_fd_enable: FD_SET in enabled; no escape.
ev_fd_enable(m, f) ==
    /\ enabled' = [enabled EXCEPT ![m] = @ \cup {f}]
    /\ UNCHANGED <<fds, tripped, escape, nextReg, children, alive>>

\* Mutant of ev_fd_disable: the pending callback is not suppressed.
ev_fd_disableNoSuppress(m, f) ==
    /\ enabled' = [enabled EXCEPT ![m] = @ \ {f}]
    /\ UNCHANGED <<fds, tripped, escape, nextReg, children, alive>>

\* ev_fd_disable: FD_CLR from enabled and tripped, escape ("Suppress any
\* pending callbacks").
ev_fd_disable(m, f) ==
    /\ enabled' = [enabled EXCEPT ![m] = @ \ {f}]
    /\ tripped' = [tripped EXCEPT ![m] = @ \ {f}]
    /\ escape' = TRUE
    /\ UNCHANGED <<fds, nextReg, children, alive>>

\* ev_child, after a fork: append the pid to the children table.
ev_child(p) ==
    /\ children' = Append(children, p)
    /\ alive' = alive \cup {p}
    /\ UNCHANGED fdVars

\* A caller fd's callback: it reads or writes, and may make one library call
\* on a caller fd that is (ev_fd: is not) in the mode's table, or start a
\* child.
FdCallback ==
    \/ UNCHANGED <<fdVars, childVars, ops>>
    \/ /\ ops < MaxOps
       /\ ops' = ops + 1
       /\ \/ \E m \in ModeSet : \E f \in CallerFd \ TableFds(m) : ev_fd(m, f)
          \/ \E m \in ModeSet : \E f \in CallerFd \cap TableFds(m) :
                \/ ev_fd_cancel(m, f)
                \/ ev_fd_enable(m, f)
                \/ ev_fd_disable(m, f)
          \/ \E p \in Pid \ Started : ev_child(p)

-----------------------------------------------------------------------------
(* ev_run *)

\* The signals are unblocked around select(), so a pending SIGCHLD runs
\* sighandler, which writes one byte to the signal pipe.
Deliver(p) ==
    /\ pipe' = p + (IF sigpending THEN 1 ELSE 0)
    /\ sigpending' = FALSE

\* A listener is readable while connections wait in its accept queue.
Pending == {l \in InitFds : backlog[l] > 0}

\* tripped = enabled; select() keeps the ready fds: any of the enabled
\* caller fds, the listeners with a connection waiting, and the signal pipe
\* when it holds a byte.  With none ready (select timed out) the scan is
\* skipped; otherwise escape is cleared and the scan starts at the first fd
\* of the first mode.
Select ==
    /\ phase = "select"
    /\ Deliver(pipe)
    /\ \E rd \in SUBSET (enabled["read"] \ ({SigFd} \cup InitFds)),
         wr \in SUBSET enabled["write"] :
          LET sig == IF pipe' > 0 /\ SigFd \in enabled["read"] THEN {SigFd} ELSE {}
              lst == Pending \cap enabled["read"]
              tr == [m \in ModeSet |-> IF m = "read" THEN rd \cup lst \cup sig ELSE wr]
          IN /\ tripped' = tr
             /\ IF tr["read"] \cup tr["write"] = {}
                THEN UNCHANGED <<phase, escape, mi, n, polled>>
                ELSE /\ phase' = "scan" /\ escape' = FALSE /\ mi' = 1 /\ n' = 0
                     /\ polled' = UNION {{e.reg : e \in ToSet(fds[m])} : m \in ModeSet}
    /\ UNCHANGED <<fds, enabled, nextReg, children, cn, revisit, alive, exited,
                   reaped, ops, lastCb, listenVars>>

\* The entry the scan is at, in its mode.
Mode == Modes[mi]
At == fds[Mode][n + 1]

\* The loop conditions n < nfds and !escape: at the end of a mode's table,
\* or on escape, go to the next mode (mode < ev_nmodes && !escape) or back
\* round the event loop.
ScanNextMode ==
    /\ phase = "scan"
    /\ n >= Len(fds[Mode]) \/ escape
    /\ IF mi < Len(Modes) /\ ~escape
       THEN mi' = mi + 1 /\ n' = 0 /\ UNCHANGED phase
       ELSE phase' = "select" /\ UNCHANGED <<mi, n>>
    /\ UNCHANGED <<fdVars, polled, childVars, cn, revisit, exited, reaped,
                   sigpending, pipe, ops, lastCb, listenVars>>

\* An fd that is not in tripped is passed over.
ScanSkip ==
    /\ phase = "scan" /\ ~escape /\ n < Len(fds[Mode])
    /\ At.fd \notin tripped[Mode]
    /\ n' = n + 1
    /\ UNCHANGED <<fdVars, phase, mi, polled, childVars, cn, revisit, exited,
                   reaped, sigpending, pipe, ops, lastCb, listenVars>>

Called == lastCb' = [m |-> Mode, e |-> At, flip |-> ~lastCb.flip]

\* ev_run calls a tripped caller fd's callback; the loop then goes on at n + 1.
DispatchFd ==
    /\ phase = "scan" /\ ~escape /\ n < Len(fds[Mode])
    /\ At.fd \in tripped[Mode] /\ At.fd \notin {SigFd} \cup InitFds
    /\ Called
    /\ n' = n + 1
    /\ FdCallback
    /\ UNCHANGED <<phase, mi, polled, cn, revisit, exited, reaped, sigpending, pipe,
                   listenVars>>

\* The signal pipe's callback, signal_read: read one byte and call the
\* SIGCHLD handler, sigchld_callback, which starts its first pass.
DispatchSignal ==
    /\ phase = "scan" /\ ~escape /\ n < Len(fds[Mode])
    /\ At.fd \in tripped[Mode] /\ At.fd = SigFd
    /\ Called
    /\ pipe' = pipe - 1
    /\ phase' = "reap" /\ cn' = 0 /\ revisit' = FALSE
    /\ UNCHANGED <<fdVars, mi, n, polled, childVars, exited, reaped, sigpending, ops,
                   listenVars>>

\* ev_listen registered listen_callback on the listener; ev_run calls it.
DispatchListener ==
    /\ phase = "scan" /\ ~escape /\ n < Len(fds[Mode])
    /\ At.fd \in tripped[Mode] /\ At.fd \in InitFds
    /\ Called
    /\ phase' = "listen"
    /\ UNCHANGED <<fdVars, mi, n, polled, childVars, cn, revisit, exited, reaped,
                   sigpending, pipe, ops, listenVars>>

\* The descriptors accept() can hand out: those not open in the process.
\* A connection's socket stays open while either half is registered.
FreeFd == ConnFd \ (TableFds("read") \cup TableFds("write"))

\* server.c listen_callback for a new socket f: ev_writer_new (ev_fd for
\* write, then ev_fd_disable as the buffer is empty), then ev_reader_new
\* (ev_fd for read).  Both ev_fd calls set escape.
NewConnection(f) ==
    /\ fds' = [m \in ModeSet |->
                Append(fds[m], [fd |-> f,
                                reg |-> IF m = "write" THEN nextReg ELSE nextReg + 1])]
    /\ enabled' = [enabled EXCEPT !["read"] = @ \cup {f}, !["write"] = @ \ {f}]
    /\ tripped' = [tripped EXCEPT !["write"] = @ \ {f}]
    /\ nextReg' = nextReg + 2
    /\ escape' = TRUE

\* One turn of listen_callback's accept loop with a connection waiting.
\* accept() takes the lowest free descriptor, or fails with EMFILE when none
\* is left, which the switch's default case makes disorder_fatal().  A
\* descriptor >= FD_SETSIZE makes ev_fd, and so ev_writer_new, fail, and
\* listen_callback closes it.
Accept ==
    /\ phase = "listen" /\ backlog[At.fd] > 0
    /\ IF FreeFd = {}
       THEN /\ fatal' = TRUE
            /\ UNCHANGED <<fdVars, backlog>>
       ELSE /\ backlog' = [backlog EXCEPT ![At.fd] = @ - 1]
            /\ LET f == Min(FreeFd)
               IN IF f >= FdSetSize THEN UNCHANGED fdVars ELSE NewConnection(f)
            /\ UNCHANGED fatal
    /\ UNCHANGED <<phase, mi, n, polled, childVars, cn, revisit, exited, reaped,
                   sigpending, pipe, ops, lastCb, nconn>>

\* accept() fails with ECONNABORTED (or EPROTO): the waiting connection was
\* reset by its client and is dropped; the error is logged and the loop
\* ends.  With the queue empty accept() fails with EAGAIN and the loop ends
\* quietly.  listen_callback returns 0 and the scan goes on at n + 1.
AcceptEnd ==
    /\ phase = "listen"
    /\ \/ backlog[At.fd] > 0 /\ backlog' = [backlog EXCEPT ![At.fd] = @ - 1]
       \/ backlog[At.fd] = 0 /\ UNCHANGED backlog
    /\ phase' = "scan" /\ n' = n + 1
    /\ UNCHANGED <<fdVars, mi, polled, childVars, cn, revisit, exited, reaped,
                   sigpending, pipe, ops, lastCb, nconn, fatal>>

\* A client connects to listener l: the kernel queues the connection.
Connect(l) ==
    /\ nconn < MaxConns
    /\ nconn' = nconn + 1
    /\ backlog' = [backlog EXCEPT ![l] = @ + 1]
    /\ UNCHANGED <<fdVars, phase, mi, n, polled, childVars, cn, revisit, exited,
                   reaped, sigpending, pipe, ops, lastCb, fatal>>

\* Mutant of ev_child_cancel: the count is reduced without the swap, so the
\* last entry is dropped instead of the cancelled one.
ChildCancelNoSwap(s, i) == SubSeq(s, 1, Len(s) - 1)

\* ev_child_cancel's array update.
ChildCancel(s, i) == SwapRemove(s, i)

\* One turn of sigchld_callback's for loop: wait4(children[n], WNOHANG).  A
\* child that has exited is cancelled (swapping the last child into slot n,
\* which this pass then skips), revisit is set and its callback runs; the
\* callback may start another child.  A running child gives r = 0.
ReapWait ==
    /\ phase = "reap" /\ cn < Len(children)
    /\ cn' = cn + 1
    /\ LET p == children[cn + 1]
           rest == ChildCancel(children, cn + 1)
       IN IF p \in exited
          THEN /\ exited' = exited \ {p}
               /\ reaped' = reaped \cup {p}
               /\ revisit' = TRUE
               /\ \/ children' = rest /\ UNCHANGED <<alive, ops>>
                  \/ /\ ops < MaxOps /\ ops' = ops + 1
                     /\ \E q \in Pid \ Started :
                           children' = Append(rest, q) /\ alive' = alive \cup {q}
          ELSE UNCHANGED <<childVars, exited, reaped, revisit, ops>>
    /\ UNCHANGED <<fdVars, phase, mi, n, polled, sigpending, pipe, lastCb, listenVars>>

\* Mutant of sigchld_callback: a single pass, revisit ignored.
ReapEndNoRevisit ==
    /\ phase = "reap" /\ cn >= Len(children)
    /\ phase' = "scan" /\ n' = n + 1
    /\ UNCHANGED <<fdVars, mi, polled, childVars, cn, revisit, exited, reaped,
                   sigpending, pipe, ops, lastCb, listenVars>>

\* The end of a pass: do { ... } while(revisit); sigchld_callback then
\* returns to ev_run's scan, which goes on at n + 1.
ReapEnd ==
    /\ phase = "reap" /\ cn >= Len(children)
    /\ IF revisit
       THEN cn' = 0 /\ revisit' = FALSE /\ UNCHANGED <<phase, n>>
       ELSE phase' = "scan" /\ n' = n + 1 /\ UNCHANGED <<cn, revisit>>
    /\ UNCHANGED <<fdVars, mi, polled, childVars, exited, reaped, sigpending,
                   pipe, ops, lastCb, listenVars>>

\* A child process exits.  SIGCHLD is blocked except inside select(), so it
\* becomes pending; a second one before delivery is lost in the first.
ChildExit(p) ==
    /\ p \in alive
    /\ alive' = alive \ {p}
    /\ exited' = exited \cup {p}
    /\ sigpending' = TRUE
    /\ UNCHANGED <<fdVars, phase, mi, n, polled, children, cn, revisit, reaped,
                   pipe, ops, lastCb, listenVars>>

Loop ==
    /\ ~fatal
    /\ \/ Select
       \/ ScanNextMode
       \/ ScanSkip
       \/ DispatchFd
       \/ DispatchListener
       \/ Accept
       \/ AcceptEnd
       \/ DispatchSignal
       \/ ReapWait
       \/ ReapEnd

\* After disorder_fatal() the process is gone and nothing more happens.
Exited == fatal /\ UNCHANGED vars

Next ==
    \/ Loop
    \/ \E p \in Pid : ChildExit(p)
    \/ \E l \in InitFds : Connect(l)
    \/ Exited

\* ev_run never blocks but in select(), which returns once an fd is ready,
\* and the callbacks return; children and clients owe nothing.
Spec == Init /\ [][Next]_vars /\ WF_vars(Loop)

-----------------------------------------------------------------------------
(* Properties *)

TypeOK ==
    /\ fds \in [ModeSet -> Seq(Entry)]
    /\ enabled \in [ModeSet -> SUBSET (Fd \cup {SigFd})]
    /\ tripped \in [ModeSet -> SUBSET (Fd \cup {SigFd})]
    /\ phase \in {"select", "scan", "listen", "reap"}
    /\ children \in Seq(Pid)
    /\ {escape, revisit, sigpending, fatal} \subseteq BOOLEAN
    /\ pipe \in 0..Cardinality(Pid)
    /\ ops \in 0..MaxOps
    /\ backlog \in [InitFds -> 0..MaxConns] /\ nconn \in 0..MaxConns
    \* The masks handed to select() only name registered fds: a cancelled
    \* (and closed) fd left in enabled makes select() fail with EBADF, and
    \* ev_run then returns -1.
    /\ \A m \in ModeSet : enabled[m] \subseteq TableFds(m)

\* ev_run calls an fd's callback only while that registration is still in
\* its mode's table, the fd is enabled, and the registration was there when
\* select() reported the fd: the escape flag set by ev_fd, ev_fd_cancel and
\* ev_fd_disable stops the scan before a swapped, disabled or re-used slot
\* is dispatched.
DispatchCurrent ==
    [][lastCb' # lastCb =>
         LET m == lastCb'.m
             e == lastCb'.e
         IN /\ e \in ToSet(fds[m])
            /\ e.fd \in enabled[m]
            /\ e.reg \in polled]_vars

\* The children table holds each child that has not been waited for exactly
\* once, through the swap-removals of ev_child_cancel in the middle of
\* sigchld_callback's scan.
ChildrenTracked ==
    /\ IsInjective(children)
    /\ ToSet(children) = alive \cup exited

\* Every child that exits has its callback run, even when its SIGCHLD
\* coalesced with another's and ev_child_cancel moved it into a slot the
\* pass had already passed (unless the server has died first).
EveryExitReaped ==
    \A p \in Pid : p \in exited ~> (p \in reaped \/ fatal)
=============================================================================
