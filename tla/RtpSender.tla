----------------------------- MODULE RtpSender -----------------------------
(* The network backend of the speaker (server/speaker-network.c): pacing in
   network_beforepoll, and network_play's idle catch-up of rtp_time, packet
   header (sequence number, 32-bit timestamp, marker bit) and error count.
   The speaker's main loop (speaker.c, not in the tree) is modelled from the
   backend contract in speaker.h and specification 4.E: each iteration calls
   beforepoll, polls while time passes, and then plays if the backend is
   ready and a track has data, or marks the output idle if none has.
   Time and rtp_time are counted in samples (two per stereo frame).
   The speaker is built with one of two backends: this one, or the uaudio
   RTP backend (lib/uaudio-rtp.c), whose rtp_play is called by the uaudio
   play thread (not in the tree) with a buffer of samples and the PAUSED
   or RESUME flags.  For it rtp_time is the uaudio schedule's count of
   samples reported sent, which its timestamps are taken from.             *)
EXTENDS Integers

CONSTANTS Ahead,        \* samples_ahead: RTP_AHEAD_MS * rate * channels / 1000
          MaxFrames,    \* frames that fit in NETWORK_BYTES after the header
          FrameOffers,  \* frame counts the loop may ask network_play to send
          MaxTick,      \* most samples of wall time one poll() may take
          MaxTime,      \* bound on the wall clock
          MaxTracks,    \* bound on the tracks that start
          SeqMod,       \* 2^16: rtp_seq is a uint16_t
          TsMod,        \* 2^32: the header timestamp is (uint32_t)rtp_time
          Backends      \* the backends the speaker may be built with

Channels == 2           \* network_init forces 44100Hz stereo

\* audio_errors at which network_play calls fatal().
FatalErrors == 10

ASSUME Backends \subseteq {"network", "uaudio"} /\ Backends # {}

VARIABLES backend,       \* the backend in use
          rtp_base,      \* uaudio-rtp.c rtp_base: added to every timestamp
          now,           \* the wall clock, in samples since the epoch
          rtp_time,      \* samples sent (uint64_t, never wraps here)
          rtp_time_0,    \* the wall time of rtp_time = 0
          rtp_seq,       \* next sequence number
          audio_errors,  \* error counter with decay
          idled,         \* speaker.h idled: set by the loop when nothing played
          playing,       \* a track with data to send (speaker.c playing)
          tracks,        \* tracks started so far
          registered,    \* network_beforepoll added bfd with POLLOUT
          slotReady,     \* fds[bfd_slot].revents has POLLOUT or POLLERR
          phase,         \* where the speaker loop is: before, poll or after poll
          dead,          \* fatal("too many audio errors") was called
          sent,          \* last packet on the wire: start, samples, seq, ts, marker
          idleSince,     \* the loop idled since the last packet went out
          failRun        \* writes failed in a row since the last success

vars == <<backend, rtp_base, now, rtp_time, rtp_time_0, rtp_seq, audio_errors, idled, playing,
          tracks, registered, slotReady, phase, dead, sent, idleSince, failRun>>

NoPacket == [start |-> 0, len |-> 0, seq |-> 0, ts |-> 0, marker |-> FALSE]

\* rtp_start: rtp_id, rtp_base and rtp_sequence take random initial values
\* (gcry_create_nonce); then the play thread starts.
RtpStart ==
    /\ rtp_base \in 0..TsMod - 1
    /\ rtp_seq \in 0..SeqMod - 1

\* speaker-network.c's statics start at zero; its base time is taken later.
NetworkStatics ==
    /\ rtp_base = 0
    /\ rtp_seq = 0

Init ==
    /\ backend \in Backends
    /\ IF backend = "uaudio" THEN RtpStart ELSE NetworkStatics
    /\ now = 0
    /\ rtp_time = 0
    /\ rtp_time_0 = 0
    /\ audio_errors = 0
    /\ idled = FALSE
    /\ playing = FALSE
    /\ tracks = 0
    /\ registered = FALSE
    /\ slotReady = FALSE
    /\ phase = "before"
    /\ dead = FALSE
    /\ sent = NoPacket
    /\ idleSince = FALSE
    /\ failRun = 0

\* tvsub_us(now, rtp_time_0) * rate * channels / 1000000, in samples.
Target == now - rtp_time_0

\* target_rtp_time &= ~(uint64_t)1 in network_play.
EvenTarget == Target - (Target % 2)

\* network_beforepoll: the base time is (re)taken while nothing has been
\* sent; bfd is polled for writing only when less than samples_ahead ahead.
network_beforepoll ==
    /\ ~dead /\ phase = "before"
    /\ LET base == IF rtp_time = 0 THEN now ELSE rtp_time_0
       IN /\ rtp_time_0' = base
          /\ registered' = (rtp_time - (now - base) < Ahead)
    /\ phase' = "poll"
    /\ UNCHANGED <<now, rtp_time, rtp_seq, audio_errors, idled, playing,
                   tracks, slotReady, dead, sent, idleSince, failRun>>

\* What poll() leaves in fds[bfd_slot].revents.  When bfd was added, the
\* slot is bfd's and reports whether the socket is writable.  Otherwise
\* bfd_slot is the slot of an earlier iteration: poll() leaves it alone if
\* this iteration's array is shorter, and it holds another fd, polled for
\* input and so reporting no POLLOUT, if it is longer.
SlotAfterPoll ==
    IF registered THEN BOOLEAN ELSE {slotReady, FALSE}

\* poll() returns after d samples of wall time.
Poll(d) ==
    /\ ~dead /\ phase = "poll"
    /\ now + d <= MaxTime
    /\ now' = now + d
    /\ slotReady' \in SlotAfterPoll
    /\ phase' = "after"
    /\ UNCHANGED <<rtp_time, rtp_time_0, rtp_seq, audio_errors, idled,
                   playing, tracks, registered, dead, sent, idleSince, failRun>>

\* Mutant of CatchUp: rtp_time is set to the wall-clock target after an idle
\* even when that moves it back.
CatchUpAlways == IF idled THEN EvenTarget ELSE rtp_time

\* After an idle, rtp_time is moved up to the even wall-clock target, never
\* back.
CatchUp == IF idled /\ EvenTarget > rtp_time THEN EvenTarget ELSE rtp_time

\* Mutant of Capped: no cap at NETWORK_BYTES.
CappedNone(frames) == frames

\* The packet is cut to what fits in NETWORK_BYTES after the header, in
\* whole frames.
Capped(frames) == IF frames > MaxFrames THEN MaxFrames ELSE frames

\* Mutant of NextSeq: rtp_seq is incremented without the uint16_t wrap.
NextSeqNoWrap == rtp_seq + 1

\* rtp_seq++ on a uint16_t.
NextSeq == (rtp_seq + 1) % SeqMod

\* Mutant of ErrorCount: a success leaves the count alone.
ErrorCountNoDecay(ok) == IF ok THEN audio_errors ELSE audio_errors + 1

\* ++audio_errors on a failed writev, audio_errors /= 2 on a success.
ErrorCount(ok) == IF ok THEN audio_errors \div 2 ELSE audio_errors + 1

\* network_play(frames) with writev succeeding (ok) or failing.  The header
\* takes rtp_seq++, (uint32_t)rtp_time and the marker from idled, and idled
\* is cleared, all before writev.  A failure counts an error (fatal at 10)
\* and sends nothing; a success decays the count and advances rtp_time by
\* the frames sent, at most a packet's worth.
network_play(frames, ok) ==
    LET rt == CatchUp
        fr == Capped(frames)
    IN /\ rtp_seq' = NextSeq
       /\ idled' = FALSE
       /\ audio_errors' = ErrorCount(ok)
       /\ IF ok
          THEN /\ rtp_time' = rt + fr * Channels
               /\ sent' = [start |-> rt, len |-> fr * Channels, seq |-> rtp_seq,
                           ts |-> rt % TsMod, marker |-> idled]
               /\ idleSince' = FALSE
               /\ failRun' = 0
               /\ UNCHANGED dead
          ELSE /\ dead' = (audio_errors' = FatalErrors)
               /\ rtp_time' = rt
               /\ failRun' = failRun + 1
               /\ UNCHANGED <<sent, idleSince>>

\* Bound on rtp_time before a network_play.  A send beforepoll asked for
\* starts below Target + Ahead, so the bound stops only sends on a stale
\* bfd_slot, which could otherwise run ahead without end.
SentBound == MaxTime + Ahead

\* After poll: network_ready reads fds[bfd_slot].revents, whether or not
\* bfd was added in this iteration; the loop then plays from the playing
\* track.
Play(frames, ok) ==
    /\ ~dead /\ phase = "after"
    /\ slotReady /\ playing
    /\ rtp_time <= SentBound
    /\ network_play(frames, ok)
    /\ phase' = "before"
    /\ UNCHANGED <<now, rtp_time_0, playing, tracks, registered, slotReady>>

\* After poll with no track to play: the output is idle.
Idle ==
    /\ ~dead /\ phase = "after"
    /\ ~playing
    /\ idled' = TRUE
    /\ idleSince' = TRUE
    /\ phase' = "before"
    /\ UNCHANGED <<now, rtp_time, rtp_time_0, rtp_seq, audio_errors, playing,
                   tracks, registered, slotReady, dead, sent, failRun>>

\* After poll with a track but network_ready false.
Wait ==
    /\ ~dead /\ phase = "after"
    /\ playing /\ ~slotReady
    /\ phase' = "before"
    /\ UNCHANGED <<now, rtp_time, rtp_time_0, rtp_seq, audio_errors, idled,
                   playing, tracks, registered, slotReady, dead, sent, idleSince,
                   failRun>>

\* A decoder connects with a new track, or the playing track ends.
TrackStarts ==
    /\ ~playing /\ tracks < MaxTracks
    /\ playing' = TRUE
    /\ tracks' = tracks + 1
    /\ UNCHANGED <<now, rtp_time, rtp_time_0, rtp_seq, audio_errors, idled,
                   registered, slotReady, phase, dead, sent, idleSince, failRun>>

TrackEnds ==
    /\ playing
    /\ playing' = FALSE
    /\ UNCHANGED <<now, rtp_time, rtp_time_0, rtp_seq, audio_errors, idled,
                   tracks, registered, slotReady, phase, dead, sent, idleSince,
                   failRun>>

-----------------------------------------------------------------------------
(* The uaudio RTP backend *)

\* rtp_play(buffer, ns, flags).  The header takes rtp_sequence++ and the
\* marker bit from UAUDIO_RESUME, and the timestamp rtp_base plus the
\* schedule's count.  With UAUDIO_PAUSED nothing is sent and the samples
\* are reported to the schedule as if they had been.  Otherwise writev
\* either fails, which counts an error (fatal at 10) and returns 0 so that
\* nothing is reported, or succeeds, which decays the count and reports the
\* samples sent (uaudio_schedule_sent).
rtp_play(ns, paused, resume, ok) ==
    /\ rtp_seq' = NextSeq
    /\ IF paused
       THEN /\ rtp_time' = rtp_time + ns
            /\ idleSince' = TRUE
            /\ UNCHANGED <<audio_errors, dead, sent, failRun>>
       ELSE /\ audio_errors' = ErrorCount(ok)
            /\ IF ok
               THEN /\ sent' = [start |-> rtp_time, len |-> ns, seq |-> rtp_seq,
                                ts |-> (rtp_base + rtp_time) % TsMod,
                                marker |-> resume]
                    /\ rtp_time' = rtp_time + ns
                    /\ idleSince' = FALSE /\ failRun' = 0
                    /\ UNCHANGED dead
               ELSE /\ dead' = (audio_errors' = FatalErrors)
                    /\ failRun' = failRun + 1
                    /\ UNCHANGED <<rtp_time, sent, idleSince>>

\* The play thread (uaudio-thread.c, not in the tree) calls rtp_play with
\* between one frame and the packet's worth of samples, PAUSED while the
\* output is deactivated, and RESUME on some call while it is active.
\* MaxTime bounds the samples it reports to the schedule.
UaudioPlay(ns, paused, resume, ok) ==
    /\ ~dead
    /\ rtp_time + ns <= MaxTime
    /\ ~(paused /\ resume)
    /\ rtp_play(ns, paused, resume, ok)
    /\ UNCHANGED <<now, rtp_time_0, idled, playing, tracks, registered,
                   slotReady, phase>>

Samples == {f * Channels : f \in 1..MaxFrames}

Next ==
    /\ UNCHANGED <<backend, rtp_base>>
    /\ \/ /\ backend = "network"
          /\ \/ network_beforepoll
             \/ \E d \in 0..MaxTick : Poll(d)
             \/ \E f \in FrameOffers, ok \in BOOLEAN : Play(f, ok)
             \/ Idle
             \/ Wait
             \/ TrackStarts
             \/ TrackEnds
       \/ /\ backend = "uaudio"
          /\ \E ns \in Samples, paused, resume, ok \in BOOLEAN :
                UaudioPlay(ns, paused, resume, ok)

Spec == Init /\ [][Next]_vars

-----------------------------------------------------------------------------
(* Properties *)

TypeOK ==
    /\ backend \in Backends /\ rtp_base \in 0..TsMod - 1
    /\ now \in 0..MaxTime
    /\ rtp_time \in Nat /\ rtp_time_0 \in 0..MaxTime
    /\ rtp_seq \in 0..SeqMod - 1
    /\ audio_errors \in 0..FatalErrors
    /\ {idled, playing, registered, slotReady, dead, idleSince} \subseteq BOOLEAN
    /\ tracks \in 0..MaxTracks
    /\ phase \in {"before", "poll", "after"}
    /\ sent.ts \in 0..TsMod - 1 /\ sent.seq \in 0..SeqMod - 1
    /\ failRun \in 0..FatalErrors

\* Pacing of the sends beforepoll asked for: a network_play in an iteration
\* whose beforepoll added bfd (rtp_time less than samples_ahead ahead)
\* leaves the sender less than a whole packet past samples_ahead ahead of
\* the clock, through a poll of any length, an idle catch-up and a request
\* for more frames than NETWORK_BYTES holds.
PacedWhenPolled ==
    [][backend = "network" /\ phase = "after" /\ registered /\ phase' = "before"
       => rtp_time' - Target' < Ahead + MaxFrames * Channels]_vars

\* A packet put on the wire never starts before the previous one ended: the
\* idle catch-up in network_play moves rtp_time forward only ("Is it ever
\* right to reduce rtp_time? No"), and rtp_play reports every packet it
\* sends, and every paused buffer, to the schedule its timestamps come from.
NoOverlap ==
    [][sent' # sent => sent'.start >= sent.start + sent.len]_vars

\* A success halves audio_errors, so after one it is at most
\* (FatalErrors - 1) \div 2, and fatal() takes the rest of the way in
\* failures in a row.
MinFatalBurst == FatalErrors - (FatalErrors - 1) \div 2

\* The speaker dies of "too many audio errors" only after a burst of at
\* least MinFatalBurst (6) failed writes in a row: failures scattered among
\* successful writes never add up to fatal().  Both backends count errors
\* this way (audio_errors in network_play, rtp_errors in rtp_play); paused
\* calls of rtp_play neither count nor decay.
FatalNeedsBurst == dead => failRun >= MinFatalBurst

\* The first packet on the wire after the output idled carries the marker
\* bit (specification 4.E, RFC 3550 5.1).
MarkerAfterIdle ==
    [][sent' # sent /\ idleSince => sent'.marker]_vars
=============================================================================
