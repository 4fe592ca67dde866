---------------------------- MODULE MC_RtpSender ----------------------------
(* Scaled constants for checking RtpSender with TLC. *)
EXTENDS RtpSender, TLC

\* The state without the header's sequence number and 32-bit timestamp,
\* and the random rtp_base they are offset by, which no guard and no
\* property other than TypeOK reads.
StateView ==
    <<backend, now, rtp_time, rtp_time_0, audio_errors, idled, playing, tracks,
      registered, slotReady, phase, dead, sent.start, sent.len, sent.marker, idleSince,
      failRun>>
=============================================================================
