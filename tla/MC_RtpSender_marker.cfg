CONSTANTS
    \* RTP_AHEAD_MS of audio is two packets of two frames here.
    Ahead = 8
    MaxFrames = 2
    \* The loop asks for fewer frames than a packet holds, or more.
    FrameOffers = {1, 3}
    MaxTick = 4
    MaxTime = 12
    MaxTracks = 2
    SeqMod = 4
    TsMod = 8
    \* The marker is checked on the network backend, whose loop sets idled.
    Backends = {"network"}
SPECIFICATION Spec
\* fatal() ends the speaker process: the system really stops there.
CHECK_DEADLOCK FALSE
VIEW StateView
PROPERTY MarkerAfterIdle
