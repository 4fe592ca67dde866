\* The tied reader/writer pair under every interleaving of the peer, the
\* loop's timeouts and fd callbacks, and the server's callbacks: safety of
\* the socket's close, and its eventual close once the peer has gone.
CONSTANTS
  SpaceBound = 2
  Big = 2
  \* buffer_space starts from 16 bytes; from one unit here, so that the
  \* greeting takes a new block, the next reply a larger one, and a reply
  \* after a partial write compacts the block.
  MinBlock = 1
  MaxLines = 4
  Lines <- MCLines
SPECIFICATION Spec
\* The peer sends at most MaxLines lines; after the connection is released
\* the loop has nothing left to do and blocks in select().
CHECK_DEADLOCK FALSE
INVARIANTS
  TypeOK
  FdReleasedOnce
  WriterHandleLive
  WriterBufferInBlock
PROPERTY
  PeerGoneReleased
