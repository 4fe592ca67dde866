\* A reply abandons the writer and a deferred command leaves a line for the
\* reader's continuation: is that line handled without a writer?
CONSTANTS
  SpaceBound = 2
  Big = 2
  \* buffer_space starts from 16 bytes; from one unit here, so that the
  \* greeting takes a new block, the next reply a larger one, and a reply
  \* after a partial write compacts the block.
  MinBlock = 1
  MaxLines = 3
  Lines <- MCLines
SPECIFICATION Spec
\* The peer sends at most MaxLines lines; after the connection is released
\* the loop has nothing left to do and blocks in select().
CHECK_DEADLOCK FALSE
INVARIANT CommandHasWriter
