------------------------------- MODULE Buffer -------------------------------
(***************************************************************************)
(* struct buffer of lib/event.c and buffer_space(), which makes room for   *)
(* more bytes after the buffered ones, by compacting the block or by       *)
(* moving them to a larger one.  Pointers are offsets from base: a buffer  *)
(* is the size of its block (top - base), start and end.  The bytes        *)
(* themselves are not modelled; memcpy and memmove move end - start of     *)
(* them to the start of the block.                                         *)
(***************************************************************************)
EXTENDS Integers

CONSTANT MinBlock   \* the first block size tried: 16 bytes in the code

ASSUME MinBlock \in Nat \ {0}

\* A buffer of a zeroed struct: no block yet.
NoBuffer == [size |-> 0, start |-> 0, end |-> 0]

Buffered(b) == b.end - b.start

\* for(n = 16; n < newspace; n *= 2): the first doubling of the first
\* block size that holds newspace bytes.
RECURSIVE BlockSize(_, _)
BlockSize(n, newspace) == IF n < newspace THEN BlockSize(2 * n, newspace) ELSE n

\* memmove(base, start, end - start): the buffered bytes move to the start
\* of the block.
Compact(b) == [b EXCEPT !.start = 0, !.end = Buffered(b)]

\* Mutant of Reallocate: the new block is sized for the new bytes only.
ReallocateNewOnly(b, bytes) ==
    [size |-> BlockSize(MinBlock, bytes), start |-> 0, end |-> Buffered(b)]

\* xmalloc_noptr a block that holds the buffered bytes and the new ones,
\* and memcpy the buffered bytes to its start.
Reallocate(b, bytes) ==
    [size |-> BlockSize(MinBlock, Buffered(b) + bytes), start |-> 0, end |-> Buffered(b)]

\* buffer_space(b, bytes): an empty buffer is rewound to base; then, if
\* fewer than bytes are free after end, the block is compacted when the
\* space before start makes up the difference and replaced otherwise.
buffer_space(b, bytes) ==
    LET b1 == IF b.start = b.end THEN [b EXCEPT !.start = 0, !.end = 0] ELSE b
    IN IF b1.size - b1.end >= bytes THEN b1
       ELSE IF (b1.size - b1.end) + b1.start >= bytes THEN Compact(b1)
       ELSE Reallocate(b1, bytes)
=============================================================================
