----------------------------- MODULE ByteQueue -----------------------------
(***************************************************************************)
(* What a dynamic buffer promises its users (include/dbuf.h): one queue of *)
(* bytes and its length.  Bytes are added at the end, taken from the front, *)
(* and nothing else happens to them.                                       *)
(***************************************************************************)
EXTENDS Naturals, Sequences

CONSTANTS
    Bytes,  \* the byte values
    MaxPut  \* the most bytes put at once

VARIABLES
    content,  \* the bytes in the queue, oldest first
    length,   \* DBufLength(): what every SendQ and flood limit is decided by
    out       \* the bytes handed to the reader by the last step

bqvars == <<content, length, out>>

BQInit == content = <<>> /\ length = 0 /\ out = <<>>

Add(s) ==
    /\ content' = content \o s
    /\ length' = length + Len(s)
    /\ out' = <<>>

\* The reader sees the bytes it takes and no others.
Take(n) ==
    /\ content' = SubSeq(content, n + 1, Len(content))
    /\ length' = length - n
    /\ out' = SubSeq(content, 1, n)

BQNext ==
    \/ \E n \in 1..MaxPut : \E s \in [1..n -> Bytes] : Add(s)
    \/ \E n \in 0..Len(content) : Take(n)

BQSpec == BQInit /\ [][BQNext]_bqvars
=============================================================================
