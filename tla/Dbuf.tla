-------------------------------- MODULE Dbuf --------------------------------
(***************************************************************************)
(* The dynamic buffers of src/dbuf.c: a list of blocks of a fixed size     *)
(* with a separate count of the bytes in them.  A buffer is used in one of *)
(* three ways: as recvQ, from which parse_client_queued() takes lines; as  *)
(* sendQ, from which send_queued() writes out the first block, or a part   *)
(* of it; and to collect an answer that is then taken whole (dbuf_get).    *)
(*                                                                         *)
(* Of the bytes the code tells apart the end of a line (CR and LF, which   *)
(* it treats alike), the space and all others.                             *)
(***************************************************************************)
EXTENDS Integers, SequencesExt

CONSTANTS
    BlockSize,  \* DBUF_BLOCK_SIZE
    LineMax,    \* READBUFSIZE - 2
    Letters,    \* bytes that are neither space nor the end of a line
    MaxPut,     \* the most bytes put at once
    MaxFed      \* bound on the number of bytes put in total

ASSUME DbufAssumption ==
    /\ BlockSize \in Nat \ {0} /\ LineMax \in Nat \ {0}
    /\ MaxPut \in Nat \ {0} /\ MaxFed \in Nat
    /\ Letters \cap {"eol", "space"} = {}

Bytes == Letters \cup {"eol", "space"}

VARIABLES
    use,    \* "recvQ", "sendQ" or "data"
    dyn,    \* the dbuf: blocks and length
    out,    \* the bytes that left the buffer in the last step
    fed,    \* history: all bytes put since the buffer was last cleared
    lines   \* history: the lines dbuf_getmsg returned since

vars == <<use, dyn, out, fed, lines>>

Content(q) == FlattenSeq(q.blocks)

-----------------------------------------------------------------------------
(* The operations *)

Smaller(i, j) == IF i < j THEN i ELSE j

\* dbuf_put(): fill the last block, then blocks from dbuf_alloc().
RECURSIVE dbuf_put(_, _)
dbuf_put(q, s) ==
    IF s = <<>> THEN q
    ELSE LET bs == IF q.blocks = <<>> \/ Len(Last(q.blocks)) = BlockSize
                   THEN Append(q.blocks, <<>>) ELSE q.blocks
             amount == Smaller(BlockSize - Len(Last(bs)), Len(s))
         IN  dbuf_put([blocks |-> [bs EXCEPT ![Len(bs)] =
                                      Last(bs) \o SubSeq(s, 1, amount)],
                       length |-> q.length + amount],
                      SubSeq(s, amount + 1, Len(s)))

\* dbuf_delete(): free whole blocks, then move the rest of the first one down.
RECURSIVE dbuf_delete(_, _)
dbuf_delete(q, n) ==
    IF n = 0 THEN q
    ELSE LET first == Head(q.blocks)
         IN  IF n < Len(first)
             THEN [blocks |-> <<SubSeq(first, n + 1, Len(first))>> \o
                              Tail(q.blocks),
                   length |-> q.length - n]
             ELSE dbuf_delete([blocks |-> Tail(q.blocks),
                               length |-> q.length - Len(first)],
                              n - Len(first))

\* Variant with a plausible bug: spaces are dropped inside a line too.
ScanNoSpaces(st, c) ==
    IF st.phase = 3 THEN st
    ELSE IF c \in {"eol", "space"}
    THEN [st EXCEPT !.empty = st.empty + 1,
                    !.phase = IF st.phase = 1 /\ c = "eol" THEN 2 ELSE st.phase]
    ELSE IF st.phase = 2 THEN [st EXCEPT !.phase = 3]
    ELSE [st EXCEPT !.phase = 1, !.bytes = st.bytes + 1,
                    !.line = Append(st.line, c)]

\* One byte in dbuf_getmsg(): phase 0 is before the line, 1 in it, 2 after it,
\* and 3 is the first byte of the next line, where it returns.
Scan(st, c) ==
    IF st.phase = 3 THEN st
    ELSE IF c = "eol" \/ (c = "space" /\ st.phase # 1)
    THEN [st EXCEPT !.empty = st.empty + 1,
                    !.phase = IF st.phase = 1 THEN 2 ELSE st.phase]
    ELSE IF st.phase = 2 THEN [st EXCEPT !.phase = 3]
    ELSE [st EXCEPT !.phase = 1, !.bytes = st.bytes + 1,
                    !.line = IF st.bytes < LineMax THEN Append(st.line, c)
                             ELSE st.line]

\* dbuf_getmsg(): the line, or <<>> if none is complete, and the bytes to
\* delete.
dbuf_getmsg(q) ==
    LET st == FoldLeft(Scan, [phase |-> 0, bytes |-> 0, empty |-> 0,
                              line |-> <<>>], Content(q))
    IN  IF st.phase >= 2
        THEN [line |-> st.line, n |-> st.bytes + st.empty]
        ELSE [line |-> <<>>, n |-> st.empty]

-----------------------------------------------------------------------------
(* The steps *)

Init ==
    /\ use \in {"recvQ", "sendQ", "data"}
    /\ dyn = [blocks |-> <<>>, length |-> 0]
    /\ out = <<>> /\ fed = <<>> /\ lines = <<>>

\* dbuf_put(), by process_packet(), sendbufto_one() and others.
Put(s) ==
    /\ Len(fed) + Len(s) <= MaxFed
    /\ dyn' = dbuf_put(dyn, s)
    /\ fed' = fed \o s
    /\ out' = <<>>
    /\ UNCHANGED <<use, lines>>

\* Variant with a plausible bug: the bytes not written are deleted too.
LeaveWholeBlock(n) ==
    /\ dyn' = dbuf_delete(dyn, Smaller(dyn.length, n + 1))
    /\ out' = SubSeq(Content(dyn), 1, n)

\* The first n bytes leave the buffer.
Leave(n) ==
    /\ dyn' = dbuf_delete(dyn, n)
    /\ out' = SubSeq(Content(dyn), 1, n)

\* dbuf_getmsg(), by parse_client_queued().
GetMsg ==
    LET r == dbuf_getmsg(dyn)
    IN  /\ use = "recvQ"
        /\ dyn.length > 0
        /\ Leave(r.n)
        /\ lines' = IF r.line = <<>> THEN lines ELSE Append(lines, r.line)
        /\ UNCHANGED <<use, fed>>

\* One round of send_queued(): n bytes of the first block were written.
Write(n) ==
    /\ use = "sendQ"
    /\ dyn.length > 0
    /\ n <= Len(Head(dyn.blocks))
    /\ Leave(n)
    /\ UNCHANGED <<use, fed, lines>>

\* dbuf_get(), by rrpc_data() once a request or response is complete.
Get ==
    /\ use = "data"
    /\ Leave(Len(Content(dyn)))
    /\ UNCHANGED <<use, fed, lines>>

\* DBufClear(), by dead_socket() and STARTTLS.
Clear ==
    /\ dyn' = dbuf_delete(dyn, dyn.length)
    /\ out' = SubSeq(Content(dyn), 1, dyn.length)
    /\ fed' = <<>> /\ lines' = <<>>
    /\ UNCHANGED use

Next ==
    \/ \E n \in 1..MaxPut : \E s \in [1..n -> Bytes] : Put(s)
    \/ GetMsg
    \/ \E n \in 0..BlockSize : Write(n)
    \/ Get
    \/ Clear

Spec == Init /\ [][Next]_vars

-----------------------------------------------------------------------------
(* Properties *)

\* The lines of a byte stream: the parts before each end of line without
\* leading spaces, the empty ones left out, cut at LineMax.
LinesOf(s) ==
    LET ends == SetToSortSeq({i \in DOMAIN s : s[i] = "eol"},
                             LAMBDA i, j : i < j)
        Part(k) == SubSeq(s, IF k = 1 THEN 1 ELSE ends[k - 1] + 1, ends[k] - 1)
        Skip(p) == CHOOSE i \in 0..Len(p) :
                       /\ \A j \in 1..i : p[j] = "space"
                       /\ i < Len(p) => p[i + 1] # "space"
        Cut(p) == SubSeq(p, Skip(p) + 1, Smaller(Skip(p) + LineMax, Len(p)))
    IN  SelectSeq([k \in DOMAIN ends |-> Cut(Part(k))], LAMBDA p : p # <<>>)

\* The lines dbuf_getmsg() has returned, followed by those still in the buffer,
\* are the lines of everything received: how the bytes were split into reads
\* and blocks makes no difference, and no complete line is left unseen.
LinesExact ==
    use = "recvQ" =>
        /\ lines \o LinesOf(Content(dyn)) = LinesOf(fed)
        /\ dbuf_getmsg(dyn).line = <<>> <=> LinesOf(Content(dyn)) = <<>>

Queue == INSTANCE ByteQueue WITH content <- Content(dyn), length <- dyn.length

\* The blocks and the separate count of dbuf_put() and dbuf_delete() implement
\* one queue of bytes of which DBufLength() is the length: whatever the sizes put
\* and taken, what leaves is what was put, in order.
ImplementsByteQueue == Queue!BQSpec
=============================================================================
