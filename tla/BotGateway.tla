----------------------------- MODULE BotGateway -----------------------------
(***************************************************************************)
(* The gateway of modules/pushbot.c for one bot.  A bot connects with a    *)
(* WebSocket and says IDENTIFY, which begins a numbered stream of events,  *)
(* or RESUME, which continues one: events are kept in a queue until the    *)
(* bot has acknowledged them or they are too old.  A connection that is    *)
(* not heard of for too long is closed, and one that is closed is taken    *)
(* down by the main loop later on, so two may be there at a time.          *)
(*                                                                         *)
(* The bot at the other end says one thing when it connects and then sends *)
(* heartbeats.  It may turn to a new connection at any time, and what it   *)
(* said on the old one may still arrive.  Times are relative to now.       *)
(***************************************************************************)
EXTENDS Integers, Sequences

CONSTANTS
    Conns,      \* places for connections to the gateway
    None,       \* no connection
    Cap,        \* PB_QUEUE_MAX
    TTL,        \* PB_RESUME_TTL_SEC
    Grace,      \* PB_HEARTBEAT_GRACE_MS
    MaxSeq,     \* bound on the events of a stream
    MaxStreams  \* bound on the number of IDENTIFYs

ASSUME GatewayAssumption ==
    /\ None \notin Conns
    /\ Cap \in Nat \ {0} /\ TTL \in Nat /\ Grace \in Nat
    /\ MaxSeq \in Nat /\ MaxStreams \in Nat

VARIABLES
    conn,     \* conn[c]: a connection and its PbSession
    bot,      \* the PbBot
    minted,   \* bot.rid was made in this second
    peer,     \* the bot's program: its connection and where it is in a stream
    streams,  \* the number of IDENTIFYs so far
    last,     \* history: the connection that identified or resumed last, if
              \* it is still there
    lost      \* history: <<stream, seq>> of events that left the queue unseen

vars == <<conn, bot, minted, peer, streams, last, lost>>

World == [conn |-> conn, bot |-> bot, minted |-> minted, peer |-> peer,
          streams |-> streams, last |-> last, lost |-> lost]

\* A place without a connection.
Free == [st |-> "none", identified |-> FALSE, in |-> <<>>, out |-> <<>>]

NoWindow == -2  \* resume_expires_at is 0

-----------------------------------------------------------------------------
(* The operations on a bot and its connections *)

\* pb_close_ws(): dead_socket() drops what was read; what was sent may arrive.
pb_close_ws(w, c) == [w EXCEPT !.conn[c].st = "dead", !.conn[c].in = <<>>]

\* The events of S that the bot has not seen.  Outside a stream there is nobody
\* to see them.
Unseen(w, S) ==
    {<<w.bot.stream, n>> : n \in {m \in S : /\ w.bot.stream # 0
                                           /\ w.peer.stream = w.bot.stream => m > w.peer.seq}}
Seqs(q) == {q[i].seq : i \in DOMAIN q}
Dropped(w, kept) == Unseen(w, Seqs(w.bot.queue) \ Seqs(kept))

\* A queue without its leading events, up to the first whose place is not in D.
Behind(q, D) ==
    LET k == CHOOSE k \in 0..Len(q) : 1..k \subseteq D /\ k + 1 \notin D
    IN  SubSeq(q, k + 1, Len(q))

\* Variant with a plausible bug: the first event after it goes too.
pb_queue_ack_next(w, msg) ==
    LET q == w.bot.queue
        kept == Behind(q, {i \in DOMAIN q : q[i].seq <= msg.seq + 1})
    IN  [w EXCEPT !.bot.queue = kept,
                  !.lost = IF msg.stream = w.bot.stream THEN @
                           ELSE @ \cup Dropped(w, kept)]

\* pb_queue_ack(), for a message in which the bot says what it has seen.  The
\* number may be of another stream: the message does not say.
pb_queue_ack(w, msg) ==
    LET q == w.bot.queue
        kept == Behind(q, {i \in DOMAIN q : q[i].seq <= msg.seq})
    IN  [w EXCEPT !.bot.queue = kept,
                  !.lost = IF msg.stream = w.bot.stream THEN @
                           ELSE @ \cup Dropped(w, kept)]

\* pb_queue_expire().  All are given the same time, so those that are too old are
\* at the front (ExpireDropsAll).
pb_queue_expire(w) ==
    LET q == w.bot.queue
        kept == Behind(q, {i \in DOMAIN q : q[i].left < 0})
    IN  [w EXCEPT !.bot.queue = kept,
                  !.lost = @ \cup Dropped(w, kept)]

\* pb_queue_push(): a full queue refuses the event and costs the bot its session.
pb_queue_push(w, n) ==
    IF Len(w.bot.queue) < Cap
    THEN [w EXCEPT !.bot.queue = Append(@, [seq |-> n, left |-> TTL])]
    ELSE LET v == [w EXCEPT !.lost = @ \cup Unseen(w, {n})]
         IN  IF w.bot.session = None THEN v ELSE pb_close_ws(v, w.bot.session)

Frame(b, n) == [seq |-> n, stream |-> b.stream, rid |-> b.rid]

\* Frames are written to a connection, unless its socket is dead.  They get
\* nowhere when the bot has left it.
Write(w, c, frames) == IF w.conn[c].st = "dead" \/ w.peer.conn # c THEN w
                       ELSE [w EXCEPT !.conn[c].out = @ \o frames]

\* pb_dispatch_event()
pb_dispatch_event(w) ==
    LET n == w.bot.next + 1
        v == pb_queue_push([w EXCEPT !.bot.next = n], n)
        c == v.bot.session
    IN  IF c = None \/ ~v.conn[c].identified THEN v
        ELSE Write(v, c, <<Frame(v.bot, n)>>)

\* A session becomes the bot's.
Attach(w, c) ==
    [w EXCEPT !.bot.session = c, !.bot.window = NoWindow, !.bot.quiet = 0,
              !.last = c, !.conn[c].identified = TRUE]

\* pb_handle_identify().  The session id is made of the time in seconds.
pb_handle_identify(w, c) ==
    LET old == w.bot.session
        v == IF old \in {None, c} THEN w ELSE pb_close_ws(w, old)
        n == w.streams + 1
        u == [Attach(v, c) EXCEPT !.bot.queue = <<>>, !.bot.next = 0,
                                  !.bot.stream = n, !.streams = n,
                                  !.bot.rid = IF w.minted THEN @ ELSE n,
                                  !.minted = TRUE, !.bot.away = FALSE]
    IN  pb_dispatch_event(u)

\* pb_handle_resume().  The session that was attached before is left alone.
pb_handle_resume(w, c, msg) ==
    LET v == pb_queue_expire(w)
        u == Attach(pb_queue_ack(v, msg), c)
        replay == [i \in DOMAIN u.bot.queue |-> Frame(u.bot, u.bot.queue[i].seq)]
    IN  IF msg.rid # w.bot.rid \/ w.bot.rid = 0 THEN pb_close_ws(w, c)
        ELSE IF \/ v.bot.queue = <<>> /\ msg.seq < v.bot.next
                \/ msg.seq > v.bot.next
        THEN pb_close_ws(v, c)
        ELSE pb_dispatch_event(Write(u, c, replay))

\* pb_handle_heartbeat(), on any connection of the bot.  The time is looked at
\* only for the one that is attached.
pb_handle_heartbeat(w, c, msg) ==
    [pb_queue_ack(w, msg) EXCEPT !.bot.quiet = IF w.bot.session = c THEN 0 ELSE @]

\* Variant with a plausible bug: the end of any session detaches the bot.
pb_session_free_any(w, c) ==
    IF w.bot.session = None THEN w
    ELSE [w EXCEPT !.bot.session = None, !.bot.window = TTL, !.bot.quiet = 0,
                   !.bot.away = TRUE]

\* pb_session_free()
pb_session_free(w, c) ==
    IF w.bot.session # c THEN w
    ELSE [w EXCEPT !.bot.session = None, !.bot.window = TTL, !.bot.quiet = 0,
                   !.bot.away = TRUE]

\* exit_client(): the module data of the client is freed with it.
Gone(w, c) == [pb_session_free(w, c) EXCEPT !.conn[c] = Free,
                                            !.last = IF @ = c THEN None ELSE @]

-----------------------------------------------------------------------------
(* The steps *)

\* The events in l that the bot may still pass over.
Relevant(l, p, b) == {e \in l : IF e[1] = p.stream THEN e[2] > p.seq
                                ELSE e[1] = b.stream}

Become(w) ==
    /\ conn' = w.conn /\ bot' = w.bot /\ minted' = w.minted
    /\ peer' = w.peer /\ streams' = w.streams /\ last' = w.last
    /\ lost' = Relevant(w.lost, w.peer, w.bot)

Init ==
    /\ conn = [c \in Conns |-> Free]
    /\ bot = [session |-> None, queue |-> <<>>, next |-> 0, stream |-> 0,
              rid |-> 0, window |-> NoWindow, quiet |-> 0, away |-> TRUE]
    /\ minted = FALSE
    /\ peer = [conn |-> None, rid |-> 0, seq |-> 0, stream |-> 0]
    /\ streams = 0 /\ last = None /\ lost = {}

\* Events on the way are received, or lost when the bot leaves, before anything
\* else happens: it makes no difference to the others when that is.
Settled == \A c \in Conns : conn[c].out = <<>>

\* What is on the way to a bot that leaves its connection is not read any more.
Abandoned == [c \in Conns |-> IF c = peer.conn THEN [conn[c] EXCEPT !.out = <<>>]
                              ELSE conn[c]]

Says(op, seq, rid, stream) == <<[op |-> op, seq |-> seq, rid |-> rid, stream |-> stream]>>

\* The bot opens a connection, leaving any other, and begins a new stream or asks
\* to resume its own.  pb_handle_webrequest() makes the session.
Identify(c) ==
    /\ Settled /\ conn[c].st = "none" /\ streams < MaxStreams
    /\ conn' = [Abandoned EXCEPT ![c] = [Free EXCEPT !.st = "open",
                                             !.in = Says("identify", 0, 0, 0)]]
    /\ peer' = [conn |-> c, rid |-> 0, seq |-> 0, stream |-> 0]
    /\ lost' = Relevant(lost, peer', bot)
    /\ UNCHANGED <<bot, minted, streams, last>>

Resume(c) ==
    /\ Settled /\ conn[c].st = "none" /\ peer.rid # 0
    /\ conn' = [Abandoned EXCEPT ![c] = [Free EXCEPT !.st = "open",
                    !.in = Says("resume", peer.seq, peer.rid, peer.stream)]]
    /\ peer' = [peer EXCEPT !.conn = c]
    /\ UNCHANGED <<bot, minted, streams, last, lost>>

\* The bot leaves its connection, with or without closing it.
Leave ==
    /\ peer.conn # None
    /\ conn' = Abandoned
    /\ peer' = [peer EXCEPT !.conn = None]
    /\ UNCHANGED <<bot, minted, streams, last, lost>>

\* The bot sends a heartbeat with the last number it has seen.
Beat ==
    LET c == peer.conn
    IN  /\ Settled /\ c # None /\ conn[c].st = "open" /\ conn[c].in = <<>>
        /\ conn' = [conn EXCEPT ![c].in = Says("heartbeat", peer.seq, 0, peer.stream)]
        /\ UNCHANGED <<bot, minted, peer, streams, last, lost>>

\* An event reaches the bot; the first of a stream is READY, with the session id.
Receive ==
    LET c == peer.conn
        f == Head(conn[c].out)
    IN  /\ c # None /\ conn[c].out # <<>>
        /\ conn' = [conn EXCEPT ![c].out = Tail(@)]
        /\ peer' = [peer EXCEPT !.seq = f.seq, !.stream = f.stream,
                                !.rid = IF f.seq = 1 THEN f.rid ELSE @]
        /\ lost' = Relevant(lost, peer', bot)
        /\ UNCHANGED <<bot, minted, streams, last>>

\* pb_handle_ws_message()
Message(c) ==
    LET msg == Head(conn[c].in)
        w == [World EXCEPT !.conn[c].in = Tail(@)]
    IN  /\ Settled /\ conn[c].st = "open" /\ conn[c].in # <<>>
        /\ \/ /\ msg.op = "identify" /\ streams < MaxStreams
              /\ Become(pb_handle_identify(w, c))
           \/ /\ msg.op = "resume" /\ bot.next < MaxSeq
              /\ Become(pb_handle_resume(w, c, msg))
           \/ /\ msg.op = "heartbeat"
              /\ Become(pb_handle_heartbeat(w, c, msg))

\* Something happens that the bot is told of.  Most events pass over a bot that
\* nothing can be sent to (pb_bot_deliverable); a workflow action does not, nor
\* does any event when there is a webhook besides the gateway.
Event ==
    /\ Settled /\ bot.next < MaxSeq
    /\ Become(pb_dispatch_event(World))

\* Variant with a plausible bug: a quiet session is left to the network.
HeartbeatTimeout_never(w) == w

\* pb_heartbeat_check(), the session that is attached.
HeartbeatTimeout(w) ==
    LET c == w.bot.session
    IN  IF c # None /\ w.conn[c].identified /\ w.bot.quiet > Grace
        THEN pb_close_ws(w, c) ELSE w

\* pb_heartbeat_check(), when there is none: forget what is too old, and the
\* stream once the window is over and nothing is left of it.
Forget(w) ==
    LET v == pb_queue_expire(w)
    IN  IF w.bot.session # None THEN w
        ELSE IF w.bot.window # -1 \/ v.bot.queue # <<>> THEN v
        ELSE [v EXCEPT !.bot.rid = 0, !.bot.stream = 0, !.bot.next = 0,
                       !.bot.window = NoWindow]

HeartbeatCheck ==
    /\ Settled
    /\ Become(Forget(HeartbeatTimeout(World)))

\* check_deadsockets() takes down a connection that was closed.
Reap(c) ==
    /\ Settled /\ conn[c].st = "dead"
    /\ Become([Gone(World, c) EXCEPT !.peer.conn = IF @ = c THEN None ELSE @])

\* A connection the bot has left ends: it was closed, or a write fails.
Eof(c) ==
    /\ Settled /\ conn[c].st = "open" /\ peer.conn # c
    /\ Become(Gone(World, c)) \/ Become(pb_close_ws(World, c))

\* Time passes; what is past its time is not told apart further.
Older(n) == IF n > -1 THEN n - 1 ELSE n

Tick ==
    LET q == bot.queue
    IN  /\ Settled
        /\ bot' = [bot EXCEPT !.queue = [i \in DOMAIN q |-> [q[i] EXCEPT !.left = Older(@)]],
                              !.window = Older(@),
                              !.quiet = IF bot.session = None \/ @ > Grace THEN @
                                        ELSE @ + 1]
        /\ minted' = FALSE
        /\ UNCHANGED <<conn, peer, streams, last, lost>>

Next ==
    \/ \E c \in Conns : Identify(c) \/ Resume(c) \/ Message(c) \/ Reap(c) \/ Eof(c)
    \/ Beat
    \/ Receive
    \/ Leave
    \/ Event
    \/ HeartbeatCheck
    \/ Tick

\* Time passes, and the main loop runs its timers.
Fairness ==
    /\ WF_vars(Tick)
    /\ WF_vars(bot.quiet > Grace /\ HeartbeatCheck)
    /\ \A c \in Conns : WF_vars(Reap(c))

Spec == Init /\ [][Next]_vars
FairSpec == Spec /\ Fairness

-----------------------------------------------------------------------------
(* Properties *)

\* What RESUME is for (pb_handle_resume, pb_queue_ack): however often the bot
\* loses its connection, it sees the events of a stream in order and each once.
\* It passes over one only if that was in the queue for too long, was refused by
\* a full queue, or was released by a message about another stream.
StreamInOrder ==
    [][peer'.stream = peer.stream /\ peer'.seq # peer.seq =>
           /\ peer'.seq > peer.seq
           /\ \A n \in (peer.seq + 1)..(peer'.seq - 1) : <<peer.stream, n>> \in lost]_vars

\* The bot belongs to the session that identified or resumed last for as long as
\* that connection is there (pb_session_free): neither the late end of an older
\* one nor a time-out takes it away.  Without a session the bot is shown as away.
LastAttachedServes ==
    /\ bot.session = last
    /\ IF last = None THEN bot.away
       ELSE conn[last].st # "none" /\ conn[last].identified

\* A session whose bot has gone without a word does not stay attached
\* (pb_heartbeat_check): it is closed, or replaced.
AbandonedDetached == \A c \in Conns : []<>~(bot.session = c /\ peer.conn # c)
=============================================================================
