-------------------------- MODULE BotGatewayProofs --------------------------
(***************************************************************************)
(* The bot belongs to the connection that identified or resumed last, and  *)
(* sees the events of a stream in order and each once, for any number of   *)
(* connections, streams and events and any sizes of the queue and of the   *)
(* time-outs.                                                              *)
(*                                                                         *)
(* The steps are built from operations on the state as a record, so both   *)
(* arguments are one lemma for each operation.  The first needs only the   *)
(* fields of the records: what is in the queue and on the way does not     *)
(* matter for it.  The second is about exactly that.  Events that the bot  *)
(* may still ask for are in the queue or are lost (Kept); frames are on    *)
(* the way only on a connection that both ends take for theirs, in order   *)
(* and with nothing left out that is not lost (Told); and what the bot has *)
(* said never goes beyond what it has seen (Said), so that no message      *)
(* makes the gateway drop an event the bot still needs.                    *)
(***************************************************************************)
EXTENDS BotGateway, TLAPS

\* The fields are there, and LastAttachedServes, for the state as a record.
Good(w) ==
    /\ DOMAIN w = {"conn", "bot", "minted", "peer", "streams", "last", "lost"}
    /\ DOMAIN w.conn = Conns
    /\ \A c \in Conns : DOMAIN w.conn[c] = {"st", "identified", "in", "out"}
    /\ DOMAIN w.bot = {"session", "queue", "next", "stream", "rid", "window",
                       "quiet", "away"}
    /\ w.bot.session \in Conns \cup {None}
    /\ w.bot.session = w.last
    /\ w.last = None => w.bot.away
    /\ w.last # None => w.conn[w.last].st # "none" /\ w.conn[w.last].identified

\* Only the queue, the numbers and the histories of events differ.
Alike(v, w) ==
    /\ DOMAIN v = DOMAIN w /\ DOMAIN v.bot = DOMAIN w.bot
    /\ v.conn = w.conn /\ v.last = w.last
    /\ v.bot.session = w.bot.session /\ v.bot.away = w.bot.away

\* What does not touch sessions keeps the property.
LEMMA AlikeKeeps ==
    ASSUME NEW w, NEW v, Good(w), Alike(v, w)
    PROVE  Good(v)
BY Zenon DEF Good, Alike

\* pb_queue_ack() only releases events.
LEMMA AckAlike ==
    ASSUME NEW w, NEW msg, Good(w)
    PROVE  Alike(pb_queue_ack(w, msg), w)
BY Zenon DEF Good, Alike, pb_queue_ack

\* pb_queue_expire() only drops events.
LEMMA ExpireAlike ==
    ASSUME NEW w, Good(w)
    PROVE  Alike(pb_queue_expire(w), w)
BY Zenon DEF Good, Alike, pb_queue_expire

\* pb_close_ws() leaves the session where it is, until it is taken down.
LEMMA CloseKeeps ==
    ASSUME NEW w, Good(w), NEW c \in Conns
    PROVE  Good(pb_close_ws(w, c))
BY DEF Good, pb_close_ws

\* pb_queue_push() may close the session.
LEMMA PushKeeps ==
    ASSUME NEW w, Good(w), NEW n
    PROVE  Good(pb_queue_push(w, n))
<1> DEFINE v == [w EXCEPT !.lost = @ \cup Unseen(w, {n})]
<1>1. Good([w EXCEPT !.bot.queue = Append(@, [seq |-> n, left |-> TTL])])
  BY Zenon DEF Good
<1>2. Alike(v, w)
  BY Zenon DEF Good, Alike
<1>3. Good(v)
  BY <1>2, AlikeKeeps, SMTT(60)
<1>4. w.bot.session # None => Good(pb_close_ws(v, w.bot.session))
  BY <1>3, CloseKeeps, Zenon DEF Good
<1> QED
  BY <1>1, <1>3, <1>4, Zenon DEF pb_queue_push

\* Frames do not touch sessions.
LEMMA WriteKeeps ==
    ASSUME NEW w, Good(w), NEW c \in Conns, NEW frames
    PROVE  Good(Write(w, c, frames))
BY SMTT(60) DEF Good, Write

\* pb_dispatch_event() is a push and a frame.
LEMMA DispatchKeeps ==
    ASSUME NEW w, Good(w)
    PROVE  Good(pb_dispatch_event(w))
<1> DEFINE n == w.bot.next + 1
           x == [w EXCEPT !.bot.next = n]
           v == pb_queue_push(x, n)
           c == v.bot.session
<1>1. Alike(x, w)
  BY Zenon DEF Good, Alike
<1>2. pb_dispatch_event(w) = v \/ (c # None /\ pb_dispatch_event(w) =
                                      Write(v, c, <<Frame(v.bot, n)>>))
  BY Zenon DEF pb_dispatch_event
<1> HIDE DEF x, n
<1>3. Good(v)
  BY <1>1, AlikeKeeps, PushKeeps, Zenon
<1> HIDE DEF v
<1>4. c # None => Good(Write(v, c, <<Frame(v.bot, n)>>))
  BY <1>3, WriteKeeps, Zenon DEF Good
<1> QED BY <1>2, <1>3, <1>4, Zenon

\* The session that is attached is the last one, and identified.
LEMMA AttachKeeps ==
    ASSUME NEW w, Good(w), NEW c \in Conns, w.conn[c].st # "none"
    PROVE  Good(Attach(w, c)) /\ Attach(w, c).last = c
<1> DEFINE b == [w.bot EXCEPT !.session = c, !.window = NoWindow, !.quiet = 0]
           k == [w.conn EXCEPT ![c].identified = TRUE]
           x == Attach(w, c)
<1>1. /\ DOMAIN x = DOMAIN w
      /\ x.bot = b /\ x.conn = k /\ x.last = c
  BY Zenon DEF Good, Attach
<1>2. /\ DOMAIN b = DOMAIN w.bot /\ b.session = c
  BY Zenon DEF Good
<1>3. /\ DOMAIN k = Conns
      /\ \A d \in Conns : DOMAIN k[d] = DOMAIN w.conn[d]
      /\ k[c].st = w.conn[c].st /\ k[c].identified = TRUE
  BY Zenon DEF Good
<1> HIDE DEF b, k, x
<1>4. Good(x) /\ x.last = c
  BY <1>1, <1>2, <1>3, GatewayAssumption, SMTT(60) DEF Good
<1> QED
  BY <1>4, Zenon DEF x

\* pb_handle_identify() closes the session it replaces, and does not detach it.
LEMMA IdentifyKeeps ==
    ASSUME NEW w, Good(w), NEW c \in Conns, w.conn[c].st # "none"
    PROVE  Good(pb_handle_identify(w, c))
<1> DEFINE old == w.bot.session
           v == IF old \in {None, c} THEN w ELSE pb_close_ws(w, old)
           n == w.streams + 1
           u == [Attach(v, c) EXCEPT !.bot.queue = <<>>, !.bot.next = 0,
                                     !.bot.stream = n, !.streams = n,
                                     !.bot.rid = IF w.minted THEN @ ELSE n,
                                     !.minted = TRUE, !.bot.away = FALSE]
<1>1. Good(v)
  BY CloseKeeps DEF Good
<1>2. v.conn[c].st # "none"
  BY Zenon DEF Good, pb_close_ws
<1> HIDE DEF v
<1>3. Good(Attach(v, c)) /\ Attach(v, c).last = c
  BY <1>1, <1>2, AttachKeeps, Zenon
<1>4. Good(u)
  <2> DEFINE x == Attach(v, c)
  <2>1. /\ DOMAIN u = DOMAIN x /\ DOMAIN u.bot = DOMAIN x.bot
        /\ u.conn = x.conn /\ u.last = x.last /\ u.bot.session = x.bot.session
    BY <1>3, ZenonT(90) DEF Good
  <2> HIDE DEF x, u
  <2>2. Good(x) /\ x.last = c
    BY <1>3, Zenon DEF x
  <2> QED
    BY <2>1, <2>2, GatewayAssumption, Zenon DEF Good
<1> QED
  BY <1>4, DispatchKeeps, Zenon DEF pb_handle_identify, v

\* pb_handle_resume() closes the connection it refuses, which is not attached
\* unless it was, or attaches it.
LEMMA ResumeKeeps ==
    ASSUME NEW w, Good(w), NEW c \in Conns, w.conn[c].st # "none", NEW msg
    PROVE  Good(pb_handle_resume(w, c, msg))
<1> DEFINE v == pb_queue_expire(w)
           a == pb_queue_ack(v, msg)
           u == Attach(a, c)
           replay == [i \in DOMAIN u.bot.queue |-> Frame(u.bot, u.bot.queue[i].seq)]
<1>1. Good(v) /\ v.conn = w.conn
  BY ExpireAlike, AlikeKeeps, Zenon DEF Alike
<1>2. Good(a) /\ a.conn = w.conn
  <2> HIDE DEF v
  <2> QED BY <1>1, AckAlike, AlikeKeeps, Zenon DEF Alike
<1>3. Good(u)
  <2> HIDE DEF a
  <2> QED BY <1>2, AttachKeeps, Zenon
<1>4. Good(pb_dispatch_event(Write(u, c, replay)))
  <2> HIDE DEF u, replay
  <2> QED BY <1>3, WriteKeeps, DispatchKeeps, Zenon
<1>5. Good(pb_close_ws(w, c)) /\ Good(pb_close_ws(v, c))
  <2> HIDE DEF v
  <2> QED BY <1>1, CloseKeeps, Zenon
<1> QED
  BY <1>4, <1>5, Zenon DEF pb_handle_resume

\* pb_handle_heartbeat() releases events and sets a time.
LEMMA HeartbeatKeeps ==
    ASSUME NEW w, Good(w), NEW c \in Conns, NEW msg
    PROVE  Good(pb_handle_heartbeat(w, c, msg))
<1>1. Good(pb_queue_ack(w, msg))
  BY AckAlike, AlikeKeeps, Zenon
<1>2. Alike(pb_handle_heartbeat(w, c, msg), pb_queue_ack(w, msg))
  BY <1>1, Zenon DEF Good, Alike, pb_handle_heartbeat
<1> QED
  BY <1>1, <1>2, AlikeKeeps, Zenon

\* Taking down a connection detaches it if it is the last one, and only then:
\* here the test in pb_session_free() is needed.
LEMMA GoneKeeps ==
    ASSUME NEW w, Good(w), NEW c \in Conns
    PROVE  Good(Gone(w, c))
<1>1. CASE w.bot.session = c
  BY <1>1, GatewayAssumption, ZenonT(90) DEF Good, Gone, pb_session_free, Free
<1>2. CASE w.bot.session # c
  BY <1>2, GatewayAssumption, Zenon DEF Good, Gone, pb_session_free, Free
<1> QED BY <1>1, <1>2, Zenon

\* pb_heartbeat_check(): a time-out closes, and forgetting a stream is done only
\* without a session.
LEMMA CheckKeeps ==
    ASSUME NEW w, Good(w)
    PROVE  Good(Forget(HeartbeatTimeout(w)))
<1> DEFINE x == HeartbeatTimeout(w)
           v == pb_queue_expire(x)
<1>1. Good(x)
  <2>1. x = w \/ (w.bot.session # None /\ x = pb_close_ws(w, w.bot.session))
    BY Zenon DEF HeartbeatTimeout
  <2>2. w.bot.session # None => w.bot.session \in Conns
    BY Zenon DEF Good
  <2> HIDE DEF x
  <2> QED BY <2>1, <2>2, CloseKeeps, Zenon
<1> HIDE DEF x
<1>2. Good(v)
  BY <1>1, ExpireAlike, AlikeKeeps, Zenon
<1> HIDE DEF v
<1>3. Alike([v EXCEPT !.bot.rid = 0, !.bot.stream = 0, !.bot.next = 0,
                      !.bot.window = NoWindow], v)
  BY <1>2, Zenon DEF Good, Alike
<1>4. Good([v EXCEPT !.bot.rid = 0, !.bot.stream = 0, !.bot.next = 0,
                     !.bot.window = NoWindow])
  BY <1>2, <1>3, AlikeKeeps, Zenon
<1> QED
  BY <1>1, <1>2, <1>4, Zenon DEF Forget, v, x

-----------------------------------------------------------------------------
(* The steps *)

IInv == Good(World)

\* A step made of an operation keeps the invariant if the operation does.
LEMMA BecomeIInv ==
    ASSUME NEW w, Good(w), Become(w)
    PROVE  IInv'
<1>1. conn' = w.conn /\ bot' = w.bot /\ last' = w.last
  BY Zenon DEF Become
<1> QED
  BY <1>1, Zenon DEF IInv, World, Good

\* The steps of the bot change what is said and heard, and open a connection in
\* a place that was free.
LEMMA PeerIInv ==
    ASSUME IInv, bot' = bot, last' = last, DOMAIN conn' = Conns,
           \A c \in Conns : /\ DOMAIN conn'[c] = {"st", "identified", "in", "out"}
                            /\ conn[c].st # "none" => /\ conn'[c].st = conn[c].st
                                                      /\ conn'[c].identified = conn[c].identified
    PROVE  IInv'
BY Zenon DEF IInv, World, Good

\* Initially there is no connection, and the bot is away.
LEMMA InitIInv == Init => IInv
BY DEF Init, IInv, World, Good, Free

\* Leaving a connection empties what is on the way.
LEMMA AbandonedShape ==
    ASSUME IInv
    PROVE  /\ DOMAIN Abandoned = Conns
           /\ \A c \in Conns : /\ DOMAIN Abandoned[c] = {"st", "identified", "in", "out"}
                               /\ Abandoned[c].st = conn[c].st
                               /\ Abandoned[c].identified = conn[c].identified
BY Zenon DEF IInv, World, Good, Abandoned

\* One step per action of Next.
LEMMA NextIInv == IInv /\ [Next]_vars => IInv'
<1> SUFFICES ASSUME IInv, [Next]_vars PROVE IInv'
  BY Zenon
<1>w. Good(World) /\ World.conn = conn
  BY Zenon DEF IInv, World
<1>1. ASSUME NEW c \in Conns, Identify(c) \/ Resume(c) PROVE IInv'
  <2>1. PICK m : conn' = [Abandoned EXCEPT ![c] = [Free EXCEPT !.st = "open", !.in = m]]
    BY <1>1, Zenon DEF Identify, Resume
  <2>2. conn[c].st = "none" /\ bot' = bot /\ last' = last
    BY <1>1, Zenon DEF Identify, Resume
  <2> QED
    BY <2>1, <2>2, AbandonedShape, PeerIInv, Zenon DEF Free
<1>2. ASSUME NEW c \in Conns, Message(c) PROVE IInv'
  <2> DEFINE msg == Head(conn[c].in)
             w == [World EXCEPT !.conn[c].in = Tail(@)]
  <2>1. Good(w) /\ w.conn[c].st # "none"
    BY <1>2, <1>w, ZenonT(60) DEF Good, Message
  <2>2. \/ Become(pb_handle_identify(w, c))
        \/ Become(pb_handle_resume(w, c, msg))
        \/ Become(pb_handle_heartbeat(w, c, msg))
    BY <1>2, Zenon DEF Message
  <2> HIDE DEF w, msg
  <2> QED
    BY <2>1, <2>2, IdentifyKeeps, ResumeKeeps, HeartbeatKeeps, BecomeIInv, Zenon
<1>3. ASSUME NEW c \in Conns, Reap(c) PROVE IInv'
  <2> DEFINE g == Gone(World, c)
             w == [g EXCEPT !.peer.conn = IF @ = c THEN None ELSE @]
  <2>1. Good(g)
    BY <1>w, GoneKeeps, Zenon
  <2> HIDE DEF g
  <2>2. Alike(w, g)
    BY <2>1, Zenon DEF Good, Alike
  <2>3. Good(w)
    BY <2>1, <2>2, AlikeKeeps, Zenon
  <2>4. Become(w)
    BY <1>3, Zenon DEF Reap, g
  <2> QED
    BY <2>3, <2>4, BecomeIInv, Zenon
<1>4. ASSUME NEW c \in Conns, Eof(c) PROVE IInv'
  <2>1. Become(Gone(World, c)) \/ Become(pb_close_ws(World, c))
    BY <1>4, Zenon DEF Eof
  <2> QED
    BY <2>1, <1>w, GoneKeeps, CloseKeeps, BecomeIInv, Zenon
<1>5. CASE Beat
  BY <1>5, <1>w, PeerIInv, SMTT(60) DEF Beat, Good
<1>6. CASE Receive
  BY <1>6, <1>w, PeerIInv, ZenonT(90) DEF Receive, Good
<1>7. CASE Leave
  BY <1>7, AbandonedShape, PeerIInv, Zenon DEF Leave
<1>8. CASE Event
  BY <1>8, <1>w, DispatchKeeps, BecomeIInv, Zenon DEF Event
<1>9. CASE HeartbeatCheck
  BY <1>9, <1>w, CheckKeeps, BecomeIInv, Zenon DEF HeartbeatCheck
<1>10. CASE Tick
  <2>1. /\ DOMAIN bot' = DOMAIN bot /\ bot'.session = bot.session
        /\ bot'.away = bot.away /\ conn' = conn /\ last' = last
    BY <1>10, <1>w, Zenon DEF Tick, Good, World
  <2> QED
    BY <2>1, <1>w, Zenon DEF IInv, World, Good
<1>11. CASE UNCHANGED vars
  BY <1>11, Zenon DEF vars, IInv, World, Good
<1> QED
  BY <1>1, <1>2, <1>3, <1>4, <1>5, <1>6, <1>7, <1>8, <1>9, <1>10, <1>11, Zenon DEF Next

\* The bot belongs to the connection that identified or resumed last, until that
\* is taken down, and is shown as away when there is none (LastAttachedServes).
THEOREM BotStaysWithLast == Spec => []LastAttachedServes
<1>1. IInv => LastAttachedServes
  BY Zenon DEF IInv, World, Good, LastAttachedServes
<1> QED
  BY <1>1, InitIInv, NextIInv, PTL DEF Spec

\* r is what follows the first k items of q, which are those to drop.
RestFrom(r, q, S, D, k) ==
    /\ 1..k \subseteq D /\ k + 1 \notin D
    /\ r \in Seq(S) /\ Len(r) = Len(q) - k
    /\ \A i \in 1..Len(r) : r[i] = q[k + i]

\* A queue with a first event that is not among those to drop.
LEMMA BehindIsRest ==
    ASSUME NEW S, NEW q \in Seq(S), NEW D, NEW r, r = Behind(q, D),
           \E k \in 0..Len(q) : 1..k \subseteq D /\ k + 1 \notin D
    PROVE  \E k \in 0..Len(q) : RestFrom(r, q, S, D, k)
<1> DEFINE P(k) == 1..k \subseteq D /\ k + 1 \notin D
<1>2. PICK k \in 0..Len(q) : P(k) /\ r = SubSeq(q, k + 1, Len(q))
  BY Zenon DEF Behind
<1>3. /\ r \in Seq(S) /\ Len(r) = Len(q) - k
      /\ \A i \in 1..Len(r) : r[i] = q[k + i]
  <2>1. Len(q) \in Nat /\ \A i \in 1..Len(q) : q[i] \in S
    OBVIOUS
  <2>2. r = [i \in 1..(Len(q) - k) |-> q[k + i]]
    BY <1>2, <2>1
  <2>3. Len(q) - k \in Nat /\ \A i \in 1..(Len(q) - k) : q[k + i] \in S
    BY <1>2, <2>1
  <2> QED BY <2>2, <2>3
<1> QED BY <1>2, <1>3, Zenon DEF RestFrom

\* What is in the queue, on the way to the bot and on the way from it.
QueueItem == [seq : Nat, left : Int]
OutItem == [seq : Nat, stream : Nat, rid : Nat]
InItem == [op : {"identify", "resume", "heartbeat"}, seq : Nat, rid : Nat, stream : Nat]

\* The types of what the argument is about.
TypedBot(b) == /\ b.queue \in Seq(QueueItem)
               /\ b.next \in Nat /\ b.stream \in Nat /\ b.rid \in Nat
TypedPeer(p) == /\ DOMAIN p = {"conn", "rid", "seq", "stream"}
                /\ p.seq \in Nat /\ p.stream \in Nat /\ p.rid \in Nat
                /\ p.conn \in Conns \cup {None}
TypedConns(k) == \A c \in Conns : k[c].in \in Seq(InItem) /\ k[c].out \in Seq(OutItem)

\* The first k events are those up to number m, or those with less than m left.
BySeq(q, m, k) == (\A i \in 1..k : q[i].seq <= m) /\ (k < Len(q) => q[k + 1].seq > m)
ByTime(q, m, k) == (\A i \in 1..k : q[i].left < m) /\ (k < Len(q) => q[k + 1].left >= m)

\* Wherever a line is drawn, there is a first event behind it.
Parted(q) == \A m \in Int : /\ \E k \in 0..Len(q) : BySeq(q, m, k)
                            /\ \E k \in 0..Len(q) : ByTime(q, m, k)

\* The queue is in the order of the numbers and of the times.
Lined(q, n) ==
    /\ \A i \in 1..Len(q) : q[i].seq \in 1..n /\ q[i].left <= TTL
    /\ \A i, j \in 1..Len(q) : i < j => q[i].seq < q[j].seq /\ q[i].left <= q[j].left
    /\ Parted(q)

\* Streams are numbered as they begin, and the bot is in none that has not begun.
Numbered(b, p, k) ==
    /\ k \in Nat
    /\ b.stream # 0 => b.stream = k
    /\ p.stream <= k
    /\ b.rid # 0 => b.stream # 0
    /\ b.session # None => b.stream # 0
    /\ p.rid # 0 => p.stream # 0
    /\ p.stream = 0 => p.seq = 0
    /\ p.stream = b.stream => p.seq <= b.next

\* What the bot has said does not go beyond what it has seen.
Honest(m, p, k) ==
    /\ m.stream <= k
    /\ p.stream # 0 => m.stream <= p.stream
    /\ m.stream # 0 /\ m.stream = p.stream => m.seq <= p.seq

\* What it says on its own connection to resume is what it has seen.
Fresh(m, p) == m.op = "resume" => /\ m.seq = p.seq /\ m.stream = p.stream
                                  /\ m.stream # 0

\* A message at a time is on the way on a connection, and those that are do not
\* go beyond what the bot has seen.
Said(w) ==
    \A c \in Conns :
        /\ Len(w.conn[c].in) <= 1
        /\ \A i \in 1..Len(w.conn[c].in) :
               /\ Honest(w.conn[c].in[i], w.peer, w.streams)
               /\ c = w.peer.conn => Fresh(w.conn[c].in[i], w.peer)
               /\ c = w.bot.session => w.conn[c].in[i].op # "resume"

\* Event n is among q.
Holds(q, n) == \E i \in 1..Len(q) : q[i].seq = n

\* Events that the bot may still ask for are in the queue, or known to be lost.
Kept(b, p, L) ==
    b.stream # 0 =>
        /\ p.stream = b.stream =>
               \A n \in (p.seq + 1)..b.next : Holds(b.queue, n) \/ <<b.stream, n>> \in L
        /\ p.stream \notin {0, b.stream} =>
               \A n \in 1..b.next : Holds(b.queue, n) \/ <<b.stream, n>> \in L

\* What is on the way follows what the bot has seen.
Flows(o, live, b, p, L) ==
    /\ \A i \in 1..Len(o) : o[i].stream = b.stream /\ o[i].seq \in 1..b.next
    /\ \A i, j \in 1..Len(o) : i < j => o[i].seq < o[j].seq
    /\ p.stream = b.stream => \A i \in 1..Len(o) : p.seq < o[i].seq
    /\ p.stream = b.stream /\ (o # <<>> \/ live) =>
           \A n \in (p.seq + 1)..b.next : Holds(o, n) \/ <<b.stream, n>> \in L
    /\ p.stream # b.stream /\ o # <<>> =>
           \A n \in (o[1].seq + 1)..b.next : Holds(o, n) \/ <<b.stream, n>> \in L

\* The first of a stream comes to a bot that is in none.
Begins(o, b, p, L) ==
    o # <<>> /\ p.stream = 0 =>
        \A n \in (o[1].seq + 1)..b.next : Holds(b.queue, n) \/ <<b.stream, n>> \in L

\* Nothing that was said is about the bot's stream.
Unheard(w) == \A d \in Conns : \A i \in 1..Len(w.conn[d].in) : w.conn[d].in[i].stream < w.bot.stream

\* c is the bot's connection, at both ends.
Joined(w, c) == c = w.peer.conn /\ c = w.bot.session

\* Frames are on the way only on the connection that both ends take for theirs.
Told(w) ==
    \A c \in Conns :
        /\ w.conn[c].out # <<>> => Joined(w, c)
        /\ Joined(w, c) => /\ Flows(w.conn[c].out, w.conn[c].st # "dead", w.bot, w.peer, w.lost)
                           /\ Begins(w.conn[c].out, w.bot, w.peer, w.lost)
                           /\ w.conn[c].out # <<>> /\ w.peer.stream = 0 => Unheard(w)

\* A bot that is not in the stream of its live connection is about to be told.
Ready(w) ==
    \A c \in Conns : Joined(w, c) /\ w.conn[c].st # "dead" /\ w.peer.stream # w.bot.stream =>
        w.conn[c].out # <<>>

\* What the order of the events rests on.
Sound(w) ==
    /\ TypedBot(w.bot) /\ TypedPeer(w.peer) /\ TypedConns(w.conn)
    /\ Lined(w.bot.queue, w.bot.next)
    /\ Numbered(w.bot, w.peer, w.streams)
    /\ Said(w)
    /\ Kept(w.bot, w.peer, w.lost)
    /\ Told(w)

\* Settled, for the state as a record.
Silent(w) == \A c \in Conns : w.conn[c].out = <<>>

\* Dropping events from the queue: r is w without them.
Dropping(r, w) ==
    /\ Alike(r, w) /\ r.peer = w.peer /\ r.streams = w.streams
    /\ r.bot.next = w.bot.next /\ r.bot.stream = w.bot.stream /\ r.bot.rid = w.bot.rid
    /\ r.bot.queue \in Seq(QueueItem)
    /\ Lined(r.bot.queue, r.bot.next)
    /\ w.lost \subseteq r.lost
    /\ \A n \in Nat : Holds(w.bot.queue, n) =>
           \/ Holds(r.bot.queue, n) \/ <<w.bot.stream, n>> \in r.lost
           \/ w.bot.stream = 0 \/ w.peer.stream = 0
           \/ w.peer.stream = w.bot.stream /\ n <= w.peer.seq

\* What is known of the events that are on the way does not depend on the queue.
LEMMA DroppingSound ==
    ASSUME NEW w, NEW r, Sound(w), Silent(w), Dropping(r, w)
    PROVE  Sound(r) /\ Silent(r)
<1>1. /\ r.conn = w.conn /\ r.peer = w.peer /\ r.streams = w.streams
      /\ r.bot.session = w.bot.session /\ r.bot.next = w.bot.next
      /\ r.bot.stream = w.bot.stream /\ r.bot.rid = w.bot.rid
  BY Zenon DEF Dropping, Alike
<1>2. TypedBot(r.bot) /\ TypedPeer(r.peer) /\ TypedConns(r.conn) /\ Lined(r.bot.queue, r.bot.next)
  BY <1>1, Zenon DEF Sound, TypedBot, Dropping
<1>3. Numbered(r.bot, r.peer, r.streams)
  BY <1>1, Zenon DEF Sound, Numbered
<1>4. Said(r)
  BY <1>1, Zenon DEF Sound, Said
<1>5. Kept(r.bot, r.peer, r.lost)
  <2>1. /\ TypedBot(w.bot) /\ TypedPeer(w.peer) /\ Kept(w.bot, w.peer, w.lost)
        /\ w.lost \subseteq r.lost
    BY Zenon DEF Sound, Dropping
  <2>2. \A n \in Nat : Holds(w.bot.queue, n) =>
           \/ Holds(r.bot.queue, n) \/ <<w.bot.stream, n>> \in r.lost
           \/ w.bot.stream = 0 \/ w.peer.stream = 0
           \/ w.peer.stream = w.bot.stream /\ n <= w.peer.seq
    BY Zenon DEF Dropping
  <2>3. /\ w.bot.next \in Nat /\ w.peer.seq \in Nat
        /\ \A n \in (w.peer.seq + 1)..w.bot.next : n \in Nat /\ ~(n <= w.peer.seq)
        /\ \A n \in 1..w.bot.next : n \in Nat
    BY <2>1 DEF TypedBot, TypedPeer
  <2>4. w.bot.stream # 0 /\ w.peer.stream = w.bot.stream =>
            \A n \in (w.peer.seq + 1)..w.bot.next :
                Holds(r.bot.queue, n) \/ <<w.bot.stream, n>> \in r.lost
    BY <2>1, <2>2, <2>3, Zenon DEF Kept
  <2>5. w.bot.stream # 0 /\ w.peer.stream \notin {0, w.bot.stream} =>
            \A n \in 1..w.bot.next : Holds(r.bot.queue, n) \/ <<w.bot.stream, n>> \in r.lost
    BY <2>1, <2>2, <2>3, Zenon DEF Kept
  <2> QED BY <1>1, <2>4, <2>5, Zenon DEF Kept
<1>6. Silent(r)
  BY <1>1, Zenon DEF Silent
<1>7. Told(r)
  <2> SUFFICES ASSUME NEW c \in Conns, Joined(r, c)
               PROVE  Flows(r.conn[c].out, r.conn[c].st # "dead", r.bot, r.peer, r.lost)
    BY <1>6, Zenon DEF Told, Silent, Begins
  <2>1. Flows(w.conn[c].out, w.conn[c].st # "dead", w.bot, w.peer, w.lost)
    BY <1>1, Zenon DEF Sound, Told, Joined
  <2>2. w.lost \subseteq r.lost
    BY Zenon DEF Dropping
  <2> QED BY <1>1, <2>1, <2>2, Zenon DEF Flows
<1> QED BY <1>2, <1>3, <1>4, <1>5, <1>6, <1>7, Zenon DEF Sound

\* Nothing is a queue.
LEMMA LinedNone == \A n \in Nat : Lined(<<>>, n)
<1>1. 1..Len(<<>>) = {} /\ Len(<<>>) = 0 /\ 1..0 = {} /\ 0 \in 0..0 /\ ~(0 < 0)
  OBVIOUS
<1>2. Parted(<<>>)
  BY <1>1, Zenon DEF Parted, BySeq, ByTime
<1> QED BY <1>1, <1>2, Zenon DEF Lined

\* The items of a queue.
LEMMA ItemTypes ==
    ASSUME NEW q \in Seq(QueueItem)
    PROVE  \A j \in 1..Len(q) : q[j].seq \in Nat /\ q[j].left \in Int
<1>1. \A j \in 1..Len(q) : q[j] \in QueueItem
  OBVIOUS
<1>2. \A e \in QueueItem : e.seq \in Nat /\ e.left \in Int
  BY Zenon DEF QueueItem
<1> QED BY <1>1, <1>2, Zenon

\* Of two places in a queue, one is behind the other or they are the same.
LEMMA Compare == \A n : \A k, h \in 0..n : k >= h \/ k < h
OBVIOUS

\* Numbers up to n, and those above another number.
LEMMA Within ==
    /\ \A n \in Nat : \A k \in 1..n : k \in Nat /\ k <= n
    /\ \A n, a \in Nat : \A k \in (a + 1)..n : k \in 1..n
OBVIOUS

\* A line through a queue is one through the rest of it.
LEMMA PartedRest ==
    ASSUME NEW q \in Seq(QueueItem), NEW n \in Nat, Lined(q, n), NEW h \in 0..Len(q),
           NEW r \in Seq(QueueItem), Len(r) = Len(q) - h,
           \A i \in 1..Len(r) : r[i] = q[h + i]
    PROVE  Parted(r)
<1> SUFFICES ASSUME NEW m \in Int
             PROVE  /\ \E k \in 0..Len(r) : BySeq(r, m, k)
                    /\ \E k \in 0..Len(r) : ByTime(r, m, k)
  BY Zenon DEF Parted
<1>t. /\ Len(q) \in Nat /\ Len(r) \in Nat
      /\ \A j \in 1..Len(q) : q[j].seq \in Nat /\ q[j].left \in Int
  BY ItemTypes
<1>o. \A i, j \in 1..Len(q) : i < j => q[i].seq < q[j].seq /\ q[i].left <= q[j].left
  BY Zenon DEF Lined
<1>1. \E k \in 0..Len(r) : BySeq(r, m, k)
  <2>1. PICK k \in 0..Len(q) : BySeq(q, m, k)
    BY Zenon DEF Lined, Parted
  <2>2. CASE k >= h
    <3>1. k - h \in 0..Len(r) /\ \A i \in 1..(k - h) : i \in 1..Len(r) /\ h + i \in 1..k
      BY <2>2, <1>t
    <3>2. \A i \in 1..(k - h) : r[i].seq <= m
      BY <2>1, <3>1, Zenon DEF BySeq
    <3>3. k - h < Len(r) => r[k - h + 1].seq > m
      <4>1. k - h < Len(r) => k - h + 1 \in 1..Len(r) /\ h + (k - h + 1) = k + 1 /\ k < Len(q)
        BY <2>2, <1>t
      <4> QED BY <4>1, <2>1, Zenon DEF BySeq
    <3> QED BY <3>1, <3>2, <3>3, Zenon DEF BySeq
  <2>3. CASE k < h
    <3>1. 0 < Len(r) => 1 \in 1..Len(r) /\ h + 1 \in 1..Len(q) /\ k + 1 \in 1..Len(q)
                        /\ k < Len(q) /\ k + 1 < h + 1
      BY <2>3, <1>t
    <3>2. 0 < Len(r) => r[1] = q[h + 1] /\ q[k + 1].seq > m /\ q[k + 1].seq < q[h + 1].seq
      BY <3>1, <2>1, <1>o, Zenon DEF BySeq
    <3>3. 0 < Len(r) => r[0 + 1].seq > m
      BY <3>1, <3>2, <1>t
    <3>4. 0 \in 0..Len(r) /\ \A i \in 1..0 : r[i].seq <= m
      BY <1>t
    <3> QED BY <3>3, <3>4, Zenon DEF BySeq
  <2> QED BY <2>2, <2>3, Compare, Zenon
<1>2. \E k \in 0..Len(r) : ByTime(r, m, k)
  <2>1. PICK k \in 0..Len(q) : ByTime(q, m, k)
    BY Zenon DEF Lined, Parted
  <2>2. CASE k >= h
    <3>1. k - h \in 0..Len(r) /\ \A i \in 1..(k - h) : i \in 1..Len(r) /\ h + i \in 1..k
      BY <2>2, <1>t
    <3>2. \A i \in 1..(k - h) : r[i].left < m
      BY <2>1, <3>1, Zenon DEF ByTime
    <3>3. k - h < Len(r) => r[k - h + 1].left >= m
      <4>1. k - h < Len(r) => k - h + 1 \in 1..Len(r) /\ h + (k - h + 1) = k + 1 /\ k < Len(q)
        BY <2>2, <1>t
      <4> QED BY <4>1, <2>1, Zenon DEF ByTime
    <3> QED BY <3>1, <3>2, <3>3, Zenon DEF ByTime
  <2>3. CASE k < h
    <3>1. 0 < Len(r) => 1 \in 1..Len(r) /\ h + 1 \in 1..Len(q) /\ k + 1 \in 1..Len(q)
                        /\ k < Len(q) /\ k + 1 < h + 1
      BY <2>3, <1>t
    <3>2. 0 < Len(r) => r[1] = q[h + 1] /\ q[k + 1].left >= m /\ q[k + 1].left <= q[h + 1].left
      BY <3>1, <2>1, <1>o, Zenon DEF ByTime
    <3>3. 0 < Len(r) => r[0 + 1].left >= m
      BY <3>1, <3>2, <1>t
    <3>4. 0 \in 0..Len(r) /\ 1..0 = {}
      BY <1>t
    <3> QED BY <3>3, <3>4, Zenon DEF ByTime
  <2> QED BY <2>2, <2>3, Compare, Zenon
<1> QED BY <1>1, <1>2, Zenon

\* k is in order, and has what is in q and not in D.
Rest(k, q, n, D) ==
    /\ k \in Seq(QueueItem) /\ Lined(k, n)
    /\ \A i \in 1..Len(q) : i \in D \/ Holds(k, q[i].seq)
    /\ k # <<>> => \E j \in 1..Len(q) : j \notin D /\ k[1] = q[j]

\* The rest of a queue is in order, and has what was not dropped.
LEMMA RestOfQueue ==
    ASSUME NEW q \in Seq(QueueItem), NEW n \in Nat, Lined(q, n),
           NEW D, \E k \in 0..Len(q) : 1..k \subseteq D /\ k + 1 \notin D,
           NEW r, r = Behind(q, D)
    PROVE  Rest(r, q, n, D)
<1>0. PICK k \in 0..Len(q) : RestFrom(r, q, QueueItem, D, k)
  BY BehindIsRest, Zenon
<1>1. /\ 1..k \subseteq D /\ k + 1 \notin D
      /\ r \in Seq(QueueItem) /\ Len(r) = Len(q) - k
      /\ \A i \in 1..Len(r) : r[i] = q[k + i]
  BY <1>0, Zenon DEF RestFrom
<1>2. \A i \in 1..Len(r) : k + i \in 1..Len(q)
  BY <1>1
<1>3. Lined(r, n)
  <2>1. \A i \in 1..Len(r) : r[i].seq \in 1..n /\ r[i].left <= TTL
    BY <1>1, <1>2, Zenon DEF Lined
  <2>2. ASSUME NEW i \in 1..Len(r), NEW j \in 1..Len(r), i < j
        PROVE  r[i].seq < r[j].seq /\ r[i].left <= r[j].left
    <3>1. k + i < k + j /\ k + i \in 1..Len(q) /\ k + j \in 1..Len(q)
      BY <1>2, <1>1, <2>2
    <3> QED BY <3>1, <1>1, Zenon DEF Lined
  <2>3. Parted(r)
    BY <1>1, PartedRest, Zenon
  <2> QED BY <2>1, <2>2, <2>3, Zenon DEF Lined
<1>4. ASSUME NEW i \in 1..Len(q), i \notin D PROVE Holds(r, q[i].seq)
  <2>1. i > k
    BY <1>1, <1>4
  <2>2. i - k \in 1..Len(r) /\ k + (i - k) = i
    BY <2>1, <1>1
  <2>3. r[i - k] = q[i]
    BY <2>2, <1>1, Zenon
  <2> QED BY <2>2, <2>3, Zenon DEF Holds
<1>5. r # <<>> => 1 \in 1..Len(r)
  BY <1>1
<1>6. r # <<>> => k + 1 \in 1..Len(q) /\ r[1] = q[k + 1]
  BY <1>5, <1>2, <1>1, Zenon
<1> QED BY <1>1, <1>3, <1>4, <1>6, Zenon DEF Rest

\* The numbers in a queue.
LEMMA SeqsHold ==
    ASSUME NEW q \in Seq(QueueItem), NEW n
    PROVE  n \in Seqs(q) <=> Holds(q, n)
BY DEF Seqs, Holds

\* pb_queue_ack() drops only what the bot has seen, or what is then lost.
LEMMA AckDrops ==
    ASSUME NEW w, NEW msg \in InItem, Good(w), Sound(w), Honest(msg, w.peer, w.streams),
           NEW r, r = pb_queue_ack(w, msg)
    PROVE  /\ Dropping(r, w)
           /\ \A i \in 1..Len(r.bot.queue) : r.bot.queue[i].seq > msg.seq
<1> DEFINE q == w.bot.queue
           D == {i \in DOMAIN q : q[i].seq <= msg.seq}
           k == Behind(q, D)
<1>1. /\ r = [w EXCEPT !.bot.queue = k,
                       !.lost = IF msg.stream = w.bot.stream THEN @
                                ELSE @ \cup Dropped(w, k)]
  BY Zenon DEF pb_queue_ack
<1> HIDE DEF k
<1>2. /\ Alike(r, w) /\ r.peer = w.peer /\ r.streams = w.streams
      /\ r.bot.next = w.bot.next /\ r.bot.stream = w.bot.stream /\ r.bot.rid = w.bot.rid
      /\ r.bot.queue = k
      /\ r.lost = IF msg.stream = w.bot.stream THEN w.lost ELSE w.lost \cup Dropped(w, k)
  BY <1>1 DEF Good, Alike
<1>t. /\ q \in Seq(QueueItem) /\ w.bot.next \in Nat /\ Lined(q, w.bot.next)
      /\ w.bot.stream \in Nat /\ w.peer.stream \in Nat /\ w.peer.seq \in Nat
      /\ msg.seq \in Nat /\ msg.stream \in Nat
  BY Zenon DEF Sound, TypedBot, TypedPeer, InItem
<1>3. \E j \in 0..Len(q) : 1..j \subseteq D /\ j + 1 \notin D
  <2>0. msg.seq \in Int
    BY <1>t
  <2>1. PICK j \in 0..Len(q) : BySeq(q, msg.seq, j)
    BY <2>0, <1>t, Zenon DEF Lined, Parted
  <2>2. 1..j \subseteq 1..Len(q) /\ (j < Len(q) \/ j + 1 \notin 1..Len(q)) /\ DOMAIN q = 1..Len(q)
    BY <2>1, <1>t
  <2>3. 1..j \subseteq D
    BY <2>1, <2>2, Zenon DEF BySeq
  <2>4. j + 1 \notin D
    <3>1. \A i \in DOMAIN q : q[i].seq \in Nat
      BY <1>t, <2>2, ItemTypes, Zenon
    <3> HIDE DEF q
    <3> QED BY <2>1, <2>2, <3>1, <1>t DEF BySeq
  <2> QED BY <2>3, <2>4, Zenon
<1>r. Rest(k, q, w.bot.next, D)
  <2> HIDE DEF q, D
  <2> QED BY <1>t, <1>3, RestOfQueue, Zenon DEF k
<1>4. /\ k \in Seq(QueueItem) /\ Lined(k, w.bot.next)
      /\ \A i \in 1..Len(q) : i \in D \/ Holds(k, q[i].seq)
      /\ k # <<>> => \E j \in 1..Len(q) : j \notin D /\ k[1] = q[j]
  BY <1>r, Zenon DEF Rest
<1>5. \A i \in 1..Len(k) : k[i].seq > msg.seq
  <2>1. k # <<>> => k[1].seq > msg.seq
    <3>1. \A j \in 1..Len(q) : j \notin D => q[j].seq > msg.seq
      BY <1>t DEF Lined
    <3> QED BY <1>4, <3>1, Zenon
  <2>2. \A i \in 1..Len(k) : k # <<>> /\ (i = 1 \/ k[1].seq < k[i].seq)
    BY <1>4 DEF Lined
  <2>3. \A i \in 1..Len(k) : k[i].seq \in Nat /\ k[1].seq \in Nat
    BY <1>4 DEF Lined
  <2> QED BY <2>1, <2>2, <2>3, <1>t
<1>6. w.lost \subseteq r.lost
  BY <1>2, Zenon
<1>7. ASSUME NEW n \in Nat, Holds(q, n), ~ Holds(k, n)
      PROVE  \/ <<w.bot.stream, n>> \in r.lost
             \/ w.bot.stream = 0 \/ w.peer.stream = 0
             \/ w.peer.stream = w.bot.stream /\ n <= w.peer.seq
  <2>1. n <= msg.seq
    <3>1. PICK i \in 1..Len(q) : q[i].seq = n
      BY <1>7, Zenon DEF Holds
    <3>2. i \in D
      BY <3>1, <1>4, <1>7, Zenon
    <3> QED BY <3>1, <3>2, Zenon
  <2>2. CASE msg.stream = w.bot.stream
    <3>1. Numbered(w.bot, w.peer, w.streams)
      BY Zenon DEF Sound
    <3> QED BY <2>1, <2>2, <3>1, <1>t DEF Numbered, Honest
  <2>3. CASE msg.stream # w.bot.stream
    <3>1. n \in Seqs(q) \ Seqs(k)
      BY <1>7, <1>4, <1>t, SeqsHold, Zenon
    <3>2. \/ w.bot.stream = 0
          \/ w.peer.stream = w.bot.stream /\ ~(n > w.peer.seq)
          \/ <<w.bot.stream, n>> \in Dropped(w, k)
      BY <3>1, Zenon DEF Dropped, Unseen
    <3> QED BY <3>2, <2>3, <1>2, <1>t
  <2> QED BY <2>2, <2>3, Zenon
<1>8. Dropping(r, w)
  BY <1>2, <1>4, <1>6, <1>7, Zenon DEF Dropping
<1> QED BY <1>8, <1>5, <1>2, Zenon

\* pb_queue_expire() drops what is then lost, and all that is too old: the model
\* looks for it at the front only.
LEMMA ExpireDropsAll ==
    ASSUME NEW w, Good(w), Sound(w), NEW r, r = pb_queue_expire(w)
    PROVE  /\ Dropping(r, w)
           /\ \A i \in 1..Len(r.bot.queue) : r.bot.queue[i].left >= 0
<1> DEFINE q == w.bot.queue
           D == {i \in DOMAIN q : q[i].left < 0}
           k == Behind(q, D)
<1>1. /\ r = [w EXCEPT !.bot.queue = k, !.lost = @ \cup Dropped(w, k)]
  BY Zenon DEF pb_queue_expire
<1> HIDE DEF k
<1>2. /\ Alike(r, w) /\ r.peer = w.peer /\ r.streams = w.streams
      /\ r.bot.next = w.bot.next /\ r.bot.stream = w.bot.stream /\ r.bot.rid = w.bot.rid
      /\ r.bot.queue = k
      /\ r.lost = w.lost \cup Dropped(w, k)
  BY <1>1 DEF Good, Alike
<1>t. /\ q \in Seq(QueueItem) /\ w.bot.next \in Nat /\ Lined(q, w.bot.next)
      /\ w.bot.stream \in Nat /\ w.peer.stream \in Nat /\ w.peer.seq \in Nat
  BY Zenon DEF Sound, TypedBot, TypedPeer
<1>3. \E j \in 0..Len(q) : 1..j \subseteq D /\ j + 1 \notin D
  <2>1. PICK j \in 0..Len(q) : ByTime(q, 0, j)
    BY <1>t DEF Lined, Parted
  <2>2. 1..j \subseteq 1..Len(q) /\ (j < Len(q) \/ j + 1 \notin 1..Len(q)) /\ DOMAIN q = 1..Len(q)
    BY <2>1, <1>t
  <2>3. 1..j \subseteq D
    BY <2>1, <2>2, Zenon DEF ByTime
  <2>4. j + 1 \notin D
    <3>1. \A i \in DOMAIN q : q[i].left \in Int
      BY <1>t, <2>2, ItemTypes, Zenon
    <3> HIDE DEF q
    <3> QED BY <2>1, <2>2, <3>1 DEF ByTime
  <2> QED BY <2>3, <2>4, Zenon
<1>r. Rest(k, q, w.bot.next, D)
  <2> HIDE DEF q, D
  <2> QED BY <1>t, <1>3, RestOfQueue, Zenon DEF k
<1>4. /\ k \in Seq(QueueItem) /\ Lined(k, w.bot.next)
      /\ \A i \in 1..Len(q) : i \in D \/ Holds(k, q[i].seq)
      /\ k # <<>> => \E j \in 1..Len(q) : j \notin D /\ k[1] = q[j]
  BY <1>r, Zenon DEF Rest
<1>5. \A i \in 1..Len(k) : k[i].left >= 0
  <2>1. k # <<>> => k[1].left >= 0
    <3>1. \A j \in 1..Len(q) : q[j].left \in Int
      BY <1>t, ItemTypes, Zenon
    <3>2. \A j \in 1..Len(q) : j \notin D => q[j].left >= 0
      BY <1>t, <3>1
    <3> QED BY <1>4, <3>2, Zenon
  <2>2. \A i \in 1..Len(k) : k # <<>> /\ (i = 1 \/ k[1].left <= k[i].left)
    BY <1>4 DEF Lined
  <2>3. \A i \in 1..Len(k) : k[i].left \in Int /\ k[1].left \in Int
    BY <1>4, ItemTypes
  <2> QED BY <2>1, <2>2, <2>3
<1>6. w.lost \subseteq r.lost
  BY <1>2, Zenon
<1>7. ASSUME NEW n \in Nat, Holds(q, n), ~ Holds(k, n)
      PROVE  \/ <<w.bot.stream, n>> \in r.lost
             \/ w.bot.stream = 0 \/ w.peer.stream = 0
             \/ w.peer.stream = w.bot.stream /\ n <= w.peer.seq
  <2>1. n \in Seqs(q) \ Seqs(k)
    BY <1>7, <1>4, <1>t, SeqsHold, Zenon
  <2>2. \/ w.bot.stream = 0
        \/ w.peer.stream = w.bot.stream /\ ~(n > w.peer.seq)
        \/ <<w.bot.stream, n>> \in Dropped(w, k)
    BY <2>1, Zenon DEF Dropped, Unseen
  <2> QED BY <2>2, <1>2, <1>t
<1>8. Dropping(r, w)
  BY <1>2, <1>4, <1>6, <1>7, Zenon DEF Dropping
<1> QED BY <1>8, <1>5, <1>2, Zenon

\* r is w with messages, connections or the session gone.
Fewer(r, w) ==
    /\ \A c \in Conns :
           /\ r.conn[c].in = w.conn[c].in \/ r.conn[c].in = <<>>
           /\ r.conn[c].out = w.conn[c].out \/ r.conn[c].out = <<>>
           /\ r.conn[c].out # <<>> => Joined(r, c)
           /\ Joined(r, c) => /\ Joined(w, c) /\ r.conn[c].out = w.conn[c].out
                              /\ w.conn[c].st = "dead" => r.conn[c].st = "dead"
    /\ TypedPeer(r.peer) /\ r.streams = w.streams /\ r.lost = w.lost
    /\ r.peer.seq = w.peer.seq /\ r.peer.stream = w.peer.stream /\ r.peer.rid = w.peer.rid
    /\ r.peer.conn = w.peer.conn \/ r.peer.conn = None
    /\ r.bot.queue = w.bot.queue /\ r.bot.next = w.bot.next
    /\ r.bot.stream = w.bot.stream /\ r.bot.rid = w.bot.rid
    /\ r.bot.session = w.bot.session \/ r.bot.session = None

\* Nothing is known of what is gone.
LEMMA FewerSound ==
    ASSUME NEW w, NEW r, Sound(w), Fewer(r, w)
    PROVE  Sound(r) /\ (Ready(w) => Ready(r)) /\ (Silent(w) => Silent(r))
<1>1. /\ TypedPeer(r.peer) /\ r.streams = w.streams /\ r.lost = w.lost
      /\ r.peer.seq = w.peer.seq /\ r.peer.stream = w.peer.stream /\ r.peer.rid = w.peer.rid
      /\ r.bot.queue = w.bot.queue /\ r.bot.next = w.bot.next
      /\ r.bot.stream = w.bot.stream /\ r.bot.rid = w.bot.rid
  BY Zenon DEF Fewer
<1>2. /\ r.peer.conn = w.peer.conn \/ r.peer.conn = None
      /\ r.bot.session = w.bot.session \/ r.bot.session = None
  BY Zenon DEF Fewer
<1>3. /\ TypedBot(r.bot) /\ Lined(r.bot.queue, r.bot.next)
  BY <1>1, Zenon DEF Sound, TypedBot
<1>4. TypedConns(r.conn)
  <2> SUFFICES ASSUME NEW c \in Conns
               PROVE  r.conn[c].in \in Seq(InItem) /\ r.conn[c].out \in Seq(OutItem)
    BY Zenon DEF TypedConns
  <2>1. w.conn[c].in \in Seq(InItem) /\ w.conn[c].out \in Seq(OutItem)
    BY Zenon DEF Sound, TypedConns
  <2>2. /\ r.conn[c].in = w.conn[c].in \/ r.conn[c].in = <<>>
        /\ r.conn[c].out = w.conn[c].out \/ r.conn[c].out = <<>>
    BY Zenon DEF Fewer
  <2>3. <<>> \in Seq(InItem) /\ <<>> \in Seq(OutItem)
    OBVIOUS
  <2> QED BY <2>1, <2>2, <2>3, Zenon
<1>5. Numbered(r.bot, r.peer, r.streams)
  BY <1>1, <1>2, Zenon DEF Sound, Numbered
<1>6. Said(r)
  <2> SUFFICES ASSUME NEW c \in Conns, r.conn[c].in # <<>>
               PROVE  /\ Len(r.conn[c].in) <= 1
                      /\ \A i \in 1..Len(r.conn[c].in) :
                             /\ Honest(r.conn[c].in[i], r.peer, r.streams)
                             /\ c = r.peer.conn => Fresh(r.conn[c].in[i], r.peer)
                             /\ c = r.bot.session => r.conn[c].in[i].op # "resume"
    <3>1. Len(<<>>) <= 1 /\ 1..Len(<<>>) = {}
      OBVIOUS
    <3> QED BY <3>1, Zenon DEF Said
  <2>1. r.conn[c].in = w.conn[c].in
    BY Zenon DEF Fewer
  <2>2. /\ c = r.peer.conn => c = w.peer.conn
        /\ c = r.bot.session => c = w.bot.session
    BY <1>2, GatewayAssumption, Zenon
  <2>3. /\ Len(w.conn[c].in) <= 1
        /\ \A i \in 1..Len(w.conn[c].in) :
               /\ Honest(w.conn[c].in[i], w.peer, w.streams)
               /\ c = w.peer.conn => Fresh(w.conn[c].in[i], w.peer)
               /\ c = w.bot.session => w.conn[c].in[i].op # "resume"
    BY Zenon DEF Sound, Said
  <2>4. \A m : /\ Honest(m, w.peer, w.streams) => Honest(m, r.peer, r.streams)
               /\ Fresh(m, w.peer) => Fresh(m, r.peer)
    BY <1>1, Zenon DEF Honest, Fresh
  <2> QED BY <2>1, <2>2, <2>3, <2>4, Zenon
<1>7. Kept(r.bot, r.peer, r.lost)
  BY <1>1, Zenon DEF Sound, Kept
<1>8. Told(r)
  <2>1. ASSUME NEW c \in Conns PROVE r.conn[c].out # <<>> => Joined(r, c)
    BY Zenon DEF Fewer
  <2>2. ASSUME NEW c \in Conns, Joined(r, c)
        PROVE  /\ Flows(r.conn[c].out, r.conn[c].st # "dead", r.bot, r.peer, r.lost)
               /\ Begins(r.conn[c].out, r.bot, r.peer, r.lost)
               /\ r.conn[c].out # <<>> /\ r.peer.stream = 0 => Unheard(r)
    <3>1. /\ Joined(w, c) /\ r.conn[c].out = w.conn[c].out
          /\ w.conn[c].st = "dead" => r.conn[c].st = "dead"
      BY <2>2, Zenon DEF Fewer
    <3>2. /\ Flows(w.conn[c].out, w.conn[c].st # "dead", w.bot, w.peer, w.lost)
          /\ Begins(w.conn[c].out, w.bot, w.peer, w.lost)
          /\ w.conn[c].out # <<>> /\ w.peer.stream = 0 => Unheard(w)
      BY <3>1, Zenon DEF Sound, Told
    <3>3. Unheard(w) => Unheard(r)
      <4> SUFFICES ASSUME Unheard(w), NEW d \in Conns, NEW i \in 1..Len(r.conn[d].in)
                   PROVE  r.conn[d].in[i].stream < r.bot.stream
        BY Zenon DEF Unheard
      <4>1. r.conn[d].in = w.conn[d].in
        BY DEF Fewer
      <4> QED BY <4>1, <1>1, Zenon DEF Unheard
    <3>4. Flows(r.conn[c].out, r.conn[c].st # "dead", r.bot, r.peer, r.lost)
      BY <3>1, <3>2, <1>1, Zenon DEF Flows
    <3>5. Begins(r.conn[c].out, r.bot, r.peer, r.lost)
      BY <3>1, <3>2, <1>1, Zenon DEF Begins
    <3> QED BY <3>1, <3>2, <3>3, <3>4, <3>5, <1>1, Zenon
  <2> QED BY <2>1, <2>2, Zenon DEF Told
<1>9. Ready(w) => Ready(r)
  BY <1>1, Zenon DEF Ready, Fewer
<1>10. Silent(w) => Silent(r)
  BY Zenon DEF Silent, Fewer
<1> QED BY <1>1, <1>3, <1>4, <1>5, <1>6, <1>7, <1>8, <1>9, <1>10, Zenon DEF Sound

\* pb_close_ws() drops what was read.
LEMMA CloseFewer ==
    ASSUME NEW w, Good(w), Sound(w), NEW c \in Conns, NEW r, r = pb_close_ws(w, c)
    PROVE  /\ Fewer(r, w) /\ r.bot = w.bot /\ r.peer = w.peer
           /\ \A d \in Conns : /\ r.conn[d].out = w.conn[d].out
                               /\ r.conn[d].st = IF d = c THEN "dead" ELSE w.conn[d].st
                               /\ r.conn[d].identified = w.conn[d].identified
<1>1. /\ r.bot = w.bot /\ r.peer = w.peer /\ r.streams = w.streams /\ r.lost = w.lost
      /\ r.conn = [w.conn EXCEPT ![c] = [w.conn[c] EXCEPT !.st = "dead", !.in = <<>>]]
  BY Zenon DEF Good, pb_close_ws
<1>2. \A d \in Conns : /\ r.conn[d].out = w.conn[d].out
                       /\ r.conn[d].in = IF d = c THEN <<>> ELSE w.conn[d].in
                       /\ r.conn[d].st = IF d = c THEN "dead" ELSE w.conn[d].st
                       /\ r.conn[d].identified = w.conn[d].identified
  <2>1. /\ DOMAIN w.conn = Conns
        /\ DOMAIN w.conn[c] = {"st", "identified", "in", "out"}
    BY Zenon DEF Good
  <2>2. \A d \in Conns : d # c => r.conn[d] = w.conn[d]
    BY <1>1, <2>1, Zenon
  <2>3. /\ r.conn[c].out = w.conn[c].out /\ r.conn[c].in = <<>>
        /\ r.conn[c].st = "dead" /\ r.conn[c].identified = w.conn[c].identified
    <3> DEFINE k == [w.conn[c] EXCEPT !.st = "dead", !.in = <<>>]
    <3>1. r.conn[c] = k
      BY <1>1, <2>1, Zenon
    <3>2. k.out = w.conn[c].out /\ k.in = <<>> /\ k.st = "dead"
          /\ k.identified = w.conn[c].identified
      BY <2>1, Zenon
    <3> HIDE DEF k
    <3> QED BY <3>1, <3>2, Zenon
  <2> QED BY <2>2, <2>3, Zenon
<1>3. \A d \in Conns : r.conn[d].out # <<>> => Joined(r, d)
  <2>1. \A d \in Conns : w.conn[d].out # <<>> => Joined(w, d)
    BY Zenon DEF Sound, Told
  <2> QED BY <1>1, <1>2, <2>1, ZenonT(60) DEF Joined
<1>4. TypedPeer(r.peer)
  BY <1>1, Zenon DEF Sound
<1>5. Fewer(r, w)
  BY <1>1, <1>2, <1>3, <1>4, Zenon DEF Fewer, Joined
<1> QED BY <1>1, <1>2, <1>5, Zenon

\* A range with one more number.
LEMMA OneMore ==
    ASSUME NEW x \in Nat, NEW m \in Nat
    PROVE  \A n \in (x + 1)..(m + 1) : n \in (x + 1)..m \/ n = m + 1
OBVIOUS

\* There is something on the way, and it follows what the bot has seen.
Onward(o, b, p, L) == o \in Seq(OutItem) /\ o # <<>> /\ Flows(o, TRUE, b, p, L)

\* One more event is on the way, the next one.
LEMMA FlowsOn ==
    ASSUME NEW o \in Seq(OutItem), NEW b, NEW p, NEW L, NEW bb, NEW f \in OutItem, NEW oo,
           TypedBot(b), TypedPeer(p), Flows(o, TRUE, b, p, L),
           p.stream = b.stream => p.seq <= b.next,
           bb.stream = b.stream, bb.next = b.next + 1,
           f.seq = b.next + 1, f.stream = b.stream, oo = o \o <<f>>
    PROVE  Onward(oo, bb, p, L)
<1>1. /\ oo \in Seq(OutItem) /\ Len(oo) = Len(o) + 1 /\ Len(o) \in Nat
      /\ \A i \in 1..Len(o) : oo[i] = o[i]
      /\ oo[Len(o) + 1] = f
  OBVIOUS
<1>2. oo # <<>> /\ (o # <<>> => oo[1] = o[1])
  BY <1>1
<1>3. /\ b.next \in Nat /\ p.seq \in Nat
  BY Zenon DEF TypedBot, TypedPeer
<1>4. \A i \in 1..Len(oo) : i \in 1..Len(o) \/ i = Len(o) + 1
  BY <1>1
<1>5. \A n : Holds(o, n) => Holds(oo, n)
  BY <1>1 DEF Holds
<1>6. Holds(oo, b.next + 1)
  <2>1. Len(o) + 1 \in 1..Len(oo)
    BY <1>1
  <2> QED BY <2>1, <1>1, Zenon DEF Holds
<1>7. \A i \in 1..Len(oo) : oo[i].stream = bb.stream /\ oo[i].seq \in 1..bb.next
  BY <1>1, <1>3, <1>4 DEF Flows
<1>8. \A i, j \in 1..Len(oo) : i < j => oo[i].seq < oo[j].seq
  BY <1>1, <1>3, <1>4 DEF Flows
<1>9. p.stream = bb.stream => \A i \in 1..Len(oo) : p.seq < oo[i].seq
  BY <1>1, <1>3, <1>4 DEF Flows
<1>10. p.stream = bb.stream =>
           \A n \in (p.seq + 1)..bb.next : Holds(oo, n) \/ <<bb.stream, n>> \in L
  <2>1. \A n \in (p.seq + 1)..(b.next + 1) : n \in (p.seq + 1)..b.next \/ n = b.next + 1
    BY <1>3, OneMore, Zenon
  <2>2. p.stream = b.stream =>
            \A n \in (p.seq + 1)..b.next : Holds(o, n) \/ <<b.stream, n>> \in L
    BY Zenon DEF Flows
  <2> QED BY <2>1, <2>2, <1>5, <1>6, Zenon
<1>11. p.stream # bb.stream =>
           \A n \in (oo[1].seq + 1)..bb.next : Holds(oo, n) \/ <<bb.stream, n>> \in L
  <2>1. CASE o = <<>>
    <3>1. oo[1].seq = b.next + 1
      BY <2>1, <1>1
    <3> QED BY <3>1, <1>3
  <2>2. CASE o # <<>>
    <3>1. oo[1] = o[1] /\ 1 \in 1..Len(o)
      BY <1>1, <1>2, <2>2
    <3>2. o[1].seq \in Nat
      BY <3>1 DEF Flows
    <3>3. \A n \in (o[1].seq + 1)..(b.next + 1) : n \in (o[1].seq + 1)..b.next \/ n = b.next + 1
      BY <1>3, <3>2, OneMore, Zenon
    <3>4. p.stream # b.stream =>
              \A n \in (o[1].seq + 1)..b.next : Holds(o, n) \/ <<b.stream, n>> \in L
      BY <2>2, Zenon DEF Flows
    <3> QED BY <3>1, <3>3, <3>4, <1>5, <1>6, Zenon
  <2> QED BY <2>1, <2>2, Zenon
<1>12. Flows(oo, TRUE, bb, p, L)
  BY <1>7, <1>8, <1>9, <1>10, <1>11, Zenon DEF Flows
<1> QED BY <1>1, <1>2, <1>12, Zenon DEF Onward

\* The next event is lost, and the connection closed.
LEMMA FlowsOff ==
    ASSUME NEW o \in Seq(OutItem), NEW b, NEW p, NEW L, NEW bb, NEW LL, NEW live,
           TypedBot(b), TypedPeer(p), Flows(o, live, b, p, L),
           o # <<>> => live /\ <<b.stream, b.next + 1>> \in LL,
           bb.stream = b.stream, bb.next = b.next + 1, L \subseteq LL
    PROVE  Flows(o, FALSE, bb, p, LL)
<1>1. /\ b.next \in Nat /\ p.seq \in Nat
  BY Zenon DEF TypedBot, TypedPeer
<1>2. \A i \in 1..Len(o) : o[i].stream = bb.stream /\ o[i].seq \in 1..bb.next
  BY <1>1 DEF Flows
<1>3. p.stream = bb.stream /\ o # <<>> =>
           \A n \in (p.seq + 1)..bb.next : Holds(o, n) \/ <<bb.stream, n>> \in LL
  BY <1>1 DEF Flows
<1>4. p.stream # bb.stream /\ o # <<>> =>
           \A n \in (o[1].seq + 1)..bb.next : Holds(o, n) \/ <<bb.stream, n>> \in LL
  <2>1. o # <<>> => o[1].seq \in Nat
    BY DEF Flows
  <2>2. o # <<>> =>
          \A n \in (o[1].seq + 1)..(b.next + 1) : n \in (o[1].seq + 1)..b.next \/ n = b.next + 1
    BY <1>1, <2>1, OneMore, Zenon
  <2>3. p.stream # b.stream /\ o # <<>> =>
           \A n \in (o[1].seq + 1)..b.next : Holds(o, n) \/ <<b.stream, n>> \in L
    BY Zenon DEF Flows
  <2> QED BY <2>2, <2>3, Zenon
<1> QED BY <1>2, <1>3, <1>4, Zenon DEF Flows

\* The next event is in the queue, or lost.
LEMMA KeptOn ==
    ASSUME NEW b, NEW p, NEW L, NEW bb, NEW LL, TypedBot(b), TypedPeer(p), Kept(b, p, L),
           bb.stream = b.stream, bb.next = b.next + 1, L \subseteq LL,
           \A n : Holds(b.queue, n) => Holds(bb.queue, n),
           b.stream # 0 => Holds(bb.queue, b.next + 1) \/ <<b.stream, b.next + 1>> \in LL
    PROVE  Kept(bb, p, LL)
<1>1. b.next \in Nat /\ p.seq \in Nat
  BY Zenon DEF TypedBot, TypedPeer
<1>2. /\ \A n \in (p.seq + 1)..(b.next + 1) : n \in (p.seq + 1)..b.next \/ n = b.next + 1
      /\ \A n \in 1..(b.next + 1) : n \in 1..b.next \/ n = b.next + 1
  BY <1>1, OneMore
<1> QED BY <1>2, Zenon DEF Kept

\* r is in order, and has the items of q and the next one.
Longer(r, q, n) ==
    /\ r \in Seq(QueueItem) /\ Lined(r, n + 1)
    /\ \A m : Holds(q, m) => Holds(r, m)
    /\ Holds(r, n + 1)

\* A queue with the next event.
LEMMA LinedOn ==
    ASSUME NEW q \in Seq(QueueItem), NEW n \in Nat, Lined(q, n), NEW r,
           r = Append(q, [seq |-> n + 1, left |-> TTL])
    PROVE  Longer(r, q, n)
<1> DEFINE e == [seq |-> n + 1, left |-> TTL]
<1>1. e \in QueueItem /\ e.seq = n + 1 /\ e.left = TTL
  BY GatewayAssumption DEF QueueItem
<1> HIDE DEF e
<1>2. /\ r \in Seq(QueueItem) /\ Len(r) = Len(q) + 1 /\ Len(q) \in Nat
      /\ \A i \in 1..Len(q) : r[i] = q[i]
      /\ r[Len(q) + 1] = e
  BY <1>1 DEF e
<1>3. \A i \in 1..Len(r) : i \in 1..Len(q) \/ i = Len(q) + 1
  BY <1>2
<1>4. \A i \in 1..Len(r) : r[i].seq \in 1..(n + 1) /\ r[i].left <= TTL
  BY <1>1, <1>2, <1>3, GatewayAssumption DEF Lined
<1>5. \A i, j \in 1..Len(r) : i < j => r[i].seq < r[j].seq /\ r[i].left <= r[j].left
  BY <1>1, <1>2, <1>3, GatewayAssumption DEF Lined
<1>6. Holds(r, n + 1)
  <2>1. Len(q) + 1 \in 1..Len(r)
    BY <1>2
  <2> QED BY <2>1, <1>1, <1>2, Zenon DEF Holds
<1>7. \A m : Holds(q, m) => Holds(r, m)
  BY <1>2 DEF Holds
<1>t. \A i \in 1..Len(r) : r[i].seq \in Nat /\ r[i].left \in Int
  BY <1>2, ItemTypes, Zenon
<1>k. ASSUME NEW m \in Int PROVE \E k \in 0..Len(r) : BySeq(r, m, k)
  <2>1. PICK k \in 0..Len(q) : BySeq(q, m, k)
    BY Zenon DEF Lined, Parted
  <2>2. k \in 0..Len(r) /\ \A i \in 1..k : i \in 1..Len(q)
    BY <1>2
  <2>3. \A i \in 1..k : r[i].seq <= m
    BY <1>2, <2>1, <2>2, Zenon DEF BySeq
  <2>4. CASE k < Len(q)
    <3>1. k + 1 \in 1..Len(q) /\ q[k + 1].seq > m
      BY <1>2, <2>1, <2>4 DEF BySeq
    <3> QED BY <1>2, <2>2, <2>3, <3>1, Zenon DEF BySeq
  <2>5. CASE k = Len(q) /\ e.seq > m
    BY <1>2, <2>2, <2>3, <2>5, Zenon DEF BySeq
  <2>6. CASE k = Len(q) /\ e.seq <= m
    <3>1. k + 1 \in 0..Len(r) /\ ~(k + 1 < Len(r)) /\ \A i \in 1..(k + 1) : i \in 1..k \/ i = Len(q) + 1
      BY <1>2, <2>6
    <3>2. \A i \in 1..(k + 1) : r[i].seq <= m
      BY <1>2, <2>3, <2>6, <3>1, Zenon
    <3> QED BY <3>1, <3>2, Zenon DEF BySeq
  <2> QED BY <1>1, <1>2, <2>4, <2>5, <2>6
<1>l. ASSUME NEW m \in Int PROVE \E k \in 0..Len(r) : ByTime(r, m, k)
  <2>1. PICK k \in 0..Len(q) : ByTime(q, m, k)
    BY Zenon DEF Lined, Parted
  <2>2. k \in 0..Len(r) /\ \A i \in 1..k : i \in 1..Len(q)
    BY <1>2
  <2>3. \A i \in 1..k : r[i].left < m
    BY <1>2, <2>1, <2>2, Zenon DEF ByTime
  <2>4. CASE k < Len(q)
    <3>1. k + 1 \in 1..Len(q) /\ q[k + 1].left >= m
      BY <1>2, <2>1, <2>4 DEF ByTime
    <3> QED BY <1>2, <2>2, <2>3, <3>1, Zenon DEF ByTime
  <2>5. CASE k = Len(q) /\ e.left >= m
    BY <1>2, <2>2, <2>3, <2>5, Zenon DEF ByTime
  <2>6. CASE k = Len(q) /\ e.left < m
    <3>1. k + 1 \in 0..Len(r) /\ ~(k + 1 < Len(r)) /\ \A i \in 1..(k + 1) : i \in 1..k \/ i = Len(q) + 1
      BY <1>2, <2>6
    <3>2. \A i \in 1..(k + 1) : r[i].left < m
      BY <1>2, <2>3, <2>6, <3>1, Zenon
    <3> QED BY <3>1, <3>2, Zenon DEF ByTime
  <2> QED BY <1>1, <1>2, <2>4, <2>5, <2>6, GatewayAssumption
<1>8. Lined(r, n + 1)
  BY <1>4, <1>5, <1>k, <1>l, Zenon DEF Lined, Parted
<1> QED BY <1>2, <1>6, <1>7, <1>8, Zenon DEF Longer

\* r is w with one more event.
Advanced(r, w) ==
    /\ r.peer = w.peer /\ r.streams = w.streams
    /\ r.bot.session = w.bot.session /\ r.bot.stream = w.bot.stream /\ r.bot.rid = w.bot.rid
    /\ r.bot.next = w.bot.next + 1

\* The event is in the queue and, where there is somebody to read it, on the way.
Sent(r, w) ==
    /\ r.bot.queue = Append(w.bot.queue, [seq |-> w.bot.next + 1, left |-> TTL])
    /\ r.lost = w.lost
    /\ \A d \in Conns :
           /\ r.conn[d].in = w.conn[d].in /\ r.conn[d].st = w.conn[d].st
           /\ r.conn[d].out = IF Joined(w, d) /\ w.conn[d].st # "dead"
                              THEN w.conn[d].out \o <<Frame(w.bot, w.bot.next + 1)>>
                              ELSE w.conn[d].out

\* The event is lost and the connection closed.
Refused(r, w) ==
    /\ r.bot.queue = w.bot.queue
    /\ r.lost = w.lost \cup Unseen(w, {w.bot.next + 1})
    /\ \A d \in Conns :
           /\ r.conn[d].in = IF d = w.bot.session THEN <<>> ELSE w.conn[d].in
           /\ r.conn[d].st = IF d = w.bot.session THEN "dead" ELSE w.conn[d].st
           /\ r.conn[d].out = w.conn[d].out

\* pb_dispatch_event() does one or the other.
LEMMA DispatchCases ==
    ASSUME NEW w, Good(w), NEW r, r = pb_dispatch_event(w)
    PROVE  Advanced(r, w) /\ (Sent(r, w) \/ Refused(r, w))
           /\ (Len(w.bot.queue) < Cap => Sent(r, w))
<1> DEFINE n == w.bot.next + 1
           x == [w EXCEPT !.bot.next = n]
           v == pb_queue_push(x, n)
           s == w.bot.session
<1>1. Good(x)
  <2>1. Alike(x, w)
    BY Zenon DEF Good, Alike
  <2> HIDE DEF x
  <2> QED BY <2>1, AlikeKeeps, Zenon
<1>2. /\ x.conn = w.conn /\ x.peer = w.peer /\ x.streams = w.streams /\ x.lost = w.lost
      /\ x.bot.session = s /\ x.bot.stream = w.bot.stream /\ x.bot.rid = w.bot.rid
      /\ x.bot.next = n /\ x.bot.queue = w.bot.queue
  BY Zenon DEF Good
<1>3. s \in Conns \cup {None} /\ (s # None => w.conn[s].identified)
  BY Zenon DEF Good
<1>4. r = IF v.bot.session = None \/ ~v.conn[v.bot.session].identified THEN v
          ELSE Write(v, v.bot.session, <<Frame(v.bot, n)>>)
  BY Zenon DEF pb_dispatch_event
<1>5. v = IF Len(x.bot.queue) < Cap
          THEN [x EXCEPT !.bot.queue = Append(@, [seq |-> n, left |-> TTL])]
          ELSE IF x.bot.session = None THEN [x EXCEPT !.lost = @ \cup Unseen(x, {n})]
               ELSE pb_close_ws([x EXCEPT !.lost = @ \cup Unseen(x, {n})], x.bot.session)
  BY Zenon DEF pb_queue_push
<1> HIDE DEF v, x
<1>6. CASE Len(w.bot.queue) < Cap
  <2>1. v = [x EXCEPT !.bot.queue = Append(@, [seq |-> n, left |-> TTL])]
    BY <1>5, <1>6, <1>2, Zenon
  <2>2. /\ v.conn = w.conn /\ v.peer = w.peer /\ v.streams = w.streams /\ v.lost = w.lost
        /\ v.bot.session = s /\ v.bot.stream = w.bot.stream /\ v.bot.rid = w.bot.rid
        /\ v.bot.next = n
        /\ v.bot.queue = Append(w.bot.queue, [seq |-> n, left |-> TTL])
    BY <2>1, <1>2, <1>1, ZenonT(60) DEF Good
  <2>3. Good(v)
    BY <1>1, PushKeeps, Zenon DEF v
  <2>4. CASE s = None \/ w.conn[s].st = "dead" \/ w.peer.conn # s
    <3>1. r = v
      BY <1>4, <1>3, <2>2, <2>4, Zenon DEF Write
    <3>2. \A d \in Conns : ~(Joined(w, d) /\ w.conn[d].st # "dead")
      BY <2>4, GatewayAssumption, Zenon DEF Joined
    <3> QED BY <3>1, <3>2, <2>2, Zenon DEF Advanced, Sent
  <2>5. CASE ~(s = None \/ w.conn[s].st = "dead" \/ w.peer.conn # s)
    <3>1. s \in Conns
      BY <2>5, <1>3, Zenon
    <3>2. Frame(v.bot, n) = Frame(w.bot, n)
      BY <2>2, Zenon DEF Frame
    <3>3. r = [v EXCEPT !.conn[s].out = @ \o <<Frame(w.bot, n)>>]
      BY <1>4, <1>3, <2>2, <2>5, <3>2, Zenon DEF Write
    <3>4. /\ r.peer = v.peer /\ r.streams = v.streams /\ r.lost = v.lost /\ r.bot = v.bot
          /\ r.conn = [v.conn EXCEPT ![s] = [v.conn[s] EXCEPT !.out = @ \o <<Frame(w.bot, n)>>]]
      BY <3>3, <2>3, Zenon DEF Good
    <3>5. /\ r.conn[s].out = w.conn[s].out \o <<Frame(w.bot, n)>>
          /\ r.conn[s].in = w.conn[s].in /\ r.conn[s].st = w.conn[s].st
          /\ \A d \in Conns : d # s => r.conn[d] = w.conn[d]
      <4>1. DOMAIN v.conn = Conns /\ DOMAIN v.conn[s] = {"st", "identified", "in", "out"}
        BY <2>3, <3>1, Zenon DEF Good
      <4> DEFINE k == [v.conn[s] EXCEPT !.out = @ \o <<Frame(w.bot, n)>>]
      <4>2. r.conn[s] = k /\ \A d \in Conns : d # s => r.conn[d] = v.conn[d]
        BY <4>1, <3>1, <3>4, Zenon
      <4>3. /\ k.out = v.conn[s].out \o <<Frame(w.bot, n)>>
            /\ k.in = v.conn[s].in /\ k.st = v.conn[s].st
        BY <4>1, Zenon
      <4> HIDE DEF k
      <4> QED BY <4>2, <4>3, <2>2, Zenon
    <3>6. \A d \in Conns : Joined(w, d) /\ w.conn[d].st # "dead" <=> d = s
      BY <2>5, Zenon DEF Joined
    <3> HIDE DEF n, s
    <3>7. \A d \in Conns :
           /\ r.conn[d].in = w.conn[d].in /\ r.conn[d].st = w.conn[d].st
           /\ r.conn[d].out = IF Joined(w, d) /\ w.conn[d].st # "dead"
                              THEN w.conn[d].out \o <<Frame(w.bot, n)>>
                              ELSE w.conn[d].out
      BY <3>5, <3>6, Zenon
    <3> QED BY <3>7, <3>4, <2>2, Zenon DEF Advanced, Sent, n, s
  <2> QED BY <2>4, <2>5, Zenon
<1>7. CASE ~(Len(w.bot.queue) < Cap)
  <2> DEFINE y == [x EXCEPT !.lost = @ \cup Unseen(x, {n})]
  <2>1. v = IF s = None THEN y ELSE pb_close_ws(y, s)
    BY <1>5, <1>7, <1>2, Zenon
  <2>2. /\ y.conn = w.conn /\ y.peer = w.peer /\ y.streams = w.streams /\ y.bot = x.bot
        /\ y.lost = w.lost \cup Unseen(w, {n})
    <3>1. Unseen(x, {n}) = Unseen(w, {n})
      BY <1>2, Zenon DEF Unseen
    <3> QED BY <3>1, <1>1, <1>2, Zenon DEF Good
  <2>3. Good(y)
    <3>1. Alike(y, x)
      BY <1>1, Zenon DEF Good, Alike
    <3> HIDE DEF y
    <3> QED BY <3>1, <1>1, AlikeKeeps, Zenon
  <2> HIDE DEF y
  <2>4. /\ v.peer = w.peer /\ v.streams = w.streams /\ v.bot = x.bot
        /\ v.lost = w.lost \cup Unseen(w, {n})
        /\ \A d \in Conns :
             /\ v.conn[d].in = IF d = s THEN <<>> ELSE w.conn[d].in
             /\ v.conn[d].st = IF d = s THEN "dead" ELSE w.conn[d].st
             /\ v.conn[d].out = w.conn[d].out
    <3>1. CASE s = None
      <4>1. \A d \in Conns : d # s
        BY <3>1, GatewayAssumption, Zenon
      <4> QED BY <3>1, <4>1, <2>1, <2>2, Zenon
    <3>2. CASE s # None
      <4>1. v = pb_close_ws(y, s) /\ s \in Conns
        BY <2>1, <3>2, <1>3, Zenon
      <4>2. /\ v.bot = y.bot /\ v.peer = y.peer /\ v.streams = y.streams /\ v.lost = y.lost
            /\ v.conn = [y.conn EXCEPT ![s] = [y.conn[s] EXCEPT !.st = "dead", !.in = <<>>]]
        BY <4>1, <2>3, Zenon DEF Good, pb_close_ws
      <4>3. /\ v.conn[s].in = <<>> /\ v.conn[s].st = "dead" /\ v.conn[s].out = y.conn[s].out
            /\ \A d \in Conns : d # s => v.conn[d] = y.conn[d]
        <5>1. DOMAIN y.conn = Conns /\ DOMAIN y.conn[s] = {"st", "identified", "in", "out"}
          BY <2>3, <4>1, Zenon DEF Good
        <5> DEFINE k == [y.conn[s] EXCEPT !.st = "dead", !.in = <<>>]
        <5>2. v.conn[s] = k /\ \A d \in Conns : d # s => v.conn[d] = y.conn[d]
          BY <5>1, <4>1, <4>2, Zenon
        <5>3. k.out = y.conn[s].out /\ k.in = <<>> /\ k.st = "dead"
          BY <5>1, Zenon
        <5> HIDE DEF k
        <5> QED BY <5>2, <5>3, Zenon
      <4> QED BY <4>2, <4>3, <2>2, Zenon
    <3> QED BY <3>1, <3>2, Zenon
  <2>5. r = v
    <3>1. v.bot.session = s
      BY <2>4, <1>2, Zenon
    <3>2. s # None => s \in Conns /\ v.conn[s].st = "dead"
      BY <1>3, <2>4, Zenon
    <3> QED BY <1>4, <3>1, <3>2, Zenon DEF Write
  <2>6. Advanced(r, w)
    BY <2>5, <2>4, <1>2, Zenon DEF Advanced
  <2>7. r.bot.queue = w.bot.queue
    BY <2>5, <2>4, <1>2, Zenon
  <2>8. Refused(r, w)
    BY <2>5, <2>4, <2>7, ZenonT(60) DEF Refused
  <2> QED BY <2>6, <2>8, <1>7, Zenon
<1> QED BY <1>6, <1>7, Zenon

\* Before an event is sent: nothing is on the way on a closed connection, and a bot
\* that is in no stream has said nothing of this one.
Able(w) ==
    \A c \in Conns : Joined(w, c) =>
        /\ w.conn[c].st = "dead" => w.conn[c].out = <<>>
        /\ w.conn[c].st # "dead" /\ w.peer.stream = 0 => w.conn[c].out = <<>> /\ Unheard(w)

\* The messages are those of w, or none.
LEMMA SaidOn ==
    ASSUME NEW w, NEW r, Said(w), r.peer = w.peer, r.streams = w.streams,
           r.bot.session = w.bot.session,
           \A d \in Conns : r.conn[d].in = w.conn[d].in \/ r.conn[d].in = <<>>
    PROVE  Said(r)
<1> SUFFICES ASSUME NEW c \in Conns
             PROVE  /\ Len(r.conn[c].in) <= 1
                    /\ \A i \in 1..Len(r.conn[c].in) :
                           /\ Honest(r.conn[c].in[i], r.peer, r.streams)
                           /\ c = r.peer.conn => Fresh(r.conn[c].in[i], r.peer)
                           /\ c = r.bot.session => r.conn[c].in[i].op # "resume"
  BY Zenon DEF Said
<1>1. Len(<<>>) <= 1 /\ 1..Len(<<>>) = {}
  OBVIOUS
<1> QED BY <1>1, Zenon DEF Said

\* An event that is sent.
LEMMA SentSound ==
    ASSUME NEW w, Sound(w), Able(w), NEW r, Advanced(r, w), Sent(r, w)
    PROVE  Sound(r) /\ Ready(r)
<1>1. /\ r.peer = w.peer /\ r.streams = w.streams
      /\ r.bot.session = w.bot.session /\ r.bot.stream = w.bot.stream /\ r.bot.rid = w.bot.rid
      /\ r.bot.next = w.bot.next + 1
  BY Zenon DEF Advanced
<1>2. /\ r.bot.queue = Append(w.bot.queue, [seq |-> w.bot.next + 1, left |-> TTL])
      /\ r.lost = w.lost
  BY Zenon DEF Sent
<1>3. \A d \in Conns :
           /\ r.conn[d].in = w.conn[d].in /\ r.conn[d].st = w.conn[d].st
           /\ r.conn[d].out = IF Joined(w, d) /\ w.conn[d].st # "dead"
                              THEN w.conn[d].out \o <<Frame(w.bot, w.bot.next + 1)>>
                              ELSE w.conn[d].out
  BY Zenon DEF Sent
<1>t. TypedBot(w.bot) /\ TypedPeer(w.peer) /\ TypedConns(w.conn)
  BY Zenon DEF Sound
<1>n. /\ w.bot.next \in Nat /\ w.bot.stream \in Nat /\ w.bot.rid \in Nat
      /\ w.bot.queue \in Seq(QueueItem)
  BY <1>t, Zenon DEF TypedBot
<1>4. /\ r.bot.queue \in Seq(QueueItem) /\ Lined(r.bot.queue, r.bot.next)
      /\ \A m : Holds(w.bot.queue, m) => Holds(r.bot.queue, m)
      /\ Holds(r.bot.queue, w.bot.next + 1)
  <2>1. Lined(w.bot.queue, w.bot.next)
    BY Zenon DEF Sound
  <2>2. Longer(r.bot.queue, w.bot.queue, w.bot.next)
    BY <2>1, <1>2, <1>n, LinedOn, Zenon
  <2> QED BY <2>2, <1>1, Zenon DEF Longer
<1>5. TypedBot(r.bot)
  BY <1>1, <1>4, <1>n DEF TypedBot
<1>6. Numbered(r.bot, r.peer, r.streams)
  <2>1. Numbered(w.bot, w.peer, w.streams)
    BY Zenon DEF Sound
  <2> QED BY <2>1, <1>1, <1>n, <1>t DEF Numbered, TypedPeer
<1>7. Said(r)
  BY <1>1, <1>3, SaidOn, Zenon DEF Sound
<1>8. Kept(r.bot, r.peer, r.lost)
  <2>1. Kept(w.bot, w.peer, w.lost) /\ w.lost \subseteq r.lost
    BY <1>2, Zenon DEF Sound
  <2> QED BY <2>1, <1>1, <1>4, <1>t, KeptOn, Zenon
<1> DEFINE f == Frame(w.bot, w.bot.next + 1)
<1>9. f \in OutItem /\ f.seq = w.bot.next + 1 /\ f.stream = w.bot.stream
  BY <1>n DEF Frame, OutItem
<1> HIDE DEF f
<1>10. \A d \in Conns : Joined(r, d) <=> Joined(w, d)
  BY <1>1, Zenon DEF Joined
<1>11. ASSUME NEW d \in Conns, Joined(w, d), w.conn[d].st # "dead"
       PROVE  /\ r.conn[d].out \in Seq(OutItem) /\ r.conn[d].out # <<>>
              /\ Flows(r.conn[d].out, r.conn[d].st # "dead", r.bot, r.peer, r.lost)
              /\ Begins(r.conn[d].out, r.bot, r.peer, r.lost)
              /\ r.peer.stream = 0 => Unheard(r)
  <2>1. r.conn[d].out = w.conn[d].out \o <<f>> /\ r.conn[d].st # "dead"
    BY <1>3, <1>11, Zenon DEF f
  <2>2. Flows(w.conn[d].out, w.conn[d].st # "dead", w.bot, w.peer, w.lost)
    BY <1>11, Zenon DEF Sound, Told
  <2>3. /\ Flows(w.conn[d].out, TRUE, w.bot, w.peer, w.lost)
    BY <2>2, <1>11, Zenon DEF Flows
  <2>4. w.conn[d].out \in Seq(OutItem)
    BY <1>t, Zenon DEF TypedConns
  <2>5. w.peer.stream = w.bot.stream => w.peer.seq <= w.bot.next
    BY Zenon DEF Sound, Numbered
  <2>6. /\ r.conn[d].out \in Seq(OutItem) /\ r.conn[d].out # <<>>
        /\ Flows(r.conn[d].out, TRUE, r.bot, w.peer, w.lost)
    <3>1. Onward(r.conn[d].out, r.bot, w.peer, w.lost)
      BY <2>1, <2>3, <2>4, <2>5, <1>1, <1>9, <1>t, FlowsOn, Zenon
    <3> QED BY <3>1, Zenon DEF Onward
  <2>7. Flows(r.conn[d].out, r.conn[d].st # "dead", r.bot, r.peer, r.lost)
    BY <2>6, <2>1, <1>1, <1>2, Zenon DEF Flows
  <2>8. ASSUME r.peer.stream = 0
        PROVE  Unheard(r) /\ Begins(r.conn[d].out, r.bot, r.peer, r.lost)
    <3>1. w.conn[d].out = <<>> /\ Unheard(w)
      BY <2>8, <1>1, <1>11, Zenon DEF Able
    <3>2. Unheard(r)
      BY <3>1, <1>1, <1>3, Zenon DEF Unheard
    <3>3. r.conn[d].out[1] = f
      BY <3>1, <2>1, <2>4
    <3>4. (w.bot.next + 1 + 1)..(w.bot.next + 1) = {}
      BY <1>n
    <3> QED BY <3>2, <3>3, <3>4, <1>1, <1>9, Zenon DEF Begins
  <2> QED BY <2>6, <2>7, <2>8, Zenon DEF Begins
<1>12. ASSUME NEW d \in Conns, ~(Joined(w, d) /\ w.conn[d].st # "dead")
       PROVE  /\ r.conn[d].out = <<>>
              /\ Joined(r, d) => Flows(r.conn[d].out, r.conn[d].st # "dead", r.bot, r.peer, r.lost)
  <2>1. r.conn[d].out = w.conn[d].out /\ r.conn[d].st = w.conn[d].st
    BY <1>3, <1>12, Zenon
  <2>2. w.conn[d].out # <<>> => Joined(w, d)
    BY Zenon DEF Sound, Told
  <2>3. r.conn[d].out = <<>>
    BY <2>1, <2>2, <1>12, Zenon DEF Able
  <2>4. Joined(r, d) => r.conn[d].st = "dead"
    BY <1>10, <1>12, <2>1, Zenon
  <2> QED BY <2>3, <2>4 DEF Flows
<1>13. TypedConns(r.conn)
  <2> SUFFICES ASSUME NEW d \in Conns
               PROVE  r.conn[d].in \in Seq(InItem) /\ r.conn[d].out \in Seq(OutItem)
    BY Zenon DEF TypedConns
  <2>1. r.conn[d].in \in Seq(InItem)
    BY <1>3, <1>t, Zenon DEF TypedConns
  <2>2. <<>> \in Seq(OutItem)
    OBVIOUS
  <2> QED BY <2>1, <2>2, <1>11, <1>12, Zenon
<1>14. Told(r)
  BY <1>10, <1>11, <1>12, Zenon DEF Told, Begins
<1>15. Ready(r)
  BY <1>10, <1>11, <1>3, Zenon DEF Ready
<1>16. TypedPeer(r.peer)
  BY <1>1, <1>t, Zenon
<1> QED BY <1>4, <1>5, <1>6, <1>7, <1>8, <1>13, <1>14, <1>15, <1>16, Zenon DEF Sound

\* An event that a full queue refuses.
LEMMA RefusedSound ==
    ASSUME NEW w, Sound(w), Able(w), NEW r, Advanced(r, w), Refused(r, w)
    PROVE  Sound(r) /\ Ready(r)
<1>1. /\ r.peer = w.peer /\ r.streams = w.streams
      /\ r.bot.session = w.bot.session /\ r.bot.stream = w.bot.stream /\ r.bot.rid = w.bot.rid
      /\ r.bot.next = w.bot.next + 1
  BY DEF Advanced
<1>2. /\ r.bot.queue = w.bot.queue
      /\ r.lost = w.lost \cup Unseen(w, {w.bot.next + 1})
  BY Zenon DEF Refused
<1>3. \A d \in Conns :
           /\ r.conn[d].in = IF d = w.bot.session THEN <<>> ELSE w.conn[d].in
           /\ r.conn[d].st = IF d = w.bot.session THEN "dead" ELSE w.conn[d].st
           /\ r.conn[d].out = w.conn[d].out
  BY Zenon DEF Refused
<1>t. TypedBot(w.bot) /\ TypedPeer(w.peer) /\ TypedConns(w.conn)
  BY DEF Sound
<1>n. /\ w.bot.next \in Nat /\ w.bot.stream \in Nat /\ w.bot.rid \in Nat
      /\ w.bot.queue \in Seq(QueueItem) /\ w.peer.seq \in Nat
  BY <1>t, Zenon DEF TypedBot, TypedPeer
<1>m. Numbered(w.bot, w.peer, w.streams)
  BY DEF Sound
<1>4. Lined(r.bot.queue, r.bot.next)
  <2>1. Lined(w.bot.queue, w.bot.next)
    BY DEF Sound
  <2> QED BY <2>1, <1>1, <1>2, <1>n DEF Lined
<1>5. TypedBot(r.bot)
  BY <1>1, <1>2, <1>n DEF TypedBot
<1>6. Numbered(r.bot, r.peer, r.streams)
  BY <1>m, <1>1, <1>n, <1>t DEF Numbered, TypedPeer
<1>7. Said(r)
  BY <1>1, <1>3, SaidOn, Zenon DEF Sound
<1>l. w.bot.stream # 0 => <<w.bot.stream, w.bot.next + 1>> \in r.lost
  <2>1. w.peer.stream = w.bot.stream => w.bot.next + 1 > w.peer.seq
    BY <1>m, <1>n DEF Numbered
  <2> QED BY <2>1, <1>2, Zenon DEF Unseen
<1>8. Kept(r.bot, r.peer, r.lost)
  <2>1. Kept(w.bot, w.peer, w.lost) /\ w.lost \subseteq r.lost
    BY <1>2, Zenon DEF Sound
  <2> QED BY <2>1, <1>1, <1>2, <1>l, <1>t, KeptOn, Zenon
<1>10. \A d \in Conns : Joined(r, d) <=> Joined(w, d)
  BY <1>1, Zenon DEF Joined
<1>11. ASSUME NEW d \in Conns, Joined(w, d)
       PROVE  /\ Flows(r.conn[d].out, r.conn[d].st # "dead", r.bot, r.peer, r.lost)
              /\ r.conn[d].st = "dead"
              /\ r.conn[d].out # <<>> => r.peer.stream # 0
  <2>1. r.conn[d].out = w.conn[d].out /\ r.conn[d].st = "dead"
    BY <1>3, <1>11, Zenon DEF Joined
  <2>2. Flows(w.conn[d].out, w.conn[d].st # "dead", w.bot, w.peer, w.lost)
    BY <1>11, Zenon DEF Sound, Told
  <2>4. w.conn[d].out \in Seq(OutItem)
    BY <1>t DEF TypedConns
  <2>5. w.conn[d].out # <<>> => w.conn[d].st # "dead" /\ w.peer.stream # 0
    BY <1>11, Zenon DEF Able
  <2>6. w.bot.stream # 0
    BY <1>11, <1>m, GatewayAssumption, Zenon DEF Joined, Numbered
  <2>7. w.lost \subseteq r.lost
    BY <1>2, Zenon
  <2>8. Flows(w.conn[d].out, FALSE, r.bot, w.peer, r.lost)
    BY <2>2, <2>4, <2>5, <2>6, <2>7, <1>1, <1>l, <1>t, FlowsOff, Zenon
  <2>9. Flows(r.conn[d].out, r.conn[d].st # "dead", r.bot, r.peer, r.lost)
    BY <2>8, <2>1, <1>1, Zenon DEF Flows
  <2> QED BY <2>9, <2>1, <2>5, <1>1, Zenon
<1>13. TypedConns(r.conn)
  <2> SUFFICES ASSUME NEW d \in Conns
               PROVE  r.conn[d].in \in Seq(InItem) /\ r.conn[d].out \in Seq(OutItem)
    BY DEF TypedConns
  <2>1. <<>> \in Seq(InItem)
    OBVIOUS
  <2> QED BY <2>1, <1>3, <1>t, Zenon DEF TypedConns
<1>14. Told(r)
  <2>1. \A d \in Conns : r.conn[d].out # <<>> => Joined(r, d)
    BY <1>3, <1>10, Zenon DEF Sound, Told
  <2> QED BY <2>1, <1>10, <1>11, Zenon DEF Told, Begins
<1>15. Ready(r)
  BY <1>10, <1>11, Zenon DEF Ready
<1>16. TypedPeer(r.peer)
  BY <1>1, <1>t, Zenon
<1> QED BY <1>4, <1>5, <1>6, <1>7, <1>8, <1>13, <1>14, <1>15, <1>16, Zenon DEF Sound

\* pb_dispatch_event()
LEMMA DispatchSound ==
    ASSUME NEW w, Good(w), Sound(w), Able(w), NEW r, r = pb_dispatch_event(w)
    PROVE  Good(r) /\ Sound(r) /\ Ready(r)
BY DispatchKeeps, DispatchCases, SentSound, RefusedSound, Zenon

\* A change that drops events leaves the bot as ready as it was.
LEMMA DroppingReady ==
    ASSUME NEW w, NEW r, Ready(w), Dropping(r, w)
    PROVE  Ready(r)
BY Zenon DEF Ready, Dropping, Alike, Joined

\* What pb_handle_identify() and pb_handle_resume() do to the state, besides the
\* session.
Attached(r, w, c) ==
    /\ r.peer = w.peer /\ r.bot.session = c
    /\ \A d \in Conns : /\ r.conn[d].in = w.conn[d].in /\ r.conn[d].out = w.conn[d].out
                        /\ r.conn[d].st = w.conn[d].st

\* The same stream, at the same event.
Carried(r, w) ==
    /\ r.streams = w.streams /\ r.lost = w.lost
    /\ r.bot.queue = w.bot.queue /\ r.bot.next = w.bot.next
    /\ r.bot.stream = w.bot.stream /\ r.bot.rid = w.bot.rid

\* The fields after Attach().
LEMMA AttachFields ==
    ASSUME NEW w, Good(w), NEW c \in Conns, NEW r, r = Attach(w, c)
    PROVE  Attached(r, w, c) /\ Carried(r, w)
<1>1. /\ r.bot = [w.bot EXCEPT !.session = c, !.window = NoWindow, !.quiet = 0]
      /\ r.conn = [w.conn EXCEPT ![c] = [w.conn[c] EXCEPT !.identified = TRUE]]
      /\ r.peer = w.peer /\ r.streams = w.streams /\ r.lost = w.lost
  BY Zenon DEF Good, Attach
<1>2. /\ r.bot.queue = w.bot.queue /\ r.bot.next = w.bot.next /\ r.bot.session = c
      /\ r.bot.stream = w.bot.stream /\ r.bot.rid = w.bot.rid
  BY <1>1, Zenon DEF Good
<1>3. \A d \in Conns : /\ r.conn[d].in = w.conn[d].in /\ r.conn[d].out = w.conn[d].out
                       /\ r.conn[d].st = w.conn[d].st
  <2>1. DOMAIN w.conn = Conns /\ DOMAIN w.conn[c] = {"st", "identified", "in", "out"}
    BY Zenon DEF Good
  <2> DEFINE k == [w.conn[c] EXCEPT !.identified = TRUE]
  <2>2. r.conn[c] = k /\ \A d \in Conns : d # c => r.conn[d] = w.conn[d]
    BY <1>1, <2>1, Zenon
  <2>3. k.in = w.conn[c].in /\ k.out = w.conn[c].out /\ k.st = w.conn[c].st
    BY <2>1, Zenon
  <2> HIDE DEF k
  <2> QED BY <2>2, <2>3, Zenon
<1> QED BY <1>1, <1>2, <1>3, Zenon DEF Attached, Carried

\* A new stream has no events yet, and nobody has heard of it.
LEMMA BeginSound ==
    ASSUME NEW w, Sound(w), Silent(w), NEW c \in Conns, w.conn[c].in = <<>>,
           NEW r, Attached(r, w, c), r.lost = w.lost,
           r.bot.queue = <<>>, r.bot.next = 0, r.bot.stream = w.streams + 1,
           r.streams = w.streams + 1, r.bot.rid \in Nat
    PROVE  Sound(r) /\ Able(r)
<1>1. /\ r.peer = w.peer /\ r.bot.session = c
      /\ \A d \in Conns : /\ r.conn[d].in = w.conn[d].in /\ r.conn[d].out = <<>>
                          /\ r.conn[d].st = w.conn[d].st
  BY Zenon DEF Attached, Silent
<1>2. /\ w.streams \in Nat /\ w.peer.stream <= w.streams
      /\ w.peer.stream \in Nat /\ w.peer.seq \in Nat
      /\ w.peer.rid # 0 => w.peer.stream # 0
      /\ w.peer.stream = 0 => w.peer.seq = 0
  BY Zenon DEF Sound, Numbered, TypedPeer
<1>3. r.peer.stream # r.bot.stream /\ r.bot.stream # 0 /\ r.bot.stream \in Nat
  BY <1>1, <1>2
<1>4. TypedBot(r.bot)
  BY <1>3 DEF TypedBot
<1>5. TypedPeer(r.peer)
  BY <1>1, Zenon DEF Sound
<1>6. TypedConns(r.conn)
  <2>1. <<>> \in Seq(OutItem)
    OBVIOUS
  <2> QED BY <1>1, <2>1, Zenon DEF Sound, TypedConns
<1>7. Lined(r.bot.queue, r.bot.next)
  BY LinedNone
<1>8. Numbered(r.bot, r.peer, r.streams)
  <2>1. r.streams \in Nat /\ r.peer.stream <= r.streams /\ r.bot.stream = r.streams
    BY <1>1, <1>2
  <2> QED BY <2>1, <1>1, <1>2, <1>3, Zenon DEF Numbered
<1>h. \A d \in Conns : \A i \in 1..Len(w.conn[d].in) :
          /\ Honest(w.conn[d].in[i], w.peer, w.streams)
          /\ w.conn[d].in[i].stream \in Nat
  <2> SUFFICES ASSUME NEW d \in Conns, NEW i \in 1..Len(w.conn[d].in)
               PROVE  w.conn[d].in[i].stream \in Nat
    BY Zenon DEF Sound, Said
  <2>1. w.conn[d].in \in Seq(InItem)
    BY Zenon DEF Sound, TypedConns
  <2>2. w.conn[d].in[i] \in InItem
    BY <2>1
  <2> QED BY <2>2, Zenon DEF InItem
<1>9. Said(r)
  <2> SUFFICES ASSUME NEW d \in Conns
               PROVE  /\ Len(r.conn[d].in) <= 1
                      /\ \A i \in 1..Len(r.conn[d].in) :
                             /\ Honest(r.conn[d].in[i], r.peer, r.streams)
                             /\ d = r.peer.conn => Fresh(r.conn[d].in[i], r.peer)
                             /\ d = r.bot.session => r.conn[d].in[i].op # "resume"
    BY Zenon DEF Said
  <2>1. \A m : Honest(m, w.peer, w.streams) /\ m.stream \in Nat
               => Honest(m, r.peer, r.streams)
    BY <1>1, <1>2 DEF Honest
  <2>2. /\ Len(w.conn[d].in) <= 1
        /\ \A i \in 1..Len(w.conn[d].in) : d = w.peer.conn => Fresh(w.conn[d].in[i], w.peer)
    BY Zenon DEF Sound, Said
  <2>3. 1..Len(<<>>) = {}
    OBVIOUS
  <2> QED BY <2>1, <2>2, <2>3, <1>1, <1>h, Zenon
<1>10. Kept(r.bot, r.peer, r.lost)
  <2>1. 1..0 = {}
    OBVIOUS
  <2> QED BY <1>3, <2>1, Zenon DEF Kept
<1>11. \A live : Flows(<<>>, live, r.bot, r.peer, r.lost)
  <2>1. 1..Len(<<>>) = {}
    OBVIOUS
  <2> QED BY <1>3, <2>1, Zenon DEF Flows
<1>12. Told(r)
  BY <1>1, <1>11, Zenon DEF Told, Begins
<1>13. Unheard(r)
  <2>1. \A m : Honest(m, w.peer, w.streams) /\ m.stream \in Nat => m.stream < r.bot.stream
    BY <1>2 DEF Honest
  <2> QED BY <2>1, <1>1, <1>h, Zenon DEF Unheard
<1>14. Able(r)
  BY <1>1, <1>13, Zenon DEF Able
<1> QED BY <1>4, <1>5, <1>6, <1>7, <1>8, <1>9, <1>10, <1>12, <1>14, Zenon DEF Sound

\* pb_handle_identify()
LEMMA IdentifySound ==
    ASSUME NEW w, Good(w), Sound(w), Silent(w), NEW c \in Conns, w.conn[c].in = <<>>,
           w.conn[c].st # "none", NEW r, r = pb_handle_identify(w, c)
    PROVE  Good(r) /\ Sound(r) /\ Ready(r)
<1> DEFINE old == w.bot.session
           v == IF old \in {None, c} THEN w ELSE pb_close_ws(w, old)
           a == Attach(v, c)
           n == w.streams + 1
           u == [a EXCEPT !.bot.queue = <<>>, !.bot.next = 0,
                          !.bot.stream = n, !.streams = n,
                          !.bot.rid = IF w.minted THEN @ ELSE n,
                          !.minted = TRUE, !.bot.away = FALSE]
<1>1. r = pb_dispatch_event(u)
  BY Zenon DEF pb_handle_identify
<1>2. /\ Good(v) /\ Sound(v) /\ Silent(v) /\ v.conn[c].in = <<>> /\ v.streams = w.streams
      /\ v.conn[c].st # "none"
  <2>1. CASE old \in {None, c}
    BY <2>1, Zenon
  <2>2. CASE old \notin {None, c}
    <3>1. v = pb_close_ws(w, old) /\ old \in Conns
      BY <2>2, Zenon DEF Good
    <3> HIDE DEF v
    <3>2. Fewer(v, w) /\ v.conn[c].st = w.conn[c].st
      BY <3>1, <2>2, CloseFewer
    <3>3. v.streams = w.streams /\ v.conn[c].in = <<>>
      BY <3>2, Zenon DEF Fewer
    <3> QED BY <3>1, <3>2, <3>3, FewerSound, CloseKeeps, Zenon
  <2> QED BY <2>1, <2>2, Zenon
<1> HIDE DEF v
<1>3. /\ Good(a) /\ a.last = c /\ Attached(a, v, c) /\ a.streams = v.streams /\ a.lost = v.lost
      /\ a.bot.rid = v.bot.rid
  <2>1. Good(a) /\ a.last = c
    BY <1>2, AttachKeeps, Zenon
  <2>2. Attached(a, v, c) /\ Carried(a, v)
    BY <1>2, AttachFields, Zenon
  <2> QED BY <2>1, <2>2, Zenon DEF Carried
<1> HIDE DEF a
<1>4. /\ u.conn = a.conn /\ u.peer = a.peer /\ u.lost = a.lost
      /\ u.streams = n /\ u.last = a.last
      /\ DOMAIN u = DOMAIN a /\ DOMAIN u.bot = DOMAIN a.bot
      /\ u.bot.session = a.bot.session /\ u.bot.queue = <<>> /\ u.bot.next = 0
      /\ u.bot.stream = n /\ (u.bot.rid = a.bot.rid \/ u.bot.rid = n)
  BY <1>3, ZenonT(90) DEF Good
<1> HIDE DEF u
<1>5. Good(u)
  BY <1>3, <1>4, GatewayAssumption DEF Good
<1>6. u.bot.rid \in Nat
  <2>1. v.bot.rid \in Nat /\ w.streams \in Nat
    BY <1>2, Zenon DEF Sound, TypedBot, Numbered
  <2> QED BY <2>1, <1>3, <1>4
<1>7. Attached(u, v, c)
  BY <1>3, <1>4, Zenon DEF Attached
<1>8. Sound(u) /\ Able(u)
  BY <1>2, <1>3, <1>4, <1>6, <1>7, BeginSound, Zenon
<1> QED BY <1>1, <1>5, <1>8, DispatchSound, Zenon

\* What is replayed is what the bot has not seen, but for what is lost.
LEMMA ReplayFlows ==
    ASSUME NEW b, NEW p, NEW L, TypedBot(b), TypedPeer(p), Lined(b.queue, b.next), Kept(b, p, L),
           p.stream # 0, b.stream # 0, \A i \in 1..Len(b.queue) : b.queue[i].seq > p.seq,
           NEW o, o = [i \in DOMAIN b.queue |-> Frame(b, b.queue[i].seq)]
    PROVE  o \in Seq(OutItem) /\ Flows(o, TRUE, b, p, L)
<1> DEFINE q == b.queue
<1>1. /\ q \in Seq(QueueItem) /\ b.next \in Nat /\ b.stream \in Nat /\ b.rid \in Nat
      /\ p.seq \in Nat
  BY Zenon DEF TypedBot, TypedPeer
<1>2. /\ DOMAIN q = 1..Len(q) /\ Len(q) \in Nat
      /\ \A i \in 1..Len(q) : q[i].seq \in Nat
  BY <1>1, ItemTypes
<1>3. \A i \in 1..Len(q) : /\ o[i] = Frame(b, q[i].seq)
                           /\ Frame(b, q[i].seq) \in OutItem
                           /\ Frame(b, q[i].seq).seq = q[i].seq
                           /\ Frame(b, q[i].seq).stream = b.stream
  BY <1>1, <1>2, Zenon DEF Frame, OutItem
<1>4. o \in Seq(OutItem) /\ Len(o) = Len(q)
  <2>1. DOMAIN o = 1..Len(q) /\ o = [i \in 1..Len(q) |-> o[i]]
    BY <1>2, Zenon
  <2>2. \A i \in 1..Len(q) : o[i] \in OutItem
    BY <1>3, Zenon
  <2> HIDE DEF q
  <2> QED BY <2>1, <2>2, <1>2
<1>5. \A i \in 1..Len(o) : o[i].seq = q[i].seq /\ o[i].stream = b.stream
  BY <1>3, <1>4, Zenon
<1>6. \A n : Holds(q, n) => Holds(o, n)
  BY <1>4, <1>5, Zenon DEF Holds
<1>7. /\ \A i \in 1..Len(o) : o[i].stream = b.stream /\ o[i].seq \in 1..b.next
      /\ \A i, j \in 1..Len(o) : i < j => o[i].seq < o[j].seq
  BY <1>4, <1>5, Zenon DEF Lined
<1>8. \A i \in 1..Len(o) : p.seq < o[i].seq
  BY <1>1, <1>2, <1>4, <1>5, Zenon
<1>9. p.stream = b.stream => \A n \in (p.seq + 1)..b.next : Holds(o, n) \/ <<b.stream, n>> \in L
  BY <1>6, Zenon DEF Kept
<1>10. p.stream # b.stream /\ o # <<>> =>
           \A n \in (o[1].seq + 1)..b.next : Holds(o, n) \/ <<b.stream, n>> \in L
  <2>1. o # <<>> => o[1].seq \in 1..b.next
    <3>1. o # <<>> => 1 \in 1..Len(o)
      BY <1>4
    <3> QED BY <3>1, <1>7, Zenon
  <2>2. o # <<>> => \A n \in (o[1].seq + 1)..b.next : n \in 1..b.next
    BY <2>1, <1>1
  <2>3. p.stream # b.stream => \A n \in 1..b.next : Holds(q, n) \/ <<b.stream, n>> \in L
    BY Zenon DEF Kept
  <2> QED BY <2>2, <2>3, <1>6, Zenon
<1> QED BY <1>4, <1>7, <1>8, <1>9, <1>10, Zenon DEF Flows

\* The state in which a session has been resumed and its events written.
LEMMA ResumedSound ==
    ASSUME NEW w, Sound(w), Silent(w), NEW c \in Conns, w.conn[c].in = <<>>,
           w.conn[c].st # "dead", w.bot.stream # 0,
           c = w.peer.conn => /\ w.peer.stream # 0
                              /\ \A i \in 1..Len(w.bot.queue) : w.bot.queue[i].seq > w.peer.seq,
           NEW r, r.peer = w.peer, r.streams = w.streams, r.lost = w.lost,
           r.bot.queue = w.bot.queue, r.bot.next = w.bot.next, r.bot.session = c,
           r.bot.stream = w.bot.stream, r.bot.rid = w.bot.rid,
           \A d \in Conns :
               /\ r.conn[d].in = w.conn[d].in /\ r.conn[d].st = w.conn[d].st
               /\ r.conn[d].out = IF d = c /\ c = w.peer.conn
                                  THEN [i \in DOMAIN w.bot.queue |->
                                            Frame(w.bot, w.bot.queue[i].seq)]
                                  ELSE <<>>
    PROVE  Sound(r) /\ Able(r)
<1> DEFINE o == [i \in DOMAIN w.bot.queue |-> Frame(w.bot, w.bot.queue[i].seq)]
<1>1. \A d \in Conns :
               /\ r.conn[d].in = w.conn[d].in /\ r.conn[d].st = w.conn[d].st
               /\ r.conn[d].out = IF d = c /\ c = w.peer.conn THEN o ELSE <<>>
  BY Zenon
<1>t. TypedBot(w.bot) /\ TypedPeer(w.peer) /\ TypedConns(w.conn)
      /\ Lined(w.bot.queue, w.bot.next) /\ Kept(w.bot, w.peer, w.lost)
      /\ Numbered(w.bot, w.peer, w.streams)
  BY Zenon DEF Sound
<1>2. c = w.peer.conn => o \in Seq(OutItem) /\ Flows(o, TRUE, w.bot, w.peer, w.lost)
  <2> SUFFICES ASSUME c = w.peer.conn
               PROVE  o \in Seq(OutItem) /\ Flows(o, TRUE, w.bot, w.peer, w.lost)
    BY Zenon
  <2> QED BY <1>t, ReplayFlows, Zenon
<1> HIDE DEF o
<1>3. /\ TypedBot(r.bot) /\ TypedPeer(r.peer) /\ Lined(r.bot.queue, r.bot.next)
  BY <1>t, Zenon DEF TypedBot
<1>4. TypedConns(r.conn)
  <2>1. <<>> \in Seq(OutItem)
    OBVIOUS
  <2> QED BY <2>1, <1>1, <1>2, <1>t, Zenon DEF TypedConns
<1>5. Numbered(r.bot, r.peer, r.streams)
  BY <1>t, Zenon DEF Numbered
<1>6. Said(r)
  <2> SUFFICES ASSUME NEW d \in Conns
               PROVE  /\ Len(r.conn[d].in) <= 1
                      /\ \A i \in 1..Len(r.conn[d].in) :
                             /\ Honest(r.conn[d].in[i], r.peer, r.streams)
                             /\ d = r.peer.conn => Fresh(r.conn[d].in[i], r.peer)
                             /\ d = r.bot.session => r.conn[d].in[i].op # "resume"
    BY Zenon DEF Said
  <2>2. /\ Len(w.conn[d].in) <= 1
        /\ \A i \in 1..Len(w.conn[d].in) :
               /\ Honest(w.conn[d].in[i], w.peer, w.streams)
               /\ d = w.peer.conn => Fresh(w.conn[d].in[i], w.peer)
    BY Zenon DEF Sound, Said
  <2>3. 1..Len(<<>>) = {}
    OBVIOUS
  <2> QED BY <2>2, <2>3, <1>1, Zenon
<1>7. Kept(r.bot, r.peer, r.lost)
  BY <1>t, Zenon DEF Kept
<1>8. \A d \in Conns : Joined(r, d) <=> d = c /\ c = w.peer.conn
  BY Zenon DEF Joined
<1>9. ASSUME NEW d \in Conns, Joined(r, d)
      PROVE  /\ Flows(r.conn[d].out, r.conn[d].st # "dead", r.bot, r.peer, r.lost)
             /\ r.peer.stream # 0 /\ r.conn[d].st # "dead"
  <2>1. r.conn[d].out = o /\ d = c /\ c = w.peer.conn
    BY <1>1, <1>8, <1>9, Zenon
  <2> QED BY <1>1, <2>1, <1>2, ZenonT(60) DEF Flows
<1>10. Told(r)
  BY <1>1, <1>8, <1>9, Zenon DEF Told, Begins
<1>11. Able(r)
  BY <1>9, Zenon DEF Able
<1> QED BY <1>3, <1>4, <1>5, <1>6, <1>7, <1>10, <1>11, Zenon DEF Sound

\* pb_handle_resume()
LEMMA ResumeSound ==
    ASSUME NEW w, Good(w), Sound(w), Silent(w), Ready(w), NEW c \in Conns, w.conn[c].in = <<>>,
           w.conn[c].st # "none", w.conn[c].st # "dead",
           NEW msg \in InItem, Honest(msg, w.peer, w.streams), msg.op = "resume",
           c = w.peer.conn => Fresh(msg, w.peer),
           NEW r, r = pb_handle_resume(w, c, msg)
    PROVE  Good(r) /\ Sound(r) /\ Ready(r)
<1> DEFINE v == pb_queue_expire(w)
           a == pb_queue_ack(v, msg)
           u == Attach(a, c)
           replay == [i \in DOMAIN u.bot.queue |-> Frame(u.bot, u.bot.queue[i].seq)]
           x == Write(u, c, replay)
<1>g. Good(r)
  BY ResumeKeeps, Zenon
<1>0. \/ r = pb_close_ws(w, c) \/ r = pb_close_ws(v, c)
      \/ w.bot.rid # 0 /\ r = pb_dispatch_event(x)
  BY Zenon DEF pb_handle_resume
<1>1. Good(v) /\ Sound(v) /\ Silent(v) /\ Ready(v) /\ Dropping(v, w)
  <2>1. Dropping(v, w) /\ Good(v)
    BY ExpireDropsAll, ExpireAlike, AlikeKeeps, Zenon
  <2> HIDE DEF v
  <2> QED BY <2>1, DroppingSound, DroppingReady, Zenon
<1> HIDE DEF v
<1>2. /\ v.conn = w.conn /\ v.peer = w.peer /\ v.streams = w.streams
      /\ v.bot.stream = w.bot.stream
  BY <1>1, Zenon DEF Dropping, Alike
<1>3. CASE r = pb_close_ws(w, c) \/ r = pb_close_ws(v, c)
  <2>1. Fewer(r, w) \/ Fewer(r, v)
    BY <1>3, <1>1, CloseFewer, Zenon
  <2> QED BY <2>1, <1>1, <1>g, FewerSound, Zenon
<1>4. CASE w.bot.rid # 0 /\ r = pb_dispatch_event(x)
  <2>1. Honest(msg, v.peer, v.streams)
    BY <1>2, Zenon
  <2>2. /\ Dropping(a, v) /\ Good(a)
        /\ \A i \in 1..Len(a.bot.queue) : a.bot.queue[i].seq > msg.seq
    BY <2>1, <1>1, AckDrops, AckAlike, AlikeKeeps, Zenon
  <2> HIDE DEF a
  <2>3. Sound(a) /\ Silent(a)
    BY <2>2, <1>1, DroppingSound, Zenon
  <2>4. /\ a.conn = w.conn /\ a.peer = w.peer /\ a.streams = w.streams
        /\ a.bot.stream = w.bot.stream
    BY <2>2, <1>2, Zenon DEF Dropping, Alike
  <2>5. a.bot.stream # 0
    BY <2>4, <1>4, Zenon DEF Sound, Numbered
  <2>6. /\ Good(u) /\ Attached(u, a, c)
        /\ u.streams = a.streams /\ u.lost = a.lost
        /\ u.bot.queue = a.bot.queue /\ u.bot.next = a.bot.next
        /\ u.bot.stream = a.bot.stream /\ u.bot.rid = a.bot.rid
    <3>1. a.conn[c].st # "none"
      BY <2>4, Zenon
    <3>2. Good(u)
      BY <3>1, <2>2, AttachKeeps, Zenon
    <3>3. Attached(u, a, c) /\ Carried(u, a)
      BY <2>2, AttachFields, Zenon
    <3> HIDE DEF u, a
    <3> QED BY <3>2, <3>3, Zenon DEF Carried
  <2> HIDE DEF u
  <2>7. Good(x)
    BY <2>6, WriteKeeps, Zenon
  <2> DEFINE o == [i \in DOMAIN a.bot.queue |-> Frame(a.bot, a.bot.queue[i].seq)]
  <2>8. replay = o
    BY <2>6, Zenon DEF Frame
  <2> HIDE DEF replay
  <2>9. /\ x.peer = u.peer /\ x.streams = u.streams /\ x.lost = u.lost /\ x.bot = u.bot
        /\ \A d \in Conns :
               /\ x.conn[d].in = a.conn[d].in /\ x.conn[d].st = a.conn[d].st
               /\ x.conn[d].out = IF d = c /\ c = a.peer.conn THEN o ELSE <<>>
    <3> HIDE DEF o
    <3>1. /\ u.conn[c].st # "dead" /\ u.peer.conn = a.peer.conn
          /\ \A d \in Conns : /\ u.conn[d].in = a.conn[d].in /\ u.conn[d].st = a.conn[d].st
                              /\ u.conn[d].out = <<>>
      BY <2>6, <2>3, <2>4, Zenon DEF Attached, Silent
    <3>2. CASE c # a.peer.conn
      <4>1. x = u
        BY <3>1, <3>2, Zenon DEF Write
      <4> QED BY <4>1, <3>1, <3>2, Zenon
    <3>3. CASE c = a.peer.conn
      <4>1. x = [u EXCEPT !.conn[c].out = @ \o o]
        BY <3>1, <3>3, <2>8, Zenon DEF Write
      <4>2. /\ x.peer = u.peer /\ x.streams = u.streams /\ x.lost = u.lost /\ x.bot = u.bot
            /\ x.conn = [u.conn EXCEPT ![c] = [u.conn[c] EXCEPT !.out = @ \o o]]
        BY <4>1, <2>6, Zenon DEF Good
      <4>3. DOMAIN u.conn = Conns /\ DOMAIN u.conn[c] = {"st", "identified", "in", "out"}
        BY <2>6, Zenon DEF Good
      <4> DEFINE k == [u.conn[c] EXCEPT !.out = @ \o o]
      <4>4. x.conn[c] = k /\ \A d \in Conns : d # c => x.conn[d] = u.conn[d]
        BY <4>2, <4>3, Zenon
      <4>5. k.out = u.conn[c].out \o o /\ k.in = u.conn[c].in /\ k.st = u.conn[c].st
        BY <4>3, Zenon
      <4> HIDE DEF k, x
      <4>6. <<>> \o o = o
        <5>1. a.bot.queue \in Seq(QueueItem)
          BY <2>3, Zenon DEF Sound, TypedBot
        <5>2. o \in Seq({o[i] : i \in DOMAIN o})
          <6>1. Len(a.bot.queue) \in Nat /\ DOMAIN o = 1..Len(a.bot.queue)
                /\ o = [i \in 1..Len(a.bot.queue) |-> o[i]]
            BY <5>1 DEF o
          <6> QED BY <6>1
        <5> QED BY <5>2
      <4>7. x.conn[c].out = o /\ x.conn[c].in = a.conn[c].in /\ x.conn[c].st = a.conn[c].st
        BY <4>4, <4>5, <4>6, <3>1, Zenon
      <4>8. \A d \in Conns :
               /\ x.conn[d].in = a.conn[d].in /\ x.conn[d].st = a.conn[d].st
               /\ x.conn[d].out = IF d = c /\ c = a.peer.conn THEN o ELSE <<>>
        BY <4>4, <4>7, <3>1, <3>3, ZenonT(60)
      <4> QED BY <4>2, <4>8, Zenon
    <3> QED BY <3>2, <3>3, Zenon
  <2> HIDE DEF x
  <2>10. c = a.peer.conn => /\ a.peer.stream # 0
                            /\ \A i \in 1..Len(a.bot.queue) : a.bot.queue[i].seq > a.peer.seq
    BY <2>2, <2>4, Zenon DEF Fresh
  <2>11. /\ x.peer = a.peer /\ x.bot.session = c /\ x.streams = a.streams /\ x.lost = a.lost
         /\ x.bot.queue = a.bot.queue /\ x.bot.next = a.bot.next
         /\ x.bot.stream = a.bot.stream /\ x.bot.rid = a.bot.rid
    BY <2>6, <2>9, Zenon DEF Attached
  <2>12. a.conn[c].in = <<>> /\ a.conn[c].st # "dead"
    BY <2>4, Zenon
  <2>13. Sound(x) /\ Able(x)
    BY <2>3, <2>5, <2>9, <2>10, <2>11, <2>12, ResumedSound, Zenon
  <2> QED BY <2>13, <2>7, <1>4, DispatchSound, Zenon
<1> QED BY <1>0, <1>3, <1>4, Zenon

\* pb_handle_heartbeat()
LEMMA HeartbeatSound ==
    ASSUME NEW w, Good(w), Sound(w), Silent(w), Ready(w), NEW c \in Conns,
           NEW msg \in InItem, Honest(msg, w.peer, w.streams),
           NEW r, r = pb_handle_heartbeat(w, c, msg)
    PROVE  Good(r) /\ Sound(r) /\ Ready(r)
<1> DEFINE a == pb_queue_ack(w, msg)
<1>1. Dropping(a, w) /\ Good(a)
  BY AckDrops, AckAlike, AlikeKeeps, Zenon
<1>2. r = [a EXCEPT !.bot.quiet = IF w.bot.session = c THEN 0 ELSE @]
  BY Zenon DEF pb_handle_heartbeat
<1> HIDE DEF a
<1>3. Sound(a) /\ Ready(a)
  BY <1>1, DroppingSound, DroppingReady, Zenon
<1>4. /\ r.conn = a.conn /\ r.peer = a.peer /\ r.streams = a.streams /\ r.lost = a.lost
      /\ r.bot.queue = a.bot.queue /\ r.bot.next = a.bot.next
      /\ r.bot.stream = a.bot.stream /\ r.bot.rid = a.bot.rid
      /\ r.bot.session = a.bot.session
  BY <1>1, <1>2 DEF Good
<1>5. Fewer(r, a)
  <2>1. \A d \in Conns : a.conn[d].out # <<>> => Joined(a, d)
    BY <1>3, Zenon DEF Sound, Told
  <2>2. \A d \in Conns : Joined(a, d) <=> Joined(r, d)
    BY <1>4, Zenon DEF Joined
  <2>3. TypedPeer(r.peer)
    BY <1>3, <1>4, Zenon DEF Sound
  <2> QED BY <2>1, <2>2, <2>3, <1>4, Zenon DEF Fewer
<1> QED BY <1>3, <1>5, FewerSound, HeartbeatKeeps, Zenon

\* A connection is taken down; the bot notices if it is its own.
LEMMA GoneSound ==
    ASSUME NEW w, Good(w), Sound(w), Silent(w), Ready(w), NEW c \in Conns,
           NEW r, r = [Gone(w, c) EXCEPT !.peer.conn = IF @ = c THEN None ELSE @]
                  \/ (w.peer.conn # c /\ r = Gone(w, c))
    PROVE  Sound(r) /\ Ready(r)
<1> DEFINE s == pb_session_free(w, c)
           g == Gone(w, c)
<1>1. g = [s EXCEPT !.conn[c] = Free, !.last = IF @ = c THEN None ELSE @]
  BY Zenon DEF Gone
<1>2. /\ DOMAIN s = DOMAIN w
      /\ s.conn = w.conn /\ s.peer = w.peer /\ s.streams = w.streams /\ s.lost = w.lost
      /\ s.bot.queue = w.bot.queue /\ s.bot.next = w.bot.next
      /\ s.bot.stream = w.bot.stream /\ s.bot.rid = w.bot.rid
      /\ s.bot.session = IF w.bot.session = c THEN None ELSE w.bot.session
  BY ZenonT(60) DEF Good, pb_session_free
<1>d. /\ DOMAIN w = {"conn", "bot", "minted", "peer", "streams", "last", "lost"}
      /\ DOMAIN w.conn = Conns
  BY Zenon DEF Good
<1> HIDE DEF s
<1>3. /\ g.conn = [w.conn EXCEPT ![c] = Free]
      /\ g.bot = s.bot /\ g.peer = s.peer /\ g.streams = s.streams /\ g.lost = s.lost
      /\ DOMAIN g = DOMAIN s
  BY <1>1, <1>2, <1>d, ZenonT(60)
<1> HIDE DEF g
<1>p. TypedPeer(w.peer)
  BY Zenon DEF Sound
<1>4. /\ r.conn = g.conn /\ r.bot = g.bot /\ r.streams = g.streams /\ r.lost = g.lost
      /\ TypedPeer(r.peer)
      /\ r.peer.seq = w.peer.seq /\ r.peer.stream = w.peer.stream /\ r.peer.rid = w.peer.rid
      /\ r.peer.conn = w.peer.conn \/ r.peer.conn = None
  <2>1. CASE r = g
    BY <2>1, <1>2, <1>3, <1>p, Zenon
  <2>2. CASE r = [g EXCEPT !.peer.conn = IF @ = c THEN None ELSE @]
    <3>0. /\ DOMAIN g = {"conn", "bot", "minted", "peer", "streams", "last", "lost"}
          /\ g.peer = w.peer
      BY <1>2, <1>3, <1>d, Zenon
    <3>1. /\ r.conn = g.conn /\ r.bot = g.bot /\ r.streams = g.streams /\ r.lost = g.lost
          /\ r.peer = [g.peer EXCEPT !.conn = IF @ = c THEN None ELSE @]
      BY <2>2, <3>0, Zenon
    <3> QED BY <3>0, <3>1, <1>p DEF TypedPeer
  <2> QED BY <2>1, <2>2, Zenon DEF g
<1>5. \A d \in Conns : /\ d # c => r.conn[d] = w.conn[d]
                       /\ d = c => r.conn[d] = Free
  BY <1>d, <1>3, <1>4, Zenon
<1>6. Free.in = <<>> /\ Free.out = <<>>
  BY Zenon DEF Free
<1>7. \A d \in Conns : Joined(r, d) => Joined(w, d) /\ d # c
  BY <1>2, <1>3, <1>4, GatewayAssumption DEF Joined
<1>8. Fewer(r, w)
  <2>1. \A d \in Conns :
           /\ r.conn[d].in = w.conn[d].in \/ r.conn[d].in = <<>>
           /\ r.conn[d].out = <<>>
           /\ Joined(r, d) => /\ Joined(w, d) /\ r.conn[d].out = w.conn[d].out
                              /\ w.conn[d].st = "dead" => r.conn[d].st = "dead"
    BY <1>5, <1>6, <1>7, Zenon DEF Silent
  <2> QED BY <2>1, <1>2, <1>3, <1>4, ZenonT(60) DEF Fewer
<1> QED BY <1>8, FewerSound, Zenon

\* A stream that is forgotten.
LEMMA ForgottenSound ==
    ASSUME NEW v, Good(v), Sound(v), Silent(v), v.bot.session = None, v.bot.queue = <<>>,
           NEW r, r = [v EXCEPT !.bot.rid = 0, !.bot.stream = 0, !.bot.next = 0,
                                !.bot.window = NoWindow]
    PROVE  Sound(r) /\ Ready(r)
<1>1. /\ r.conn = v.conn /\ r.peer = v.peer /\ r.streams = v.streams /\ r.lost = v.lost
      /\ r.bot.queue = <<>> /\ r.bot.next = 0 /\ r.bot.stream = 0 /\ r.bot.rid = 0
      /\ r.bot.session = None
  BY ZenonT(60) DEF Good
<1>2. TypedBot(r.bot) /\ Lined(r.bot.queue, r.bot.next)
  <2>1. \A b : b.queue = <<>> /\ b.next = 0 /\ b.stream = 0 /\ b.rid = 0 =>
                   TypedBot(b) /\ Lined(b.queue, b.next)
    BY LinedNone DEF TypedBot
  <2> QED BY <1>1, <2>1, Zenon
<1>3. TypedPeer(r.peer) /\ TypedConns(r.conn)
  BY <1>1, Zenon DEF Sound
<1>4. Numbered(r.bot, r.peer, r.streams)
  <2>1. Numbered(v.bot, v.peer, v.streams)
    BY Zenon DEF Sound
  <2> QED BY <1>1, <2>1 DEF Numbered
<1>5. Said(r)
  BY <1>1, SaidOn, ZenonT(60) DEF Sound
<1>6. Kept(r.bot, r.peer, r.lost)
  BY <1>1, Zenon DEF Kept
<1>7. \A d \in Conns : ~ Joined(r, d) /\ r.conn[d].out = <<>>
  BY <1>1, GatewayAssumption, Zenon DEF Joined, Silent
<1>8. Told(r) /\ Ready(r)
  BY <1>7, Zenon DEF Told, Ready
<1> QED BY <1>2, <1>3, <1>4, <1>5, <1>6, <1>8, Zenon DEF Sound

\* pb_heartbeat_check()
LEMMA CheckSound ==
    ASSUME NEW w, Good(w), Sound(w), Silent(w), Ready(w),
           NEW r, r = Forget(HeartbeatTimeout(w))
    PROVE  Sound(r) /\ Ready(r)
<1> DEFINE x == HeartbeatTimeout(w)
           v == pb_queue_expire(x)
<1>1. Good(x) /\ Sound(x) /\ Silent(x) /\ Ready(x)
  <2>1. x = w \/ (w.bot.session # None /\ x = pb_close_ws(w, w.bot.session))
    BY Zenon DEF HeartbeatTimeout
  <2>2. w.bot.session # None => w.bot.session \in Conns
    BY Zenon DEF Good
  <2> HIDE DEF x
  <2>3. x = w \/ (Good(x) /\ Fewer(x, w))
    <3> SUFFICES ASSUME x # w PROVE Good(x) /\ Fewer(x, w)
      BY Zenon
    <3>1. Good(x)
      BY <2>1, <2>2, CloseKeeps, Zenon
    <3>2. Fewer(x, w)
      BY <2>1, <2>2, CloseFewer, Zenon
    <3> QED BY <3>1, <3>2, Zenon
  <2> QED BY <2>3, FewerSound, Zenon
<1>2. \/ r = x \/ r = v
      \/ /\ x.bot.session = None /\ v.bot.queue = <<>>
         /\ r = [v EXCEPT !.bot.rid = 0, !.bot.stream = 0, !.bot.next = 0,
                          !.bot.window = NoWindow]
  BY Zenon DEF Forget
<1> HIDE DEF x
<1>3. Good(v) /\ Dropping(v, x)
  BY <1>1, ExpireDropsAll, ExpireAlike, AlikeKeeps, Zenon
<1> HIDE DEF v
<1>4. Sound(v) /\ Silent(v) /\ Ready(v) /\ v.bot.session = x.bot.session
  BY <1>1, <1>3, DroppingSound, DroppingReady, Zenon DEF Dropping, Alike
<1> QED BY <1>1, <1>2, <1>3, <1>4, ForgottenSound, Zenon

\* Losses that the bot has passed, or of streams that are over, do not matter.
LEMMA RelevantSound ==
    ASSUME NEW w, NEW r, Sound(w), Ready(w), r.conn = w.conn, r.bot = w.bot, r.peer = w.peer,
           r.streams = w.streams, r.lost = Relevant(w.lost, w.peer, w.bot)
    PROVE  Sound(r) /\ Ready(r)
<1>t. /\ w.bot.next \in Nat /\ w.peer.seq \in Nat
  BY Zenon DEF Sound, TypedBot, TypedPeer
<1>1. ASSUME w.peer.stream = w.bot.stream
      PROVE  \A n \in (w.peer.seq + 1)..w.bot.next :
                 <<w.bot.stream, n>> \in w.lost => <<w.bot.stream, n>> \in r.lost
  <2>1. \A n \in (w.peer.seq + 1)..w.bot.next : n > w.peer.seq
    BY <1>t
  <2>2. \A n : <<w.bot.stream, n>>[1] = w.bot.stream /\ <<w.bot.stream, n>>[2] = n
    BY Zenon
  <2> QED BY <1>1, <2>1, <2>2, Zenon DEF Relevant
<1>2. ASSUME w.peer.stream # w.bot.stream
      PROVE  \A n : <<w.bot.stream, n>> \in w.lost => <<w.bot.stream, n>> \in r.lost
  <2>1. \A n : <<w.bot.stream, n>>[1] = w.bot.stream /\ <<w.bot.stream, n>>[2] = n
    OBVIOUS
  <2> QED BY <1>2, <2>1, Zenon DEF Relevant
<1>3. Kept(r.bot, r.peer, r.lost)
  <2>1. Kept(w.bot, w.peer, w.lost)
    BY Zenon DEF Sound
  <2> QED BY <1>1, <1>2, <2>1, Zenon DEF Kept
<1>4. Said(r) /\ Ready(r) /\ (Unheard(w) => Unheard(r))
  <2>1. Said(w)
    BY Zenon DEF Sound
  <2> QED BY <2>1, Zenon DEF Said, Ready, Joined, Unheard
<1>5. \A d \in Conns : Joined(r, d) <=> Joined(w, d)
  BY Zenon DEF Joined
<1>6. ASSUME NEW d \in Conns, Joined(w, d)
      PROVE  /\ Flows(w.conn[d].out, w.conn[d].st # "dead", w.bot, w.peer, r.lost)
             /\ Begins(w.conn[d].out, w.bot, w.peer, r.lost)
  <2>1. /\ Flows(w.conn[d].out, w.conn[d].st # "dead", w.bot, w.peer, w.lost)
        /\ Begins(w.conn[d].out, w.bot, w.peer, w.lost)
    BY <1>6, Zenon DEF Sound, Told
  <2>2. w.bot.stream # 0
    BY <1>6, GatewayAssumption, Zenon DEF Sound, Numbered, Joined
  <2>3. Flows(w.conn[d].out, w.conn[d].st # "dead", w.bot, w.peer, r.lost)
    BY <2>1, <1>1, <1>2, Zenon DEF Flows
  <2>4. Begins(w.conn[d].out, w.bot, w.peer, r.lost)
    BY <2>1, <2>2, <1>2, Zenon DEF Begins
  <2> QED BY <2>3, <2>4, Zenon
<1>7. Told(r)
  <2>1. \A d \in Conns :
           /\ w.conn[d].out # <<>> => Joined(w, d)
           /\ Joined(w, d) /\ w.conn[d].out # <<>> /\ w.peer.stream = 0 => Unheard(w)
    BY Zenon DEF Sound, Told
  <2> QED BY <2>1, <1>4, <1>5, <1>6, Zenon DEF Told
<1>8. /\ TypedBot(r.bot) /\ TypedPeer(r.peer) /\ TypedConns(r.conn)
      /\ Lined(r.bot.queue, r.bot.next) /\ Numbered(r.bot, r.peer, r.streams)
  BY Zenon DEF Sound
<1> QED BY <1>3, <1>4, <1>7, <1>8, Zenon DEF Sound

\* The inductive invariant for StreamInOrder.
SInv == IInv /\ Sound(World) /\ Ready(World)

\* The fields of the state as a record.
LEMMA WorldIs ==
    /\ World.conn = conn /\ World.bot = bot /\ World.peer = peer
    /\ World.streams = streams /\ World.lost = lost
BY Zenon DEF World

\* The same in the next state.
LEMMA WorldIsNext ==
    /\ World'.conn = conn' /\ World'.bot = bot' /\ World'.peer = peer'
    /\ World'.streams = streams' /\ World'.lost = lost'
BY Zenon DEF World

\* A step made of an operation.
LEMMA BecomeSound ==
    ASSUME NEW w, Sound(w), Ready(w), Become(w)
    PROVE  Sound(World') /\ Ready(World')
<1>1. /\ World'.conn = w.conn /\ World'.bot = w.bot /\ World'.peer = w.peer
      /\ World'.streams = w.streams /\ World'.lost = Relevant(w.lost, w.peer, w.bot)
  BY WorldIsNext, Zenon DEF Become
<1> DEFINE r == World'
<1> HIDE DEF r
<1>2. /\ r.conn = w.conn /\ r.bot = w.bot /\ r.peer = w.peer
      /\ r.streams = w.streams /\ r.lost = Relevant(w.lost, w.peer, w.bot)
  BY <1>1, Zenon DEF r
<1>3. Sound(r) /\ Ready(r)
  BY <1>2, RelevantSound, Zenon
<1> QED BY <1>3, Zenon DEF r

\* The bot leaves its connection.
LEMMA LeaveSound ==
    ASSUME SInv, Leave
    PROVE  Sound(World') /\ Ready(World')
<1> DEFINE r == World'
           w == World
<1>1. /\ r.conn = Abandoned /\ r.bot = w.bot /\ r.streams = w.streams /\ r.lost = w.lost
      /\ r.peer = [peer EXCEPT !.conn = None]
  BY WorldIs, WorldIsNext, Zenon DEF Leave
<1>2. Sound(w) /\ Ready(w) /\ Good(w)
  BY Zenon DEF SInv, IInv
<1>3. \A c \in Conns :
        /\ Abandoned[c].in = w.conn[c].in /\ Abandoned[c].st = w.conn[c].st
        /\ Abandoned[c].out = IF c = peer.conn THEN <<>> ELSE w.conn[c].out
  <2>1. \A c \in Conns : DOMAIN conn[c] = {"st", "identified", "in", "out"}
    BY <1>2, WorldIs, Zenon DEF Good
  <2> QED BY <2>1, WorldIs, Zenon DEF Abandoned
<1>4. \A c \in Conns : w.conn[c].out # <<>> => Joined(w, c)
  BY <1>2, Zenon DEF Sound, Told
<1>p. w.peer = peer /\ TypedPeer(peer)
  BY <1>2, WorldIs DEF Sound
<1>5. /\ TypedPeer(r.peer) /\ r.peer.conn = None
      /\ r.peer.seq = w.peer.seq /\ r.peer.stream = w.peer.stream /\ r.peer.rid = w.peer.rid
  BY <1>1, <1>p, Zenon DEF TypedPeer
<1> HIDE DEF r, w
<1>6. \A c \in Conns : ~ Joined(r, c) /\ r.conn[c].out = <<>>
  BY <1>1, <1>3, <1>4, <1>5, <1>p, GatewayAssumption, ZenonT(60) DEF Joined
<1>7. Fewer(r, w)
  BY <1>1, <1>3, <1>5, <1>6, Zenon DEF Fewer
<1>8. Sound(r) /\ Ready(r)
  BY <1>2, <1>7, FewerSound, Zenon
<1> QED BY <1>8, Zenon DEF r

\* The bot opens a connection and says m there: it asks for a new stream, or for
\* the rest of the one it is in.
LEMMA OpensSound ==
    ASSUME NEW w, NEW r, Good(w), Sound(w), Silent(w), NEW c \in Conns, w.conn[c].st = "none",
           NEW m \in InItem, TypedPeer(r.peer), r.peer.conn = c,
           r.bot = w.bot, r.streams = w.streams,
           \A d \in Conns : /\ d # c => r.conn[d].in = w.conn[d].in
                            /\ r.conn[d].out = <<>>,
           r.conn[c].in = <<m>>,
           \/ /\ m.op = "identify" /\ m.stream = 0
              /\ r.peer.seq = 0 /\ r.peer.stream = 0 /\ r.peer.rid = 0
           \/ /\ m.op = "resume" /\ m.seq = r.peer.seq /\ m.stream = r.peer.stream
              /\ m.stream # 0 /\ r.lost = w.lost
              /\ r.peer.seq = w.peer.seq /\ r.peer.stream = w.peer.stream
              /\ r.peer.rid = w.peer.rid
    PROVE  Sound(r) /\ Ready(r)
<1>0. w.bot.session # c
  BY GatewayAssumption DEF Good
<1>1. \A d \in Conns : ~ Joined(r, d)
  BY <1>0, Zenon DEF Joined
<1>2. Told(r) /\ Ready(r)
  BY <1>1, Zenon DEF Told, Ready
<1>t. /\ TypedBot(w.bot) /\ TypedPeer(w.peer) /\ TypedConns(w.conn)
      /\ Lined(w.bot.queue, w.bot.next) /\ Numbered(w.bot, w.peer, w.streams)
      /\ Kept(w.bot, w.peer, w.lost) /\ Said(w)
  BY Zenon DEF Sound
<1>3. TypedBot(r.bot) /\ Lined(r.bot.queue, r.bot.next)
  BY <1>t, Zenon
<1>4. TypedConns(r.conn)
  <2>1. <<m>> \in Seq(InItem) /\ <<>> \in Seq(OutItem)
    OBVIOUS
  <2> QED BY <2>1, <1>t, Zenon DEF TypedConns
<1>5. Numbered(r.bot, r.peer, r.streams)
  BY <1>t DEF Numbered, TypedBot
<1>6. Kept(r.bot, r.peer, r.lost)
  <2>1. CASE r.peer.stream = 0
    BY <2>1, Zenon DEF Kept
  <2>2. CASE r.peer.stream # 0
    BY <2>2, <1>t, Zenon DEF Kept
  <2> QED BY <2>1, <2>2, Zenon
<1>7. Said(r)
  <2> SUFFICES ASSUME NEW d \in Conns
               PROVE  /\ Len(r.conn[d].in) <= 1
                      /\ \A i \in 1..Len(r.conn[d].in) :
                             /\ Honest(r.conn[d].in[i], r.peer, r.streams)
                             /\ d = r.peer.conn => Fresh(r.conn[d].in[i], r.peer)
                             /\ d = r.bot.session => r.conn[d].in[i].op # "resume"
    BY Zenon DEF Said
  <2>1. CASE d = c
    <3>1. r.conn[d].in = <<m>> /\ Len(<<m>>) = 1 /\ \A i \in 1..1 : <<m>>[i] = m
      BY <2>1
    <3>2. Honest(m, r.peer, r.streams)
      BY <1>t DEF Honest, Numbered, TypedPeer, InItem
    <3>3. Fresh(m, r.peer)
      BY Zenon DEF Fresh
    <3>4. d # r.bot.session
      BY <1>0, <2>1, Zenon
    <3>5. Len(<<m>>) <= 1
      BY <3>1
    <3> QED BY <3>1, <3>2, <3>3, <3>4, <3>5, Zenon
  <2>2. CASE d # c
    <3>1. r.conn[d].in = w.conn[d].in
      BY <2>2, Zenon
    <3>2. /\ Len(w.conn[d].in) <= 1
          /\ \A i \in 1..Len(w.conn[d].in) :
                 /\ Honest(w.conn[d].in[i], w.peer, w.streams)
                 /\ d = w.bot.session => w.conn[d].in[i].op # "resume"
      BY <1>t, Zenon DEF Said
    <3>3. \A x : Honest(x, w.peer, w.streams) => Honest(x, r.peer, r.streams)
      BY Zenon DEF Honest
    <3> QED BY <3>1, <3>2, <3>3, <2>2, Zenon
  <2> QED BY <2>1, <2>2, Zenon
<1> QED BY <1>2, <1>3, <1>4, <1>5, <1>6, <1>7, Zenon DEF Sound

\* What is beyond a number is beyond a smaller one.
LEMMA Beyond ==
    ASSUME NEW x \in Nat, NEW y \in Nat, NEW m \in Nat, x < y
    PROVE  /\ \A n \in (y + 1)..m : n \in (x + 1)..m
           /\ \A n \in Nat : n <= x => n <= y
OBVIOUS

\* The bot receives the first of what is on the way.
LEMMA FlowsTail ==
    ASSUME NEW o \in Seq(OutItem), o # <<>>, NEW live, NEW b, NEW p, NEW L, NEW pp,
           TypedBot(b), TypedPeer(p), Flows(o, live, b, p, L),
           pp.stream = b.stream, pp.seq = o[1].seq
    PROVE  Tail(o) \in Seq(OutItem) /\ Flows(Tail(o), live, b, pp, L)
<1> DEFINE t == Tail(o)
<1>1. /\ t \in Seq(OutItem) /\ Len(t) = Len(o) - 1 /\ Len(o) \in Nat \ {0}
      /\ \A i \in 1..Len(t) : t[i] = o[i + 1]
  OBVIOUS
<1> HIDE DEF t
<1>2. /\ b.next \in Nat /\ p.seq \in Nat /\ 1 \in 1..Len(o)
  BY <1>1 DEF TypedBot, TypedPeer
<1>3. \A i \in 1..Len(t) : i + 1 \in 1..Len(o) /\ 1 < i + 1
  BY <1>1
<1>4. \A i \in 1..Len(t) : t[i].stream = b.stream /\ t[i].seq \in 1..b.next /\ pp.seq < t[i].seq
  BY <1>1, <1>2, <1>3, Zenon DEF Flows
<1>5. \A i, j \in 1..Len(t) : i < j => t[i].seq < t[j].seq
  <2> SUFFICES ASSUME NEW i \in 1..Len(t), NEW j \in 1..Len(t), i < j
               PROVE  t[i].seq < t[j].seq
    BY Zenon
  <2>1. i + 1 < j + 1
    OBVIOUS
  <2> QED BY <2>1, <1>1, <1>3, Zenon DEF Flows
<1>6. o[1].seq \in 1..b.next
  BY <1>2, Zenon DEF Flows
<1>7. \A n \in (o[1].seq + 1)..b.next : Holds(o, n) \/ <<b.stream, n>> \in L
  <2>1. CASE p.stream = b.stream
    <3>1. p.seq < o[1].seq
      BY <2>1, <1>2, Zenon DEF Flows
    <3>2. \A n \in (o[1].seq + 1)..b.next : n \in (p.seq + 1)..b.next
      BY <3>1, <1>2, <1>6
    <3> QED BY <3>2, <2>1, Zenon DEF Flows
  <2>2. CASE p.stream # b.stream
    BY <2>2, Zenon DEF Flows
  <2> QED BY <2>1, <2>2, Zenon
<1>8. ASSUME NEW n \in (o[1].seq + 1)..b.next, Holds(o, n) PROVE Holds(t, n)
  <2>1. PICK i \in 1..Len(o) : o[i].seq = n
    BY <1>8, Zenon DEF Holds
  <2>2. i # 1
    BY <2>1, <1>6
  <2>3. i - 1 \in 1..Len(t) /\ (i - 1) + 1 = i
    BY <2>2, <1>1
  <2>4. t[i - 1] = o[i]
    BY <2>3, <1>1, Zenon
  <2> QED BY <2>1, <2>3, <2>4, Zenon DEF Holds
<1>9. Flows(t, live, b, pp, L)
  BY <1>4, <1>5, <1>7, <1>8, Zenon DEF Flows
<1> QED BY <1>1, <1>9, Zenon DEF t

\* The first of what is on the way on c has been read.
HasRead(r, w, c) ==
    \A d \in Conns : /\ r.conn[d].in = w.conn[d].in /\ r.conn[d].st = w.conn[d].st
                     /\ r.conn[d].out = IF d = c THEN Tail(w.conn[c].out)
                                        ELSE w.conn[d].out

\* The bot receives an event: w becomes r.
LEMMA ReceivedSound ==
    ASSUME NEW w, NEW r, Sound(w), NEW c \in Conns, c = w.peer.conn, NEW f,
           w.conn[c].out # <<>>, f = w.conn[c].out[1],
           r.bot = w.bot, r.streams = w.streams, r.lost = w.lost,
           HasRead(r, w, c),
           TypedPeer(r.peer), r.peer.conn = c, r.peer.seq = f.seq, r.peer.stream = f.stream
    PROVE  Sound(r) /\ Ready(r)
<1> DEFINE o == w.conn[c].out
           b == w.bot
           p == w.peer
<1>t. /\ TypedBot(b) /\ TypedPeer(p) /\ TypedConns(w.conn)
      /\ Lined(b.queue, b.next) /\ Numbered(b, p, w.streams)
      /\ Kept(b, p, w.lost) /\ Said(w)
  BY Zenon DEF Sound
<1>1. /\ Joined(w, c) /\ Flows(o, w.conn[c].st # "dead", b, p, w.lost)
      /\ Begins(o, b, p, w.lost) /\ (p.stream = 0 => Unheard(w))
      /\ \A d \in Conns : w.conn[d].out # <<>> => Joined(w, d)
  BY Zenon DEF Sound, Told
<1>2. o \in Seq(OutItem) /\ 1 \in 1..Len(o)
  <2>1. o \in Seq(OutItem)
    BY <1>t, Zenon DEF TypedConns
  <2> QED BY <2>1
<1>3. /\ f.stream = b.stream /\ f.seq \in 1..b.next
  BY <1>1, <1>2, Zenon DEF Flows
<1>4. /\ b.stream # 0 /\ b.stream = w.streams /\ w.streams \in Nat
  BY <1>1, <1>t, GatewayAssumption, Zenon DEF Joined, Numbered
<1>n. /\ b.next \in Nat /\ b.stream \in Nat /\ p.seq \in Nat /\ p.stream \in Nat
      /\ p.stream <= w.streams
  BY <1>t, Zenon DEF TypedBot, TypedPeer, Numbered
<1>f. f.seq \in Nat /\ f.seq <= b.next
  BY <1>3, <1>n, Within, Zenon
<1>5. p.stream = b.stream => p.seq < f.seq
  BY <1>1, <1>2, Zenon DEF Flows
<1>6. Tail(o) \in Seq(OutItem) /\ Flows(Tail(o), w.conn[c].st # "dead", b, r.peer, w.lost)
  <2> HIDE DEF o, b, p
  <2>1. o # <<>> /\ r.peer.stream = b.stream /\ r.peer.seq = o[1].seq
    BY <1>3, Zenon DEF o
  <2> QED BY <1>1, <1>2, <1>t, <2>1, FlowsTail, Zenon
<1>7. Numbered(r.bot, r.peer, r.streams)
  <2>1. r.peer.stream <= r.streams /\ r.peer.seq <= r.bot.next
    <3>1. \A x \in Nat : x <= x
      OBVIOUS
    <3> QED BY <3>1, <1>3, <1>4, <1>f, Zenon
  <2> QED BY <2>1, <1>3, <1>4, <1>t, Zenon DEF Numbered
<1>8. TypedConns(r.conn)
  BY <1>6, <1>t, Zenon DEF TypedConns, HasRead
<1>9. Kept(r.bot, r.peer, r.lost)
  <2>1. ASSUME NEW n \in (f.seq + 1)..b.next
        PROVE  Holds(b.queue, n) \/ <<b.stream, n>> \in w.lost
    <3>1. CASE p.stream = b.stream
      <4>0. p.seq < f.seq
        BY <3>1, <1>5, Zenon
      <4>1. n \in (p.seq + 1)..b.next
        <5>1. \A k \in (f.seq + 1)..b.next : k \in (p.seq + 1)..b.next
          <6>1. p.seq \in Nat /\ b.next \in Nat
            BY <1>n, Zenon
          <6> HIDE DEF b, p
          <6> QED BY <4>0, <1>f, <6>1, Beyond, Zenon
        <5> QED BY <5>1, <2>1, Zenon
      <4> QED BY <4>1, <3>1, <1>4, <1>t, Zenon DEF Kept
    <3>2. CASE p.stream \notin {0, b.stream}
      <4>1. n \in 1..b.next
        BY <1>f, <1>n, <2>1, Within, Zenon
      <4> QED BY <4>1, <3>2, <1>4, <1>t, Zenon DEF Kept
    <3>3. CASE p.stream = 0
      BY <3>3, <1>1, Zenon DEF Begins
    <3> QED BY <3>1, <3>2, <3>3, Zenon
  <2> QED BY <2>1, <1>3, Zenon DEF Kept
<1>10. Said(r)
  <2> SUFFICES ASSUME NEW d \in Conns
               PROVE  /\ Len(r.conn[d].in) <= 1
                      /\ \A i \in 1..Len(r.conn[d].in) :
                             /\ Honest(r.conn[d].in[i], r.peer, r.streams)
                             /\ d = r.peer.conn => Fresh(r.conn[d].in[i], r.peer)
                             /\ d = r.bot.session => r.conn[d].in[i].op # "resume"
    BY Zenon DEF Said
  <2>1. r.conn[d].in = w.conn[d].in /\ r.bot.session = w.bot.session
    BY Zenon DEF HasRead
  <2>2. /\ Len(w.conn[d].in) <= 1
        /\ \A i \in 1..Len(w.conn[d].in) :
               /\ Honest(w.conn[d].in[i], w.peer, w.streams)
               /\ d = w.bot.session => w.conn[d].in[i].op # "resume"
    BY <1>t, Zenon DEF Said
  <2>3. d = r.peer.conn => d = w.bot.session
    BY <1>1, Zenon DEF Joined
  <2>4. \A x : x.op # "resume" => Fresh(x, r.peer)
    BY Zenon DEF Fresh
  <2>5. ASSUME NEW i \in 1..Len(w.conn[d].in)
        PROVE  Honest(w.conn[d].in[i], r.peer, r.streams)
    <3> DEFINE x == w.conn[d].in[i]
    <3>1. w.conn[d].in \in Seq(InItem)
      BY <1>t, ZenonT(60) DEF TypedConns
    <3>2. x \in InItem
      BY <3>1
    <3>3. x.stream \in Nat /\ x.seq \in Nat
      BY <3>2, Zenon DEF InItem
    <3>4. Honest(x, p, w.streams)
      BY <2>2, Zenon
    <3>5. p.stream = 0 => x.stream < b.stream
      BY <1>1, Zenon DEF Unheard
    <3> HIDE DEF x
    <3>6. x.stream <= r.streams /\ x.stream <= r.peer.stream
      BY <3>3, <3>4, <1>3, <1>4, Zenon DEF Honest
    <3>7. x.stream = b.stream => x.seq <= f.seq
      <4>1. CASE p.stream = b.stream
        BY <4>1, <3>3, <3>4, <1>5, <1>4, <1>f, <1>n, Beyond, ZenonT(60) DEF Honest
      <4>2. CASE p.stream # b.stream
        BY <4>2, <3>3, <3>4, <3>5, <1>4, <1>n DEF Honest
      <4> QED BY <4>1, <4>2, Zenon
    <3>8. Honest(x, r.peer, r.streams)
      BY <3>6, <3>7, <1>3, Zenon DEF Honest
    <3> QED BY <3>8, Zenon DEF x
  <2> QED BY <2>1, <2>2, <2>3, <2>4, <2>5, Zenon
<1>11. \A d \in Conns : Joined(r, d) <=> d = c
  BY <1>1, Zenon DEF Joined
<1>12. \A d \in Conns : r.conn[d].out # <<>> => Joined(r, d)
  BY <1>1, <1>11, ZenonT(60) DEF Joined, HasRead
<1>13. r.peer.stream # 0 /\ r.peer.stream = r.bot.stream
  BY <1>3, <1>4, Zenon
<1>14. Told(r) /\ Ready(r)
  <2>1. Flows(r.conn[c].out, r.conn[c].st # "dead", r.bot, r.peer, r.lost)
    BY <1>6, Zenon DEF Flows, HasRead
  <2> QED BY <2>1, <1>11, <1>12, <1>13, Zenon DEF Told, Ready, Begins
<1> QED BY <1>t, <1>7, <1>8, <1>9, <1>10, <1>14, Zenon DEF Sound

\* The step in which the bot receives an event: it is the next one in the stream
\* that the bot is in, or all between them are lost.
LEMMA ReceiveInOrder ==
    ASSUME SInv, Receive
    PROVE  peer'.stream = peer.stream /\ peer'.seq # peer.seq =>
               /\ peer'.seq > peer.seq
               /\ \A n \in (peer.seq + 1)..(peer'.seq - 1) : <<peer.stream, n>> \in lost
<1> DEFINE c == peer.conn
           o == conn[c].out
           f == Head(o)
<1>1. c # None /\ o # <<>> /\ peer' = [peer EXCEPT !.seq = f.seq, !.stream = f.stream,
                                           !.rid = IF f.seq = 1 THEN f.rid ELSE @]
  BY Zenon DEF Receive
<1>2. /\ TypedBot(bot) /\ TypedPeer(peer) /\ TypedConns(conn) /\ Told(World)
  BY WorldIs, Zenon DEF SInv, Sound
<1>3. c \in Conns /\ peer'.seq = f.seq /\ peer'.stream = f.stream
  BY <1>1, <1>2, Zenon DEF TypedPeer
<1>4. o \in Seq(OutItem) /\ 1 \in 1..Len(o) /\ f = o[1]
  <2>1. o \in Seq(OutItem)
    BY <1>2, <1>3, Zenon DEF TypedConns
  <2> QED BY <1>1, <2>1
<1>5. /\ Joined(World, c)
      /\ Flows(World.conn[c].out, World.conn[c].st # "dead", World.bot, World.peer, World.lost)
  BY <1>1, <1>2, <1>3, WorldIs, Zenon DEF Told
<1>6. Flows(o, conn[c].st # "dead", bot, peer, lost)
  BY <1>5, WorldIs, Zenon
<1> HIDE DEF f, o
<1>7. f.stream = bot.stream /\ f.seq \in 1..bot.next
  BY <1>4, <1>6, Zenon DEF Flows
<1>n. bot.next \in Nat /\ peer.seq \in Nat
  BY <1>2, Zenon DEF TypedBot, TypedPeer
<1>8. ASSUME peer.stream = bot.stream
      PROVE  /\ f.seq > peer.seq
             /\ \A n \in (peer.seq + 1)..(f.seq - 1) : <<bot.stream, n>> \in lost
  <2>1. peer.seq < f.seq
    BY <1>4, <1>6, <1>8, Zenon DEF Flows
  <2>2. \A n \in (peer.seq + 1)..bot.next : Holds(o, n) \/ <<bot.stream, n>> \in lost
    BY <1>1, <1>6, <1>8, Zenon DEF Flows, o
  <2>3. \A i \in 1..Len(o) : i = 1 \/ f.seq < o[i].seq
    <3>1. \A i \in 1..Len(o) : i = 1 \/ 1 < i
      OBVIOUS
    <3> QED BY <3>1, <1>4, <1>6, Zenon DEF Flows
  <2>4. \A i \in 1..Len(o) : o[i].seq \in Nat
    BY <1>6, <1>n DEF Flows
  <2>5. \A n \in (peer.seq + 1)..(f.seq - 1) :
            n \in (peer.seq + 1)..bot.next /\ n < f.seq /\ n \in Nat
    BY <1>7, <1>n
  <2>6. \A n \in Nat : n < f.seq => ~ Holds(o, n)
    BY <1>4, <1>7, <2>3, <2>4 DEF Holds
  <2>7. f.seq > peer.seq
    BY <2>1, <1>7, <1>n, Zenon
  <2> QED BY <2>2, <2>5, <2>6, <2>7, Zenon
<1> QED BY <1>3, <1>7, <1>8, Zenon

\* Receive keeps what is known of the events.
LEMMA ReceiveSound ==
    ASSUME SInv, Receive
    PROVE  Sound(World') /\ Ready(World')
<1> DEFINE c == peer.conn
           o == conn[c].out
           f == Head(o)
           w == World
           r == [World EXCEPT !.conn = conn', !.peer = peer']
<1>1. /\ c # None /\ o # <<>> /\ conn' = [conn EXCEPT ![c].out = Tail(@)]
      /\ peer' = [peer EXCEPT !.seq = f.seq, !.stream = f.stream,
                              !.rid = IF f.seq = 1 THEN f.rid ELSE @]
      /\ lost' = Relevant(lost, peer', bot) /\ bot' = bot /\ streams' = streams
  BY Zenon DEF Receive
<1>2. /\ Good(w) /\ Sound(w) /\ TypedPeer(peer) /\ TypedConns(conn)
  BY WorldIs, Zenon DEF SInv, IInv, Sound
<1>3. /\ r.conn = conn' /\ r.peer = peer' /\ r.bot = bot /\ r.streams = streams /\ r.lost = lost
  BY Zenon DEF World
<1>4. c \in Conns
  BY <1>1, <1>2, Zenon DEF TypedPeer
<1>5. o \in Seq(OutItem) /\ f = o[1] /\ f \in OutItem
  <2>1. o \in Seq(OutItem)
    BY <1>2, <1>4, ZenonT(60) DEF TypedConns
  <2>2. f = o[1] /\ 1 \in 1..Len(o)
    BY <1>1, <2>1
  <2> QED BY <2>1, <2>2
<1>6. HasRead(r, w, c)
  <2>1. DOMAIN conn = Conns /\ DOMAIN conn[c] = {"st", "identified", "in", "out"}
    BY <1>2, <1>4, WorldIs, Zenon DEF Good
  <2> DEFINE k == [conn[c] EXCEPT !.out = Tail(@)]
  <2>2. conn'[c] = k /\ \A d \in Conns : d # c => conn'[d] = conn[d]
    BY <1>1, <1>4, <2>1, Zenon
  <2>3. k.out = Tail(conn[c].out) /\ k.in = conn[c].in /\ k.st = conn[c].st
    BY <2>1, Zenon
  <2> HIDE DEF k, r
  <2> QED BY <2>2, <2>3, <1>3, WorldIs, Zenon DEF HasRead
<1>7. /\ TypedPeer(peer') /\ peer'.conn = c /\ peer'.seq = f.seq /\ peer'.stream = f.stream
  <2>1. f.seq \in Nat /\ f.stream \in Nat /\ f.rid \in Nat
    BY <1>5, Zenon DEF OutItem
  <2> HIDE DEF f
  <2>2. /\ DOMAIN peer' = DOMAIN peer /\ peer'.conn = c /\ peer'.seq = f.seq
        /\ peer'.stream = f.stream /\ (peer'.rid = f.rid \/ peer'.rid = peer.rid)
    BY <1>1, <1>2, Zenon DEF TypedPeer
  <2> QED BY <2>1, <2>2, <1>2, Zenon DEF TypedPeer
<1> HIDE DEF r, f
<1>8. Sound(r) /\ Ready(r)
  <2> HIDE DEF w
  <2>1. w.conn[c].out # <<>> /\ f = w.conn[c].out[1] /\ c = w.peer.conn
    BY <1>1, <1>5, WorldIs, Zenon DEF w
  <2>2. r.bot = w.bot /\ r.streams = w.streams /\ r.lost = w.lost
    BY <1>3, WorldIs, Zenon DEF w
  <2>3. TypedPeer(r.peer) /\ r.peer.conn = c /\ r.peer.seq = f.seq /\ r.peer.stream = f.stream
    BY <1>3, <1>7, Zenon
  <2> HIDE DEF c
  <2> QED BY <2>1, <2>2, <2>3, <1>2, <1>4, <1>6, ReceivedSound, Zenon
<1> DEFINE z == World'
<1> HIDE DEF z
<1>9. /\ z.conn = r.conn /\ z.bot = r.bot /\ z.peer = r.peer
      /\ z.streams = r.streams /\ z.lost = Relevant(r.lost, r.peer, r.bot)
  BY <1>1, <1>3, WorldIsNext, Zenon DEF z
<1>10. Sound(z) /\ Ready(z)
  BY <1>8, <1>9, RelevantSound, Zenon
<1> QED BY <1>10, Zenon DEF z

\* Settled and Silent say the same.
LEMMA SettledSilent == Settled <=> Silent(World)
BY WorldIs, Zenon DEF Settled, Silent

\* The connections after the bot has opened c and said m there.
LEMMA OpenedConns ==
    ASSUME SInv, Settled, NEW c \in Conns, NEW m,
           conn' = [Abandoned EXCEPT ![c] = [Free EXCEPT !.st = "open", !.in = <<m>>]]
    PROVE  /\ \A d \in Conns : /\ d # c => conn'[d].in = conn[d].in
                               /\ conn'[d].out = <<>>
           /\ conn'[c].in = <<m>>
<1>1. /\ DOMAIN Abandoned = Conns
      /\ \A d \in Conns : Abandoned[d].in = conn[d].in /\ Abandoned[d].out = <<>>
  <2>1. \A d \in Conns : DOMAIN conn[d] = {"st", "identified", "in", "out"}
    BY WorldIs, Zenon DEF SInv, IInv, Good
  <2> QED BY <2>1, Zenon DEF Abandoned, Settled
<1> DEFINE k == [Free EXCEPT !.st = "open", !.in = <<m>>]
<1>2. k.in = <<m>> /\ k.out = <<>>
  BY Zenon DEF Free
<1>3. conn'[c] = k /\ \A d \in Conns : d # c => conn'[d] = Abandoned[d]
  BY <1>1, Zenon
<1> HIDE DEF k
<1> QED BY <1>1, <1>2, <1>3, Zenon

\* Identify and Resume.
LEMMA OpenSteps ==
    ASSUME SInv, NEW c \in Conns, Identify(c) \/ Resume(c)
    PROVE  Sound(World') /\ Ready(World')
<1> DEFINE w == World
           r == World'
<1>1. Good(w) /\ Sound(w) /\ TypedPeer(peer)
  BY WorldIs, Zenon DEF SInv, IInv, Sound
<1>2. Silent(w) /\ w.conn[c].st = "none" /\ r.bot = w.bot /\ r.streams = w.streams
  BY SettledSilent, WorldIs, WorldIsNext, Zenon DEF Identify, Resume
<1>s. Settled
  BY Zenon DEF Identify, Resume
<1>3. ASSUME NEW m \in InItem, TypedPeer(peer'), peer'.conn = c,
             conn' = [Abandoned EXCEPT ![c] = [Free EXCEPT !.st = "open", !.in = <<m>>]],
             \/ /\ m.op = "identify" /\ m.stream = 0
                /\ peer'.seq = 0 /\ peer'.stream = 0 /\ peer'.rid = 0
             \/ /\ m.op = "resume" /\ m.seq = peer'.seq /\ m.stream = peer'.stream
                /\ m.stream # 0 /\ lost' = lost
                /\ peer'.seq = peer.seq /\ peer'.stream = peer.stream
                /\ peer'.rid = peer.rid
      PROVE  Sound(r) /\ Ready(r)
  <2>1. /\ \A d \in Conns : /\ d # c => r.conn[d].in = w.conn[d].in
                            /\ r.conn[d].out = <<>>
        /\ r.conn[c].in = <<m>>
    <3>1. /\ \A d \in Conns : /\ d # c => conn'[d].in = conn[d].in
                              /\ conn'[d].out = <<>>
          /\ conn'[c].in = <<m>>
      BY <1>3, <1>s, OpenedConns, Zenon
    <3>2. r.conn = conn' /\ w.conn = conn
      BY WorldIs, WorldIsNext, Zenon
    <3> HIDE DEF r, w
    <3> QED BY <3>1, <3>2, Zenon
  <2>2. TypedPeer(r.peer) /\ r.peer.conn = c
    BY <1>3, WorldIsNext, Zenon
  <2>3. \/ /\ m.op = "identify" /\ m.stream = 0
           /\ r.peer.seq = 0 /\ r.peer.stream = 0 /\ r.peer.rid = 0
        \/ /\ m.op = "resume" /\ m.seq = r.peer.seq /\ m.stream = r.peer.stream
           /\ m.stream # 0 /\ r.lost = w.lost
           /\ r.peer.seq = w.peer.seq /\ r.peer.stream = w.peer.stream
           /\ r.peer.rid = w.peer.rid
    BY <1>3, WorldIs, WorldIsNext, Zenon
  <2> HIDE DEF r, w
  <2> QED BY <2>1, <2>2, <2>3, <1>1, <1>2, OpensSound, ZenonT(60)
<1>4. CASE Identify(c)
  <2> DEFINE m == [op |-> "identify", seq |-> 0, rid |-> 0, stream |-> 0]
  <2>1. m \in InItem /\ m.op = "identify" /\ m.stream = 0
    BY Zenon DEF InItem
  <2>2. conn' = [Abandoned EXCEPT ![c] = [Free EXCEPT !.st = "open", !.in = <<m>>]]
    BY <1>4, Zenon DEF Identify, Says
  <2>3. TypedPeer(peer') /\ peer'.conn = c /\ peer'.seq = 0 /\ peer'.stream = 0 /\ peer'.rid = 0
    BY <1>4, Zenon DEF Identify, TypedPeer
  <2> HIDE DEF m
  <2> QED BY <2>1, <2>2, <2>3, <1>3, Zenon
<1>5. CASE Resume(c)
  <2> DEFINE m == [op |-> "resume", seq |-> peer.seq, rid |-> peer.rid, stream |-> peer.stream]
  <2>1. m \in InItem /\ m.op = "resume" /\ m.seq = peer.seq /\ m.stream = peer.stream
    BY <1>1, Zenon DEF InItem, TypedPeer
  <2>2. conn' = [Abandoned EXCEPT ![c] = [Free EXCEPT !.st = "open", !.in = <<m>>]]
    BY <1>5, Zenon DEF Resume, Says
  <2>3. /\ TypedPeer(peer') /\ peer'.conn = c /\ peer'.seq = peer.seq
        /\ peer'.stream = peer.stream /\ peer'.rid = peer.rid /\ lost' = lost
    BY <1>1, <1>5, Zenon DEF Resume, TypedPeer
  <2>4. peer.stream # 0
    BY <1>1, <1>5, WorldIs, Zenon DEF Resume, Sound, Numbered
  <2> HIDE DEF m
  <2> QED BY <2>1, <2>2, <2>3, <2>4, <1>3, Zenon
<1> QED BY <1>4, <1>5, Zenon

\* A heartbeat says what the bot has seen.
LEMMA BeatSound ==
    ASSUME SInv, Beat
    PROVE  Sound(World') /\ Ready(World')
<1> DEFINE w == World
           r == World'
           c == peer.conn
           m == [op |-> "heartbeat", seq |-> peer.seq, rid |-> 0, stream |-> peer.stream]
<1>1. Good(w) /\ Sound(w) /\ Ready(w) /\ TypedPeer(peer) /\ Silent(w)
  BY SettledSilent, WorldIs, Zenon DEF SInv, IInv, Sound, Beat
<1>2. c \in Conns /\ conn' = [conn EXCEPT ![c].in = <<m>>]
      /\ peer' = peer /\ bot' = bot /\ streams' = streams /\ lost' = lost
  BY <1>1, Zenon DEF Beat, Says, TypedPeer
<1>3. m \in InItem /\ m.op = "heartbeat" /\ m.seq = peer.seq /\ m.stream = peer.stream
  BY <1>1, Zenon DEF InItem, TypedPeer
<1> HIDE DEF m
<1>4. /\ \A d \in Conns : /\ d # c => conn'[d].in = conn[d].in
                          /\ conn'[d].out = <<>> /\ conn'[d].st = conn[d].st
      /\ conn'[c].in = <<m>>
  <2>1. DOMAIN conn = Conns /\ DOMAIN conn[c] = {"st", "identified", "in", "out"}
    BY <1>1, <1>2, WorldIs, Zenon DEF Good
  <2> DEFINE k == [conn[c] EXCEPT !.in = <<m>>]
  <2>2. conn'[c] = k /\ \A d \in Conns : d # c => conn'[d] = conn[d]
    BY <1>2, <2>1, Zenon
  <2>3. k.in = <<m>> /\ k.out = conn[c].out /\ k.st = conn[c].st
    BY <2>1, Zenon
  <2>4. \A d \in Conns : conn[d].out = <<>>
    BY <1>1, WorldIs, Zenon DEF Silent
  <2> HIDE DEF k
  <2> QED BY <2>2, <2>3, <2>4, <1>2, Zenon
<1>5. /\ r.peer = w.peer /\ r.bot = w.bot /\ r.streams = w.streams /\ r.lost = w.lost
      /\ c = w.peer.conn /\ w.peer = peer
      /\ \A d \in Conns : /\ d # c => r.conn[d].in = w.conn[d].in
                          /\ r.conn[d].out = w.conn[d].out /\ r.conn[d].st = w.conn[d].st
                          /\ r.conn[d].out = <<>>
      /\ r.conn[c].in = <<m>>
  BY <1>1, <1>2, <1>4, WorldIs, WorldIsNext, ZenonT(60) DEF Silent
<1> HIDE DEF r, w
<1>t. /\ TypedBot(w.bot) /\ TypedPeer(w.peer) /\ TypedConns(w.conn)
      /\ Lined(w.bot.queue, w.bot.next) /\ Numbered(w.bot, w.peer, w.streams)
      /\ Kept(w.bot, w.peer, w.lost) /\ Said(w) /\ Told(w)
  BY <1>1, Zenon DEF Sound
<1>6. TypedConns(r.conn)
  <2>1. <<m>> \in Seq(InItem)
    BY <1>3
  <2> QED BY <2>1, <1>5, <1>t, Zenon DEF TypedConns
<1>7. Said(r)
  <2> SUFFICES ASSUME NEW d \in Conns
               PROVE  /\ Len(r.conn[d].in) <= 1
                      /\ \A i \in 1..Len(r.conn[d].in) :
                             /\ Honest(r.conn[d].in[i], r.peer, r.streams)
                             /\ d = r.peer.conn => Fresh(r.conn[d].in[i], r.peer)
                             /\ d = r.bot.session => r.conn[d].in[i].op # "resume"
    BY Zenon DEF Said
  <2>1. CASE d = c
    <3>1. r.conn[d].in = <<m>> /\ Len(<<m>>) = 1 /\ \A i \in 1..1 : <<m>>[i] = m
      BY <2>1, <1>5
    <3>2. Honest(m, r.peer, r.streams)
      BY <1>3, <1>5, <1>t DEF Honest, Numbered, TypedPeer
    <3>3. Fresh(m, r.peer) /\ m.op # "resume"
      BY <1>3, Zenon DEF Fresh
    <3>5. Len(<<m>>) <= 1
      BY <3>1
    <3> QED BY <3>1, <3>2, <3>3, <3>5, Zenon
  <2>2. CASE d # c
    BY <1>5, <1>t, <2>2, Zenon DEF Said
  <2> QED BY <2>1, <2>2, Zenon
<1>8. \A d \in Conns : Joined(r, d) <=> Joined(w, d)
  BY <1>5, Zenon DEF Joined
<1>9. Told(r) /\ Ready(r)
  BY <1>1, <1>5, <1>8, <1>t, ZenonT(60) DEF Told, Ready, Begins
<1>10. Sound(r) /\ Ready(r)
  BY <1>5, <1>6, <1>7, <1>9, <1>t, Zenon DEF Sound
<1> QED BY <1>10, Zenon DEF r

\* Time passes: the order of the times stays.
LEMMA TickSound ==
    ASSUME SInv, Tick
    PROVE  Sound(World') /\ Ready(World')
<1> DEFINE w == World
           r == World'
           q == bot.queue
           t == [i \in DOMAIN q |-> [q[i] EXCEPT !.left = Older(@)]]
<1>1. Good(w) /\ Sound(w) /\ Ready(w) /\ Silent(w)
  BY SettledSilent, Zenon DEF SInv, IInv, Tick
<1>2. bot' = [bot EXCEPT !.queue = t, !.window = Older(@),
                         !.quiet = IF bot.session = None \/ @ > Grace THEN @ ELSE @ + 1]
  BY Zenon DEF Tick
<1>3. q \in Seq(QueueItem) /\ Lined(q, bot.next) /\ bot.next \in Nat
  BY <1>1, WorldIs, Zenon DEF Sound, TypedBot
<1>4. /\ DOMAIN q = 1..Len(q) /\ Len(q) \in Nat
      /\ \A i \in 1..Len(q) : q[i] \in QueueItem /\ q[i].seq \in Nat /\ q[i].left \in Int
  BY <1>3, ItemTypes
<1>5. \A i \in 1..Len(q) : t[i] \in QueueItem /\ t[i].seq = q[i].seq /\ t[i].left = Older(q[i].left)
  <2> SUFFICES ASSUME NEW i \in 1..Len(q)
               PROVE  t[i] \in QueueItem /\ t[i].seq = q[i].seq /\ t[i].left = Older(q[i].left)
    BY Zenon
  <2>1. t[i] = [q[i] EXCEPT !.left = Older(@)]
    BY <1>4, Zenon
  <2>2. Older(q[i].left) \in Int
    BY <1>4 DEF Older
  <2> HIDE DEF t, q
  <2> QED BY <2>1, <2>2, <1>4, Zenon DEF QueueItem
<1>6. t \in Seq(QueueItem) /\ Len(t) = Len(q)
  <2>1. DOMAIN t = 1..Len(q) /\ t = [i \in 1..Len(q) |-> t[i]]
    BY <1>4, Zenon
  <2> HIDE DEF t, q
  <2> QED BY <2>1, <1>4, <1>5
<1> HIDE DEF t
<1>7. Lined(t, bot.next)
  <2>1. \A x, y \in Int : x <= y => Older(x) <= Older(y)
    BY DEF Older
  <2>2. \A x \in Int : x <= TTL => Older(x) <= TTL
    BY GatewayAssumption DEF Older
  <2> HIDE DEF q
  <2>3. \A i \in 1..Len(t) : t[i].seq \in 1..bot.next /\ t[i].left <= TTL
    BY <1>3, <1>4, <1>5, <1>6, <2>2, Zenon DEF Lined
  <2>4. \A i, j \in 1..Len(t) : i < j => t[i].seq < t[j].seq /\ t[i].left <= t[j].left
    BY <1>3, <1>4, <1>5, <1>6, <2>1, Zenon DEF Lined
  <2>5. ASSUME NEW m \in Int PROVE \E k \in 0..Len(t) : BySeq(t, m, k)
    <3>1. PICK k \in 0..Len(q) : BySeq(q, m, k)
      BY <1>3, Zenon DEF Lined, Parted
    <3>2. (\A i \in 1..k : i \in 1..Len(q)) /\ (k < Len(q) => k + 1 \in 1..Len(q))
      BY <1>4
    <3> QED BY <1>5, <1>6, <3>1, <3>2, Zenon DEF BySeq
  <2>6. ASSUME NEW m \in Int PROVE \E k \in 0..Len(t) : ByTime(t, m, k)
    <3>1. PICK b \in Int : \A x \in Int : (Older(x) < m <=> x < b) /\ (x >= b => Older(x) >= m)
      <4>1. CASE m >= 0
        <5>1. m + 1 \in Int /\ \A x \in Int : (Older(x) < m <=> x < m + 1)
                                           /\ (x >= m + 1 => Older(x) >= m)
          BY <4>1 DEF Older
        <5> QED BY <5>1, Zenon
      <4>2. CASE m < 0
        <5>1. \A x \in Int : (Older(x) < m <=> x < m) /\ (x >= m => Older(x) >= m)
          BY <4>2 DEF Older
        <5> QED BY <5>1, Zenon
      <4> QED BY <4>1, <4>2
    <3>2. PICK k \in 0..Len(q) : ByTime(q, b, k)
      BY <1>3, Zenon DEF Lined, Parted
    <3>3. (\A i \in 1..k : i \in 1..Len(q)) /\ (k < Len(q) => k + 1 \in 1..Len(q))
      BY <1>4
    <3> QED BY <1>4, <1>5, <1>6, <3>1, <3>2, <3>3, Zenon DEF ByTime
  <2> QED BY <2>3, <2>4, <2>5, <2>6, Zenon DEF Lined, Parted
<1>8. \A n : Holds(q, n) => Holds(t, n)
  <2> HIDE DEF q
  <2> QED BY <1>5, <1>6, Zenon DEF Holds
<1>9. /\ DOMAIN bot' = DOMAIN bot /\ bot'.session = bot.session /\ bot'.away = bot.away
      /\ bot'.queue = t /\ bot'.next = bot.next /\ bot'.stream = bot.stream /\ bot'.rid = bot.rid
  BY <1>1, <1>2, WorldIs, Zenon DEF Good
<1>10. Alike(r, w) /\ r.peer = w.peer /\ r.streams = w.streams /\ r.lost = w.lost
  <2>1. conn' = conn /\ last' = last /\ peer' = peer /\ streams' = streams /\ lost' = lost
    BY Zenon DEF Tick
  <2> QED BY <2>1, <1>9, Zenon DEF World, Alike
<1>11. w.bot = bot /\ r.bot = bot'
  BY WorldIs, WorldIsNext, Zenon
<1> HIDE DEF r, w
<1>12. Dropping(r, w)
  BY <1>6, <1>7, <1>8, <1>9, <1>10, <1>11, Zenon DEF Dropping
<1>13. Sound(r) /\ Ready(r)
  BY <1>1, <1>12, DroppingSound, DroppingReady, Zenon
<1> QED BY <1>13, Zenon DEF r

\* What the gateway does is no step of the bot.
SamePeer(r, w) == "peer" \in DOMAIN r /\ r.peer = w.peer

\* Closing, writing and detaching.
LEMMA SmallPeer ==
    ASSUME NEW w, "peer" \in DOMAIN w, NEW c, NEW f
    PROVE  /\ SamePeer(pb_close_ws(w, c), w) /\ SamePeer(Write(w, c, f), w)
           /\ SamePeer(Attach(w, c), w) /\ SamePeer(Gone(w, c), w)
           /\ SamePeer(pb_queue_ack(w, f), w) /\ SamePeer(pb_queue_expire(w), w)
<1>1. SamePeer(pb_close_ws(w, c), w)
  BY Zenon DEF SamePeer, pb_close_ws
<1>2. SamePeer(Write(w, c, f), w)
  BY Zenon DEF SamePeer, Write
<1>3. SamePeer(Attach(w, c), w)
  BY Zenon DEF SamePeer, Attach
<1>4. SamePeer(Gone(w, c), w)
  <2>1. SamePeer(pb_session_free(w, c), w)
    BY Zenon DEF SamePeer, pb_session_free
  <2> QED BY <2>1, Zenon DEF SamePeer, Gone
<1>5. SamePeer(pb_queue_ack(w, f), w)
  BY Zenon DEF SamePeer, pb_queue_ack
<1>6. SamePeer(pb_queue_expire(w), w)
  BY Zenon DEF SamePeer, pb_queue_expire
<1> QED BY <1>1, <1>2, <1>3, <1>4, <1>5, <1>6, Zenon

\* pb_dispatch_event()
LEMMA DispatchPeer ==
    ASSUME NEW w, "peer" \in DOMAIN w
    PROVE  SamePeer(pb_dispatch_event(w), w)
<1> DEFINE n == w.bot.next + 1
           x == [w EXCEPT !.bot.next = n]
           v == pb_queue_push(x, n)
           c == v.bot.session
           f == <<Frame(v.bot, n)>>
<1>1. pb_dispatch_event(w) = IF c = None \/ ~v.conn[c].identified THEN v ELSE Write(v, c, f)
  BY Zenon DEF pb_dispatch_event
<1>2. "peer" \in DOMAIN x /\ x.peer = w.peer
  BY Zenon
<1>3. SamePeer(v, x)
  <2> HIDE DEF x, n
  <2> DEFINE l == [x EXCEPT !.lost = @ \cup Unseen(x, {n})]
             a == [x EXCEPT !.bot.queue = Append(@, [seq |-> n, left |-> TTL])]
  <2>1. v = a \/ v = l \/ v = pb_close_ws(l, x.bot.session)
    BY Zenon DEF pb_queue_push
  <2>2. "peer" \in DOMAIN l /\ l.peer = x.peer /\ "peer" \in DOMAIN a /\ a.peer = x.peer
    BY <1>2, Zenon
  <2> HIDE DEF l, a
  <2>3. SamePeer(pb_close_ws(l, x.bot.session), l)
    BY <2>2, SmallPeer, Zenon
  <2> HIDE DEF v
  <2> QED BY <2>1, <2>2, <2>3, Zenon DEF SamePeer
<1> HIDE DEF v, x, f, c
<1>d. "peer" \in DOMAIN v
  BY <1>3, Zenon DEF SamePeer
<1>4. SamePeer(Write(v, c, f), v)
  BY <1>d, SmallPeer, Zenon
<1> QED BY <1>1, <1>2, <1>3, <1>4, Zenon DEF SamePeer

\* pb_handle_identify(), pb_handle_resume() and pb_handle_heartbeat()
LEMMA HandlePeer ==
    ASSUME NEW w, "peer" \in DOMAIN w, NEW c, NEW msg
    PROVE  /\ SamePeer(pb_handle_identify(w, c), w)
           /\ SamePeer(pb_handle_resume(w, c, msg), w)
           /\ SamePeer(pb_handle_heartbeat(w, c, msg), w)
<1>1. SamePeer(pb_handle_identify(w, c), w)
  <2> DEFINE old == w.bot.session
             v == IF old \in {None, c} THEN w ELSE pb_close_ws(w, old)
             n == w.streams + 1
             a == Attach(v, c)
             u == [a EXCEPT !.bot.queue = <<>>, !.bot.next = 0,
                            !.bot.stream = n, !.streams = n,
                            !.bot.rid = IF w.minted THEN @ ELSE n,
                            !.minted = TRUE, !.bot.away = FALSE]
  <2>1. pb_handle_identify(w, c) = pb_dispatch_event(u)
    BY Zenon DEF pb_handle_identify
  <2>2. SamePeer(pb_close_ws(w, old), w)
    BY SmallPeer, Zenon
  <2>3. SamePeer(v, w)
    BY <2>2, Zenon DEF SamePeer
  <2> HIDE DEF v
  <2>4. SamePeer(a, v)
    BY <2>3, SmallPeer, Zenon DEF SamePeer
  <2> HIDE DEF a, n
  <2>5. SamePeer(u, a)
    BY <2>4, Zenon DEF SamePeer
  <2> HIDE DEF u
  <2>6. SamePeer(pb_dispatch_event(u), u)
    BY <2>5, DispatchPeer, Zenon DEF SamePeer
  <2> QED BY <2>1, <2>3, <2>4, <2>5, <2>6, Zenon DEF SamePeer
<1>2. SamePeer(pb_handle_resume(w, c, msg), w)
  <2> DEFINE v == pb_queue_expire(w)
             a == pb_queue_ack(v, msg)
             u == Attach(a, c)
             replay == [i \in DOMAIN u.bot.queue |-> Frame(u.bot, u.bot.queue[i].seq)]
             x == Write(u, c, replay)
             r == pb_handle_resume(w, c, msg)
  <2>1. r = pb_close_ws(w, c) \/ r = pb_close_ws(v, c) \/ r = pb_dispatch_event(x)
    BY Zenon DEF pb_handle_resume
  <2>2. SamePeer(pb_close_ws(w, c), w) /\ SamePeer(v, w)
    BY SmallPeer, Zenon
  <2> HIDE DEF r, v
  <2>3. SamePeer(pb_close_ws(v, c), v) /\ SamePeer(a, v)
    BY <2>2, SmallPeer, Zenon DEF SamePeer
  <2> HIDE DEF a
  <2>4. SamePeer(u, a)
    BY <2>3, SmallPeer, Zenon DEF SamePeer
  <2> HIDE DEF u, replay
  <2>5. SamePeer(x, u)
    BY <2>4, SmallPeer DEF SamePeer
  <2> HIDE DEF x
  <2>6. SamePeer(pb_dispatch_event(x), x)
    BY <2>5, DispatchPeer DEF SamePeer
  <2>7. SamePeer(r, w)
    BY <2>1, <2>2, <2>3, <2>4, <2>5, <2>6, Zenon DEF SamePeer
  <2> QED BY <2>7, Zenon DEF r
<1>3. SamePeer(pb_handle_heartbeat(w, c, msg), w)
  <2>1. SamePeer(pb_queue_ack(w, msg), w)
    BY SmallPeer, Zenon
  <2> QED BY <2>1, Zenon DEF SamePeer, pb_handle_heartbeat
<1> QED BY <1>1, <1>2, <1>3, Zenon

\* pb_heartbeat_check()
LEMMA CheckPeer ==
    ASSUME NEW w, "peer" \in DOMAIN w
    PROVE  SamePeer(Forget(HeartbeatTimeout(w)), w)
<1> DEFINE x == HeartbeatTimeout(w)
           v == pb_queue_expire(x)
           z == [v EXCEPT !.bot.rid = 0, !.bot.stream = 0, !.bot.next = 0,
                          !.bot.window = NoWindow]
<1>1. x = w \/ x = pb_close_ws(w, w.bot.session)
  BY Zenon DEF HeartbeatTimeout
<1>2. SamePeer(x, w)
  BY <1>1, SmallPeer DEF SamePeer
<1> HIDE DEF x
<1>3. SamePeer(v, x)
  BY <1>2, SmallPeer, Zenon DEF SamePeer
<1>4. Forget(x) = x \/ Forget(x) = v \/ Forget(x) = z
  BY Zenon DEF Forget
<1> HIDE DEF v
<1>5. SamePeer(z, v)
  BY <1>3, Zenon DEF SamePeer
<1> HIDE DEF z
<1>6. SamePeer(Forget(x), w)
  BY <1>2, <1>3, <1>4, <1>5, Zenon DEF SamePeer
<1> QED BY <1>6, Zenon DEF x

\* A message at a time.
LEMMA OnlyOne ==
    ASSUME NEW q \in Seq(InItem), Len(q) <= 1, q # <<>>
    PROVE  Tail(q) = <<>> /\ Head(q) = q[1] /\ q[1] \in InItem /\ 1 \in 1..Len(q)
<1>1. Len(q) = 1
  <2>1. Len(q) \in Nat /\ (Len(q) = 0 => q = <<>>)
    OBVIOUS
  <2>2. \A n \in Nat : n # 0 /\ n <= 1 => n = 1
    OBVIOUS
  <2> QED BY <2>1, <2>2, Zenon
<1>2. Tail(q) \in Seq(InItem) /\ Len(Tail(q)) = 0
  BY <1>1
<1>3. Tail(q) = <<>>
  BY <1>2
<1>4. 1 \in 1..Len(q) /\ Head(q) = q[1] /\ q[1] \in InItem
  BY <1>1
<1> QED BY <1>3, <1>4, Zenon

\* The state as pb_handle_ws_message() finds it: the message has been taken.
LEMMA TakenSound ==
    ASSUME SInv, Settled, NEW c \in Conns, conn[c].in # <<>>, conn[c].st = "open",
           NEW w, w = [World EXCEPT !.conn[c].in = Tail(@)], NEW msg, msg = Head(conn[c].in)
    PROVE  /\ Good(w) /\ Sound(w) /\ Silent(w) /\ Ready(w) /\ SamePeer(w, World)
           /\ w.conn[c].in = <<>> /\ w.conn[c].st = "open"
           /\ msg \in InItem /\ Honest(msg, w.peer, w.streams)
           /\ c = w.peer.conn => Fresh(msg, w.peer)
<1> DEFINE q == conn[c].in
           v == World
<1>1. Good(v) /\ Sound(v) /\ Ready(v) /\ Silent(v) /\ v.conn = conn
  BY SettledSilent, WorldIs, Zenon DEF SInv, IInv
<1>2. q \in Seq(InItem) /\ Len(q) <= 1
  BY <1>1, Zenon DEF Sound, TypedConns, Said
<1>3. q # <<>>
  BY Zenon
<1>4. /\ Tail(q) = <<>> /\ msg = q[1] /\ msg \in InItem /\ 1 \in 1..Len(q)
  <2>1. msg = Head(q)
    BY Zenon DEF q
  <2> HIDE DEF q
  <2> QED BY <1>2, <1>3, <2>1, OnlyOne, Zenon
<1>5. Honest(msg, v.peer, v.streams) /\ (c = v.peer.conn => Fresh(msg, v.peer))
  BY <1>1, <1>4, Zenon DEF Sound, Said
<1> HIDE DEF v, q
<1>6. /\ DOMAIN w = DOMAIN v /\ w.bot = v.bot /\ w.peer = v.peer /\ w.streams = v.streams
      /\ w.last = v.last /\ w.lost = v.lost
      /\ w.conn = [v.conn EXCEPT ![c] = [v.conn[c] EXCEPT !.in = <<>>]]
  <2>1. w = [v EXCEPT !.conn[c].in = Tail(@)] /\ Tail(v.conn[c].in) = <<>>
    BY <1>1, <1>4, Zenon DEF v, q
  <2> QED BY <2>1, <1>1, ZenonT(60) DEF Good
<1>7. /\ DOMAIN w.conn = Conns
      /\ \A d \in Conns : /\ DOMAIN w.conn[d] = {"st", "identified", "in", "out"}
                          /\ w.conn[d].st = v.conn[d].st
                          /\ w.conn[d].identified = v.conn[d].identified
                          /\ w.conn[d].out = v.conn[d].out
                          /\ w.conn[d].in = IF d = c THEN <<>> ELSE v.conn[d].in
  <2>1. /\ DOMAIN v.conn = Conns
        /\ \A d \in Conns : DOMAIN v.conn[d] = {"st", "identified", "in", "out"}
    BY <1>1, Zenon DEF Good
  <2> DEFINE k == [v.conn[c] EXCEPT !.in = <<>>]
  <2>2. /\ DOMAIN w.conn = Conns /\ w.conn[c] = k
        /\ \A d \in Conns : d # c => w.conn[d] = v.conn[d]
    BY <1>6, <2>1, ZenonT(60)
  <2>3. /\ DOMAIN k = {"st", "identified", "in", "out"} /\ k.st = v.conn[c].st
        /\ k.identified = v.conn[c].identified /\ k.out = v.conn[c].out /\ k.in = <<>>
    BY <2>1, Zenon
  <2> HIDE DEF k
  <2>4. /\ DOMAIN w.conn[c] = {"st", "identified", "in", "out"} /\ w.conn[c].st = v.conn[c].st
        /\ w.conn[c].identified = v.conn[c].identified /\ w.conn[c].out = v.conn[c].out
        /\ w.conn[c].in = <<>>
    BY <2>2, <2>3, Zenon
  <2>5. ASSUME NEW d \in Conns
        PROVE  /\ DOMAIN w.conn[d] = {"st", "identified", "in", "out"}
               /\ w.conn[d].st = v.conn[d].st
               /\ w.conn[d].identified = v.conn[d].identified
               /\ w.conn[d].out = v.conn[d].out
               /\ w.conn[d].in = IF d = c THEN <<>> ELSE v.conn[d].in
    <3>1. CASE d = c
      BY <2>4, <3>1, Zenon
    <3>2. CASE d # c
      <4>1. w.conn[d] = v.conn[d] /\ DOMAIN v.conn[d] = {"st", "identified", "in", "out"}
        BY <2>1, <2>2, <3>2, Zenon
      <4> QED BY <3>2, <4>1
    <3> QED BY <3>1, <3>2, Zenon
  <2> QED BY <2>2, <2>5, Zenon
<1>8. Good(w)
  <2>1. v.last = None \/ v.last \in Conns
    BY <1>1, Zenon DEF Good
  <2> QED BY <1>1, <1>6, <1>7, <2>1 DEF Good
<1>9. Fewer(w, v)
  <2>1. TypedPeer(v.peer)
    BY <1>1, Zenon DEF Sound
  <2>2. \A d \in Conns : w.conn[d].out = <<>> /\ v.conn[d].out = <<>>
    BY <1>1, <1>7, ZenonT(60) DEF Silent
  <2>3. \A d \in Conns : Joined(w, d) => Joined(v, d)
    BY <1>6, Zenon DEF Joined
  <2>4. \A d \in Conns : w.conn[d].in = v.conn[d].in \/ w.conn[d].in = <<>>
    BY <1>7, ZenonT(60)
  <2>5. \A d \in Conns : w.conn[d].st = v.conn[d].st
    BY <1>7, Zenon
  <2> QED BY <1>6, <2>1, <2>2, <2>3, <2>4, <2>5, ZenonT(60) DEF Fewer
<1>10. Sound(w) /\ Silent(w) /\ Ready(w)
  BY <1>1, <1>9, FewerSound, Zenon
<1>11. SamePeer(w, World)
  BY <1>1, <1>6, Zenon DEF SamePeer, Good, v
<1>12. w.conn[c].in = <<>> /\ w.conn[c].st = "open"
  BY <1>1, <1>7, Zenon
<1> QED BY <1>4, <1>5, <1>6, <1>8, <1>10, <1>11, <1>12, Zenon

\* A step of the gateway keeps the invariant, and the bot sees nothing yet.
Unseeing == peer'.seq = peer.seq /\ peer'.stream = peer.stream

\* The gateway's steps that are made of an operation.
LEMMA BecomeUnseeing ==
    ASSUME NEW w, Sound(w), Ready(w), SamePeer(w, World), Become(w)
    PROVE  Sound(World') /\ Ready(World') /\ Unseeing
<1>1. Sound(World') /\ Ready(World')
  BY BecomeSound, Zenon
<1>2. peer' = peer
  BY WorldIs, Zenon DEF Become, SamePeer
<1> QED BY <1>1, <1>2, Zenon DEF Unseeing

\* Message
LEMMA MessageSound ==
    ASSUME SInv, NEW c \in Conns, Message(c)
    PROVE  Sound(World') /\ Ready(World') /\ Unseeing
<1> DEFINE msg == Head(conn[c].in)
           w == [World EXCEPT !.conn[c].in = Tail(@)]
           i == pb_handle_identify(w, c)
           s == pb_handle_resume(w, c, msg)
           h == pb_handle_heartbeat(w, c, msg)
<1>1. /\ Settled /\ conn[c].st = "open" /\ conn[c].in # <<>>
      /\ \/ Become(i) \/ (msg.op = "resume" /\ Become(s)) \/ Become(h)
  BY Zenon DEF Message
<1>2. /\ Good(w) /\ Sound(w) /\ Silent(w) /\ Ready(w) /\ SamePeer(w, World)
      /\ w.conn[c].in = <<>> /\ w.conn[c].st = "open"
      /\ msg \in InItem /\ Honest(msg, w.peer, w.streams)
      /\ c = w.peer.conn => Fresh(msg, w.peer)
  BY <1>1, TakenSound, Zenon
<1> HIDE DEF w, msg
<1>3. SamePeer(i, w) /\ SamePeer(s, w) /\ SamePeer(h, w)
  <2>1. "peer" \in DOMAIN w
    BY <1>2, Zenon DEF SamePeer
  <2> QED BY <2>1, HandlePeer, Zenon
<1> HIDE DEF i, s, h
<1>4. w.conn[c].st # "none" /\ w.conn[c].st # "dead"
  BY <1>2, Zenon
<1>5. Sound(i) /\ Ready(i)
  BY <1>2, <1>4, IdentifySound, Zenon DEF i
<1>6. msg.op = "resume" => Sound(s) /\ Ready(s)
  BY <1>2, <1>4, ResumeSound, Zenon DEF s
<1>7. Sound(h) /\ Ready(h)
  BY <1>2, HeartbeatSound, Zenon DEF h
<1>8. SamePeer(i, World) /\ SamePeer(s, World) /\ SamePeer(h, World)
  BY <1>2, <1>3, Zenon DEF SamePeer
<1> QED BY <1>1, <1>5, <1>6, <1>7, <1>8, BecomeUnseeing, Zenon

\* Reap and Eof
LEMMA EndSound ==
    ASSUME SInv, NEW c \in Conns, Reap(c) \/ Eof(c)
    PROVE  Sound(World') /\ Ready(World') /\ Unseeing
<1> DEFINE w == World
           g == Gone(w, c)
           z == [g EXCEPT !.peer.conn = IF @ = c THEN None ELSE @]
           k == pb_close_ws(w, c)
<1>1. Good(w) /\ Sound(w) /\ Silent(w) /\ Ready(w) /\ "peer" \in DOMAIN w
  BY SettledSilent, Zenon DEF SInv, IInv, Reap, Eof, Good
<1>2. Become(z) \/ (w.peer.conn # c /\ Become(g)) \/ Become(k)
  BY WorldIs, Zenon DEF Reap, Eof
<1>3. SamePeer(g, w) /\ SamePeer(k, w)
  BY <1>1, SmallPeer, Zenon
<1> HIDE DEF w
<1>4. Sound(z) /\ Ready(z)
  BY <1>1, GoneSound, Zenon
<1>5. w.peer.conn # c => Sound(g) /\ Ready(g)
  BY <1>1, GoneSound, Zenon
<1>6. Sound(k) /\ Ready(k)
  <2>1. Fewer(k, w)
    BY <1>1, CloseFewer, Zenon
  <2> QED BY <1>1, <2>1, FewerSound, Zenon
<1>7. z.peer.seq = w.peer.seq /\ z.peer.stream = w.peer.stream
  <2>1. "seq" \in DOMAIN w.peer /\ "stream" \in DOMAIN w.peer
    BY <1>1, Zenon DEF Sound, TypedPeer
  <2> HIDE DEF g
  <2> QED BY <1>3, <2>1, Zenon DEF SamePeer
<1> HIDE DEF g, k, z
<1>8. CASE Become(z)
  <2>1. Sound(World') /\ Ready(World')
    BY <1>4, <1>8, BecomeSound, Zenon
  <2>2. peer' = z.peer /\ w.peer = peer
    BY <1>8, WorldIs, Zenon DEF Become, w
  <2> QED BY <1>7, <2>1, <2>2, Zenon DEF Unseeing
<1>9. SamePeer(g, World) /\ SamePeer(k, World)
  BY <1>3, Zenon DEF w
<1> QED BY <1>2, <1>5, <1>6, <1>8, <1>9, BecomeUnseeing, Zenon

\* Event and HeartbeatCheck
LEMMA TimerSound ==
    ASSUME SInv, Event \/ HeartbeatCheck
    PROVE  Sound(World') /\ Ready(World') /\ Unseeing
<1> DEFINE w == World
           e == pb_dispatch_event(w)
           h == Forget(HeartbeatTimeout(w))
<1>1. Good(w) /\ Sound(w) /\ Silent(w) /\ Ready(w) /\ "peer" \in DOMAIN w
  BY SettledSilent, Zenon DEF SInv, IInv, Event, HeartbeatCheck, Good
<1>2. Become(e) \/ Become(h)
  BY Zenon DEF Event, HeartbeatCheck
<1>3. SamePeer(e, w) /\ SamePeer(h, w)
  BY <1>1, DispatchPeer, CheckPeer, Zenon
<1> HIDE DEF w
<1>4. Able(w)
  <2>1. \A c \in Conns : w.conn[c].out = <<>>
    BY <1>1, Zenon DEF Silent
  <2>2. w.bot.session # None => w.bot.stream # 0
    BY <1>1, Zenon DEF Sound, Numbered
  <2>3. None \notin Conns
    BY GatewayAssumption, Zenon
  <2>4. \A c \in Conns : Joined(w, c) => w.bot.stream # 0
    BY <2>2, <2>3, Zenon DEF Joined
  <2>5. \A c \in Conns : Joined(w, c) /\ w.conn[c].st # "dead" => w.peer.stream = w.bot.stream
    BY <1>1, <2>1, Zenon DEF Ready
  <2> QED BY <2>1, <2>4, <2>5, Zenon DEF Able
<1>5. Sound(e) /\ Ready(e)
  BY <1>1, <1>4, DispatchSound, Zenon
<1>6. Sound(h) /\ Ready(h)
  BY <1>1, CheckSound, Zenon
<1> HIDE DEF e, h
<1>7. SamePeer(e, World) /\ SamePeer(h, World)
  BY <1>3, Zenon DEF w
<1> QED BY <1>2, <1>5, <1>6, <1>7, BecomeUnseeing, Zenon

\* Nothing has begun.
LEMMA InitSInv == Init => SInv
<1> SUFFICES ASSUME Init PROVE SInv
  BY Zenon
<1> DEFINE w == World
<1>1. IInv
  BY InitIInv, Zenon
<1>2. /\ w.bot.queue = <<>> /\ w.bot.next = 0 /\ w.bot.stream = 0 /\ w.bot.rid = 0
      /\ w.bot.session = None /\ w.streams = 0 /\ w.lost = {}
      /\ DOMAIN w.peer = {"conn", "rid", "seq", "stream"}
      /\ w.peer.conn = None /\ w.peer.rid = 0 /\ w.peer.seq = 0 /\ w.peer.stream = 0
  BY Zenon DEF World, Init
<1>3. \A c \in Conns : w.conn[c].in = <<>> /\ w.conn[c].out = <<>>
  BY Zenon DEF World, Init, Free
<1> HIDE DEF w
<1>4. TypedBot(w.bot) /\ TypedPeer(w.peer) /\ TypedConns(w.conn) /\ Lined(w.bot.queue, w.bot.next)
  <2>1. TypedBot(w.bot)
    BY <1>2 DEF TypedBot
  <2>2. TypedPeer(w.peer)
    BY <1>2 DEF TypedPeer
  <2>3. TypedConns(w.conn)
    <3>1. <<>> \in Seq(InItem) /\ <<>> \in Seq(OutItem)
      OBVIOUS
    <3> QED BY <1>3, <3>1, Zenon DEF TypedConns
  <2>4. Lined(w.bot.queue, w.bot.next)
    BY <1>2, LinedNone, Zenon
  <2> QED BY <2>1, <2>2, <2>3, <2>4, Zenon
<1>5. Numbered(w.bot, w.peer, w.streams) /\ Kept(w.bot, w.peer, w.lost)
  BY <1>2 DEF Numbered, Kept
<1>6. Said(w)
  <2>1. Len(<<>>) <= 1 /\ 1..Len(<<>>) = {}
    OBVIOUS
  <2> QED BY <1>3, <2>1, Zenon DEF Said
<1>7. \A c \in Conns : ~Joined(w, c)
  <2>1. None \notin Conns
    BY GatewayAssumption, Zenon
  <2> QED BY <1>2, <2>1, Zenon DEF Joined
<1>8. Told(w) /\ Ready(w)
  BY <1>3, <1>7, Zenon DEF Told, Ready
<1>9. Sound(w) /\ Ready(w)
  BY <1>4, <1>5, <1>6, <1>8, Zenon DEF Sound
<1> QED BY <1>1, <1>9, Zenon DEF SInv, w

\* What the bot does not see it does not see in the wrong order.
InOrder ==
    peer'.stream = peer.stream /\ peer'.seq # peer.seq =>
        /\ peer'.seq > peer.seq
        /\ \A n \in (peer.seq + 1)..(peer'.seq - 1) : <<peer.stream, n>> \in lost

\* Every step keeps the invariant, and shows the bot events in their order.
LEMMA NextSInv == SInv /\ [Next]_vars => SInv' /\ InOrder
<1> SUFFICES ASSUME SInv, [Next]_vars PROVE SInv' /\ InOrder
  BY Zenon
<1>1. IInv'
  BY NextIInv, Zenon DEF SInv
<1>2. Unseeing => InOrder
  BY Zenon DEF Unseeing, InOrder
<1>3. SUFFICES Sound(World') /\ Ready(World') /\ InOrder
  BY <1>1, Zenon DEF SInv
<1>4. ASSUME NEW c \in Conns, Identify(c) PROVE Sound(World') /\ Ready(World') /\ InOrder
  <2>1. Sound(World') /\ Ready(World')
    BY <1>4, OpenSteps, Zenon
  <2>2. peer.stream = 0 => peer.seq = 0
    BY WorldIs, Zenon DEF SInv, Sound, Numbered
  <2>3. peer'.stream = 0 /\ peer'.seq = 0
    BY <1>4, Zenon DEF Identify
  <2> QED BY <2>1, <2>2, <2>3, Zenon DEF InOrder
<1>5. ASSUME NEW c \in Conns, Resume(c) PROVE Sound(World') /\ Ready(World') /\ InOrder
  <2>1. Sound(World') /\ Ready(World')
    BY <1>5, OpenSteps, Zenon
  <2>2. DOMAIN peer = {"conn", "rid", "seq", "stream"}
    BY WorldIs, Zenon DEF SInv, Sound, TypedPeer
  <2>3. Unseeing
    BY <1>5, <2>2, Zenon DEF Resume, Unseeing
  <2> QED BY <1>2, <2>1, <2>3, Zenon
<1>6. ASSUME NEW c \in Conns, Message(c) PROVE Sound(World') /\ Ready(World') /\ InOrder
  BY <1>2, <1>6, MessageSound, Zenon
<1>7. ASSUME NEW c \in Conns, Reap(c) \/ Eof(c) PROVE Sound(World') /\ Ready(World') /\ InOrder
  BY <1>2, <1>7, EndSound, Zenon
<1>8. CASE Beat
  BY <1>2, <1>8, BeatSound, Zenon DEF Beat, Unseeing
<1>9. CASE Receive
  BY <1>9, ReceiveSound, ReceiveInOrder, Zenon DEF InOrder
<1>10. CASE Leave
  <2>1. Sound(World') /\ Ready(World')
    BY <1>10, LeaveSound, Zenon
  <2>2. DOMAIN peer = {"conn", "rid", "seq", "stream"}
    BY WorldIs, Zenon DEF SInv, Sound, TypedPeer
  <2>3. Unseeing
    BY <1>10, <2>2, Zenon DEF Leave, Unseeing
  <2> QED BY <1>2, <2>1, <2>3, Zenon
<1>11. CASE Event \/ HeartbeatCheck
  BY <1>2, <1>11, TimerSound, Zenon
<1>12. CASE Tick
  BY <1>2, <1>12, TickSound, Zenon DEF Tick, Unseeing
<1>13. CASE UNCHANGED vars
  <2>1. World' = World /\ Unseeing
    BY <1>13, Zenon DEF vars, World, Unseeing
  <2>2. Sound(World) /\ Ready(World)
    BY Zenon DEF SInv
  <2> QED BY <1>2, <2>1, <2>2, Zenon
<1> QED BY <1>4, <1>5, <1>6, <1>7, <1>8, <1>9, <1>10, <1>11, <1>12, <1>13, ZenonT(60) DEF Next

\* However often the bot loses its connection, it sees the events of a stream in
\* order and each once, and passes over none that the gateway did not lose.
THEOREM EventsStayInOrder == Spec => StreamInOrder
<1>1. SInv /\ [Next]_vars => [InOrder]_vars
  BY NextSInv, Zenon
<1>2. SInv /\ [Next]_vars => SInv'
  BY NextSInv, Zenon
<1> QED BY InitSInv, <1>1, <1>2, PTL DEF Spec, StreamInOrder, InOrder
=============================================================================
