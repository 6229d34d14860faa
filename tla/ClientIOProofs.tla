--------------------------- MODULE ClientIOProofs ---------------------------
(***************************************************************************)
(* For every limit and every mix of connections: a live connection is      *)
(* never deaf or mute, none spins, and a closed one is left alone.         *)
(*                                                                         *)
(* The inductive invariant adds to the properties that a client is dead    *)
(* exactly if its descriptor is closed, that such a client is on none of   *)
(* the lists the timers walk over, and that the loops over reads and       *)
(* frames only run on an open one.                                         *)
(***************************************************************************)
EXTENDS ClientIO, TLAPS

Hears(w) ==
    w.open /\ ~w.deadsock =>
        \/ w.rd = "read" \/ w.wr = "read"
        \/ (w.rd = "send" \/ w.wr = "send") /\ w.sendQ > 0

Speaks(w) ==
    w.open /\ ~w.deadsock /\ w.sendQ > 0 =>
        w.rd = "send" \/ w.wr = "send" \/ w.wr = "read"

Rests(w) == w.rd = "send" \/ w.wr = "send" => w.sendQ > 0

Closed(w) ==
    /\ ~w.open /\ w.dead /\ w.deadsock
    /\ w.rd = "none" /\ w.wr = "none"
    /\ w.recvQ = 0 /\ w.part = 0 /\ w.sendQ = 0
    /\ w.list \in {"none", "dead"}

Good(w) ==
    /\ w \in ClientType
    /\ Hears(w) /\ Speaks(w) /\ Rests(w)
    /\ w.open => ~w.dead
    /\ ~w.open => Closed(w)

Inv ==
    /\ Good(c)
    /\ pc \in {"idle", "recv", "frames", "parse", "line", "ret0", "ret1"}
    /\ caller \in {"read", "ws", "process"}
    /\ full \in BOOLEAN
    /\ pc \in {"recv", "frames", "ret1"} => c.open

-----------------------------------------------------------------------------
(* The operators on clients *)

\* An empty SendQ is in range.
LEMMA SendMaxNat == SendMax \in Nat /\ 0 \in 0..(SendMax + 1)
  <1>1. SendMax \in Nat
    BY ClientIOAssumption
  <1> QED BY <1>1

\* dead_socket() keeps types.
LEMMA DeadSocketTyped ==
    ASSUME NEW w \in ClientType
    PROVE  DeadSocket(w) \in ClientType
  <1> DEFINE u == [w EXCEPT !.recvQ = 0, !.part = 0, !.sendQ = 0]
  <1>1. u \in ClientType
    BY SendMaxNat, Zenon DEF ClientType
  <1>2. DeadSocket(w) =
            [u EXCEPT !.rd = "none", !.wr = "none", !.deadsock = TRUE]
    BY DEF DeadSocket, ClientType
  <1> HIDE DEF u
  <1> QED BY <1>1, <1>2, ZenonT(90) DEF ClientType, Callbacks

\* It leaves the descriptor open.
LEMMA DeadSocketGood ==
    ASSUME NEW w \in ClientType, w.open, ~w.dead
    PROVE  /\ Good(DeadSocket(w))
           /\ DeadSocket(w).open
  <1> DEFINE v == DeadSocket(w)
  <1>1. v \in ClientType
    BY DeadSocketTyped
  <1>2. /\ v.open /\ ~v.dead /\ v.deadsock /\ v.rd = "none" /\ v.wr = "none"
    BY DEF DeadSocket, ClientType
  <1> QED BY <1>1, <1>2 DEF Good, Hears, Speaks, Rests, Closed

\* send_queued() keeps types, and neither opens, closes nor kills.
LEMMA SendQueuedTyped ==
    ASSUME NEW w \in ClientType, NEW v \in SendQueued(w)
    PROVE  v \in ClientType /\ v.open = w.open /\ v.dead = w.dead
  <1>1. CASE w.deadsock
    BY <1>1 DEF SendQueued
  <1>2. CASE ~w.deadsock /\ w.sendQ = 0
    BY <1>2 DEF SendQueued, ClientType, Callbacks
  <1>3. CASE ~w.deadsock /\ w.sendQ # 0
    <2>1. CASE v = [w EXCEPT !.sendQ = 0, !.rd = "read", !.wr = "none"]
      BY <2>1, SendMaxNat, ZenonT(90) DEF ClientType, Callbacks
    <2>2. CASE v = DeadSocket(w)
      BY <2>2, DeadSocketTyped, ZenonT(90) DEF DeadSocket, ClientType
    <2>3. CASE \E n \in 1..w.sendQ :
                  \/ v = [w EXCEPT !.sendQ = n, !.rd = "read", !.wr = "send"]
                  \/ v = [w EXCEPT !.sendQ = n, !.rd = "send", !.wr = "none"]
      <3>1. PICK n \in 1..w.sendQ :
                  \/ v = [w EXCEPT !.sendQ = n, !.rd = "read", !.wr = "send"]
                  \/ v = [w EXCEPT !.sendQ = n, !.rd = "send", !.wr = "none"]
        BY <2>3
      <3>2. n \in 0..(SendMax + 1)
        BY SendMaxNat DEF ClientType
      <3> QED BY <3>1, <3>2, ZenonT(90) DEF ClientType, Callbacks
    <2> QED BY <1>3, <2>1, <2>2, <2>3 DEF SendQueued
  <1> QED BY <1>1, <1>2, <1>3

\* With something to send, send_queued() restores the callbacks.
LEMMA SendQueuedGood ==
    ASSUME NEW w \in ClientType, w.open, ~w.dead, w.sendQ > 0,
           w.deadsock => Good(w),
           NEW v \in SendQueued(w)
    PROVE  Good(v)
  <1>1. v \in ClientType /\ v.open /\ ~v.dead
    BY SendQueuedTyped
  <1>2. CASE w.deadsock
    BY <1>2 DEF SendQueued
  <1>3. CASE ~w.deadsock
    <2>1. CASE v = [w EXCEPT !.sendQ = 0, !.rd = "read", !.wr = "none"]
      BY <2>1, <1>1 DEF Good, Hears, Speaks, Rests, ClientType
    <2>2. CASE v = DeadSocket(w)
      BY <2>2, DeadSocketGood
    <2>3. CASE \E n \in 1..w.sendQ :
                  \/ v = [w EXCEPT !.sendQ = n, !.rd = "read", !.wr = "send"]
                  \/ v = [w EXCEPT !.sendQ = n, !.rd = "send", !.wr = "none"]
      <3>1. PICK n \in 1..w.sendQ :
                  \/ v = [w EXCEPT !.sendQ = n, !.rd = "read", !.wr = "send"]
                  \/ v = [w EXCEPT !.sendQ = n, !.rd = "send", !.wr = "none"]
        BY <2>3
      <3>2. n > 0
        BY DEF ClientType
      <3> QED BY <3>1, <3>2, <1>1, ZenonT(90) DEF Good, Hears, Speaks, Rests, ClientType
    <2>4. w.sendQ # 0
      BY DEF ClientType
    <2> QED BY <1>3, <2>1, <2>2, <2>3, <2>4 DEF SendQueued
  <1> QED BY <1>2, <1>3

\* mark_data_to_send() changes at most the write callback.
LEMMA MarkTyped ==
    ASSUME NEW w \in ClientType
    PROVE  /\ MarkDataToSend(w) \in ClientType
           /\ MarkDataToSend(w).open = w.open
           /\ MarkDataToSend(w).dead = w.dead
  BY DEF MarkDataToSend, ClientType, Callbacks

\* One more message within the limit.
LEMMA QueuedTyped ==
    ASSUME NEW w \in ClientType, ~(w.sendQ > SendMax)
    PROVE  LET v == [w EXCEPT !.sendQ = w.sendQ + 1]
           IN  /\ v \in ClientType /\ v.sendQ > 0
               /\ v.open = w.open /\ v.dead = w.dead
  <1>1. w.sendQ + 1 \in 0..(SendMax + 1) /\ w.sendQ + 1 > 0
    BY SendMaxNat DEF ClientType
  <1> QED BY <1>1 DEF ClientType

\* sendbufto_one() keeps types, and neither opens, closes nor kills.
LEMMA SendbufTyped ==
    ASSUME NEW w \in ClientType, NEW v \in SendbufToOne(w)
    PROVE  v \in ClientType /\ v.open = w.open /\ v.dead = w.dead
  <1> DEFINE u == [w EXCEPT !.sendQ = w.sendQ + 1]
  <1>1. CASE w.deadsock \/ ~w.open
    BY <1>1 DEF SendbufToOne
  <1>2. CASE ~(w.deadsock \/ ~w.open) /\ w.sendQ > SendMax
    <2>1. v = DeadSocket(w)
      BY <1>2 DEF SendbufToOne
    <2> QED BY <2>1, DeadSocketTyped, ZenonT(90) DEF DeadSocket, ClientType
  <1>3. CASE ~(w.deadsock \/ ~w.open) /\ ~(w.sendQ > SendMax)
    <2>1. u \in ClientType /\ u.open = w.open /\ u.dead = w.dead
      BY <1>3, QueuedTyped
    <2>2. v \in SendQueued(u) \/ v = MarkDataToSend(u)
      BY <1>3 DEF SendbufToOne
    <2> HIDE DEF u
    <2> QED BY <2>1, <2>2, SendQueuedTyped, MarkTyped
  <1> QED BY <1>1, <1>2, <1>3

\* sendbufto_one() keeps a good client good.
LEMMA SendbufGood ==
    ASSUME NEW w, Good(w), NEW v \in SendbufToOne(w)
    PROVE  Good(v) /\ v.open = w.open /\ v.dead = w.dead
  <1> DEFINE u == [w EXCEPT !.sendQ = w.sendQ + 1]
  <1>0. w \in ClientType /\ (w.open => ~w.dead)
    BY DEF Good
  <1>t. v \in ClientType /\ v.open = w.open /\ v.dead = w.dead
    BY <1>0, SendbufTyped
  <1>1. CASE w.deadsock \/ ~w.open
    BY <1>1 DEF SendbufToOne
  <1>2. CASE ~(w.deadsock \/ ~w.open) /\ w.sendQ > SendMax
    BY <1>0, <1>2, DeadSocketGood, <1>t DEF SendbufToOne
  <1>3. CASE ~(w.deadsock \/ ~w.open) /\ ~(w.sendQ > SendMax)
    <2>1. u \in ClientType /\ u.open = w.open /\ u.dead = w.dead /\ u.sendQ > 0
      BY <1>0, <1>3, QueuedTyped
    <2>2. ~u.deadsock
      BY <1>0, <1>3 DEF ClientType
    <2>3. v \in SendQueued(u) \/ v = MarkDataToSend(u)
      BY <1>3 DEF SendbufToOne
    <2> HIDE DEF u
    <2>4. CASE v \in SendQueued(u)
      BY <2>1, <2>2, <2>4, <1>0, <1>3, <1>t, SendQueuedGood
    <2>5. CASE v = MarkDataToSend(u)
      <3>1. v = [u EXCEPT !.wr = "send"]
        BY <2>1, <2>2, <2>5, <1>3 DEF MarkDataToSend
      <3> QED BY <3>1, <2>1, <2>2, <1>0, <1>3, <1>t
              DEF Good, Hears, Speaks, Rests, ClientType
    <2> QED BY <2>3, <2>4, <2>5
  <1> QED BY <1>1, <1>2, <1>3

\* close_connection() of an open client closes it.
LEMMA CloseCloses ==
    ASSUME NEW w \in ClientType, w.open, NEW v \in CloseConnection(w)
    PROVE  /\ v \in ClientType /\ ~v.open /\ v.deadsock
           /\ v.rd = "none" /\ v.wr = "none"
           /\ v.recvQ = 0 /\ v.part = 0 /\ v.sendQ = 0
  <1>1. PICK u \in SendQueued(w) :
            v = [u EXCEPT !.open = FALSE, !.rd = "none", !.wr = "none",
                          !.recvQ = 0, !.part = 0, !.sendQ = 0,
                          !.deadsock = TRUE]
    BY DEF CloseConnection
  <1>2. u \in ClientType
    BY SendQueuedTyped
  <1> DEFINE x == [u EXCEPT !.recvQ = 0, !.part = 0, !.sendQ = 0]
  <1>3. x \in ClientType /\ x.recvQ = 0 /\ x.part = 0 /\ x.sendQ = 0
    BY <1>2, SendMaxNat, Zenon DEF ClientType
  <1>4. v = [x EXCEPT !.open = FALSE, !.rd = "none", !.wr = "none",
                      !.deadsock = TRUE]
    BY <1>1, <1>2, ZenonT(90) DEF ClientType
  <1> HIDE DEF x
  <1> QED BY <1>3, <1>4, ZenonT(90) DEF ClientType, Callbacks

\* exit_client() closes an open client, whatever state it is in.
LEMMA ExitCloses ==
    ASSUME NEW w \in ClientType, w.open, ~w.dead, NEW v \in ExitClient(w)
    PROVE  Good(v) /\ ~v.open
  <1>0. PICK u \in ({w} \cup SendbufToOne(w)) :
            \E x \in CloseConnection(u) :
               v = [x EXCEPT !.dead = TRUE, !.list = "dead"]
    <2> DEFINE S == IF w.open /\ w.kind # "control"
                    THEN SendbufToOne(w) ELSE {w}
    <2>1. PICK x \in UNION {CloseConnection(u) : u \in S} :
              v = [x EXCEPT !.dead = TRUE, !.list = "dead"]
      BY Zenon DEF ExitClient
    <2>2. S \subseteq {w} \cup SendbufToOne(w)
      OBVIOUS
    <2> HIDE DEF S
    <2> QED BY <2>1, <2>2
  <1>1. PICK x \in CloseConnection(u) :
            v = [x EXCEPT !.dead = TRUE, !.list = "dead"]
    BY <1>0
  <1>2. u \in ClientType /\ u.open
    BY SendbufTyped
  <1>3. /\ x \in ClientType /\ ~x.open /\ x.deadsock
        /\ x.rd = "none" /\ x.wr = "none"
        /\ x.recvQ = 0 /\ x.part = 0 /\ x.sendQ = 0
    BY <1>2, CloseCloses
  <1>4. v \in ClientType /\ Closed(v)
    BY <1>1, <1>3, ZenonT(90) DEF ClientType, Closed
  <1> QED BY <1>4 DEF Good, Hears, Speaks, Rests, Closed

\* exit_client() of a good client leaves a closed one.
LEMMA ExitGood ==
    ASSUME NEW w, Good(w), NEW v \in ExitClient(w)
    PROVE  Good(v) /\ ~v.open
  <1>1. CASE w.dead
    BY <1>1 DEF ExitClient, Good
  <1>2. CASE ~w.dead
    <2>1. w \in ClientType /\ w.open
      BY <1>2 DEF Good, Closed, ClientType
    <2> QED BY <1>2, <2>1, ExitCloses
  <1> QED BY <1>1, <1>2

\* The handshake starts on a fresh connection, and ends with reads asked for
\* unless the client was sent away.
LEMMA StartGood ==
    ASSUME NEW w \in ClientType, w.open, ~w.dead, ~w.deadsock, w.sendQ = 0,
           w.rd = "none", w.wr = "none",
           w.kind = "control" => ~w.tls,
           NEW v \in StartHandshake(w)
    PROVE  Good(v)
  <1>1. PICK u \in (IF w.kind = "control" THEN SendbufToOne(w)
                    ELSE {w} \cup SendbufToOne(w) \cup ExitClient(w)) :
            v \in IF u.dead THEN {u} ELSE {[u EXCEPT !.rd = "read"]}
    BY Zenon DEF StartHandshake
  <1> DEFINE q == [w EXCEPT !.sendQ = w.sendQ + 1]
  <1>2. /\ q \in ClientType /\ q.open = w.open /\ q.dead = w.dead
        /\ q.sendQ > 0 /\ ~q.deadsock /\ q.tls = w.tls /\ q.rd = "none"
    <2>1. ~(w.sendQ > SendMax)
      BY SendMaxNat
    <2>2. q \in ClientType /\ q.open = w.open /\ q.dead = w.dead /\ q.sendQ > 0
      BY <2>1, QueuedTyped, Zenon
    <2>3. ~q.deadsock /\ q.tls = w.tls /\ q.rd = "none"
      BY DEF ClientType
    <2> QED BY <2>2, <2>3, Zenon
  <1>3. w.kind = "control" => u \in SendQueued(q)
    BY <1>1, SendMaxNat DEF SendbufToOne
  <1>4. w.kind # "control" =>
            u = w \/ u = MarkDataToSend(q) \/ u \in ExitClient(w)
    BY <1>1, SendMaxNat DEF SendbufToOne
  <1>5. MarkDataToSend(q) = [q EXCEPT !.wr = "send"]
    BY <1>2 DEF MarkDataToSend
  <1> HIDE DEF q
  <1>6. CASE w.kind = "control"
    <2>1. Good(u) /\ u.open /\ ~u.dead /\ u.rd # "send"
      <3>1. Good(u)
        BY <1>2, <1>3, <1>6, SendQueuedGood, Zenon
      <3>2. u.open /\ ~u.dead
        BY <1>2, <1>3, <1>6, SendQueuedTyped, Zenon
      <3>3. u.rd # "send"
        <4>1. \/ u = [q EXCEPT !.sendQ = 0, !.rd = "read", !.wr = "none"]
              \/ u = DeadSocket(q)
              \/ \E n \in 1..q.sendQ :
                    u = [q EXCEPT !.sendQ = n, !.rd = "read", !.wr = "send"]
              \/ \E n \in (IF q.tls THEN 1..q.sendQ ELSE {}) :
                    u = [q EXCEPT !.sendQ = n, !.rd = "send", !.wr = "none"]
          <5>1. ~q.deadsock /\ q.sendQ # 0 /\ u \in SendQueued(q)
            BY <1>2, <1>3, <1>6
          <5> QED BY <5>1, Zenon DEF SendQueued
        <4>2. ~q.tls
          BY <1>2, <1>6
        <4>3. \/ u = [q EXCEPT !.sendQ = 0, !.rd = "read", !.wr = "none"]
              \/ u = DeadSocket(q)
              \/ \E n \in 1..q.sendQ :
                    u = [q EXCEPT !.sendQ = n, !.rd = "read", !.wr = "send"]
          BY <4>1, <4>2, Zenon
        <4>4. CASE u = DeadSocket(q)
          BY <1>2, <4>4 DEF DeadSocket, ClientType
        <4>5. CASE u = [q EXCEPT !.sendQ = 0, !.rd = "read", !.wr = "none"]
          BY <1>2, <4>5 DEF ClientType
        <4>6. CASE \E n \in 1..q.sendQ :
                    u = [q EXCEPT !.sendQ = n, !.rd = "read", !.wr = "send"]
          BY <1>2, <4>6 DEF ClientType
        <4> QED BY <4>3, <4>4, <4>5, <4>6
      <3> QED BY <3>1, <3>2, <3>3
    <2>2. v = [u EXCEPT !.rd = "read"]
      BY <1>1, <2>1
    <2> QED BY <2>1, <2>2
            DEF Good, Hears, Speaks, Rests, ClientType, Callbacks
  <1>7. CASE w.kind # "control" /\ u = w
    <2>1. v = [w EXCEPT !.rd = "read"]
      BY <1>1, <1>7
    <2> QED BY <2>1 DEF Good, Hears, Speaks, Rests, ClientType, Callbacks
  <1>8. CASE u = MarkDataToSend(q)
    <2>1. u \in ClientType /\ u.open /\ ~u.dead /\ u.sendQ > 0 /\ u.wr = "send"
      BY <1>2, <1>5, <1>8, ZenonT(90) DEF ClientType, Callbacks
    <2>2. v = [u EXCEPT !.rd = "read"]
      BY <1>1, <2>1
    <2> QED BY <2>1, <2>2
            DEF Good, Hears, Speaks, Rests, ClientType, Callbacks
  <1>9. CASE u \in ExitClient(w)
    <2>1. Good(u) /\ ~u.open
      BY <1>9, ExitCloses
    <2>2. v = u
      BY <1>1, <2>1 DEF Good, Closed
    <2> QED BY <2>1, <2>2
  <1> QED BY <1>4, <1>6, <1>7, <1>8, <1>9

-----------------------------------------------------------------------------
(* The actions *)

LEMMA InitInv == Init => Inv
  <1> SUFFICES ASSUME Init PROVE Inv
    OBVIOUS
  <1>1. NoClient \in ClientType /\ Closed(NoClient)
    BY SendMaxNat DEF NoClient, ClientType, Closed, Callbacks
  <1> QED BY <1>1, Zenon DEF Init, Inv, Good, Closed, Hears, Speaks, Rests

\* add_connection() and procio_accept().
LEMMA AcceptKept ==
    ASSUME Inv, NEW k \in Kinds, NEW t \in Tls, NEW d \in BOOLEAN,
           NEW b \in Web, Accept(k, t, d, b)
    PROVE  Inv'
  <1> DEFINE w == [NoClient EXCEPT !.kind = k, !.list = k, !.open = TRUE,
                                   !.deadsock = FALSE, !.dead = FALSE,
                                   !.tls = t, !.delayed = d, !.web = b]
  <1>1. k \in {"unknown", "control"} /\ t \in BOOLEAN /\ b \in BOOLEAN
    BY ClientIOAssumption
  <1> DEFINE u == [NoClient EXCEPT !.kind = k, !.list = k, !.open = TRUE,
                                   !.deadsock = FALSE]
  <1>2. NoClient \in ClientType /\ NoClient.sendQ = 0
        /\ NoClient.rd = "none" /\ NoClient.wr = "none"
    BY SendMaxNat DEF NoClient, ClientType, Callbacks
  <1>3. w = [u EXCEPT !.dead = FALSE, !.tls = t, !.delayed = d, !.web = b]
    BY Zenon DEF w, u, NoClient
  <1>4. /\ u \in ClientType /\ u.open /\ ~u.deadsock /\ u.sendQ = 0
        /\ u.rd = "none" /\ u.wr = "none" /\ u.kind = k
    BY <1>1, <1>2, ZenonT(90) DEF ClientType
  <1> HIDE DEF u, w
  <1>5. /\ w \in ClientType /\ w.open /\ ~w.dead /\ ~w.deadsock /\ w.sendQ = 0
        /\ w.rd = "none" /\ w.wr = "none"
        /\ w.kind = k /\ w.tls = t
    <2> DEFINE x == [u EXCEPT !.dead = FALSE, !.tls = t]
    <2>1. /\ x \in ClientType /\ x.open /\ ~x.dead /\ ~x.deadsock
          /\ x.sendQ = 0 /\ x.rd = "none" /\ x.wr = "none"
          /\ x.kind = k /\ x.tls = t
      BY <1>1, <1>4, ZenonT(90) DEF ClientType
    <2>2. w = [x EXCEPT !.delayed = d, !.web = b]
      BY <1>3
    <2> HIDE DEF x
    <2> QED BY <1>1, <2>1, <2>2, ZenonT(90) DEF ClientType
  <1>6. c' \in StartHandshake(w) /\ (k = "control" => ~t)
    BY Zenon DEF Accept, w
  <1>7. Good(c')
    BY <1>5, <1>6, StartGood
  <1> QED BY <1>7 DEF Accept, Inv, Good

\* Changing only the lag, the lines received or the delay of an open client
\* keeps it good.
LEMMA InputGood ==
    ASSUME NEW w, Good(w), w.open, NEW v \in ClientType,
           v.open = w.open, v.dead = w.dead, v.deadsock = w.deadsock,
           v.rd = w.rd, v.wr = w.wr, v.sendQ = w.sendQ
    PROVE  Good(v)
  BY DEF Good, Hears, Speaks, Rests

\* Only the lag changes.
LEMMA LagGood ==
    ASSUME NEW w, Good(w), w.open, NEW n \in Int
    PROVE  LET v == [w EXCEPT !.lag = n] IN Good(v) /\ v.open
  <1> DEFINE v == [w EXCEPT !.lag = n]
  <1>0. w \in ClientType
    BY DEF Good
  <1>1. v \in ClientType
    BY <1>0 DEF ClientType
  <1>2. /\ v.open = w.open /\ v.dead = w.dead /\ v.deadsock = w.deadsock
        /\ v.rd = w.rd /\ v.wr = w.wr /\ v.sendQ = w.sendQ
    BY <1>0, Zenon DEF ClientType
  <1> HIDE DEF v
  <1>3. Good(v) /\ v.open
    BY <1>1, <1>2, InputGood, Zenon
  <1> QED BY <1>3 DEF v

\* Only the number of lines received changes.
LEMMA LinesGood ==
    ASSUME NEW w, Good(w), w.open, NEW n \in Nat
    PROVE  LET v == [w EXCEPT !.recvQ = n] IN Good(v) /\ v.open
  <1> DEFINE v == [w EXCEPT !.recvQ = n]
  <1>0. w \in ClientType
    BY DEF Good
  <1>1. v \in ClientType
    BY <1>0 DEF ClientType
  <1>2. /\ v.open = w.open /\ v.dead = w.dead /\ v.deadsock = w.deadsock
        /\ v.rd = w.rd /\ v.wr = w.wr /\ v.sendQ = w.sendQ
    BY <1>0, Zenon DEF ClientType
  <1> HIDE DEF v
  <1>3. Good(v) /\ v.open
    BY <1>1, <1>2, InputGood, Zenon
  <1> QED BY <1>3 DEF v

\* Only the delay changes.
LEMMA DelayGood ==
    ASSUME NEW w, Good(w), w.open, NEW n \in BOOLEAN
    PROVE  LET v == [w EXCEPT !.delayed = n] IN Good(v) /\ v.open
  <1> DEFINE v == [w EXCEPT !.delayed = n]
  <1>0. w \in ClientType
    BY DEF Good
  <1>1. v \in ClientType
    BY <1>0 DEF ClientType
  <1>2. /\ v.open = w.open /\ v.dead = w.dead /\ v.deadsock = w.deadsock
        /\ v.rd = w.rd /\ v.wr = w.wr /\ v.sendQ = w.sendQ
    BY <1>0, Zenon DEF ClientType
  <1> HIDE DEF v
  <1>3. Good(v) /\ v.open
    BY <1>1, <1>2, InputGood, Zenon
  <1> QED BY <1>3 DEF v

\* read_packet() takes reads back, and writes only if there is nothing to send.
LEMMA ReadPacketKept ==
    ASSUME Inv, pc = "idle", c.open, ReadPacket
    PROVE  Inv'
  <1>0. Good(c) /\ c \in ClientType /\ ~c.dead
    BY DEF Inv, Good
  <1>1. CASE c.deadsock
    <2>1. c' = [c EXCEPT !.rd = "none"] /\ UNCHANGED <<pc, caller, full>>
      BY <1>1 DEF ReadPacket
    <2>2. Good(c')
      BY <1>0, <1>1, <2>1
         DEF Good, Hears, Speaks, Rests, ClientType, Callbacks
    <2> QED BY <2>1, <2>2 DEF Inv
  <1>2. CASE ~c.deadsock
    <2>1. /\ c' = [c EXCEPT !.rd = "read",
                            !.wr = IF c.sendQ > 0 THEN "send" ELSE "none"]
          /\ pc' = "recv" /\ UNCHANGED <<caller, full>>
      BY <1>2 DEF ReadPacket
    <2>2. Good(c') /\ c'.open
      BY <1>0, <2>1, ZenonT(90) DEF Good, Hears, Speaks, Rests, ClientType, Callbacks
    <2> QED BY <2>1, <2>2 DEF Inv
  <1> QED BY <1>1, <1>2

\* send_queued_cb() is only called with something to send.
LEMMA SendQueuedCbKept ==
    ASSUME Inv, pc = "idle", c.open, c.rd = "send" \/ c.wr = "send",
           SendQueuedCb
    PROVE  Inv'
  <1>1. Good(c) /\ c \in ClientType /\ ~c.dead /\ c.sendQ > 0
    BY DEF Inv, Good, Rests
  <1>2. c' = c \/ c' \in SendQueued(c)
    BY DEF SendQueuedCb
  <1>3. Good(c')
    BY <1>1, <1>2, SendQueuedGood
  <1> QED BY <1>3 DEF SendQueuedCb, Inv

\* A callback of the event loop.
LEMMA CallbackKept ==
    ASSUME Inv, Readable \/ Writable
    PROVE  Inv'
  BY ReadPacketKept, SendQueuedCbKept DEF Readable, Writable

\* A read that brings nothing, or ends the connection.
LEMMA RecvNothingKept ==
    ASSUME Inv, RecvBlocks \/ RecvWantsWrite \/ RecvEnds
    PROVE  Inv'
  <1>0. Good(c) /\ c \in ClientType
    BY DEF Inv, Good
  <1>1. CASE RecvBlocks
    BY <1>1, Zenon DEF RecvBlocks, GoTo, Inv
  <1>2. CASE RecvWantsWrite
    <2>1. c.open
      BY <1>2 DEF RecvWantsWrite, Inv
    <2>2. Good(c')
      BY <1>0, <1>2, <2>1, ZenonT(90)
         DEF RecvWantsWrite, Good, Hears, Speaks, Rests, ClientType, Callbacks
    <2> QED BY <1>2, <2>2, Zenon DEF RecvWantsWrite, GoTo, Inv
  <1>3. CASE RecvEnds
    <2>1. Good(c')
      BY <1>0, <1>3, ExitGood DEF RecvEnds
    <2> QED BY <1>3, <2>1, Zenon DEF RecvEnds, GoTo, Inv
  <1> QED BY <1>1, <1>2, <1>3

\* read_packet() only moves the lag.
LEMMA PresentGood ==
    ASSUME NEW w, Good(w), w.open
    PROVE  Good(Present(w)) /\ Present(w).open
  <1>1. (IF w.lag < 0 THEN 0 ELSE w.lag) \in Int
    BY DEF Good, ClientType
  <1> QED BY <1>1, LagGood DEF Present

\* A read with data.
LEMMA RecvDataKept ==
    ASSUME Inv, NEW n \in 0..MaxRead, NEW p \in 0..1, NEW f \in BOOLEAN,
           RecvData(n, p, f)
    PROVE  Inv'
  <1> DEFINE w == Present(c)
  <1>1. Good(w) /\ w.open
    BY PresentGood DEF Inv, RecvData
  <1>2. c.recvQ + n \in Nat /\ p \in {0, 1}
    BY ClientIOAssumption DEF Inv, Good, ClientType
  <1>3. c' = [w EXCEPT !.recvQ = c.recvQ + n, !.part = p]
    BY DEF RecvData
  <1> HIDE DEF w
  <1>4. /\ c' \in ClientType
        /\ c'.open = w.open /\ c'.dead = w.dead /\ c'.deadsock = w.deadsock
        /\ c'.rd = w.rd /\ c'.wr = w.wr /\ c'.sendQ = w.sendQ
    BY <1>1, <1>2, <1>3, ZenonT(90) DEF Good, ClientType
  <1>5. Good(c')
    BY <1>1, <1>4, InputGood, Zenon
  <1> QED BY <1>5 DEF RecvData, Inv

\* A read with frames.
LEMMA RecvFramesKept ==
    ASSUME Inv, NEW f \in BOOLEAN, RecvFrames(f)
    PROVE  Inv'
  <1>1. Good(Present(c)) /\ Present(c).open
    BY PresentGood DEF Inv, RecvFrames
  <1>2. CASE c' = Present(c) /\ pc' = "frames" /\ full' = f /\ UNCHANGED caller
    BY <1>1, <1>2 DEF Inv
  <1>3. CASE c' = DeadSocket(Present(c)) /\ GoTo(AfterRead(f))
    <2>1. Good(c') /\ c'.open
      BY <1>1, <1>3, DeadSocketGood DEF Good
    <2> QED BY <1>3, <2>1, Zenon DEF GoTo, AfterRead, Inv
  <1> QED BY <1>2, <1>3 DEF RecvFrames

\* The frames of a websocket, of which none closes the descriptor.
LEMMA FrameKept ==
    ASSUME Inv, FrameData \/ FramePing \/ FrameClose \/ FramesDone
    PROVE  Inv'
  <1>0. Good(c) /\ c \in ClientType /\ c.open /\ ~c.dead
    BY DEF Inv, Good, FrameData, FramePing, FrameClose, FramesDone
  <1>1. CASE FrameData
    <2>1. c.recvQ + 1 \in Nat /\ c' = [c EXCEPT !.recvQ = c.recvQ + 1]
      BY <1>0, <1>1 DEF FrameData, ClientType
    <2>2. Good(c')
      BY <1>0, <2>1, LinesGood
    <2> QED BY <1>1, <2>2 DEF FrameData, Inv
  <1>2. CASE FramePing
    <2> DEFINE q == [c EXCEPT !.sendQ = c.sendQ + 1]
    <2>1. PICK v \in (IF c.sendQ > SendMax THEN {DeadSocket(c)}
                      ELSE SendQueued(q)) :
              c' = [v EXCEPT !.lag = c.lag + 1]
      BY <1>2 DEF FramePing
    <2>2. Good(v) /\ v.open
      <3>1. CASE c.sendQ > SendMax
        BY <1>0, <2>1, <3>1, DeadSocketGood
      <3>2. CASE ~(c.sendQ > SendMax)
        <4>1. q \in ClientType /\ q.open /\ ~q.dead /\ q.sendQ > 0
          BY <1>0, <3>2, QueuedTyped
        <4>2. q.deadsock => Good(q)
          <5>1. q.deadsock = c.deadsock /\ q.rd = c.rd /\ q.wr = c.wr
            BY <1>0 DEF ClientType
          <5> HIDE DEF q
          <5> QED BY <4>1, <5>1 DEF Good, Hears, Speaks, Rests
        <4>3. v \in SendQueued(q)
          BY <2>1, <3>2
        <4> HIDE DEF q
        <4>4. Good(v)
          BY <4>1, <4>2, <4>3, SendQueuedGood
        <4>5. v.open
          BY <4>1, <4>3, SendQueuedTyped
        <4> QED BY <4>4, <4>5
      <3> QED BY <3>1, <3>2
    <2>3. c.lag + 1 \in Int
      BY <1>0 DEF ClientType
    <2>4. Good(c') /\ c'.open
      BY <2>1, <2>2, <2>3, LagGood
    <2> QED BY <1>2, <2>4 DEF FramePing, Inv
  <1>3. CASE FrameClose
    <2>1. Good(c')
      BY <1>0, <1>3, DeadSocketGood DEF FrameClose
    <2> QED BY <1>3, <2>1, Zenon DEF FrameClose, GoTo, Inv
  <1>4. CASE FramesDone
    BY <1>0, <1>4, Zenon DEF FramesDone, GoTo, AfterRead, Inv
  <1> QED BY <1>1, <1>2, <1>3, <1>4

\* A line of the loop in parse_client_queued(), which only takes lines of an
\* open connection.
LEMMA TakeLineKept ==
    ASSUME Inv, NEW n \in 0..1, TakeLine(n)
    PROVE  Inv'
  <1> DEFINE w == [c EXCEPT !.recvQ = c.recvQ - 1]
  <1>1. Good(c) /\ c \in ClientType /\ c.open
    BY DEF Inv, Good, Closed, TakeLine, ParseStops, ClientType
  <1>2. c.recvQ - 1 \in Nat /\ c.lag + n \in Int
    BY <1>1 DEF TakeLine, ParseStops, ClientType
  <1>3. Good(w) /\ w.open
    BY <1>1, <1>2, LinesGood
  <1>4. \/ c' = w \/ c' = [w EXCEPT !.lag = c.lag + n]
        \/ c' \in ExitClient(w) \cup {w}
    BY Zenon DEF TakeLine, BanFlooder
  <1> HIDE DEF w
  <1>5. Good(c')
    BY <1>2, <1>3, <1>4, LagGood, ExitGood
  <1>6. pc' \in {"parse", "line"} /\ UNCHANGED <<caller, full>>
    BY DEF TakeLine
  <1> QED BY <1>5, <1>6 DEF Inv

\* The end of process_packet(): it goes on only with an open connection.
LEMMA PacketDoneKept ==
    ASSUME Inv, PacketDone, UNCHANGED <<caller, full>>
    PROVE  Inv'
  <1>0. Good(c) /\ c \in ClientType /\ (~c.dead => c.open)
    BY DEF Inv, Good, Closed, ClientType
  <1>1. /\ \/ c' = c \/ c' \in ExitClient(c)
           \/ ~c.dead /\ c' = DeadSocket(c)
        /\ \/ pc' = "ret0"
           \/ pc' = "ret1" /\ ~c.dead /\ c' = c
    BY DEF PacketDone, BanFlooder
  <1>2. Good(c')
    BY <1>0, <1>1, ExitGood, DeadSocketGood
  <1> QED BY <1>0, <1>1, <1>2 DEF Inv

\* parse_client_queued() and process_packet() return.
LEMMA ReturnKept ==
    ASSUME Inv, ParseDone \/ PacketReturns
    PROVE  Inv'
  <1>1. CASE ParseDone
    BY <1>1, PacketDoneKept, Zenon DEF ParseDone, GoTo, Inv
  <1>2. CASE PacketReturns
    BY <1>2, ZenonT(90) DEF PacketReturns, GoTo, AfterRead, Inv
  <1> QED BY <1>1, <1>2

\* What a command does to its client.
LEMMA LineKept ==
    ASSUME Inv, \/ Reply \/ NewAddress \/ Quit \/ LineDone
                \/ \E k \in {"user", "server"} : Register(k)
    PROVE  Inv'
  <1>0. Good(c) /\ c \in ClientType /\ (~c.dead => c.open)
    BY DEF Inv, Good, Closed, ClientType
  <1>1. CASE Reply
    BY <1>0, <1>1, SendbufGood DEF Reply, Inv
  <1>2. CASE NewAddress
    <2>1. Good(c')
      BY <1>0, <1>2, ZenonT(90) DEF NewAddress, Good, Hears, Speaks, Rests, Closed,
                        ClientType
    <2> QED BY <1>2, <2>1 DEF NewAddress, Inv
  <1>3. CASE Quit
    BY <1>0, <1>3, ExitGood DEF Quit, Inv
  <1>4. CASE LineDone
    BY <1>4 DEF LineDone, Inv
  <1>5. CASE \E k \in {"user", "server"} : Register(k)
    <2>1. PICK k \in {"user", "server"} : Register(k)
      BY <1>5
    <2>2. c' = [c EXCEPT !.kind = k, !.list = "local", !.delayed = FALSE]
          /\ pc = "line" /\ ~c.dead /\ UNCHANGED <<pc, caller, full>>
      BY <2>1 DEF Register
    <2>3. /\ c' \in ClientType
          /\ c'.open = c.open /\ c'.dead = c.dead /\ c'.deadsock = c.deadsock
          /\ c'.rd = c.rd /\ c'.wr = c.wr /\ c'.sendQ = c.sendQ
      BY <1>0, <2>2, ZenonT(90) DEF ClientType
    <2>4. Good(c')
      BY <1>0, <2>2, <2>3, InputGood, Zenon
    <2> QED BY <2>2, <2>4 DEF Inv
  <1> QED BY <1>1, <1>2, <1>3, <1>4, <1>5

\* check_deadsockets(): the client that exits may send again while it does.
LEMMA DeadsocketsKept ==
    ASSUME Inv, CheckDeadsockets
    PROVE  Inv'
  <1>0. Good(c) /\ c \in ClientType
    BY DEF Inv, Good
  <1>1. CASE c.list = "dead" /\ c' = NoClient
    <2>1. NoClient \in ClientType /\ Closed(NoClient)
      BY SendMaxNat DEF NoClient, ClientType, Closed, Callbacks
    <2>2. Good(c')
      BY <1>1, <2>1 DEF Good, Closed, Hears, Speaks, Rests
    <2> QED BY <2>2 DEF CheckDeadsockets, Inv
  <1>2. CASE ~(c.list = "dead" /\ c' = NoClient)
    <2> DEFINE w == [c EXCEPT !.deadsock = FALSE]
    <2>1. PICK v \in ({w} \cup SendTwice(w)) : c' \in ExitClient(v)
      <3> DEFINE S == {w} \cup IF c.list = "unknown" THEN SendTwice(w) ELSE {}
      <3>1. c' \in UNION {ExitClient(v) : v \in S}
        BY <1>2, Zenon DEF CheckDeadsockets
      <3>2. S \subseteq {w} \cup SendTwice(w)
        OBVIOUS
      <3> HIDE DEF S
      <3> QED BY <3>1, <3>2, Zenon
    <2>2. /\ w \in ClientType /\ w.open = c.open /\ w.dead = c.dead
          /\ ~w.open => w.dead
      BY <1>0, ZenonT(90) DEF Good, Closed, ClientType
    <2> HIDE DEF w
    <2>3. v \in ClientType /\ v.open = w.open /\ v.dead = w.dead
      <3>1. CASE v \in SendTwice(w)
        <4>1. PICK u \in SendbufToOne(w) : v \in SendbufToOne(u)
          BY <3>1 DEF SendTwice
        <4>2. u \in ClientType /\ u.open = w.open /\ u.dead = w.dead
          BY <2>2, SendbufTyped
        <4> QED BY <4>1, <4>2, SendbufTyped
      <3> QED BY <2>1, <2>2, <3>1
    <2>4. CASE c.open
      <3>1. v.open /\ ~v.dead
        BY <1>0, <2>2, <2>3, <2>4 DEF Good
      <3>2. Good(c')
        BY <2>1, <2>3, <3>1, ExitCloses
      <3> QED BY <3>2 DEF CheckDeadsockets, Inv
    <2>5. CASE ~c.open
      <3>1. c.list \in {"none", "dead"}
        BY <1>0, <2>5 DEF Good, Closed
      <3> QED BY <1>2, <3>1 DEF CheckDeadsockets
    <2> QED BY <2>4, <2>5
  <1> QED BY <1>1, <1>2

\* The other timers, and other clients.
LEMMA OthersKept ==
    ASSUME Inv, ProcessClients \/ Tick \/ DelayEnds \/ OtherSends \/ OtherExits
    PROVE  Inv'
  <1>0. Good(c) /\ c \in ClientType
    BY DEF Inv, Good
  <1>1. CASE ProcessClients
    BY <1>1 DEF ProcessClients, Inv
  <1>2. CASE Tick
    <2>1. c.lag - 1 \in Int /\ c.open /\ c' = [c EXCEPT !.lag = c.lag - 1]
      BY <1>0, <1>2 DEF Tick, ClientType
    <2>2. Good(c')
      BY <1>0, <2>1, LagGood
    <2> QED BY <1>2, <2>2 DEF Tick, Inv
  <1>3. CASE DelayEnds
    <2> DEFINE w == [c EXCEPT !.delayed = FALSE]
    <2>1. Good(w)
      BY <1>0, ZenonT(90) DEF Good, Hears, Speaks, Rests, Closed, ClientType
    <2>2. c' = w \/ c' \in SendbufToOne(w)
      BY <1>3 DEF DelayEnds
    <2> HIDE DEF w
    <2>3. Good(c')
      BY <2>1, <2>2, SendbufGood
    <2> QED BY <1>3, <2>3 DEF DelayEnds, Inv
  <1>4. CASE OtherSends
    BY <1>0, <1>4, SendbufGood DEF OtherSends, Inv
  <1>5. CASE OtherExits
    BY <1>0, <1>5, ExitGood DEF OtherExits, Inv
  <1> QED BY <1>1, <1>2, <1>3, <1>4, <1>5

LEMMA NextKept == Inv /\ [Next]_vars => Inv'
  <1> SUFFICES ASSUME Inv, [Next]_vars PROVE Inv'
    OBVIOUS
  <1>1. CASE UNCHANGED vars
    BY <1>1 DEF vars, Inv
  <1>2. CASE Next
    BY <1>2, AcceptKept, CallbackKept, RecvNothingKept, RecvDataKept,
       RecvFramesKept, FrameKept, TakeLineKept, ReturnKept, LineKept,
       DeadsocketsKept, OthersKept DEF Next
  <1> QED BY <1>1, <1>2

LEMMA Invariance == Spec => []Inv
  BY InitInv, NextKept, PTL DEF Spec

\* What the invariant says of the client.
LEMMA InvProperties ==
    ASSUME Inv
    PROVE  TypeOK /\ CanHear /\ CanSpeak /\ NoSpin /\ ClosedIsQuiet
  <1>1. Good(c)
    BY DEF Inv
  <1>2. TypeOK
    BY <1>1 DEF Inv, Good, TypeOK
  <1>3. CanHear
    BY <1>1 DEF Good, Hears, CanHear
  <1>4. CanSpeak
    BY <1>1 DEF Good, Speaks, CanSpeak
  <1>5. NoSpin
    BY <1>1 DEF Good, Rests, NoSpin
  <1>6. ClosedIsQuiet
    BY <1>1 DEF Inv, Good, Closed, ClosedIsQuiet, DBufLength
  <1> QED BY <1>2, <1>3, <1>4, <1>5, <1>6

-----------------------------------------------------------------------------
(* The theorems *)

\* For every limit, sendbufto_one() and websocket_send_pong() leave at most one
\* message more than class::sendq in the SendQ, and all fields stay in range.
THEOREM ClientIOTypes == Spec => []TypeOK
  BY Invariance, InvProperties, PTL

\* No order of reads, writes, TLS renegotiations, frames and errors leaves a
\* live connection without a callback by which it reads again, leaves queued
\* output without a callback that leads to send_queued(), or registers
\* send_queued_cb() with an empty SendQ.
THEOREM NeverDeafMuteOrSpinning == Spec => []CallbacksRight
<1>1. Inv => CallbacksRight
  BY InvProperties DEF CallbacksRight
<1> QED BY <1>1, Invariance, PTL

\* After close_connection() nothing refers to the descriptor, whatever part of
\* read_packet() or of the frame loop the client was closed from.
THEOREM ClosedLeftAlone == Spec => []ClosedIsQuiet
  BY Invariance, InvProperties, PTL
=============================================================================
