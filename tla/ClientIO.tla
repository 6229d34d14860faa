------------------------------ MODULE ClientIO ------------------------------
(***************************************************************************)
(* One local connection, from its acceptance until its client is freed:    *)
(* src/parse.c (process_packet, parse_client_queued, fake lag), src/send.c *)
(* (sendbufto_one, send_queued), src/socket.c (read_packet, dead_socket,   *)
(* close_connection, process_clients), the timers of src/ircd.c that end a *)
(* connection, exit_client() and the frame loop of websockets.             *)
(*                                                                         *)
(* The server has one thread.  Between two callbacks or timers pc is       *)
(* "idle".  Inside one, pc says where the code is, so that a loop over     *)
(* lines, reads or frames is a step per round.                             *)
(*                                                                         *)
(* A queue is a number of messages.  The file descriptor calls read_packet *)
(* or send_queued_cb when it is readable (rd) and when it is writable (wr):*)
(* with TLS a read may have to wait until it is writable, and a write      *)
(* until it is readable, so each direction may carry either callback.      *)
(***************************************************************************)
EXTENDS Integers

CONSTANTS
    SendMax,       \* class::sendq
    RecvMax,       \* class::recvq
    HandshakeMax,  \* set::anti-flood::handshake-data-flood::amount
    LagLimit,      \* the lag at which lines are kept, 10 s in the code
    Kinds,         \* the listeners: a subset of {"unknown", "control"}
    Tls,           \* is TLS used: a subset of BOOLEAN
    Web,           \* is the client a websocket: a subset of BOOLEAN
    MaxRead,       \* bound on the lines of one read
    RecvCap,       \* bound on the lines queued by reads
    LagCap,        \* bound on lag
    LagFloor       \* bound on how far lag falls behind the time

ASSUME ClientIOAssumption ==
    /\ {SendMax, RecvMax, HandshakeMax, MaxRead, RecvCap, LagCap, LagFloor}
           \subseteq Nat
    /\ LagLimit \in 1..LagCap
    /\ Kinds \subseteq {"unknown", "control"}
    /\ Tls \subseteq BOOLEAN /\ Web \subseteq BOOLEAN

VARIABLES
    c,      \* the client, its queues and its callbacks
    pc,     \* where the thread is in the code that serves it
    caller, \* who called parse_client_queued(): "read", "ws" or "process"
    full    \* did the read now being processed fill the buffer

vars == <<c, pc, caller, full>>

Callbacks == {"none", "read", "send"}

NoClient ==
    [kind |-> "unknown", list |-> "none", open |-> FALSE,
     deadsock |-> TRUE, dead |-> TRUE, rd |-> "none", wr |-> "none",
     recvQ |-> 0, part |-> 0, sendQ |-> 0, lag |-> 0,
     delayed |-> FALSE, tls |-> FALSE, web |-> FALSE]

-----------------------------------------------------------------------------
(* Sending and closing: each operator gives the clients that may result. *)

\* dead_socket().
DeadSocket(w) ==
    [w EXCEPT !.recvQ = 0, !.part = 0, !.sendQ = 0,
              !.rd = "none", !.wr = "none", !.deadsock = TRUE]

\* Variant with a plausible bug: reads stay with send_queued_cb().
SendQueuedKeepsRead(w) ==
    IF w.deadsock THEN {w}
    ELSE IF w.sendQ = 0 THEN {[w EXCEPT !.wr = "none"]}
    ELSE {[w EXCEPT !.sendQ = 0, !.wr = "none"], DeadSocket(w)}
         \cup {[w EXCEPT !.sendQ = n, !.wr = "send"] : n \in 1..w.sendQ}
         \cup {[w EXCEPT !.sendQ = n, !.rd = "send", !.wr = "none"] :
                  n \in IF w.tls THEN 1..w.sendQ ELSE {}}

\* send_queued() and deliver_it(): all is written, or there is an error, or the
\* socket takes no more, or TLS has to read first.
SendQueued(w) ==
    IF w.deadsock THEN {w}
    ELSE IF w.sendQ = 0 THEN {[w EXCEPT !.wr = "none"]}
    ELSE {[w EXCEPT !.sendQ = 0, !.rd = "read", !.wr = "none"], DeadSocket(w)}
         \cup {[w EXCEPT !.sendQ = n, !.rd = "read", !.wr = "send"] :
                  n \in 1..w.sendQ}
         \cup {[w EXCEPT !.sendQ = n, !.rd = "send", !.wr = "none"] :
                  n \in IF w.tls THEN 1..w.sendQ ELSE {}}

\* mark_data_to_send().
MarkDataToSend(w) ==
    IF ~w.deadsock /\ w.open /\ w.sendQ > 0
    THEN [w EXCEPT !.wr = "send"] ELSE w

\* sendbufto_one().
SendbufToOne(w) ==
    IF w.deadsock \/ ~w.open THEN {w}
    ELSE IF w.sendQ > SendMax THEN {DeadSocket(w)}
    ELSE LET v == [w EXCEPT !.sendQ = w.sendQ + 1]
         IN  IF w.kind = "control" THEN SendQueued(v) ELSE {MarkDataToSend(v)}

\* The two lines of deadsocket_exit() to a banned client.
SendTwice(w) == UNION {SendbufToOne(v) : v \in SendbufToOne(w)}

\* close_connection().
CloseConnection(w) ==
    IF w.open
    THEN {[v EXCEPT !.open = FALSE, !.rd = "none", !.wr = "none",
                    !.recvQ = 0, !.part = 0, !.sendQ = 0, !.deadsock = TRUE] :
             v \in SendQueued(w)}
    ELSE {[w EXCEPT !.deadsock = TRUE]}

\* exit_client(): the ERROR line, close_connection() and
\* remove_client_from_list().
ExitClient(w) ==
    IF w.dead THEN {w}
    ELSE {[v EXCEPT !.dead = TRUE, !.list = "dead"] :
             v \in UNION {CloseConnection(u) :
                             u \in IF w.open /\ w.kind # "control"
                                   THEN SendbufToOne(w) ELSE {w}}}

\* ban_handshake_data_flooder(): the action set in the configuration may spare
\* the client.
BanFlooder(w) == ExitClient(w) \cup {w}

-----------------------------------------------------------------------------
(* Accepting *)

\* start_of_normal_client_handshake() and start_of_control_client_handshake():
\* a first line may be sent, then reads are asked for.
StartHandshake(w) ==
    UNION {IF v.dead THEN {v} ELSE {[v EXCEPT !.rd = "read"]} :
              v \in IF w.kind = "control" THEN SendbufToOne(w)
                    ELSE {w} \cup SendbufToOne(w) \cup ExitClient(w)}

\* add_connection() and procio_accept(), on a struct that was freed.
Accept(k, t, d, b) ==
    /\ c.list = "none"
    /\ c' \in StartHandshake(
                 [NoClient EXCEPT !.kind = k, !.list = k, !.open = TRUE,
                                  !.deadsock = FALSE, !.dead = FALSE,
                                  !.tls = t, !.delayed = d, !.web = b])
    /\ k = "control" => ~t /\ ~d /\ ~b
    /\ pc = "idle"
    /\ UNCHANGED <<pc, caller, full>>

-----------------------------------------------------------------------------
(* Callbacks *)

\* read_packet(), up to its loop.
ReadPacket ==
    IF c.deadsock
    THEN c' = [c EXCEPT !.rd = "none"] /\ UNCHANGED <<pc, caller, full>>
    ELSE /\ c' = [c EXCEPT !.rd = "read",
                           !.wr = IF c.sendQ > 0 THEN "send" ELSE "none"]
         /\ pc' = "recv"
         /\ UNCHANGED <<caller, full>>

\* Variant with a plausible bug: nothing is sent before the client registers.
SendRegistered ==
    /\ c' \in IF c.deadsock \/ c.kind = "unknown" THEN {c} ELSE SendQueued(c)
    /\ UNCHANGED <<pc, caller, full>>

\* send_queued_cb().
SendQueuedCb ==
    /\ c' \in IF c.deadsock THEN {c} ELSE SendQueued(c)
    /\ UNCHANGED <<pc, caller, full>>

\* fd_select(): the callback of a descriptor that is readable, or writable.
Readable ==
    /\ pc = "idle" /\ c.open
    /\ \/ c.rd = "read" /\ ReadPacket
       \/ c.rd = "send" /\ SendQueuedCb

Writable ==
    /\ pc = "idle" /\ c.open
    /\ \/ c.wr = "read" /\ ReadPacket
       \/ c.wr = "send" /\ SendQueuedCb

-----------------------------------------------------------------------------
(* The loop of read_packet() *)

\* The code goes to p, where caller and full no longer matter.
GoTo(p) == pc' = p /\ caller' = "process" /\ full' = FALSE

AfterRead(f) == IF f THEN "recv" ELSE "idle"

\* Nothing to read (now).
RecvBlocks ==
    /\ pc = "recv"
    /\ GoTo("idle")
    /\ UNCHANGED c

\* SSL_ERROR_WANT_WRITE.
RecvWantsWrite ==
    /\ pc = "recv" /\ c.tls
    /\ c' = [c EXCEPT !.rd = "none", !.wr = "read"]
    /\ GoTo("idle")

\* The peer is gone.
RecvEnds ==
    /\ pc = "recv"
    /\ c' \in ExitClient(c)
    /\ GoTo("idle")

\* read_packet() brings the lag up to the present.
Present(w) == [w EXCEPT !.lag = IF w.lag < 0 THEN 0 ELSE w.lag]

\* n lines and the part p of another are read, and f says if the buffer is full.
RecvData(n, p, f) ==
    /\ pc = "recv" /\ ~c.web
    /\ n + p > 0 /\ c.recvQ + n <= RecvCap
    /\ c' = [Present(c) EXCEPT !.recvQ = c.recvQ + n, !.part = p]
    /\ pc' = "parse" /\ caller' = "read" /\ full' = f

\* Frames are read, or more than websocket_handle_websocket() has room for.
RecvFrames(f) ==
    /\ pc = "recv" /\ c.web
    /\ \/ c' = Present(c) /\ pc' = "frames" /\ full' = f /\ UNCHANGED caller
       \/ c' = DeadSocket(Present(c)) /\ GoTo(AfterRead(f))

\* websocket_handle_packet(): a frame with a line.
FrameData ==
    /\ pc = "frames" /\ c.recvQ < RecvCap
    /\ c' = [c EXCEPT !.recvQ = c.recvQ + 1]
    /\ pc' = "parse" /\ caller' = "ws"
    /\ UNCHANGED full

\* A ping: websocket_send_pong() does not look if the socket is dead.
FramePing ==
    /\ pc = "frames" /\ c.lag < LagCap
    /\ c' \in {[v EXCEPT !.lag = c.lag + 1] :
                  v \in IF c.sendQ > SendMax THEN {DeadSocket(c)}
                        ELSE SendQueued([c EXCEPT !.sendQ = c.sendQ + 1])}
    /\ UNCHANGED <<pc, caller, full>>

\* A close, or a frame that is not valid.
FrameClose ==
    /\ pc = "frames"
    /\ c' = DeadSocket(c)
    /\ GoTo("idle")

\* No complete frame is left.
FramesDone ==
    /\ pc = "frames"
    /\ GoTo(AfterRead(full))
    /\ UNCHANGED c

-----------------------------------------------------------------------------
(* parse_client_queued() *)

DBufLength(w) == w.recvQ + w.part

\* client_lagged_up(), for a client that is not exempt.
LaggedUp(w) == w.kind \in {"unknown", "user"} /\ w.lag >= LagLimit

\* Lines wait for DNS, identd or the handshake delay, or the client is lagged
\* up, or no line is complete, or the last one ended the client.
ParseStops == c.dead \/ c.delayed \/ c.recvQ = 0 \/ LaggedUp(c)

\* A line is handed to parse().  n is the lag it costs in the end, after
\* parse_addlag() and what the command adds or takes back.  parse() ignores
\* the lines of a dead socket, and may find that a client has sent too much
\* without registering.
TakeLine(n) ==
    /\ pc = "parse" /\ ~ParseStops
    /\ c.lag + n <= LagCap
    /\ LET w == [c EXCEPT !.recvQ = c.recvQ - 1]
       IN  \/ c.deadsock /\ c' = w /\ UNCHANGED pc
           \/ ~c.deadsock /\ c' = [w EXCEPT !.lag = c.lag + n] /\ pc' = "line"
           \/ /\ ~c.deadsock /\ c.kind = "unknown"
              /\ c' \in BanFlooder(w)
              /\ UNCHANGED pc
    /\ UNCHANGED <<caller, full>>

\* Variant with a plausible bug: that the client is dead is not noticed.
PacketDoneOnDead ==
    \/ /\ c.kind = "unknown" /\ DBufLength(c) > HandshakeMax
       /\ c' \in IF caller = "ws" THEN {DeadSocket(c)} ELSE BanFlooder(c)
       /\ pc' = "ret0"
    \/ /\ c.kind = "user" /\ DBufLength(c) > RecvMax
       /\ c' \in IF caller = "ws" THEN {DeadSocket(c)} ELSE ExitClient(c)
       /\ pc' = "ret0"
    \/ /\ c.kind = "unknown" => DBufLength(c) <= HandshakeMax
       /\ c.kind = "user" => DBufLength(c) <= RecvMax
       /\ UNCHANGED c
       /\ pc' = "ret1"

\* The rest of process_packet(), which returns 0 or 1.  killsafely is 1 when a
\* websocket frame is processed, and 0 in read_packet().
PacketDone ==
    \/ c.dead /\ UNCHANGED c /\ pc' = "ret0"
    \/ /\ ~c.dead /\ c.kind = "unknown" /\ DBufLength(c) > HandshakeMax
       /\ c' \in IF caller = "ws" THEN {DeadSocket(c)} ELSE BanFlooder(c)
       /\ pc' = "ret0"
    \/ /\ ~c.dead /\ c.kind = "user" /\ DBufLength(c) > RecvMax
       /\ c' \in IF caller = "ws" THEN {DeadSocket(c)} ELSE ExitClient(c)
       /\ pc' = "ret0"
    \/ /\ ~c.dead
       /\ c.kind = "unknown" => DBufLength(c) <= HandshakeMax
       /\ c.kind = "user" => DBufLength(c) <= RecvMax
       /\ UNCHANGED c
       /\ pc' = "ret1"

\* parse_client_queued() returns.
ParseDone ==
    /\ pc = "parse" /\ ParseStops
    /\ \/ caller = "process" /\ GoTo("idle") /\ UNCHANGED c
       \/ caller # "process" /\ PacketDone /\ UNCHANGED <<caller, full>>

\* process_packet() has returned.
PacketReturns ==
    /\ \/ pc = "ret0" /\ GoTo("idle")
       \/ pc = "ret1" /\ caller = "read" /\ GoTo(AfterRead(full))
       \/ /\ pc = "ret1" /\ caller = "ws"
          /\ pc' = "frames" /\ caller' = "process" /\ UNCHANGED full
    /\ UNCHANGED c

(* What the handler of a command does to its client, in any order. *)

Reply ==
    /\ pc = "line"
    /\ c' \in SendbufToOne(c)
    /\ UNCHANGED <<pc, caller, full>>

\* register_user() or server_sync(): the client moves to lclient_list.
Register(k) ==
    /\ pc = "line" /\ c.kind = "unknown" /\ ~c.dead
    /\ k = "server" => ~c.web
    /\ c' = [c EXCEPT !.kind = k, !.list = "local", !.delayed = FALSE]
    /\ UNCHANGED <<pc, caller, full>>

\* The address changes behind a proxy: start_dns_and_ident_lookup() again.
NewAddress ==
    /\ pc = "line" /\ c.kind = "unknown"
    /\ c' = [c EXCEPT !.delayed = TRUE]
    /\ UNCHANGED <<pc, caller, full>>

Quit ==
    /\ pc = "line"
    /\ c' \in ExitClient(c)
    /\ UNCHANGED <<pc, caller, full>>

LineDone ==
    /\ pc = "line"
    /\ pc' = "parse"
    /\ UNCHANGED <<c, caller, full>>

-----------------------------------------------------------------------------
(* Timers, and other clients *)

\* Variant with a plausible bug: unknown_list is left out.
ProcessClientsLocal ==
    /\ pc = "idle"
    /\ c.list \in {"local", "control"}
    /\ c.open /\ DBufLength(c) > 0 /\ ~c.dead
    /\ pc' = "parse" /\ caller' = "process"
    /\ UNCHANGED <<c, full>>

\* process_clients(): the lines that were kept.
ProcessClients ==
    /\ pc = "idle"
    /\ c.list \in {"local", "unknown", "control"}
    /\ c.open /\ DBufLength(c) > 0 /\ ~c.dead
    /\ pc' = "parse" /\ caller' = "process"
    /\ UNCHANGED <<c, full>>

\* Variant with a plausible bug: clients still in the handshake are left out.
CheckDeadsocketsLocal ==
    /\ pc = "idle"
    /\ UNCHANGED <<pc, caller, full>>
    /\ \/ /\ c.list = "local" /\ c.deadsock
          /\ c' \in ExitClient([c EXCEPT !.deadsock = FALSE])
       \/ c.list = "dead" /\ c' = NoClient

\* check_deadsockets(): of the clients on unknown_list and lclient_list those
\* whose socket is dead exit, with sending allowed again so that they are told
\* why, which deadsocket_exit() may do in more lines.  Those on dead_list are
\* freed.
CheckDeadsockets ==
    /\ pc = "idle"
    /\ UNCHANGED <<pc, caller, full>>
    /\ \/ /\ c.list \in {"unknown", "local"} /\ c.deadsock
          /\ LET w == [c EXCEPT !.deadsock = FALSE]
             IN  c' \in UNION {ExitClient(v) :
                                  v \in {w} \cup IF c.list = "unknown"
                                                 THEN SendTwice(w) ELSE {}}
       \/ c.list = "dead" /\ c' = NoClient

\* A second passes.
Tick ==
    /\ pc = "idle" /\ c.open /\ c.lag > -LagFloor
    /\ c' = [c EXCEPT !.lag = c.lag - 1]
    /\ UNCHANGED <<pc, caller, full>>

\* DNS, identd and the handshake delay are done, which the client may be told.
DelayEnds ==
    /\ pc = "idle" /\ c.delayed
    /\ LET w == [c EXCEPT !.delayed = FALSE] IN c' \in {w} \cup SendbufToOne(w)
    /\ UNCHANGED <<pc, caller, full>>

\* A message from elsewhere.
OtherSends ==
    /\ pc = "idle" /\ c.list \in {"unknown", "local", "control"}
    /\ c' \in SendbufToOne(c)
    /\ UNCHANGED <<pc, caller, full>>

\* check_ping(), handshake_timeout(), KILL, a ban: none looks at control_list.
OtherExits ==
    /\ pc = "idle" /\ c.list \in {"unknown", "local"}
    /\ c' \in ExitClient(c)
    /\ UNCHANGED <<pc, caller, full>>

-----------------------------------------------------------------------------

Init ==
    /\ c = NoClient
    /\ pc = "idle" /\ caller = "process" /\ full = FALSE

Next ==
    \/ \E k \in Kinds, t \in Tls, d \in BOOLEAN, b \in Web : Accept(k, t, d, b)
    \/ Readable \/ Writable
    \/ RecvBlocks \/ RecvWantsWrite \/ RecvEnds
    \/ \E n \in 0..MaxRead, p \in 0..1, f \in BOOLEAN : RecvData(n, p, f)
    \/ \E f \in BOOLEAN : RecvFrames(f)
    \/ FrameData \/ FramePing \/ FrameClose \/ FramesDone
    \/ \E n \in 0..1 : TakeLine(n)
    \/ ParseDone \/ PacketReturns
    \/ Reply \/ (\E k \in {"user", "server"} : Register(k))
    \/ NewAddress \/ Quit \/ LineDone
    \/ ProcessClients \/ CheckDeadsockets \/ Tick \/ DelayEnds
    \/ OtherSends \/ OtherExits

Spec == Init /\ [][Next]_vars

(***************************************************************************)
(* Fairness.  SocketLoop() runs the timers, the callbacks and              *)
(* process_clients() in every round, and a handler, and the frames of one  *)
(* buffer, come to an end.  Of the peer: it does not fill every read       *)
(* buffer for ever, and when the descriptor is ready again and again its   *)
(* side at last takes all that is queued.                                  *)
(***************************************************************************)
Delivers == (Readable \/ Writable) /\ c.sendQ > 0 /\ c'.sendQ = 0

FairSpec ==
    /\ Spec
    /\ WF_vars(ParseDone \/ \E n \in 0..1 : TakeLine(n))
    /\ WF_vars(PacketReturns)
    /\ WF_vars(LineDone)
    /\ SF_vars(RecvBlocks) /\ SF_vars(FramesDone)
    /\ SF_vars(CheckDeadsockets) /\ SF_vars(ProcessClients)
    /\ SF_vars(Tick) /\ SF_vars(DelayEnds)
    /\ SF_vars(Writable /\ c.wr = "read") /\ SF_vars(Delivers)

-----------------------------------------------------------------------------
(* Properties *)

ClientType ==
    [kind : {"unknown", "user", "server", "control"},
     list : {"none", "unknown", "local", "control", "dead"},
     open : BOOLEAN, deadsock : BOOLEAN, dead : BOOLEAN,
     rd : Callbacks, wr : Callbacks,
     recvQ : Nat, part : {0, 1}, sendQ : 0..(SendMax + 1),
     lag : Int, delayed : BOOLEAN, tls : BOOLEAN, web : BOOLEAN]

\* The client's fields are in range.  In particular no sequence of replies,
\* messages from others and pongs takes the SendQ more than one message beyond
\* its limit.
TypeOK ==
    /\ c \in ClientType
    /\ pc \in {"idle", "recv", "frames", "parse", "line", "ret0", "ret1"}
    /\ caller \in {"read", "ws", "process"}
    /\ full \in BOOLEAN

\* A live connection is never deaf: either read_packet() is registered, or
\* send_queued_cb() is with something to send, which registers read_packet()
\* again.  A connection lost to this would hang until its ping timeout.
CanHear ==
    c.open /\ ~c.deadsock =>
        \/ "read" \in {c.rd, c.wr}
        \/ "send" \in {c.rd, c.wr} /\ c.sendQ > 0

\* What is queued has a callback that leads to its being sent, although reads
\* and writes take the callbacks from each other.
CanSpeak ==
    c.open /\ ~c.deadsock /\ c.sendQ > 0 =>
        "send" \in {c.rd, c.wr} \/ c.wr = "read"

\* send_queued_cb() is registered only while there is something to send: on an
\* idle socket, which is always writable, the event loop would spin.
NoSpin == "send" \in {c.rd, c.wr} => c.sendQ > 0

\* However read_packet() and send_queued() take the callbacks from each other,
\* the two that are registered never leave a connection deaf, mute or spinning.
CallbacksRight == CanHear /\ CanSpeak /\ NoSpin

\* After close_connection() no callback is registered, the queues are empty and
\* no loop that is still running goes back to the descriptor, whose number the
\* next connection gets.
ClosedIsQuiet ==
    ~c.open =>
        /\ c.rd = "none" /\ c.wr = "none"
        /\ DBufLength(c) = 0 /\ c.sendQ = 0
        /\ pc \notin {"recv", "frames"}

\* A client or server whose socket was marked dead is closed in time. Control
\* channel clients are not: check_deadsockets() does not walk over control_list.
DeadIsClosed ==
    (c.open /\ c.deadsock /\ c.kind # "control") ~> ~c.open

\* A complete line is taken up, after whatever delay and lag, or the client
\* goes.  (A websocket that pings every second stays lagged up for ever.)
LinesTakenUp ==
    (c.open /\ c.recvQ > 0 /\ ~c.web) ~> (pc = "line" \/ c.recvQ = 0)

\* What is queued for a peer that reads is sent, or the client goes.
OutputLeaves == (c.sendQ > 0) ~> (c.sendQ = 0)
=============================================================================
