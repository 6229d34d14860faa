---------------------------- MODULE ChannelSync ----------------------------
(***************************************************************************)
(* One channel across a network of linked servers: JOIN and SJOIN          *)
(* (src/modules/join.c, sjoin.c), PART, KICK, MODE, QUIT and SQUIT         *)
(* (part.c, kick.c, mode.c, quit.c, squit.c) and the channel part of the   *)
(* burst two servers exchange when they link (server.c).                   *)
(*                                                                         *)
(* Every server keeps its own copy of the channel: a creation time, the    *)
(* members with their status, and the modes.  The copies are merged by     *)
(* the creation time: the older channel keeps its modes and operators, the *)
(* newer one loses them.  Servers form a tree, a link delivers in order    *)
(* until it is lost, and nicknames do not collide here (see NickSync).     *)
(*                                                                         *)
(* A handler is an operator on a World (the record of all variables but    *)
(* the counters) that returns the world after it.                          *)
(***************************************************************************)
EXTENDS Integers, FiniteSets, Sequences

CONSTANTS
    Servers,     \* the servers
    Users,       \* the users, all connected in the initial state
    Home,        \* Home[u]: the server user u is connected to
    Hop,         \* Hop[s][t]: the neighbour of s on the way to t, s if t = s
    Dials,       \* pairs <<s, t>>: s has a link block to connect to t
    StartLinked, \* whether the links are up in the initial state
    Times,       \* values of TStime() when a channel is made, any clock
    Modes,       \* modes without a parameter, and list entries (+b, +e, +I)
    Limits,      \* values of a mode with a parameter (+l)
    OnJoin,      \* set::modes-on-join
    Inputs,      \* which environment inputs may happen
    MaxJoins,    \* bound on the number of joins
    MaxChanges,  \* bound on the kicks and mode changes by users
    MaxSplits,   \* bound on the number of lost links
    None         \* no channel, no client

ASSUME TreeAssumption ==
    /\ Home \in [Users -> Servers]
    /\ Hop \in [Servers -> [Servers -> Servers]]
    /\ Dials \subseteq Servers \X Servers
    /\ \A s, t \in Servers : Hop[s][t] = s <=> s = t
    /\ \A d \in Dials : Hop[d[1]][d[2]] = d[2] /\ Hop[d[2]][d[1]] = d[1]
\* One of two neighbours calls the other, and every server is on one side of
\* the link between them: there are no loops.
ASSUME LinksAssumption ==
    /\ \A d \in Dials : <<d[2], d[1]>> \notin Dials
    /\ \A d \in Dials, h \in Servers :
           (Hop[d[1]][h] = d[2]) # (Hop[d[2]][h] = d[1])
\* There are finitely many users, as the proofs use it: any of them can be
\* listed, each once.
ASSUME UsersAssumption ==
    \A X \in SUBSET Users :
        /\ Cardinality(X) \in Nat
        /\ \E q \in [1..Cardinality(X) -> X] : \A i, j \in DOMAIN q : q[i] = q[j] => i = j
ASSUME ValuesAssumption ==
    /\ StartLinked \in BOOLEAN
    /\ Times \subseteq Nat
    /\ Limits \subseteq Nat \ {0}
    /\ OnJoin \subseteq Modes
ASSUME BoundsAssumption ==
    MaxJoins \in Nat /\ MaxChanges \in Nat /\ MaxSplits \in Nat

Status == {"out", "in", "op"}

\* A server's copy of the channel; limit 0 is no limit.
Channel == [ts : Times, mem : [Users -> Status], modes : SUBSET Modes,
            limit : Limits \cup {0}]

ASSUME NoneAssumption == None \notin Channel \cup Servers

VARIABLES
    chan,     \* chan[s]: the channel at s, or None
    known,    \* known[s][u]: the direction s knows user u in, or None
    peers,    \* peers[s]: server_list, the servers s is directly linked to
    link,     \* link[s][t]: messages sent by s that t has not processed
    count,    \* joins, kicks and mode changes, splits so far
    entitled  \* history: <<user, ts>> that founded, or were given status

vars == <<chan, known, peers, link, count, entitled>>

World == [chan |-> chan, known |-> known, peers |-> peers, link |-> link]

Become(w) ==
    /\ chan' = w.chan
    /\ known' = w.known
    /\ peers' = w.peers
    /\ link' = w.link

-----------------------------------------------------------------------------
(* Messages *)

SERVER == [type |-> "SERVER"]
EOF == [type |-> "EOF"]

\* The UID lines of a burst; they touch no channel and are taken as one.
UIDs(X) == [type |-> "UID", users |-> X]
SJOIN(ts, items, modes, limit) ==
    [type |-> "SJOIN", ts |-> ts, items |-> items, modes |-> modes,
     limit |-> limit]
PART(u) == [type |-> "PART", u |-> u]
KICK(u) == [type |-> "KICK", u |-> u]
QUIT(u) == [type |-> "QUIT", u |-> u]
SQUIT(X) == [type |-> "SQUIT", servers |-> X]

\* MODE by a server carries the creation time, MODE by a user does not.
TSMODE(ts, modes) == [type |-> "TSMODE", ts |-> ts, modes |-> modes]
STATUS(u, st) == [type |-> "STATUS", u |-> u, st |-> st]
FLAG(x, on) == [type |-> "FLAG", mode |-> x, on |-> on]
LIMIT(l) == [type |-> "LIMIT", limit |-> l]

Message ==
    {SERVER, EOF}
    \cup [type : {"UID"}, users : SUBSET Users]
    \cup [type : {"SJOIN"}, ts : Times, items : [Users -> Status],
          modes : SUBSET Modes, limit : Limits \cup {0}]
    \cup [type : {"PART", "KICK", "QUIT"}, u : Users]
    \cup [type : {"SQUIT"}, servers : SUBSET Servers]
    \cup [type : {"TSMODE"}, ts : Times, modes : SUBSET Modes]
    \cup [type : {"STATUS"}, u : Users, st : {"in", "op"}]
    \cup [type : {"FLAG"}, mode : Modes, on : BOOLEAN]
    \cup [type : {"LIMIT"}, limit : Limits \cup {0}]

SendTo(w, s, T, m) ==
    [w EXCEPT !.link = [w.link EXCEPT ![s] =
        [t \in Servers |-> IF t \in T THEN Append(w.link[s][t], m)
                           ELSE w.link[s][t]]]]

\* sendto_server(one, ...): to every linked server except the direction of one.
SendToServer(w, s, but, m) == SendTo(w, s, w.peers[s] \ {but}, m)

-----------------------------------------------------------------------------
(* The channel of one server *)

NoMembers == [u \in Users |-> "out"]

Members(c) == {u \in Users : c.mem[u] # "out"}

\* make_channel()
make_channel(ts) == [ts |-> ts, mem |-> NoMembers, modes |-> {}, limit |-> 0]

SetChan(w, s, c) == [w EXCEPT !.chan = [w.chan EXCEPT ![s] = c]]

\* Variant with a plausible bug: an empty channel is kept.
KeepEmpty(c) == c

\* sub1_from_channel() when the last user has left.
sub1_from_channel(c) == IF Members(c) = {} THEN None ELSE c

\* remove_user_from_channel() for each of the users X.
RemoveUsers(w, s, X) ==
    IF w.chan[s] = None THEN w
    ELSE SetChan(w, s, sub1_from_channel(
             [w.chan[s] EXCEPT !.mem =
                 [u \in Users |-> IF u \in X THEN "out"
                                  ELSE w.chan[s].mem[u]]]))

IsMember(w, s, u) == w.chan[s] # None /\ w.chan[s].mem[u] # "out"

IsOp(w, s, u) == w.chan[s] # None /\ w.chan[s].mem[u] = "op"

\* Variant with a plausible bug: the memberships stay.
ExitKeepsMembership(w, s, X) ==
    [w EXCEPT !.known = [w.known EXCEPT ![s] =
        [u \in Users |-> IF u \in X THEN None ELSE w.known[s][u]]]]

\* exit_one_client() of each of the users X.
exit_one_client(w, s, X) ==
    RemoveUsers([w EXCEPT !.known = [w.known EXCEPT ![s] =
                    [u \in Users |-> IF u \in X THEN None
                                     ELSE w.known[s][u]]]],
                s, X)

\* Variant with a plausible bug: the other servers are not told.
ExitServerSilent(w, s, t) ==
    LET w2 == exit_one_client(w, s, {u \in Users : w.known[s][u] = t})
    IN  [w2 EXCEPT !.peers = [w2.peers EXCEPT ![s] = w2.peers[s] \ {t}]]

\* exit_client() of the linked server t, with everything behind it.
ExitServer(w, s, t) ==
    LET w1 == SendToServer(w, s, t, SQUIT({v \in Servers : Hop[s][v] = t}))
        w2 == exit_one_client(w1, s, {u \in Users : w.known[s][u] = t})
    IN  [w2 EXCEPT !.peers = [w2.peers EXCEPT ![s] = w2.peers[s] \ {t}]]

-----------------------------------------------------------------------------
(* Messages from a linked server: t processes m, received from s *)

\* Variant with a plausible bug: the members keep their status.
MeetKeepsStatus(old, ts) ==
    IF old = None \/ old.ts > ts
    THEN [make_channel(ts) EXCEPT !.mem =
              IF old = None THEN NoMembers ELSE old.mem]
    ELSE old

\* Variant with a plausible bug: the timestamp received always counts.
MeetTakesTS(old, ts) ==
    IF old = None THEN make_channel(ts) ELSE [old EXCEPT !.ts = ts]

\* The first half of cmd_sjoin: our channel after meeting timestamp ts.  Ours
\* being newer, its modes, lists and the status of all members go (removeours).
Meet(old, ts) ==
    IF old = None THEN make_channel(ts)
    ELSE IF old.ts > ts
    THEN [make_channel(ts) EXCEPT !.mem =
              [u \in Users |-> IF old.mem[u] = "out" THEN "out" ELSE "in"]]
    ELSE old

\* removetheirs: their channel is newer than ours.
RemoveTheirs(old, ts) == old # None /\ old.ts < ts

\* The users of an SJOIN that t adds and passes on: those it knows, from the
\* direction the SJOIN came from.
Accepted(w, t, s, m) ==
    {u \in Users : m.items[u] # "out" /\ w.known[t][u] = s}

\* Users it knows in another direction: kicked back unless already in.
FakeDirection(w, t, s, m, c) ==
    {u \in Users : /\ m.items[u] # "out"
                   /\ w.known[t][u] \notin {None, s}
                   /\ c.mem[u] = "out"}

\* Variant with a plausible bug: the prefixes of the items are not looked at.
AddPlain(c, X, items, drop) ==
    [c EXCEPT !.mem = [u \in Users |->
        IF u \in X /\ c.mem[u] = "out" THEN "in" ELSE c.mem[u]]]

\* A member that is already in keeps its status.
AddMembers(c, X, items, drop) ==
    [c EXCEPT !.mem = [u \in Users |->
        IF u \in X /\ c.mem[u] = "out"
        THEN IF drop THEN "in" ELSE items[u]
        ELSE c.mem[u]]]

Larger(i, j) == IF i > j THEN i ELSE j

\* Their modes are added; of two parameters cmode_limit_sjoin_check picks the
\* larger.  Without modes in the SJOIN nothing changes.
MergeModes(c, m) ==
    [c EXCEPT !.modes = c.modes \cup m.modes,
              !.limit = Larger(c.limit, m.limit)]

\* The elements of S, each once, in some order.
Listed(S) ==
    CHOOSE q \in [1..Cardinality(S) -> S] : \A i, j \in DOMAIN q : q[i] = q[j] => i = j

\* One KICK for each of the users X, back to where the SJOIN came from.
KickBack(w, t, s, X) ==
    LET q == Listed(X)
    IN  [w EXCEPT !.link = [w.link EXCEPT ![t] = [w.link[t] EXCEPT ![s] =
            w.link[t][s] \o [i \in DOMAIN q |-> KICK(q[i])]]]]

\* cmd_sjoin
cmd_sjoin(w, t, s, m) ==
    LET old == w.chan[t]
        drop == RemoveTheirs(old, m.ts)
        mine == Meet(old, m.ts)
        X == Accepted(w, t, s, m)
        all == AddMembers(mine, X, m.items, drop)
        new == IF drop THEN all ELSE MergeModes(all, m)
        fwd == [m EXCEPT !.items = [u \in Users |->
                   IF u \in X THEN m.items[u] ELSE "out"]]
        w1 == KickBack(w, t, s, FakeDirection(w, t, s, m, mine))
    IN  SetChan(SendToServer(w1, t, s, fwd), t, sub1_from_channel(new))

\* cmd_part of a remote user, cmd_kick by a remote user or server: remote ones
\* are never refused; ignored if there is no such member.
cmd_leave(w, t, s, u, m) ==
    IF IsMember(w, t, u)
    THEN RemoveUsers(SendToServer(w, t, s, m), t, {u}) ELSE w

\* Variant with a plausible bug: a MODE with our own timestamp is ignored too.
ModeOnlyOlder(w, t, s, m) ==
    IF w.chan[t] = None THEN w
    ELSE IF m.ts >= w.chan[t].ts THEN w
    ELSE SetChan(SendToServer(w, t, s, m), t,
                 [w.chan[t] EXCEPT !.modes = w.chan[t].modes \cup m.modes])

\* cmd_mode and do_mode for a MODE with a timestamp: a newer one is ignored,
\* an older one sets ours.  It is passed on if it changed anything.
cmd_mode_server(w, t, s, m) ==
    LET c == w.chan[t]
        new == [c EXCEPT !.modes = c.modes \cup m.modes, !.ts = m.ts]
    IN  IF c = None THEN w
        ELSE IF m.ts > c.ts \/ new = c THEN w
        ELSE SetChan(SendToServer(w, t, s, IF new.modes # c.modes THEN m
                                           ELSE TSMODE(m.ts, {})),
                     t, new)

\* What a MODE by a user does to channel c.
Change(c, m) ==
    CASE m.type = "STATUS" ->
             IF c.mem[m.u] = "out" THEN c
             ELSE [c EXCEPT !.mem = [c.mem EXCEPT ![m.u] = m.st]]
      [] m.type = "FLAG" ->
             [c EXCEPT !.modes = IF m.on THEN c.modes \cup {m.mode}
                                 ELSE c.modes \ {m.mode}]
      [] m.type = "LIMIT" -> [c EXCEPT !.limit = m.limit]

\* cmd_mode and do_mode for a MODE by a user: applied if it comes from another
\* server, whatever the status of the user here; passed on if it changed
\* anything.
cmd_mode_user(w, t, s, m) ==
    LET c == w.chan[t]
    IN  IF c = None THEN w
        ELSE IF Change(c, m) = c THEN w
        ELSE SetChan(SendToServer(w, t, s, m), t, Change(c, m))

\* cmd_quit of a remote user.
cmd_quit(w, t, s, m) ==
    IF w.known[t][m.u] = None THEN w
    ELSE exit_one_client(SendToServer(w, t, s, m), t, {m.u})

\* cmd_squit: the servers behind a link lost elsewhere.
cmd_squit(w, t, s, m) ==
    exit_one_client(SendToServer(w, t, s, m), t,
        {u \in Users : w.known[t][u] = s /\ Home[u] \in m.servers})

\* cmd_uid, for users that are new here.
cmd_uid(w, t, s, m) ==
    LET new == {u \in m.users : w.known[t][u] = None}
    IN  SendToServer([w EXCEPT !.known = [w.known EXCEPT ![t] =
            [u \in Users |-> IF u \in new THEN s ELSE w.known[t][u]]]],
            t, s, UIDs(new))

Handle(w, t, s, m) ==
    CASE m.type = "UID" -> cmd_uid(w, t, s, m)
      [] m.type = "SJOIN" -> cmd_sjoin(w, t, s, m)
      [] m.type \in {"PART", "KICK"} -> cmd_leave(w, t, s, m.u, m)
      [] m.type = "TSMODE" -> cmd_mode_server(w, t, s, m)
      [] m.type \in {"STATUS", "FLAG", "LIMIT"} -> cmd_mode_user(w, t, s, m)
      [] m.type = "QUIT" -> cmd_quit(w, t, s, m)
      [] m.type = "SQUIT" -> cmd_squit(w, t, s, m)

Taken(s, t) ==
    [World EXCEPT !.link = [link EXCEPT ![s] =
        [link[s] EXCEPT ![t] = Tail(link[s][t])]]]

Receive(s, t) ==
    /\ s \in peers[t]
    /\ link[s][t] # <<>>
    /\ Head(link[s][t]) \notin {SERVER, EOF}
    /\ Become(Handle(Taken(s, t), t, s, Head(link[s][t])))
    /\ UNCHANGED <<count, entitled>>

-----------------------------------------------------------------------------
(* Linking and splitting *)

\* connect_server() and the handshake: the caller sends SERVER first.
Dial(s, t) ==
    /\ <<s, t>> \in Dials
    /\ t \notin peers[s] /\ s \notin peers[t]
    /\ link[s][t] = <<>> /\ link[t][s] = <<>>
    /\ Become(SendTo(World, s, {t}, SERVER))
    /\ UNCHANGED <<count, entitled>>

Only(mem, X) == [u \in Users |-> IF u \in X THEN mem[u] ELSE "out"]

\* send_channel_modes_sjoin3(): the modes and the members that fit go in the
\* first line, the members X that do not fit in a second one.
ChannelBurst(c, X) ==
    IF c = None THEN <<>>
    ELSE <<SJOIN(c.ts, Only(c.mem, Users \ X), c.modes, c.limit)>>
         \o IF X = {} THEN <<>>
            ELSE <<SJOIN(c.ts, Only(c.mem, X), {}, 0)>>

\* The X that send_channel_modes_sjoin3 may leave for a second line.
Overflow(c) ==
    IF c = None THEN {{}} ELSE (SUBSET Members(c)) \ {Members(c)}

\* cmd_server and server_sync: the side that was called replies, then every
\* user and the channel are sent over the new link.
cmd_server(w, t, s, X) ==
    LET reply == IF <<s, t>> \in Dials THEN <<SERVER>> ELSE <<>>
        users == <<UIDs({u \in Users : w.known[t][u] \notin {None, s}})>>
    IN  [w EXCEPT !.peers = [w.peers EXCEPT ![t] = w.peers[t] \cup {s}],
                  !.link = [w.link EXCEPT ![t] = [w.link[t] EXCEPT ![s] =
                      w.link[t][s] \o reply \o users
                                   \o ChannelBurst(w.chan[t], X)]]]

ReceiveServer(s, t) ==
    /\ s \notin peers[t]
    /\ link[s][t] # <<>>
    /\ Head(link[s][t]) = SERVER
    /\ \E X \in Overflow(chan[t]) : Become(cmd_server(Taken(s, t), t, s, X))
    /\ UNCHANGED <<count, entitled>>

\* s loses, or closes, the link to t: the first k messages under way to t
\* still arrive before the end of the connection, those to s do not.
Split(s, t, k) ==
    /\ "split" \in Inputs
    /\ count.splits < MaxSplits
    /\ t \in peers[s]
    /\ k \in 0..Len(link[s][t])
    /\ LET w == ExitServer(World, s, t)
       IN  Become([w EXCEPT !.link = [x \in Servers |-> [y \in Servers |->
                      IF x = s /\ y = t
                      THEN Append(SubSeq(link[s][t], 1, k), EOF)
                      ELSE IF x = t /\ y = s THEN <<>>
                      ELSE w.link[x][y]]]])
    /\ count' = [count EXCEPT !.splits = count.splits + 1]
    /\ UNCHANGED entitled

\* t notices that the connection is gone; what it has sent since is lost.
ReceiveEOF(s, t) ==
    /\ link[s][t] # <<>>
    /\ Head(link[s][t]) = EOF
    /\ LET w == IF s \in peers[t] THEN ExitServer(Taken(s, t), t, s)
                ELSE Taken(s, t)
       IN  Become([w EXCEPT !.link = [w.link EXCEPT ![t] =
                      [w.link[t] EXCEPT ![s] = <<>>]]])
    /\ UNCHANGED <<count, entitled>>

-----------------------------------------------------------------------------
(* Local users *)

Connected(u) == known[Home[u]][u] # None

\* do_join: status for the user who makes the channel (set::level-on-join).
LevelOnJoin(s) == IF chan[s] = None THEN "op" ELSE "in"

\* Only servers and not the joining user's direction are told.
JoinItems(u, st) == [v \in Users |-> IF v = u THEN st ELSE "out"]

\* do_join and join_channel: the channel is made if needed, the network gets an
\* SJOIN without modes, and the first user sets set::modes-on-join if no mode
\* is set.
LocalJoin(u, now) ==
    LET s == Home[u]
        st == LevelOnJoin(s)
        old == IF chan[s] = None THEN make_channel(now) ELSE chan[s]
        c == [old EXCEPT !.mem = [old.mem EXCEPT ![u] = st]]
        first == Members(c) = {u} /\ c.modes = {} /\ c.limit = 0 /\ OnJoin # {}
        w1 == SendTo(World, s, peers[s],
                     SJOIN(c.ts, JoinItems(u, st), {}, 0))
        w2 == IF first THEN SendTo(w1, s, peers[s], TSMODE(c.ts, OnJoin))
              ELSE w1
    IN  /\ count.joins < MaxJoins
        /\ Connected(u) /\ ~IsMember(World, s, u)
        /\ chan[s] # None => now = chan[s].ts
        /\ Become(SetChan(w2, s, IF first THEN [c EXCEPT !.modes = OnJoin]
                                 ELSE c))
        /\ count' = [count EXCEPT !.joins = count.joins + 1]
        /\ entitled' = entitled \cup
               (IF chan[s] = None THEN {<<u, now>>} ELSE {})

\* cmd_part of a local user.
LocalPart(u) ==
    LET s == Home[u]
    IN  /\ "part" \in Inputs
        /\ IsMember(World, s, u)
        /\ Become(RemoveUsers(SendToServer(World, s, s, PART(u)), s, {u}))
        /\ UNCHANGED <<count, entitled>>

\* cmd_kick by a local channel operator.
LocalKick(o, u) ==
    LET s == Home[o]
    IN  /\ "kick" \in Inputs
        /\ count.changes < MaxChanges
        /\ IsOp(World, s, o)
        /\ IsMember(World, s, u)
        /\ Become(RemoveUsers(SendToServer(World, s, s, KICK(u)), s, {u}))
        /\ count' = [count EXCEPT !.changes = count.changes + 1]
        /\ UNCHANGED entitled

Changes ==
    [type : {"STATUS"}, u : Users, st : {"in", "op"}]
    \cup [type : {"FLAG"}, mode : Modes, on : BOOLEAN]
    \cup [type : {"LIMIT"}, limit : Limits \cup {0}]

\* cmd_mode by a local channel operator; passed on if it changed anything.
LocalMode(o, m) ==
    LET s == Home[o]
    IN  /\ "mode" \in Inputs
        /\ count.changes < MaxChanges
        /\ IsOp(World, s, o)
        /\ Change(chan[s], m) # chan[s]
        /\ Become(SetChan(SendToServer(World, s, s, m), s,
                          Change(chan[s], m)))
        /\ count' = [count EXCEPT !.changes = count.changes + 1]
        /\ entitled' = entitled \cup
               {<<u, chan[s].ts>> : u \in {v \in Users : m = STATUS(v, "op")}}

\* cmd_quit, or a lost connection, of a local user.
LocalQuit(u) ==
    /\ "quit" \in Inputs
    /\ Connected(u)
    /\ Become(exit_one_client(SendToServer(World, Home[u], Home[u], QUIT(u)),
                              Home[u], {u}))
    /\ UNCHANGED <<count, entitled>>

-----------------------------------------------------------------------------
\* On an unlinked server the channel may be in any state its users brought it
\* into; on a linked network it does not exist yet.
InitChan(s) ==
    {None} \cup
    IF StartLinked THEN {}
    ELSE {c \in Channel : /\ Members(c) # {}
                          /\ \A u \in Members(c) : Home[u] = s}

Init ==
    /\ chan \in {f \in [Servers -> Channel \cup {None}] :
                     \A s \in Servers : f[s] \in InitChan(s)}
    /\ known = [s \in Servers |-> [u \in Users |->
                   IF StartLinked \/ Home[u] = s THEN Hop[s][Home[u]]
                   ELSE None]]
    /\ peers = [s \in Servers |->
                   {t \in Servers : /\ StartLinked
                                    /\ <<s, t>> \in Dials \/ <<t, s>> \in Dials}]
    /\ link = [s \in Servers |-> [t \in Servers |-> <<>>]]
    /\ count = [joins |-> 0, changes |-> 0, splits |-> 0]
    /\ entitled = {e \in Users \X Times : \E s \in Servers :
                      IsOp(World, s, e[1]) /\ chan[s].ts = e[2]}

UserStep ==
    \E u \in Users :
        \/ \E now \in Times : LocalJoin(u, now)
        \/ LocalPart(u)
        \/ \E v \in Users : LocalKick(u, v)
        \/ \E m \in Changes : LocalMode(u, m)
        \/ LocalQuit(u)

ServerStep ==
    \E s \in Servers : \E t \in Servers \ {s} :
        \/ Receive(s, t)
        \/ ReceiveServer(s, t)
        \/ ReceiveEOF(s, t)
        \/ Dial(s, t)
        \/ \E k \in 0..Len(link[s][t]) : Split(s, t, k)

Next == UserStep \/ ServerStep

Spec == Init /\ [][Next]_vars

-----------------------------------------------------------------------------
(* Properties *)

\* The tables, the queues and the counters hold what they may hold.
TypeOK ==
    /\ chan \in [Servers -> Channel \cup {None}]
    /\ known \in [Servers -> [Users -> Servers \cup {None}]]
    /\ peers \in [Servers -> SUBSET Servers]
    /\ link \in [Servers -> [Servers -> Seq(Message)]]
    /\ count \in [joins : 0..MaxJoins, changes : 0..MaxChanges,
                  splits : 0..MaxSplits]
    /\ entitled \subseteq Users \X Times

\* A channel exists at a server exactly while somebody is in it: no order of
\* PART, KICK, QUIT, SQUIT and SJOIN leaves an empty channel in the tables.
NoEmptyChannel ==
    \A s \in Servers : chan[s] # None => Members(chan[s]) # {}

\* Every member is a client the server knows: removing a client, alone or with
\* the servers behind a lost link, leaves no membership behind.
MembersKnown ==
    \A s \in Servers, u \in Users :
        IsMember(World, s, u) => known[s][u] # None

\* While a channel exists its creation time never goes up: no message makes
\* a server believe that its channel is younger than it knew.
TSNeverNewer ==
    [][\A s \in Servers :
           chan[s] # None /\ chan'[s] # None => chan'[s].ts <= chan[s].ts]_vars

\* Whoever has status at a server founded the channel with the creation time
\* that server has, or was given it by an operator of that very channel: a
\* younger channel with the same name gives no status, in whatever order the
\* SJOINs arrive.
StatusEarned ==
    \A s \in Servers, u \in Users :
        IsOp(World, s, u) => <<u, chan[s].ts>> \in entitled

Quiet == \A s, t \in Servers : link[s][t] = <<>>

LinkedPair(s, t) == s \in peers[t] /\ t \in peers[s]

\* Once every message has been processed, linked servers have the same members
\* in the channel: users joining, leaving and quitting at once on several
\* servers, and links lost with messages under way, end in the same set.  A KICK
\* that crosses a PART and a new JOIN takes effect on one side only, so this is
\* about networks without kicks and mode changes.
MembersAgree ==
    Quiet /\ count.changes = 0 => \A s, t \in Servers, u \in Users :
        LinkedPair(s, t) => (IsMember(World, s, u) <=> IsMember(World, t, u))

\* ... and they agree on the creation time and on who is channel operator:
\* the side that drops another's status and the side that loses it agree.
StatusAgrees ==
    Quiet => \A s, t \in Servers :
        LinkedPair(s, t) /\ chan[s] # None /\ chan[t] # None =>
            /\ chan[s].ts = chan[t].ts
            /\ \A u \in Users : IsOp(World, s, u) <=> IsOp(World, t, u)

\* ... and on the channel's modes and lists, which the SJOINs "synchronize".
ModesAgree ==
    Quiet => \A s, t \in Servers :
        LinkedPair(s, t) /\ chan[s] # None /\ chan[t] # None =>
            chan[s].modes = chan[t].modes /\ chan[s].limit = chan[t].limit
=============================================================================
