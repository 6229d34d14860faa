------------------------------ MODULE NickSync ------------------------------
(***************************************************************************)
(* Nicknames across a network of linked servers: the NICK, UID, KILL and   *)
(* QUIT handlers (src/modules/nick.c, kill.c, quit.c), the lookup of a     *)
(* message's sender (src/parse.c) and the user part of the burst that two  *)
(* servers exchange when they link (src/modules/server.c).                 *)
(*                                                                         *)
(* Every server keeps its own table of the users of the whole network.     *)
(* Servers form a tree, and a link delivers in order.  Each server settles *)
(* a nickname collision alone, from the timestamps and user@hosts it sees, *)
(* while the other servers do the same with other messages in flight.      *)
(*                                                                         *)
(* A handler is an operator on a World (the record of all variables) that  *)
(* returns the world after it; an action ends with Become.                 *)
(***************************************************************************)
EXTENDS Integers, FiniteSets, Sequences

CONSTANTS
    Servers,    \* the servers
    Users,      \* one per client connection (its UID)
    Nicks,      \* nicknames, compared case-insensitively
    Times,      \* values of TStime() when a nick is taken, any clock
    Home,       \* Home[u]: the server client u connects to
    UserHost,   \* UserHost[u]: its username@realhost
    Dials,      \* pairs <<s, t>>: s has a link block to connect to t
    Linked,     \* pairs of Dials that are linked in the initial state
    Inputs,     \* which environment inputs may happen
    MaxRenames, \* bound on the nick changes of registered users
    None        \* no entry

ASSUME NoneAssumption == None \notin [nick : Nicks, ts : Times, dir : Servers]
ASSUME HomeAssumption == Home \in [Users -> Servers]
ASSUME UsersAssumption == IsFiniteSet(Users)
ASSUME MaxRenamesAssumption == MaxRenames \in Nat
ASSUME DialsAssumption ==
    /\ Dials \subseteq Servers \X Servers
    /\ Linked \subseteq Dials
    /\ \A d \in Dials : d[1] # d[2] /\ <<d[2], d[1]>> \notin Dials

VARIABLES
    view,    \* view[s][u]: what the hash tables of s hold of client u, or None
    stage,   \* stage[u]: "none", "handshake", "user" or "gone", at its home
    peers,   \* peers[s]: server_list, the servers s is directly linked to
    link,    \* link[s][t]: messages sent by s that t has not processed
    dialed,  \* the members of Dials that have been connected
    renames, \* nick changes of registered users so far
    claims   \* history: every <<user, nick, ts>> its home has announced

vars == <<view, stage, peers, link, dialed, renames, claims>>

Entry == [nick : Nicks, ts : Times, dir : Servers]
Stages == {"none", "handshake", "user", "gone"}

World == [view |-> view, stage |-> stage, peers |-> peers, link |-> link]

Become(w) ==
    /\ view' = w.view
    /\ stage' = w.stage
    /\ peers' = w.peers
    /\ link' = w.link

-----------------------------------------------------------------------------
(* Messages *)

SERVER == [type |-> "SERVER"]
UID(u, e) == [type |-> "UID", u |-> u, nick |-> e.nick, ts |-> e.ts]
NICK(u, e) == [type |-> "NICK", u |-> u, nick |-> e.nick, ts |-> e.ts]
QUIT(u) == [type |-> "QUIT", u |-> u]

\* src is the sender: a server, or the operator who gave the command.
KILL(src, u) == [type |-> "KILL", src |-> src, u |-> u, ghost |-> FALSE]

\* remove_unknown(): the same command with the reason "Ghost user".
GHOST(src, u) == [type |-> "KILL", src |-> src, u |-> u, ghost |-> TRUE]

Message ==
    {SERVER}
    \cup [type : {"UID", "NICK"}, u : Users, nick : Nicks, ts : Times]
    \cup [type : {"QUIT"}, u : Users]
    \cup [type : {"KILL"}, src : Servers \cup Users, u : Users, ghost : BOOLEAN]

SendTo(w, s, T, m) ==
    [w EXCEPT !.link[s] =
        [t \in Servers |-> IF t \in T THEN Append(@[t], m) ELSE @[t]]]

\* sendto_server(one, ...): to every linked server except the direction of one.
SendToServer(w, s, but, m) == SendTo(w, s, w.peers[s] \ {but}, m)

-----------------------------------------------------------------------------
(* The client tables of one server *)

\* find_client(nick): the clients holding n at s (never two, see NickUnique).
Holders(w, s, n) ==
    {u \in Users : w.view[s][u] # None /\ w.view[s][u].nick = n}

\* IsUnknown(u) && MyConnect(u): a local connection still in its handshake.
InHandshake(w, s, u) == Home[u] = s /\ w.stage[u] = "handshake"

IsUser(w, s, u) == w.view[s][u] # None /\ ~InHandshake(w, s, u)

\* Variant with a plausible bug: only other servers' clients are unhashed.
UnhashRemoteOnly(w, s, u) ==
    [w EXCEPT !.view[s][u] = IF Home[u] = s THEN @ ELSE None,
              !.stage[u] = IF Home[u] = s THEN "gone" ELSE @]

\* exit_one_client(): out of the id and nick tables; a local one disconnects.
exit_one_client(w, s, u) ==
    [w EXCEPT !.view[s][u] = None,
              !.stage[u] = IF Home[u] = s THEN "gone" ELSE @]

\* exit_client() of a client on which SetKilled() was done: no QUIT is sent.
ExitKilled(w, s, u) == exit_one_client(w, s, u)

\* Local connections in their handshake whose nick somebody takes
\* ("Overridden"); nobody else knows of them.
Override(w, s, X) ==
    [w EXCEPT !.view[s] = [u \in Users |-> IF u \in X THEN None ELSE @[u]],
              !.stage = [u \in Users |-> IF u \in X THEN "gone" ELSE @[u]]]

\* exit_client() otherwise: a QUIT to all servers but those it came from.
ExitQuit(w, s, u) ==
    exit_one_client(IF IsUser(w, s, u)
                    THEN SendToServer(w, s, w.view[s][u].dir, QUIT(u)) ELSE w,
                    s, u)

-----------------------------------------------------------------------------
(* nick_collision() *)

Differ(u, v) == UserHost[u] # UserHost[v]

\* Variant with a plausible bug: the user@host is not looked at.
VerdictIgnoresHost(e, ets, u, ts) ==
    IF ets = ts THEN "EQUAL" ELSE IF ets > ts THEN "NEW_WON" ELSE "EXISTING_WON"

\* The comparison cmd_uid and cmd_nick_remote make between the existing
\* holder e, with timestamp ets, and the newcomer u, with timestamp ts.
Verdict(e, ets, u, ts) ==
    IF ets = ts THEN "EQUAL"
    ELSE IF Differ(e, u) = (ets > ts) THEN "NEW_WON"
    ELSE "EXISTING_WON"

\* Nobody but the sending side knows a new user yet: kill it there.  One that
\* is changing its nick is known everywhere and is exited here too.
KillNew(w, t, s, u, changing) ==
    LET w1 == SendTo(w, t, {s}, KILL(t, u))
    IN  IF changing
        THEN ExitKilled(SendToServer(w1, t, s, KILL(t, u)), t, u)
        ELSE w1

KillExisting(w, t, e) ==
    ExitKilled(SendTo(w, t, w.peers[t], KILL(t, e)), t, e)

nick_collision(w, t, s, u, changing, e, verdict) ==
    LET w1 == IF verdict \in {"EQUAL", "EXISTING_WON"}
              THEN KillNew(w, t, s, u, changing) ELSE w
    IN  IF verdict \in {"EQUAL", "NEW_WON"} THEN KillExisting(w1, t, e) ELSE w1

-----------------------------------------------------------------------------
(* Messages from a linked server: t processes m, received from s *)

\* The new user enters the tables and is introduced to the other servers.
Introduce(w, t, s, m) ==
    SendToServer([w EXCEPT !.view[t][m.u] =
                      [nick |-> m.nick, ts |-> m.ts, dir |-> s]],
                 t, s, m)

\* cmd_uid
cmd_uid(w, t, s, m) ==
    IF Holders(w, t, m.nick) = {} THEN Introduce(w, t, s, m)
    ELSE LET e == CHOOSE x \in Holders(w, t, m.nick) : TRUE
             v == LET c == Verdict(e, w.view[t][e].ts, m.u, m.ts)
                  IN  IF c # "EQUAL" /\ w.view[t][e].dir = s
                      THEN "NEW_WON" ELSE c
         IN  IF InHandshake(w, t, e)
             THEN Introduce(Override(w, t, {e}), t, s, m)
             ELSE LET w1 == nick_collision(w, t, s, m.u, FALSE, e, v)
                  IN  IF v = "NEW_WON" THEN Introduce(w1, t, s, m) ELSE w1

\* The rename at the end of cmd_nick_remote, passed on to the other servers.
Rename(w, t, s, m) ==
    SendToServer([w EXCEPT !.view[t][m.u] =
                      [nick |-> m.nick, ts |-> m.ts, dir |-> s]],
                 t, s, m)

\* Variant with a plausible bug: no collision check.
RenameUnchecked(w, t, s, m) == Rename(w, t, s, m)

\* cmd_nick_remote
cmd_nick_remote(w, t, s, m) ==
    LET others == Holders(w, t, m.nick) \ {m.u}
    IN  IF others = {} THEN Rename(w, t, s, m)
        ELSE LET e == CHOOSE x \in others : TRUE
                 v == Verdict(e, w.view[t][e].ts, m.u, m.ts)
             IN  IF InHandshake(w, t, e)
                 THEN Rename(Override(w, t, {e}), t, s, m)
                 ELSE LET w1 == nick_collision(w, t, s, m.u, TRUE, e, v)
                      IN  IF v = "NEW_WON" THEN Rename(w1, t, s, m) ELSE w1

\* Variant with a plausible bug: a KILL for an unknown user is sent back.
KillReturned(w, t, s, m) ==
    IF ~IsUser(w, t, m.u) THEN SendTo(w, t, {s}, KILL(t, m.u))
    ELSE IF Home[m.u] = t /\ m.src = s THEN ExitQuit(w, t, m.u)
    ELSE ExitKilled(SendToServer(w, t, s, m), t, m.u)

\* Variant with a plausible bug: the KILL is not passed on.
KillNotForwarded(w, t, s, m) ==
    IF ~IsUser(w, t, m.u) THEN w
    ELSE IF Home[m.u] = t /\ m.src = s THEN ExitQuit(w, t, m.u)
    ELSE ExitKilled(w, t, m.u)

\* cmd_kill for a message from another server.  If both the victim and the
\* source are connected to this server the exit is announced as a QUIT.
cmd_kill(w, t, s, m) ==
    IF ~IsUser(w, t, m.u) THEN w
    ELSE IF Home[m.u] = t /\ m.src = s THEN ExitQuit(w, t, m.u)
    ELSE ExitKilled(SendToServer(w, t, s, m), t, m.u)

\* cmd_quit of a remote user.
cmd_quit(w, t, s, m) == ExitQuit(w, t, m.u)

\* cmd_server and the user part of server_sync: the side that was called
\* replies, then every user not behind the new link is introduced, in the
\* order of client_list (any order here).
Burst(w, t, s, order) ==
    [w EXCEPT !.link[t][s] =
        @ \o [i \in DOMAIN order |-> UID(order[i], w.view[t][order[i]])]]

cmd_server(w, t, s, order) ==
    LET w1 == [w EXCEPT !.peers[t] = @ \cup {s}]
        w2 == IF <<s, t>> \in dialed THEN SendTo(w1, t, {s}, SERVER) ELSE w1
    IN  Burst(w2, t, s, order)

\* parse(): the sender of the message is looked up first; a user t does not
\* know is taken for a ghost and killed on the link the message came from.
Sender(m) == IF m.type = "KILL" THEN m.src ELSE m.u

\* Variant with a plausible bug: the client a UID introduces is looked up as if
\* it were the sender.
UnknownIntroduced(w, t, m) == Sender(m) \in Users /\ w.view[t][Sender(m)] = None

UnknownSender(w, t, m) ==
    m.type # "UID" /\ Sender(m) \in Users /\ w.view[t][Sender(m)] = None

\* A sender that cannot be behind that link is refused (cancel_clients()).
WrongDirection(w, t, s, m) ==
    IF m.type = "UID" THEN Home[m.u] = t
    ELSE Sender(m) \in Users /\ w.view[t][Sender(m)].dir # s

remove_unknown(w, t, s, m) == SendTo(w, t, {s}, GHOST(t, Sender(m)))

Handle(w, t, s, m) ==
    IF UnknownSender(w, t, m) THEN remove_unknown(w, t, s, m)
    ELSE IF WrongDirection(w, t, s, m) THEN w
    ELSE CASE m.type = "UID" -> cmd_uid(w, t, s, m)
           [] m.type = "NICK" -> cmd_nick_remote(w, t, s, m)
           [] m.type = "KILL" -> cmd_kill(w, t, s, m)
           [] m.type = "QUIT" -> cmd_quit(w, t, s, m)

Taken(s, t) == [World EXCEPT !.link[s][t] = Tail(@)]

Receive(s, t) ==
    /\ link[s][t] # <<>>
    /\ Head(link[s][t]) # SERVER
    /\ Become(Handle(Taken(s, t), t, s, Head(link[s][t])))
    /\ UNCHANGED <<dialed, renames, claims>>

\* The orders in which a list of the elements of S may be walked.
Orders(S) ==
    {q \in [1..Cardinality(S) -> S] : \A i, j \in DOMAIN q : q[i] = q[j] => i = j}

ReceiveServer(s, t) ==
    /\ link[s][t] # <<>>
    /\ Head(link[s][t]) = SERVER
    /\ \E order \in Orders({u \in Users : IsUser(World, t, u)}) :
           Become(cmd_server(Taken(s, t), t, s, order))
    /\ UNCHANGED <<dialed, renames, claims>>

-----------------------------------------------------------------------------
(* Local clients and operators *)

\* cmd_nick_local before registration: the first NICK stamps the client, a
\* later one only renames it.  Another local handshake on the nick is ended.
HandshakeNick(u, n, ts) ==
    LET s == Home[u]
        others == Holders(World, s, n) \ {u}
    IN  /\ stage[u] \in {"none", "handshake"}
        /\ stage[u] = "handshake" => ts = view[s][u].ts /\ n # view[s][u].nick
        /\ \A e \in others : InHandshake(World, s, e)
        /\ LET w == Override(World, s, others)
           IN  Become([w EXCEPT !.stage[u] = "handshake",
                       !.view[s][u] = [nick |-> n, ts |-> ts, dir |-> s]])
        /\ UNCHANGED <<dialed, renames, claims>>

\* register_user() and welcome_user(): the user is announced to the network.
Register(u) ==
    LET s == Home[u]
    IN  /\ stage[u] = "handshake"
        /\ Become([SendToServer(World, s, s, UID(u, view[s][u]))
                       EXCEPT !.stage[u] = "user"])
        /\ claims' = claims \cup {<<u, view[s][u].nick, view[s][u].ts>>}
        /\ UNCHANGED <<dialed, renames>>

\* cmd_nick_local of a registered user.  The same nick is a change of case,
\* which is a nick change with a new timestamp too.
LocalNick(u, n, ts) ==
    LET s == Home[u]
        others == Holders(World, s, n) \ {u}
        e == [nick |-> n, ts |-> ts, dir |-> s]
    IN  /\ "rename" \in Inputs
        /\ renames < MaxRenames
        /\ stage[u] = "user"
        /\ \A x \in others : InHandshake(World, s, x)
        /\ LET w == Override(World, s, others)
           IN  Become(SendToServer([w EXCEPT !.view[s][u] = e],
                                   s, s, NICK(u, e)))
        /\ renames' = renames + 1
        /\ claims' = claims \cup {<<u, n, ts>>}
        /\ UNCHANGED dialed

\* cmd_quit, or a lost connection, of a local client.
LocalQuit(u) ==
    /\ "quit" \in Inputs
    /\ stage[u] \in {"handshake", "user"}
    /\ Become(ExitQuit(World, Home[u], u))
    /\ UNCHANGED <<dialed, renames, claims>>

\* cmd_kill by a local operator o.
LocalKill(o, u) ==
    LET s == Home[o]
    IN  /\ "kill" \in Inputs
        /\ stage[o] = "user"
        /\ IsUser(World, s, u)
        /\ Become(IF Home[u] = s THEN ExitQuit(World, s, u)
                  ELSE ExitKilled(SendTo(World, s, peers[s], KILL(o, u)), s, u))
        /\ UNCHANGED <<dialed, renames, claims>>

\* connect_server() and the start of the handshake: the caller sends SERVER.
Dial(s, t) ==
    /\ <<s, t>> \in Dials \ dialed
    /\ dialed' = dialed \cup {<<s, t>>}
    /\ Become(SendTo(World, s, {t}, SERVER))
    /\ UNCHANGED <<renames, claims>>

-----------------------------------------------------------------------------
Init ==
    /\ view = [s \in Servers |-> [u \in Users |-> None]]
    /\ stage = [u \in Users |-> "none"]
    /\ peers = [s \in Servers |->
                   {t \in Servers : <<s, t>> \in Linked \/ <<t, s>> \in Linked}]
    /\ link = [s \in Servers |-> [t \in Servers |-> <<>>]]
    /\ dialed = Linked
    /\ renames = 0
    /\ claims = {}

ClientStep ==
    \E u \in Users :
        \/ \E n \in Nicks, ts \in Times : HandshakeNick(u, n, ts)
        \/ Register(u)
        \/ \E n \in Nicks, ts \in Times : LocalNick(u, n, ts)
        \/ LocalQuit(u)
        \/ \E v \in Users : LocalKill(u, v)

ServerStep ==
    \E s \in Servers : \E t \in Servers \ {s} :
        \/ Receive(s, t)
        \/ ReceiveServer(s, t)
        \/ Dial(s, t)

Next == ClientStep \/ ServerStep

Spec == Init /\ [][Next]_vars

\* The event loop of every server keeps reading its links.
FairSpec ==
    /\ Spec
    /\ \A s, t \in Servers :
           WF_vars(Receive(s, t)) /\ WF_vars(ReceiveServer(s, t))

-----------------------------------------------------------------------------
(* Properties *)

\* The tables, the queues and the connection stages hold what they may hold.
TypeOK ==
    /\ view \in [Servers -> [Users -> Entry \cup {None}]]
    /\ stage \in [Users -> Stages]
    /\ peers \in [Servers -> SUBSET Servers]
    /\ link \in [Servers -> [Servers -> Seq(Message)]]
    /\ dialed \subseteq Dials
    /\ renames \in 0..MaxRenames
    /\ claims \subseteq Users \X Nicks \X Times

\* No server ever holds two clients under one nickname, whichever collisions
\* are being settled elsewhere: find_client() by name is unambiguous.
NickUnique ==
    \A s \in Servers : \A u, v \in Users :
        /\ view[s][u] # None
        /\ view[s][v] # None
        /\ view[s][u].nick = view[s][v].nick
        => u = v

\* A client is in the tables of the server it is connected to, as a local
\* client, exactly while it is connected: no exit path leaves it findable.
AtHome ==
    \A u \in Users :
        IF stage[u] \in {"handshake", "user"}
        THEN /\ view[Home[u]][u] # None
             /\ view[Home[u]][u].dir = Home[u]
        ELSE view[Home[u]][u] = None

Quiet == \A s, t \in Servers : link[s][t] = <<>>

Known(s) == {u \in Users : IsUser(World, s, u)}

\* Once every message has been processed, linked servers know the same users
\* under the same nicks with the same timestamps: the collisions, each settled
\* by every server alone, were settled alike.
QuietAgreement ==
    Quiet => \A s \in Servers : \A t \in peers[s] :
        /\ Known(s) = Known(t)
        /\ \A u \in Known(s) : /\ view[s][u].nick = view[t][u].nick
                               /\ view[s][u].ts = view[t][u].ts

\* A "Ghost user" KILL (remove_unknown in parse.c) is only ever an echo of a
\* removal the other server already made: when it arrives its target is gone
\* there, it never disconnects a user who is still alive.
GhostKillIsEcho ==
    \A s, t \in Servers :
        LET q == link[s][t]
        IN  q # <<>> /\ Head(q).type = "KILL" /\ Head(q).ghost
            => view[t][Head(q).u] = None

\* c, a claim of one user, loses to or ties with claim d of another.
Beaten(c, d) ==
    /\ c[1] # d[1]
    /\ c[2] = d[2]
    /\ IF Differ(c[1], d[1]) THEN d[3] <= c[3] ELSE d[3] >= c[3]

\* A collision disconnects a user only for a nick it lost or tied: if a
\* message from another server ends a registered client, some claim of that
\* client is beaten by a claim of somebody else.  A server further away that
\* sees the claims in another order never kills the rightful holder.
OnlyLosersKilled ==
    [][\A u \in Users :
           /\ stage[u] = "user" /\ stage'[u] = "gone"
           /\ \E s \in Servers : Len(link'[s][Home[u]]) < Len(link[s][Home[u]])
           => \E c, d \in claims : c[1] = u /\ Beaten(c, d)]_vars

\* The servers never keep killing and re-announcing: as long as the clients
\* are still, the links eventually run empty.
Settles == []<>Quiet
=============================================================================
