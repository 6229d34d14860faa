--------------------------- MODULE NickSyncProofs ---------------------------
(***************************************************************************)
(* Proofs about NickSync: for any tree of servers, set of users, nicks and *)
(* timestamps, the tables stay well typed and no server ever holds two     *)
(* clients under one nick.  A handler is an operator on worlds, so each    *)
(* gets one lemma: it takes a good world to a good world.                  *)
(***************************************************************************)
EXTENDS NickSync, FiniteSetTheorems, TLAPS

WorldType ==
    [view : [Servers -> [Users -> Entry \cup {None}]],
     stage : [Users -> Stages],
     peers : [Servers -> SUBSET Servers],
     link : [Servers -> [Servers -> Seq(Message)]]]

\* NickUnique of the world w.
Unique(w) ==
    \A s \in Servers : \A u, v \in Users :
        /\ w.view[s][u] # None
        /\ w.view[s][v] # None
        /\ w.view[s][u].nick = w.view[s][v].nick
        => u = v

\* AtHome of the world w.
Homed(w) ==
    \A u \in Users :
        IF w.stage[u] \in {"handshake", "user"}
        THEN w.view[Home[u]][u] # None /\ w.view[Home[u]][u].dir = Home[u]
        ELSE w.view[Home[u]][u] = None

Good(w) == w \in WorldType /\ Unique(w) /\ Homed(w)

-----------------------------------------------------------------------------
(* Messages and sending *)

\* Every message a handler builds is a member of Message.
LEMMA MessageTypes ==
    /\ SERVER \in Message
    /\ \A u \in Users, e \in Entry : UID(u, e) \in Message /\ NICK(u, e) \in Message
    /\ \A u \in Users : QUIT(u) \in Message
    /\ \A src \in Servers \cup Users, u \in Users :
           KILL(src, u) \in Message /\ GHOST(src, u) \in Message
BY DEF SERVER, UID, NICK, QUIT, KILL, GHOST, Message, Entry

\* sendto_server() and sendto_one() only touch the queues.
LEMMA SendToGood ==
    ASSUME NEW w \in WorldType, NEW s \in Servers, NEW T, NEW m \in Message
    PROVE  /\ SendTo(w, s, T, m) \in WorldType
           /\ SendTo(w, s, T, m).view = w.view
           /\ SendTo(w, s, T, m).stage = w.stage
           /\ SendTo(w, s, T, m).peers = w.peers
<1> DEFINE q == [t \in Servers |-> IF t \in T THEN Append(w.link[s][t], m)
                                   ELSE w.link[s][t]]
<1>1. q \in [Servers -> Seq(Message)]
  BY DEF WorldType
<1>2. SendTo(w, s, T, m) = [w EXCEPT !.link = [w.link EXCEPT ![s] = q]]
  BY DEF SendTo, WorldType
<1>3. [w.link EXCEPT ![s] = q] \in [Servers -> [Servers -> Seq(Message)]]
  BY <1>1 DEF WorldType
<1> HIDE DEF q
<1> QED BY <1>2, <1>3, ZenonT(90) DEF WorldType

\* Sending keeps a world good.
LEMMA SendKeepsGood ==
    ASSUME NEW w, Good(w), NEW s \in Servers, NEW T, NEW m \in Message
    PROVE  Good(SendTo(w, s, T, m))
BY SendToGood DEF Good, Unique, Homed

-----------------------------------------------------------------------------
(* The tables *)

\* Removing a client keeps a world good.
LEMMA RemoveGood ==
    ASSUME NEW w, Good(w), NEW s \in Servers, NEW u \in Users
    PROVE  /\ Good(exit_one_client(w, s, u))
           /\ exit_one_client(w, s, u).view[s][u] = None
           /\ \A v \in Users \ {u} :
                  exit_one_client(w, s, u).view[s][v] = w.view[s][v]
           /\ exit_one_client(w, s, u).peers = w.peers
<1> DEFINE r == exit_one_client(w, s, u)
<1>0. w \in WorldType /\ Unique(w) /\ Homed(w)
  BY DEF Good
<1> DEFINE nv == [w.view EXCEPT ![s][u] = None]
           ns == [w.stage EXCEPT ![u] = IF Home[u] = s THEN "gone" ELSE w.stage[u]]
<1>1. r = [w EXCEPT !.view = nv, !.stage = ns]
  BY <1>0 DEF exit_one_client, WorldType
<1>2. r.view = nv /\ r.stage = ns /\ ns \in [Users -> Stages]
  BY <1>0, <1>1 DEF WorldType, Stages
<1>3. r.view \in [Servers -> [Users -> Entry \cup {None}]]
  BY <1>0, <1>2 DEF WorldType
<1>4. r \in WorldType
  BY <1>0, <1>1, <1>2, <1>3, ZenonT(90) DEF WorldType, Stages
<1>5. \A x \in Servers, v \in Users :
          r.view[x][v] = IF x = s /\ v = u THEN None ELSE w.view[x][v]
  BY <1>0, <1>2 DEF WorldType
<1>6. /\ r.peers = w.peers
      /\ \A v \in Users :
             r.stage[v] = IF v = u /\ Home[u] = s THEN "gone" ELSE w.stage[v]
  BY <1>0, <1>1 DEF WorldType
<1> HIDE DEF r
<1>7. Unique(r)
  BY <1>0, <1>5 DEF Unique
<1>8. Homed(r)
  BY <1>0, <1>5, <1>6, HomeAssumption DEF Homed
<1> QED BY <1>4, <1>5, <1>6, <1>7, <1>8 DEF Good, r

\* Overriding handshakes keeps a world good and frees what they held.
LEMMA OverrideGood ==
    ASSUME NEW w, Good(w), NEW s \in Servers, NEW X \in SUBSET Users,
           \A x \in X : Home[x] = s
    PROVE  /\ Good(Override(w, s, X))
           /\ \A u \in Users : Override(w, s, X).view[s][u]
                                   = IF u \in X THEN None ELSE w.view[s][u]
           /\ Override(w, s, X).peers = w.peers
           /\ \A u \in Users : Override(w, s, X).stage[u]
                                   = IF u \in X THEN "gone" ELSE w.stage[u]
<1> DEFINE r == Override(w, s, X)
           nv == [u \in Users |-> IF u \in X THEN None ELSE w.view[s][u]]
           ns == [u \in Users |-> IF u \in X THEN "gone" ELSE w.stage[u]]
<1>0. w \in WorldType /\ Unique(w) /\ Homed(w)
  BY DEF Good
<1>1. r = [w EXCEPT !.view = [w.view EXCEPT ![s] = nv], !.stage = ns]
  BY <1>0 DEF Override, WorldType
<1>2. nv \in [Users -> Entry \cup {None}] /\ ns \in [Users -> Stages]
  BY <1>0 DEF WorldType, Stages
<1>3. \A x \in Servers, v \in Users :
          r.view[x][v] = IF x = s /\ v \in X THEN None ELSE w.view[x][v]
  BY <1>0, <1>1 DEF WorldType
<1> HIDE DEF nv, ns
<1>4. r.view = [w.view EXCEPT ![s] = nv] /\ r.stage = ns /\ r.peers = w.peers
  BY <1>0, <1>1 DEF WorldType
<1>5. r.view \in [Servers -> [Users -> Entry \cup {None}]]
  BY <1>0, <1>2, <1>4 DEF WorldType
<1>6. r \in WorldType
  BY <1>0, <1>1, <1>2, <1>4, <1>5, Zenon DEF WorldType
<1> HIDE DEF r
<1>7. Unique(r)
  BY <1>0, <1>3 DEF Unique
<1>8. \A v \in Users : r.stage[v] = IF v \in X THEN "gone" ELSE w.stage[v]
  BY <1>4 DEF ns
<1>9. Homed(r)
  BY <1>0, <1>3, <1>8, HomeAssumption DEF Homed
<1> QED BY <1>3, <1>4, <1>6, <1>7, <1>8, <1>9 DEF Good, r

\* Entering a client under a nick nobody else holds keeps a world good.
LEMMA PutGood ==
    ASSUME NEW w, Good(w), NEW s \in Servers, NEW u \in Users, NEW e \in Entry,
           Holders(w, s, e.nick) \subseteq {u},
           Home[u] = s => /\ e.dir = s
                          /\ w.stage[u] \in {"handshake", "user"}
    PROVE  /\ Good([w EXCEPT !.view[s][u] = e])
           /\ [w EXCEPT !.view[s][u] = e].peers = w.peers
<1> DEFINE r == [w EXCEPT !.view[s][u] = e]
<1>0. w \in WorldType /\ Unique(w) /\ Homed(w)
  BY DEF Good
<1>1. r.view = [w.view EXCEPT ![s][u] = e] /\ r.peers = w.peers
      /\ r.stage = w.stage /\ r.link = w.link
  BY <1>0 DEF WorldType
<1>2. r.view \in [Servers -> [Users -> Entry \cup {None}]]
  BY <1>0, <1>1 DEF WorldType
<1>3. r \in WorldType
  BY <1>0, <1>1, <1>2, ZenonT(90) DEF WorldType
<1>4. \A x \in Servers, v \in Users :
          r.view[x][v] = IF x = s /\ v = u THEN e ELSE w.view[x][v]
  BY <1>0, <1>1 DEF WorldType
<1> HIDE DEF r
<1>5. \A v \in Users \ {u} : w.view[s][v] # None => w.view[s][v].nick # e.nick
  BY DEF Holders
<1>6. Unique(r)
  BY <1>0, <1>4, <1>5 DEF Unique
<1>7. Homed(r)
  BY <1>0, <1>1, <1>4, NoneAssumption, HomeAssumption DEF Homed, Entry
<1> QED BY <1>1, <1>3, <1>6, <1>7 DEF Good, r

\* find_client() finds one client or none.
LEMMA OneHolder ==
    ASSUME NEW w, Good(w), NEW s \in Servers, NEW n, NEW e \in Holders(w, s, n)
    PROVE  Holders(w, s, n) = {e}
BY DEF Good, Unique, Holders

-----------------------------------------------------------------------------
(* The collision *)

\* What the handlers need of a message m in a queue from s to t.
UserMessage(m) == m.u \in Users /\ m.nick \in Nicks /\ m.ts \in Times

\* Killing the newcomer keeps a world good.
LEMMA KillNewGood ==
    ASSUME NEW w, Good(w), NEW t \in Servers, NEW s \in Servers, NEW u \in Users,
           NEW changing \in BOOLEAN
    PROVE  Good(KillNew(w, t, s, u, changing))
<1>1. KILL(t, u) \in Message
  BY MessageTypes
<1>2. Good(SendTo(w, t, {s}, KILL(t, u)))
  BY <1>1, SendKeepsGood
<1>3. Good(SendToServer(SendTo(w, t, {s}, KILL(t, u)), t, s, KILL(t, u)))
  BY <1>1, <1>2, SendKeepsGood DEF SendToServer
<1>4. Good(exit_one_client(
               SendToServer(SendTo(w, t, {s}, KILL(t, u)), t, s, KILL(t, u)), t, u))
  BY <1>3, RemoveGood
<1> QED BY <1>2, <1>4 DEF KillNew, ExitKilled

\* Killing the holder keeps a world good and frees its nick.
LEMMA KillExistingGood ==
    ASSUME NEW w, Good(w), NEW t \in Servers, NEW n,
           NEW e \in Users, Holders(w, t, n) \subseteq {e}
    PROVE  /\ Good(KillExisting(w, t, e))
           /\ Holders(KillExisting(w, t, e), t, n) = {}
<1> DEFINE x == SendTo(w, t, w.peers[t], KILL(t, e))
<1>1. KILL(t, e) \in Message
  BY MessageTypes
<1>2. Good(x) /\ x.view = w.view
  BY <1>1, SendKeepsGood, SendToGood DEF Good
<1>3. KillExisting(w, t, e) = exit_one_client(x, t, e)
  BY DEF KillExisting, ExitKilled
<1> HIDE DEF x
<1>4. /\ Good(exit_one_client(x, t, e))
      /\ exit_one_client(x, t, e).view[t][e] = None
      /\ \A v \in Users \ {e} : exit_one_client(x, t, e).view[t][v] = w.view[t][v]
  BY <1>2, RemoveGood
<1> QED BY <1>3, <1>4 DEF Holders

\* A collision keeps a world good, and frees the nick if the newcomer won.
LEMMA CollisionGood ==
    ASSUME NEW w, Good(w), NEW t \in Servers, NEW s \in Servers, NEW u \in Users,
           NEW changing \in BOOLEAN, NEW e \in Users, NEW v, NEW n,
           v = "NEW_WON" => Holders(w, t, n) \subseteq {e}
    PROVE  /\ Good(nick_collision(w, t, s, u, changing, e, v))
           /\ v = "NEW_WON" =>
                  Holders(nick_collision(w, t, s, u, changing, e, v), t, n) = {}
<1> DEFINE w1 == IF v \in {"EQUAL", "EXISTING_WON"}
                 THEN KillNew(w, t, s, u, changing) ELSE w
<1>1. Good(w1) /\ (v = "NEW_WON" => w1 = w)
  BY KillNewGood
<1>2. nick_collision(w, t, s, u, changing, e, v)
          = IF v \in {"EQUAL", "NEW_WON"} THEN KillExisting(w1, t, e) ELSE w1
  BY DEF nick_collision
<1> HIDE DEF w1
<1>3. Good(KillExisting(w1, t, e))
  <2>1. KILL(t, e) \in Message
    BY MessageTypes
  <2>2. Good(SendTo(w1, t, w1.peers[t], KILL(t, e)))
    BY <1>1, <2>1, SendKeepsGood
  <2> QED BY <2>2, RemoveGood DEF KillExisting, ExitKilled
<1>4. v = "NEW_WON" => Holders(KillExisting(w1, t, e), t, n) = {}
  BY <1>1, KillExistingGood
<1> QED BY <1>1, <1>2, <1>3, <1>4

-----------------------------------------------------------------------------
(* The handlers *)

\* Introduce and Rename do the same to the tables.
LEMMA IntroduceGood ==
    ASSUME NEW w, Good(w), NEW t \in Servers, NEW s \in Servers,
           NEW m \in Message, UserMessage(m), Home[m.u] # t,
           Holders(w, t, m.nick) \subseteq {m.u}
    PROVE  Good(Introduce(w, t, s, m)) /\ Good(Rename(w, t, s, m))
<1> DEFINE e == [nick |-> m.nick, ts |-> m.ts, dir |-> s]
<1>1. e \in Entry /\ e.nick = m.nick
  BY DEF UserMessage, Entry
<1> HIDE DEF e
<1>2. Good([w EXCEPT !.view[t][m.u] = e])
  BY <1>1, PutGood DEF UserMessage
<1>3. Good(SendToServer([w EXCEPT !.view[t][m.u] = e], t, s, m))
  BY <1>2, SendKeepsGood DEF SendToServer
<1> QED BY <1>3 DEF Introduce, Rename, e

\* cmd_uid takes a good world to a good world.
LEMMA CmdUidGood ==
    ASSUME NEW w, Good(w), NEW t \in Servers, NEW s \in Servers,
           NEW m \in Message, UserMessage(m), Home[m.u] # t
    PROVE  Good(cmd_uid(w, t, s, m))
<1>1. CASE Holders(w, t, m.nick) = {}
  BY <1>1, IntroduceGood DEF cmd_uid
<1>2. CASE Holders(w, t, m.nick) # {}
  <2> DEFINE e == CHOOSE x \in Holders(w, t, m.nick) : TRUE
             c == Verdict(e, w.view[t][e].ts, m.u, m.ts)
             v == IF c # "EQUAL" /\ w.view[t][e].dir = s THEN "NEW_WON" ELSE c
             w1 == nick_collision(w, t, s, m.u, FALSE, e, v)
  <2>1. e \in Holders(w, t, m.nick) /\ e \in Users
    BY <1>2, SMTT(60) DEF Holders
  <2>2. cmd_uid(w, t, s, m) =
            IF InHandshake(w, t, e) THEN Introduce(Override(w, t, {e}), t, s, m)
            ELSE IF v = "NEW_WON" THEN Introduce(w1, t, s, m) ELSE w1
    BY <1>2, Zenon DEF cmd_uid
  <2> HIDE DEF e, v
  <2>3. Holders(w, t, m.nick) = {e}
    BY <2>1, OneHolder
  <2>4. Good(w1) /\ (v = "NEW_WON" => Holders(w1, t, m.nick) = {})
    BY <2>1, <2>3, CollisionGood, Zenon DEF UserMessage
  <2> HIDE DEF w1
  <2>5. v = "NEW_WON" => Good(Introduce(w1, t, s, m))
    BY <2>4, IntroduceGood
  <2>6. InHandshake(w, t, e) =>
            /\ Good(Override(w, t, {e}))
            /\ Holders(Override(w, t, {e}), t, m.nick) = {}
    BY <2>1, <2>3, OverrideGood DEF Holders, InHandshake
  <2>7. InHandshake(w, t, e) => Good(Introduce(Override(w, t, {e}), t, s, m))
    BY <2>6, IntroduceGood, Zenon
  <2> QED BY <2>2, <2>4, <2>5, <2>7
<1> QED BY <1>1, <1>2, SMTT(60)

\* cmd_nick_remote takes a good world to a good world.
LEMMA CmdNickGood ==
    ASSUME NEW w, Good(w), NEW t \in Servers, NEW s \in Servers,
           NEW m \in Message, UserMessage(m), Home[m.u] # t
    PROVE  Good(cmd_nick_remote(w, t, s, m))
<1> DEFINE others == Holders(w, t, m.nick) \ {m.u}
<1>1. CASE others = {}
  BY <1>1, IntroduceGood DEF cmd_nick_remote
<1>2. CASE others # {}
  <2> DEFINE e == CHOOSE x \in others : TRUE
             v == Verdict(e, w.view[t][e].ts, m.u, m.ts)
             w1 == nick_collision(w, t, s, m.u, TRUE, e, v)
  <2>1. e \in others
    BY <1>2
  <2>2. cmd_nick_remote(w, t, s, m) =
            IF InHandshake(w, t, e) THEN Rename(Override(w, t, {e}), t, s, m)
            ELSE IF v = "NEW_WON" THEN Rename(w1, t, s, m) ELSE w1
    BY <1>2, Zenon DEF cmd_nick_remote
  <2> HIDE DEF e, v
  <2>3. Holders(w, t, m.nick) = {e} /\ e \in Users
    BY <2>1, OneHolder, SMTT(60) DEF Holders
  <2>4. Good(w1) /\ (v = "NEW_WON" => Holders(w1, t, m.nick) = {})
    BY <2>3, CollisionGood, Zenon DEF UserMessage
  <2> HIDE DEF w1
  <2>5. v = "NEW_WON" => Good(Rename(w1, t, s, m))
    BY <2>4, IntroduceGood
  <2>6. InHandshake(w, t, e) =>
            /\ Good(Override(w, t, {e}))
            /\ Holders(Override(w, t, {e}), t, m.nick) = {}
    BY <2>3, OverrideGood DEF Holders, InHandshake
  <2>7. InHandshake(w, t, e) => Good(Rename(Override(w, t, {e}), t, s, m))
    BY <2>6, IntroduceGood, ZenonT(90)
  <2> QED BY <2>2, <2>4, <2>5, <2>7
<1> QED BY <1>1, <1>2

\* exit_client(), with or without a QUIT, keeps a world good.
LEMMA ExitQuitGood ==
    ASSUME NEW w, Good(w), NEW s \in Servers, NEW u \in Users
    PROVE  Good(ExitQuit(w, s, u))
<1>1. Good(SendToServer(w, s, w.view[s][u].dir, QUIT(u)))
  BY MessageTypes, SendKeepsGood DEF SendToServer
<1> QED BY <1>1, RemoveGood DEF ExitQuit

\* cmd_kill takes a good world to a good world.
LEMMA CmdKillGood ==
    ASSUME NEW w, Good(w), NEW t \in Servers, NEW s \in Servers,
           NEW m \in Message, m.u \in Users
    PROVE  Good(cmd_kill(w, t, s, m))
<1>1. Good(SendToServer(w, t, s, m))
  BY SendKeepsGood DEF SendToServer
<1>2. Good(ExitKilled(SendToServer(w, t, s, m), t, m.u))
  BY <1>1, RemoveGood DEF ExitKilled
<1> QED BY <1>2, ExitQuitGood DEF cmd_kill

\* So does the processing of any message but SERVER.
LEMMA HandleGood ==
    ASSUME NEW w, Good(w), NEW t \in Servers, NEW s \in Servers \ {t},
           NEW m \in Message, m # SERVER
    PROVE  Good(Handle(w, t, s, m))
<1>1. CASE UnknownSender(w, t, m)
  <2>1. GHOST(t, Sender(m)) \in Message
    BY <1>1, MessageTypes DEF UnknownSender
  <2> QED BY <1>1, <2>1, SendKeepsGood DEF Handle, remove_unknown
<1>2. CASE WrongDirection(w, t, s, m) /\ ~UnknownSender(w, t, m)
  BY <1>2 DEF Handle
<1>3. CASE ~UnknownSender(w, t, m) /\ ~WrongDirection(w, t, s, m)
  <2>1. CASE m.type = "UID"
    <3>1. UserMessage(m) /\ Home[m.u] # t
      BY <1>3, <2>1 DEF Message, SERVER, UserMessage, WrongDirection
    <3> QED BY <1>3, <2>1, <3>1, CmdUidGood DEF Handle
  <2>2. CASE m.type = "NICK"
    <3>0. UserMessage(m)
      BY <2>2 DEF Message, SERVER, UserMessage
    <3>1. UserMessage(m) /\ Home[m.u] # t
      BY <1>3, <2>2, <3>0
         DEF UserMessage, WrongDirection, UnknownSender, Sender, Good, Homed
    <3> QED BY <1>3, <2>2, <3>1, CmdNickGood DEF Handle
  <2>3. CASE m.type = "KILL"
    <3>1. m.u \in Users
      BY <2>3 DEF Message, SERVER
    <3> QED BY <1>3, <2>3, <3>1, CmdKillGood DEF Handle
  <2>4. CASE m.type = "QUIT"
    <3>1. m.u \in Users
      BY <2>4, SMTT(60) DEF Message, SERVER
    <3> QED BY <1>3, <2>4, <3>1, ExitQuitGood, SMTT(60) DEF Handle, cmd_quit
  <2> QED BY <2>1, <2>2, <2>3, <2>4 DEF Message, SERVER
<1> QED BY <1>1, <1>2, <1>3

-----------------------------------------------------------------------------
(* The actions *)

Inv == TypeOK /\ NickUnique /\ AtHome

\* The invariant is Good(World) and the types of the bookkeeping variables.
LEMMA InvIsGood == Inv => Good(World)
BY DEF Inv, TypeOK, NickUnique, AtHome, Good, Unique, Homed, World, WorldType

\* An action that becomes a good world preserves the invariant.
LEMMA BecomeGood ==
    ASSUME NEW w, Good(w), Become(w), dialed' \subseteq Dials,
           renames' \in 0..MaxRenames, claims' \subseteq Users \X Nicks \X Times
    PROVE  Inv'
<1>1. /\ view' = w.view /\ stage' = w.stage /\ peers' = w.peers /\ link' = w.link
      /\ w \in WorldType /\ Unique(w) /\ Homed(w)
  BY DEF Become, Good
<1>2. TypeOK'
  BY <1>1 DEF TypeOK, WorldType
<1>3. NickUnique'
  BY <1>1, SMTT(60) DEF NickUnique, Unique
<1>4. AtHome'
  BY <1>1 DEF AtHome, Homed
<1> QED BY <1>2, <1>3, <1>4 DEF Inv

\* Taking a message off a queue keeps the world good.
LEMMA TakenGood ==
    ASSUME Inv, NEW s \in Servers, NEW t \in Servers, link[s][t] # <<>>
    PROVE  Good(Taken(s, t)) /\ Head(link[s][t]) \in Message
<1> DEFINE nl == [link EXCEPT ![s][t] = Tail(link[s][t])]
<1>1. link[s][t] \in Seq(Message)
  BY DEF Inv, TypeOK
<1>2. Head(link[s][t]) \in Message /\ Tail(link[s][t]) \in Seq(Message)
  BY <1>1
<1>3. nl \in [Servers -> [Servers -> Seq(Message)]]
  BY <1>2 DEF Inv, TypeOK
<1>4. Taken(s, t) = [view |-> view, stage |-> stage, peers |-> peers, link |-> nl]
  BY SMTT(60) DEF Taken, World
<1> HIDE DEF nl
<1>5. Taken(s, t) \in WorldType /\ Unique(Taken(s, t)) /\ Homed(Taken(s, t))
  BY <1>3, <1>4 DEF Inv, TypeOK, NickUnique, AtHome, WorldType, Unique, Homed
<1> QED BY <1>2, <1>5 DEF Good

LEMMA ReceiveInv ==
    ASSUME Inv, NEW s \in Servers, NEW t \in Servers \ {s}, Receive(s, t)
    PROVE  Inv'
<1>1. Good(Handle(Taken(s, t), t, s, Head(link[s][t])))
  BY TakenGood, HandleGood DEF Receive
<1> QED BY <1>1, BecomeGood, Zenon DEF Receive, Inv, TypeOK

\* The burst announces users that are in the tables.
LEMMA ReceiveServerInv ==
    ASSUME Inv, NEW s \in Servers, NEW t \in Servers \ {s}, ReceiveServer(s, t)
    PROVE  Inv'
<1> DEFINE U == {u \in Users : IsUser(World, t, u)}
<1>1. PICK order \in Orders(U) : Become(cmd_server(Taken(s, t), t, s, order))
  BY Zenon DEF ReceiveServer
<1> DEFINE w == Taken(s, t)
           w1 == [w EXCEPT !.peers[t] = w.peers[t] \cup {s}]
           w2 == IF <<s, t>> \in dialed THEN SendTo(w1, t, {s}, SERVER) ELSE w1
           burst == [i \in DOMAIN order |-> UID(order[i], w2.view[t][order[i]])]
<1>2. Good(w) /\ w.view = view
  BY TakenGood DEF ReceiveServer, Taken, World
<1> HIDE DEF w
<1>3. Good(w1) /\ w1.view = view
  <2>1. /\ w1.view = w.view /\ w1.stage = w.stage /\ w1.link = w.link
        /\ w1.peers \in [Servers -> SUBSET Servers]
    BY <1>2 DEF Good, WorldType
  <2>2. w1 \in WorldType
    BY <1>2, <2>1, ZenonT(90) DEF Good, WorldType
  <2> HIDE DEF w1
  <2> QED BY <1>2, <2>1, <2>2 DEF Good, Unique, Homed
<1> HIDE DEF w1
<1>4. Good(w2) /\ w2.view = view
  BY <1>3, MessageTypes, SendKeepsGood, SendToGood DEF Good
<1> HIDE DEF w2
<1>5. order \in [1..Cardinality(U) -> U] /\ Cardinality(U) \in Nat
  <2>1. IsFiniteSet(U)
    BY UsersAssumption, FS_Subset
  <2>2. Cardinality(U) \in Nat
    BY <2>1, FS_CardinalityType
  <2> HIDE DEF U
  <2> QED BY <2>2 DEF Orders
<1>6. \A i \in 1..Cardinality(U) :
          order[i] \in Users /\ view[t][order[i]] \in Entry
  <2>1. \A u \in Users : view[t][u] \in Entry \cup {None}
    BY DEF Inv, TypeOK
  <2>2. \A u \in U : u \in Users /\ view[t][u] \in Entry
    BY <2>1, SMTT(60) DEF IsUser, World
  <2> HIDE DEF U
  <2> QED BY <1>5, <2>2
<1> HIDE DEF U
<1>7. burst \in Seq(Message)
  BY <1>4, <1>5, <1>6, MessageTypes
<1> DEFINE nl == [w2.link EXCEPT ![t][s] = w2.link[t][s] \o burst]
<1>8. cmd_server(Taken(s, t), t, s, order) = [w2 EXCEPT !.link = nl]
  BY <1>2 DEF cmd_server, Burst, w, w1, w2, Good, WorldType
<1> HIDE DEF burst
<1>9. w2.link[t][s] \o burst \in Seq(Message)
  BY <1>4, <1>7 DEF Good, WorldType
<1>10. nl \in [Servers -> [Servers -> Seq(Message)]]
  BY <1>4, <1>9, SMTT(60) DEF Good, WorldType
<1> HIDE DEF nl
<1>11. Good([w2 EXCEPT !.link = nl])
  BY <1>4, <1>10, ZenonT(90) DEF Good, Unique, Homed, WorldType
<1> QED BY <1>1, <1>8, <1>11, BecomeGood, Zenon DEF ReceiveServer, Inv, TypeOK

LEMMA HandshakeNickInv ==
    ASSUME Inv, NEW u \in Users, NEW n \in Nicks, NEW ts \in Times,
           HandshakeNick(u, n, ts)
    PROVE  Inv'
<1> DEFINE s == Home[u]
           others == Holders(World, s, n) \ {u}
           w == Override(World, s, others)
           e == [nick |-> n, ts |-> ts, dir |-> s]
           y == [w EXCEPT !.stage[u] = "handshake", !.view[s][u] = e]
<1>1. /\ s \in Servers /\ others \in SUBSET Users
      /\ \A x \in others : Home[x] = s
      /\ e \in Entry /\ e.nick = n /\ e.dir = s /\ e # None
  <2>1. s \in Servers /\ others \in SUBSET Users
    BY HomeAssumption DEF Holders
  <2>2. \A x \in others : Home[x] = s
    BY DEF HandshakeNick, InHandshake
  <2>3. e \in Entry /\ e.nick = n /\ e.dir = s /\ e # None
    BY <2>1, NoneAssumption DEF Entry
  <2> QED BY <2>1, <2>2, <2>3
<1>2. Good(World) /\ World.view = view
  BY InvIsGood DEF World
<1>3. Become(y)
  BY SMTT(60) DEF HandshakeNick
<1>4. \A v \in Users \ {u} : view[s][v] # None /\ view[s][v].nick = n => v \in others
  BY <1>2 DEF Holders
<1> HIDE DEF others, e, s
<1>5. /\ Good(w)
      /\ \A v \in Users : w.view[s][v] = IF v \in others THEN None ELSE view[s][v]
  BY <1>1, <1>2, OverrideGood
<1> HIDE DEF w
<1>6. /\ y.view = [w.view EXCEPT ![s][u] = e]
      /\ y.stage = [w.stage EXCEPT ![u] = "handshake"]
      /\ y.peers = w.peers /\ y.link = w.link
  BY <1>5 DEF Good, WorldType
<1>7. /\ \A x \in Servers, v \in Users :
             y.view[x][v] = IF x = s /\ v = u THEN e ELSE w.view[x][v]
      /\ \A v \in Users : y.stage[v] = IF v = u THEN "handshake" ELSE w.stage[v]
  BY <1>1, <1>5, <1>6 DEF Good, WorldType
<1>8. y \in WorldType
  <2>1. /\ y.view \in [Servers -> [Users -> Entry \cup {None}]]
        /\ y.stage \in [Users -> Stages]
    BY <1>1, <1>5, <1>6 DEF Good, WorldType, Stages
  <2> QED BY <1>5, <1>6, <2>1, Zenon DEF Good, WorldType
<1> HIDE DEF y
<1>9. Unique(y)
  <2>1. \A v \in Users \ {u} : w.view[s][v] # None => w.view[s][v].nick # n
    BY <1>4, <1>5, SMTT(60)
  <2> QED BY <1>1, <1>5, <1>7, <2>1, SMTT(60) DEF Good, Unique
<1>10. Homed(y)
  BY <1>1, <1>5, <1>7, HomeAssumption, SMTT(60) DEF Good, Homed, s
<1> QED BY <1>3, <1>8, <1>9, <1>10, BecomeGood DEF Good, HandshakeNick, Inv, TypeOK

LEMMA RegisterInv ==
    ASSUME Inv, NEW u \in Users, Register(u)
    PROVE  Inv'
<1> DEFINE s == Home[u]
           e == view[s][u]
           w == SendToServer(World, s, s, UID(u, e))
           y == [w EXCEPT !.stage[u] = "user"]
<1>1. s \in Servers /\ e \in Entry /\ stage[u] = "handshake"
  BY HomeAssumption DEF Register, Inv, TypeOK, AtHome
<1>2. Become(y) /\ renames' = renames /\ dialed' = dialed
      /\ claims' = claims \cup {<<u, e.nick, e.ts>>}
  BY DEF Register
<1>3. e.nick \in Nicks /\ e.ts \in Times
  BY <1>1 DEF Entry
<1>4. claims' \subseteq Users \X Nicks \X Times
  BY <1>2, <1>3, SMTT(60) DEF Inv, TypeOK
<1>5. UID(u, e) \in Message
  BY <1>1, MessageTypes
<1> HIDE DEF e, s
<1>6. Good(World) /\ World.stage = stage
  BY InvIsGood, SMTT(60) DEF World
<1>7. Good(w) /\ w.stage = stage
  BY <1>1, <1>5, <1>6, SendKeepsGood, SendToGood DEF SendToServer, Good
<1> HIDE DEF w
<1>8. /\ y.view = w.view /\ y.peers = w.peers /\ y.link = w.link
      /\ y.stage = [stage EXCEPT ![u] = "user"]
      /\ y.stage \in [Users -> Stages]
  BY <1>7 DEF Good, WorldType, Stages
<1>9. y \in WorldType
  BY <1>7, <1>8, ZenonT(90) DEF Good, WorldType
<1> HIDE DEF y
<1>10. Unique(y) /\ Homed(y)
  BY <1>1, <1>7, <1>8 DEF Good, Unique, Homed, Inv, TypeOK
<1> QED BY <1>2, <1>4, <1>9, <1>10, BecomeGood, ZenonT(90) DEF Good, Inv, TypeOK

LEMMA LocalNickInv ==
    ASSUME Inv, NEW u \in Users, NEW n \in Nicks, NEW ts \in Times,
           LocalNick(u, n, ts)
    PROVE  Inv'
<1> DEFINE s == Home[u]
           others == Holders(World, s, n) \ {u}
           w == Override(World, s, others)
           e == [nick |-> n, ts |-> ts, dir |-> s]
           y == [w EXCEPT !.view[s][u] = e]
           z == SendToServer(y, s, s, NICK(u, e))
<1>1. s \in Servers /\ others \in SUBSET Users
  BY HomeAssumption DEF Holders
<1>2. \A x \in others : Home[x] = s
  BY DEF LocalNick, InHandshake
<1>3. e \in Entry /\ e.nick = n /\ e.dir = s
  BY <1>1 DEF Entry
<1>4. Good(World) /\ World.view = view /\ World.stage = stage
  BY InvIsGood DEF World
<1>5. Become(z) /\ stage[u] = "user" /\ u \notin others
  BY DEF LocalNick
<1>6. \A v \in Users \ {u} : view[s][v] # None /\ view[s][v].nick = n => v \in others
  BY <1>4 DEF Holders
<1>7. /\ dialed' \subseteq Dials /\ renames' \in 0..MaxRenames
      /\ claims' \subseteq Users \X Nicks \X Times
  BY MaxRenamesAssumption DEF LocalNick, Inv, TypeOK
<1> HIDE DEF others, e, s
<1>8. /\ Good(w) /\ w.stage[u] = "user"
      /\ \A v \in Users : w.view[s][v] = IF v \in others THEN None ELSE view[s][v]
  BY <1>1, <1>2, <1>4, <1>5, OverrideGood, SMTT(60)
<1> HIDE DEF w
<1>9. Holders(w, s, e.nick) \subseteq {u}
  BY <1>3, <1>6, <1>8 DEF Holders
<1>10. Good(y)
  BY <1>1, <1>3, <1>8, <1>9, PutGood, SMTT(60)
<1> HIDE DEF y
<1>11. Good(z)
  BY <1>1, <1>3, <1>10, MessageTypes, SendKeepsGood, SMTT(60) DEF SendToServer
<1> HIDE DEF z
<1> QED BY <1>5, <1>7, <1>11, BecomeGood

LEMMA LocalQuitInv ==
    ASSUME Inv, NEW u \in Users, LocalQuit(u)
    PROVE  Inv'
<1>1. Good(ExitQuit(World, Home[u], u))
  BY InvIsGood, ExitQuitGood, HomeAssumption
<1> QED BY <1>1, BecomeGood, ZenonT(90) DEF LocalQuit, Inv, TypeOK

LEMMA LocalKillInv ==
    ASSUME Inv, NEW o \in Users, NEW u \in Users, LocalKill(o, u)
    PROVE  Inv'
<1> DEFINE s == Home[o]
<1>1. Good(World) /\ s \in Servers
  BY InvIsGood, HomeAssumption
<1>2. Good(ExitQuit(World, s, u))
  BY <1>1, ExitQuitGood
<1>3. Good(SendTo(World, s, peers[s], KILL(o, u)))
  BY <1>1, MessageTypes, SendKeepsGood
<1>4. Good(ExitKilled(SendTo(World, s, peers[s], KILL(o, u)), s, u))
  BY <1>1, <1>3, RemoveGood, SMTT(60) DEF ExitKilled
<1> QED BY <1>2, <1>4, BecomeGood DEF LocalKill, Inv, TypeOK

LEMMA DialInv ==
    ASSUME Inv, NEW s \in Servers, NEW t \in Servers, Dial(s, t)
    PROVE  Inv'
<1>1. Good(SendTo(World, s, {t}, SERVER))
  BY InvIsGood, MessageTypes, SendKeepsGood
<1> QED BY <1>1, BecomeGood, Zenon DEF Dial, Inv, TypeOK

\* Init and the steps of the whole system.
LEMMA InitInv == Init => Inv
<1> SUFFICES ASSUME Init PROVE Inv
  OBVIOUS
<1>1. view \in [Servers -> [Users -> Entry \cup {None}]]
      /\ \A s \in Servers, u \in Users : view[s][u] = None
  BY DEF Init
<1>2. TypeOK
  BY <1>1, DialsAssumption, MaxRenamesAssumption DEF Init, TypeOK, Stages
<1>3. NickUnique /\ AtHome
  BY <1>1, HomeAssumption DEF Init, NickUnique, AtHome
<1> QED BY <1>2, <1>3 DEF Inv

LEMMA StepInv == Inv /\ [Next]_vars => Inv'
<1> SUFFICES ASSUME Inv, [Next]_vars PROVE Inv'
  OBVIOUS
<1>1. CASE ClientStep
  BY <1>1, HandshakeNickInv, RegisterInv, LocalNickInv, LocalQuitInv, LocalKillInv
     DEF ClientStep
<1>2. CASE ServerStep
  BY <1>2, ReceiveInv, ReceiveServerInv, DialInv, SMTT(60) DEF ServerStep
<1>3. CASE UNCHANGED vars
  BY <1>3 DEF vars, Inv, TypeOK, NickUnique, AtHome
<1> QED BY <1>1, <1>2, <1>3 DEF Next

\* The tables, queues and stages stay well typed whatever the network does.
THEOREM NickSyncTypes == Spec => []TypeOK
<1>1. Inv => TypeOK
  BY DEF Inv
<1> QED BY <1>1, InitInv, StepInv, PTL DEF Spec

\* On every server, at every moment of every collision, a nickname belongs to
\* one client: cmd_uid and cmd_nick_remote only enter a user under a nick
\* after its previous holder has left the tables.
THEOREM NicknamesUnique == Spec => []NickUnique
<1>1. Inv => NickUnique
  BY DEF Inv
<1> QED BY <1>1, InitInv, StepInv, PTL DEF Spec

\* A client is in its own server's tables exactly while it is connected.
THEOREM ClientsAtHome == Spec => []AtHome
<1>1. Inv => AtHome
  BY DEF Inv
<1> QED BY <1>1, InitInv, StepInv, PTL DEF Spec
=============================================================================
