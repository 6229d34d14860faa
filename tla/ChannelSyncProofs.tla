------------------------- MODULE ChannelSyncProofs -------------------------
(***************************************************************************)
(* Proofs about ChannelSync: for any tree of servers, users, clocks and    *)
(* modes, no server holds an empty channel or a membership of a client it  *)
(* does not know, and a channel's creation time never rises.  Each handler *)
(* is an operator on worlds and gets one lemma: it takes a good world to a *)
(* good world and changes the channel of one server at most, to an older   *)
(* one.                                                                    *)
(*                                                                         *)
(* The second part says when the network is in order: what is under way    *)
(* from a server to its neighbour leads from what the neighbour has of the *)
(* users behind the server to what the server has of them.  It shows that  *)
(* each kind of change (a message processed, a change of one's own, a      *)
(* link given up, called or answered) keeps the network in order.          *)
(* ChannelAgreementProofs shows that the handlers make such changes.       *)
(***************************************************************************)
EXTENDS ChannelSync, TLAPS

WorldType ==
    [chan : [Servers -> Channel \cup {None}],
     known : [Servers -> [Users -> Servers \cup {None}]],
     peers : [Servers -> SUBSET Servers],
     link : [Servers -> [Servers -> Seq(Message)]]]

\* NoEmptyChannel of the world w.
NonEmpty(w) == \A s \in Servers : w.chan[s] # None => Members(w.chan[s]) # {}

\* MembersKnown of the world w.
Knows(w) ==
    \A s \in Servers, u \in Users : IsMember(w, s, u) => w.known[s][u] # None

Good(w) == w \in WorldType /\ NonEmpty(w) /\ Knows(w)

\* No channel of r is younger than it was in w.
Older(w, r) ==
    \A s \in Servers :
        w.chan[s] # None /\ r.chan[s] # None => r.chan[s].ts <= w.chan[s].ts

-----------------------------------------------------------------------------
(* Messages and sending *)

\* Every message a handler builds is a member of Message.
LEMMA MessageTypes ==
    /\ SERVER \in Message /\ EOF \in Message
    /\ \A X \in SUBSET Users : UIDs(X) \in Message
    /\ \A ts \in Times, items \in [Users -> Status], ms \in SUBSET Modes,
          l \in Limits \cup {0} : SJOIN(ts, items, ms, l) \in Message
    /\ \A u \in Users : PART(u) \in Message /\ KICK(u) \in Message
                        /\ QUIT(u) \in Message
    /\ \A X \in SUBSET Servers : SQUIT(X) \in Message
    /\ \A ts \in Times, ms \in SUBSET Modes : TSMODE(ts, ms) \in Message
BY ZenonT(90) DEF SERVER, EOF, UIDs, SJOIN, PART, KICK, QUIT, SQUIT, TSMODE, Message

\* sendto_server() and sendto_one() only touch the queues.
LEMMA SendToType ==
    ASSUME NEW w \in WorldType, NEW s \in Servers, NEW T, NEW m \in Message
    PROVE  /\ SendTo(w, s, T, m) \in WorldType
           /\ SendTo(w, s, T, m).chan = w.chan
           /\ SendTo(w, s, T, m).known = w.known
           /\ SendTo(w, s, T, m).peers = w.peers
<1> DEFINE q == [t \in Servers |-> IF t \in T THEN Append(w.link[s][t], m)
                                   ELSE w.link[s][t]]
<1>1. q \in [Servers -> Seq(Message)]
  BY DEF WorldType
<1>2. SendTo(w, s, T, m) = [w EXCEPT !.link = [w.link EXCEPT ![s] = q]]
  BY Zenon DEF SendTo
<1> HIDE DEF q
<1>3. [w.link EXCEPT ![s] = q] \in [Servers -> [Servers -> Seq(Message)]]
  BY <1>1, Zenon DEF WorldType
<1> QED BY <1>2, <1>3, Zenon DEF WorldType

\* Sending keeps a world good.
LEMMA SendToGood ==
    ASSUME NEW w, Good(w), NEW s \in Servers, NEW T, NEW m \in Message
    PROVE  /\ Good(SendTo(w, s, T, m))
           /\ SendTo(w, s, T, m).chan = w.chan
           /\ SendTo(w, s, T, m).known = w.known
           /\ SendTo(w, s, T, m).peers = w.peers
BY SendToType DEF Good, NonEmpty, Knows, IsMember

\* The same for sendto_server() with an exception.
LEMMA SendToServerGood ==
    ASSUME NEW w, Good(w), NEW s \in Servers, NEW but, NEW m \in Message
    PROVE  /\ Good(SendToServer(w, s, but, m))
           /\ SendToServer(w, s, but, m).chan = w.chan
           /\ SendToServer(w, s, but, m).known = w.known
           /\ SendToServer(w, s, but, m).peers = w.peers
BY SendToGood DEF SendToServer

\* Putting other sequences of messages in the queues keeps a world good.
LEMMA RelinkGood ==
    ASSUME NEW w, Good(w), NEW l \in [Servers -> [Servers -> Seq(Message)]]
    PROVE  /\ Good([w EXCEPT !.link = l])
           /\ [w EXCEPT !.link = l].chan = w.chan
           /\ [w EXCEPT !.link = l].known = w.known
           /\ [w EXCEPT !.link = l].peers = w.peers
<1>1. w \in WorldType
  BY Zenon DEF Good
<1>2. /\ [w EXCEPT !.link = l] \in WorldType
      /\ [w EXCEPT !.link = l].chan = w.chan
      /\ [w EXCEPT !.link = l].known = w.known
      /\ [w EXCEPT !.link = l].peers = w.peers
  BY <1>1, Zenon DEF WorldType
<1> QED BY <1>2, Zenon DEF Good, NonEmpty, Knows, IsMember

-----------------------------------------------------------------------------
(* The channel of one server *)

\* Replacing a server's channel by one with members it knows keeps a world
\* good.
LEMMA SetChanGood ==
    ASSUME NEW w, Good(w), NEW s \in Servers, NEW c \in Channel \cup {None},
           c # None => /\ Members(c) # {}
                       /\ \A u \in Members(c) : w.known[s][u] # None
    PROVE  /\ Good(SetChan(w, s, c))
           /\ SetChan(w, s, c).chan = [w.chan EXCEPT ![s] = c]
           /\ SetChan(w, s, c).peers = w.peers
<1> DEFINE r == SetChan(w, s, c)
<1>0. w \in WorldType /\ NonEmpty(w) /\ Knows(w)
  BY Zenon DEF Good
<1>1. /\ r.chan = [w.chan EXCEPT ![s] = c]
      /\ r.known = w.known /\ r.peers = w.peers /\ r.link = w.link
      /\ r \in WorldType
  BY <1>0, Zenon DEF SetChan, WorldType
<1> HIDE DEF r
<1>2. \A x \in Servers : r.chan[x] = IF x = s THEN c ELSE w.chan[x]
  BY <1>0, <1>1, Zenon DEF WorldType
<1>3. NonEmpty(r)
  BY <1>0, <1>2, Zenon DEF NonEmpty
<1>4. Knows(r)
  BY <1>0, <1>1, <1>2 DEF Knows, IsMember, Members
<1> QED BY <1>1, <1>3, <1>4, Zenon DEF Good, r

\* ... and no channel gets younger if that one does not.
LEMMA SetChanOlder ==
    ASSUME NEW w, w \in WorldType, NEW s \in Servers,
           NEW c \in Channel \cup {None},
           w.chan[s] # None /\ c # None => c.ts <= w.chan[s].ts,
           NEW r, r.chan = [w.chan EXCEPT ![s] = c]
    PROVE  Older(w, r)
<1>1. \A x \in Servers : w.chan[x] # None => w.chan[x] \in Channel
  BY Zenon DEF WorldType
<1>2. \A x \in Servers : w.chan[x] # None => w.chan[x].ts \in Nat
  BY <1>1, ValuesAssumption, Zenon DEF Channel
<1>3. \A x \in Servers : r.chan[x] = IF x = s THEN c ELSE w.chan[x]
  BY Zenon DEF WorldType
<1> QED BY <1>2, <1>3 DEF Older

\* Nothing changed, nothing younger.
LEMMA SameOlder ==
    ASSUME NEW w, w \in WorldType, NEW r, r.chan = w.chan
    PROVE  Older(w, r)
<1>1. \A x \in Servers : w.chan[x] # None => w.chan[x] \in Channel
  BY Zenon DEF WorldType
<1>2. \A x \in Servers : w.chan[x] # None => w.chan[x].ts \in Nat
  BY <1>1, ValuesAssumption, Zenon DEF Channel
<1> QED BY <1>2 DEF Older

\* sub1_from_channel() leaves no empty channel.
LEMMA Sub1 ==
    ASSUME NEW c \in Channel
    PROVE  /\ sub1_from_channel(c) \in Channel \cup {None}
           /\ sub1_from_channel(c) # None =>
                  sub1_from_channel(c) = c /\ Members(c) # {}
BY Zenon DEF sub1_from_channel

\* Removing users: a channel stays a channel.
LEMMA WithoutType ==
    ASSUME NEW c \in Channel, NEW X
    PROVE  LET d == [c EXCEPT !.mem = [u \in Users |->
                        IF u \in X THEN "out" ELSE c.mem[u]]]
           IN  /\ d \in Channel
               /\ d.ts = c.ts
               /\ Members(d) = Members(c) \ X
<1> DEFINE f == [u \in Users |-> IF u \in X THEN "out" ELSE c.mem[u]]
           d == [c EXCEPT !.mem = f]
<1>1. f \in [Users -> Status]
  BY Zenon DEF Channel, Status
<1>2. d \in Channel /\ d.ts = c.ts /\ d.mem = f
  BY <1>1, Zenon DEF Channel
<1>3. Members(d) = Members(c) \ X
  BY <1>2, Zenon DEF Members, Status
<1> QED BY <1>2, <1>3, Zenon

\* remove_user_from_channel() keeps a world good.
LEMMA RemoveUsersGood ==
    ASSUME NEW w, Good(w), NEW s \in Servers, NEW X
    PROVE  /\ Good(RemoveUsers(w, s, X))
           /\ Older(w, RemoveUsers(w, s, X))
           /\ RemoveUsers(w, s, X).peers = w.peers
<1>0. w \in WorldType
  BY Zenon DEF Good
<1>1. CASE w.chan[s] = None
  BY <1>0, <1>1, SameOlder, Zenon DEF RemoveUsers
<1>2. CASE w.chan[s] # None
  <2> DEFINE d == [w.chan[s] EXCEPT !.mem = [u \in Users |->
                       IF u \in X THEN "out" ELSE w.chan[s].mem[u]]]
             c == sub1_from_channel(d)
  <2>1. w.chan[s] \in Channel
    BY <1>0, <1>2, Zenon DEF WorldType
  <2>2. d \in Channel /\ d.ts = w.chan[s].ts /\ Members(d) = Members(w.chan[s]) \ X
    BY <2>1, WithoutType, ZenonT(90)
  <2>3. RemoveUsers(w, s, X) = SetChan(w, s, c)
    BY <1>2, Zenon DEF RemoveUsers
  <2> HIDE DEF d
  <2>4. c \in Channel \cup {None} /\ (c # None => c = d /\ Members(c) # {})
    BY <2>2, Sub1, Zenon
  <2>5. \A u \in Members(w.chan[s]) : w.known[s][u] # None
    BY <1>2, Zenon DEF Good, Knows, IsMember, Members
  <2>6. c # None => \A u \in Members(c) : w.known[s][u] # None
    BY <2>2, <2>4, <2>5, Zenon
  <2>a. w.chan[s].ts \in Nat
    BY <2>1, ValuesAssumption, Zenon DEF Channel
  <2>7. w.chan[s] # None /\ c # None => c.ts <= w.chan[s].ts
    BY <2>2, <2>4, <2>a
  <2> HIDE DEF c
  <2>8. /\ Good(SetChan(w, s, c))
        /\ SetChan(w, s, c).chan = [w.chan EXCEPT ![s] = c]
        /\ SetChan(w, s, c).peers = w.peers
    BY <2>4, <2>6, SetChanGood
  <2>9. Older(w, SetChan(w, s, c))
    BY <1>0, <2>4, <2>7, <2>8, SetChanOlder
  <2> QED BY <2>3, <2>8, <2>9, Zenon
<1> QED BY <1>1, <1>2, Zenon

\* exit_one_client() keeps a world good: the memberships go with the clients.
LEMMA ExitGood ==
    ASSUME NEW w, Good(w), NEW s \in Servers, NEW X
    PROVE  /\ Good(exit_one_client(w, s, X))
           /\ Older(w, exit_one_client(w, s, X))
           /\ exit_one_client(w, s, X).peers = w.peers
<1> DEFINE k == [u \in Users |-> IF u \in X THEN None ELSE w.known[s][u]]
           v == [w EXCEPT !.known = [w.known EXCEPT ![s] = k]]
           r == exit_one_client(w, s, X)
<1>0. w \in WorldType /\ NonEmpty(w) /\ Knows(w)
  BY Zenon DEF Good
<1>1. k \in [Users -> Servers \cup {None}]
  BY <1>0 DEF WorldType
<1>2. r = RemoveUsers(v, s, X)
  BY Zenon DEF exit_one_client
<1>3. /\ v.known = [w.known EXCEPT ![s] = k]
      /\ v.chan = w.chan /\ v.peers = w.peers /\ v.link = w.link
  BY <1>0, Zenon DEF WorldType
<1>4. v \in WorldType
  <2> HIDE DEF k
  <2> QED BY <1>0, <1>1, ZenonT(90) DEF WorldType
<1>5. \A x \in Servers, u \in Users :
          v.known[x][u] = IF x = s /\ u \in X THEN None ELSE w.known[x][u]
  BY <1>0, <1>3, Zenon DEF WorldType
<1> HIDE DEF k, v, r
<1>6. CASE w.chan[s] = None
  <2>1. r = v
    BY <1>2, <1>3, <1>6, Zenon DEF RemoveUsers
  <2>2. NonEmpty(r)
    BY <1>0, <1>3, <2>1, Zenon DEF NonEmpty
  <2>a. \A x \in Servers, u \in Users : IsMember(r, x, u) =>
            x # s /\ IsMember(w, x, u)
    BY <1>3, <1>6, <2>1, Zenon DEF IsMember
  <2>3. Knows(r)
    BY <1>0, <1>5, <2>1, <2>a, SMTT(60) DEF Knows
  <2>4. Older(w, r)
    BY <1>0, <1>3, <2>1, SameOlder, Zenon
  <2> QED BY <1>3, <1>4, <2>1, <2>2, <2>3, <2>4, Zenon DEF Good, r
<1>7. CASE w.chan[s] # None
  <2> DEFINE d == [w.chan[s] EXCEPT !.mem = [u \in Users |->
                       IF u \in X THEN "out" ELSE w.chan[s].mem[u]]]
             c == sub1_from_channel(d)
  <2>1. w.chan[s] \in Channel
    BY <1>0, <1>7, SMTT(60) DEF WorldType
  <2>2. d \in Channel /\ d.ts = w.chan[s].ts /\ Members(d) = Members(w.chan[s]) \ X
    BY <2>1, WithoutType, Zenon
  <2>3. r = [v EXCEPT !.chan = [w.chan EXCEPT ![s] = c]]
    BY <1>2, <1>3, <1>7, SMTT(60) DEF RemoveUsers, SetChan
  <2> HIDE DEF d
  <2>4. c \in Channel \cup {None} /\ (c # None => c = d /\ Members(c) # {})
    BY <2>2, Sub1
  <2>5. \A u \in Members(w.chan[s]) : w.known[s][u] # None
    BY <1>0, <1>7, Zenon DEF Knows, IsMember, Members
  <2>6. c # None => \A u \in Members(c) : v.known[s][u] # None
    BY <1>5, <2>2, <2>4, <2>5, SMTT(60) DEF Members
  <2>a. w.chan[s].ts \in Nat
    BY <2>1, ValuesAssumption, Zenon DEF Channel
  <2>7. w.chan[s] # None /\ c # None => c.ts <= w.chan[s].ts
    BY <2>2, <2>4, <2>a
  <2> HIDE DEF c
  <2>8. /\ r \in WorldType
        /\ r.chan = [w.chan EXCEPT ![s] = c]
        /\ r.known = v.known /\ r.peers = w.peers
    BY <1>0, <1>3, <1>4, <2>3, <2>4, Zenon DEF WorldType
  <2>9. \A x \in Servers : r.chan[x] = IF x = s THEN c ELSE w.chan[x]
    BY <1>0, <2>8, Zenon DEF WorldType
  <2>10. NonEmpty(r)
    BY <1>0, <2>4, <2>9, Zenon DEF NonEmpty
  <2>11. Knows(r)
    BY <1>0, <1>5, <2>6, <2>8, <2>9 DEF Knows, IsMember, Members
  <2>12. Older(w, r)
    BY <1>0, <2>4, <2>7, <2>8, SetChanOlder
  <2> QED BY <2>8, <2>10, <2>11, <2>12, Zenon DEF Good, r
<1> QED BY <1>6, <1>7

\* exit_client() of a server keeps a world good.
LEMMA ExitServerGood ==
    ASSUME NEW w, Good(w), NEW s \in Servers, NEW t \in Servers
    PROVE  Good(ExitServer(w, s, t)) /\ Older(w, ExitServer(w, s, t))
<1> DEFINE m == SQUIT({v \in Servers : Hop[s][v] = t})
           w1 == SendToServer(w, s, t, m)
           w2 == exit_one_client(w1, s, {u \in Users : w.known[s][u] = t})
           r == ExitServer(w, s, t)
<1>1. m \in Message
  BY MessageTypes, Zenon
<1> HIDE DEF m
<1>2. Good(w1) /\ w1.chan = w.chan
  BY <1>1, SendToServerGood
<1> HIDE DEF w1
<1>3. Good(w2) /\ Older(w1, w2)
  BY <1>2, ExitGood, Zenon
<1>4. r = [w2 EXCEPT !.peers = [w2.peers EXCEPT ![s] = w2.peers[s] \ {t}]]
  BY Zenon DEF ExitServer, w1, m
<1> HIDE DEF w2
<1>5. w2 \in WorldType
  BY <1>3, Zenon DEF Good
<1> DEFINE p == [w2.peers EXCEPT ![s] = w2.peers[s] \ {t}]
<1>a. p \in [Servers -> SUBSET Servers]
  BY <1>5, Zenon DEF WorldType
<1> HIDE DEF p
<1>b. r = [w2 EXCEPT !.peers = p]
  BY <1>4, Zenon DEF p
<1>6. r \in WorldType /\ r.chan = w2.chan /\ r.known = w2.known
  BY <1>5, <1>a, <1>b, Zenon DEF WorldType
<1> HIDE DEF r
<1>7. Good(r)
  BY <1>3, <1>6, Zenon DEF Good, NonEmpty, Knows, IsMember
<1>8. Older(w, r)
  BY <1>2, <1>3, <1>6, Zenon DEF Older
<1> QED BY <1>7, <1>8, SMTT(60) DEF r

-----------------------------------------------------------------------------
(* cmd_sjoin *)

\* A channel just made.
LEMMA MakeChannelType ==
    ASSUME NEW ts \in Times
    PROVE  /\ make_channel(ts) \in Channel
           /\ make_channel(ts).ts = ts
           /\ Members(make_channel(ts)) = {}
<1>1. NoMembers \in [Users -> Status]
  BY Zenon DEF NoMembers, Status
<1>2. make_channel(ts) \in Channel
  BY <1>1, Zenon DEF make_channel, Channel
<1>3. make_channel(ts).ts = ts /\ make_channel(ts).mem = NoMembers
  BY Zenon DEF make_channel
<1> QED BY <1>2, <1>3, Zenon DEF Members, NoMembers

\* Meeting a timestamp: no new member, and the older of the two times.
LEMMA MeetType ==
    ASSUME NEW old \in Channel \cup {None}, NEW ts \in Times
    PROVE  /\ Meet(old, ts) \in Channel
           /\ \A u \in Members(Meet(old, ts)) : old # None /\ u \in Members(old)
           /\ old # None => Meet(old, ts).ts <= old.ts
<1>0. make_channel(ts) \in Channel /\ Members(make_channel(ts)) = {}
      /\ make_channel(ts).ts = ts
  BY MakeChannelType, Zenon
<1>1. CASE old = None
  BY <1>0, <1>1, Zenon DEF Meet
<1>2. CASE old # None
  <2>1. old \in Channel /\ old.ts \in Nat /\ ts \in Nat
    BY <1>2, ValuesAssumption, ZenonT(90) DEF Channel
  <2>2. CASE old.ts > ts
    <3> DEFINE f == [u \in Users |-> IF old.mem[u] = "out" THEN "out" ELSE "in"]
               d == [make_channel(ts) EXCEPT !.mem = f]
    <3>1. f \in [Users -> Status]
      BY Zenon DEF Status
    <3>2. d \in Channel /\ d.ts = ts /\ d.mem = f
      BY <1>0, <3>1, Zenon DEF Channel
    <3>3. Meet(old, ts) = d
      BY <1>2, <2>2, Zenon DEF Meet
    <3>4. Members(d) = Members(old)
      BY <3>2 DEF Members
    <3> HIDE DEF d
    <3> QED BY <1>2, <2>1, <2>2, <3>2, <3>3, <3>4
  <2>3. CASE ~(old.ts > ts)
    <3>1. Meet(old, ts) = old
      BY <1>2, <2>3, Zenon DEF Meet
    <3> QED BY <1>2, <2>1, <3>1
  <2> QED BY <2>2, <2>3, Zenon
<1> QED BY <1>1, <1>2, Zenon

\* Adding the users X adds no others.
LEMMA AddMembersType ==
    ASSUME NEW c \in Channel, NEW X, NEW items \in [Users -> Status],
           NEW drop \in BOOLEAN
    PROVE  /\ AddMembers(c, X, items, drop) \in Channel
           /\ Members(AddMembers(c, X, items, drop)) \subseteq Members(c) \cup X
           /\ AddMembers(c, X, items, drop).ts = c.ts
<1> DEFINE f == [u \in Users |-> IF u \in X /\ c.mem[u] = "out"
                                 THEN IF drop THEN "in" ELSE items[u]
                                 ELSE c.mem[u]]
           d == [c EXCEPT !.mem = f]
<1>1. f \in [Users -> Status]
  BY Zenon DEF Channel, Status
<1>2. d \in Channel /\ d.mem = f /\ d.ts = c.ts
  BY <1>1, Zenon DEF Channel
<1>3. AddMembers(c, X, items, drop) = d
  BY Zenon DEF AddMembers
<1>4. Members(d) \subseteq Members(c) \cup X
  BY <1>2, Zenon DEF Members
<1> QED BY <1>2, <1>3, <1>4, Zenon

\* Merging modes leaves members and time alone.
LEMMA MergeModesType ==
    ASSUME NEW c \in Channel, NEW m, m.modes \in SUBSET Modes,
           m.limit \in Limits \cup {0}
    PROVE  /\ MergeModes(c, m) \in Channel
           /\ Members(MergeModes(c, m)) = Members(c)
           /\ MergeModes(c, m).ts = c.ts
<1>1. c.modes \cup m.modes \in SUBSET Modes
  BY Zenon DEF Channel
<1>2. Larger(c.limit, m.limit) \in Limits \cup {0}
  BY Zenon DEF Channel, Larger
<1>3. MergeModes(c, m) \in Channel /\ MergeModes(c, m).mem = c.mem
      /\ MergeModes(c, m).ts = c.ts
  BY <1>1, <1>2, Zenon DEF MergeModes, Channel
<1> QED BY <1>3, Zenon DEF Members

\* Users can be listed.
LEMMA ListedType ==
    ASSUME NEW X \in SUBSET Users
    PROVE  Listed(X) \in Seq(X)
<1>1. Cardinality(X) \in Nat /\ Listed(X) \in [1..Cardinality(X) -> X]
  BY UsersAssumption, Zenon DEF Listed
<1> QED BY <1>1

\* The KICKs back only touch a queue.
LEMMA KickBackGood ==
    ASSUME NEW w, Good(w), NEW t \in Servers, NEW s \in Servers,
           NEW X \in SUBSET Users
    PROVE  /\ Good(KickBack(w, t, s, X))
           /\ KickBack(w, t, s, X).chan = w.chan
           /\ KickBack(w, t, s, X).known = w.known
           /\ KickBack(w, t, s, X).peers = w.peers
<1> DEFINE q == Listed(X)
           k == [i \in DOMAIN q |-> KICK(q[i])]
           l == [w.link EXCEPT ![t] = [w.link[t] EXCEPT ![s] =
                    w.link[t][s] \o k]]
<1>2. q \in Seq(X)
  BY ListedType, Zenon
<1> HIDE DEF q
<1>3. \A u \in Users : KICK(u) \in Message
  BY MessageTypes, Zenon
<1>4. k \in Seq(Message)
  BY <1>2, <1>3
<1> HIDE DEF k
<1>5. w.link \in [Servers -> [Servers -> Seq(Message)]]
  BY Zenon DEF Good, WorldType
<1>6. w.link[t][s] \o k \in Seq(Message)
  BY <1>4, <1>5
<1>7. l \in [Servers -> [Servers -> Seq(Message)]]
  BY <1>5, <1>6, Zenon
<1>8. KickBack(w, t, s, X) = [w EXCEPT !.link = l]
  BY Zenon DEF KickBack, k, q
<1> HIDE DEF l
<1>9. /\ Good([w EXCEPT !.link = l])
      /\ [w EXCEPT !.link = l].chan = w.chan
      /\ [w EXCEPT !.link = l].known = w.known
      /\ [w EXCEPT !.link = l].peers = w.peers
  BY <1>7, RelinkGood, Zenon
<1> QED BY <1>8, <1>9, Zenon

\* What the messages carry.
LEMMA MessageFields ==
    ASSUME NEW m \in Message
    PROVE  /\ m.type = "SJOIN" =>
                  /\ m \in [type : {"SJOIN"}, ts : Times, modes : SUBSET Modes,
                            items : [Users -> Status], limit : Limits \cup {0}]
           /\ m.type = "UID" => m.users \in SUBSET Users
           /\ m.type \in {"PART", "KICK", "QUIT"} => m.u \in Users
           /\ m.type = "TSMODE" => m.ts \in Times /\ m.modes \in SUBSET Modes
           /\ m.type = "STATUS" => m.u \in Users /\ m.st \in {"in", "op"}
           /\ m.type = "FLAG" => m.mode \in Modes /\ m.on \in BOOLEAN
           /\ m.type = "LIMIT" => m.limit \in Limits \cup {0}
           /\ m \in {SERVER, EOF} \/
              m.type \in {"UID", "SJOIN", "PART", "KICK", "QUIT", "SQUIT",
                          "TSMODE", "STATUS", "FLAG", "LIMIT"}
BY DEF Message, SERVER, EOF

\* cmd_sjoin keeps a world good: it adds clients the server knows only, and
\* the time it ends with is the older of the two.
LEMMA SjoinGood ==
    ASSUME NEW w, Good(w), NEW t \in Servers, NEW s \in Servers,
           NEW m \in Message, m.type = "SJOIN"
    PROVE  Good(cmd_sjoin(w, t, s, m)) /\ Older(w, cmd_sjoin(w, t, s, m))
<1> DEFINE old == w.chan[t]
           drop == RemoveTheirs(old, m.ts)
           mine == Meet(old, m.ts)
           X == Accepted(w, t, s, m)
           all == AddMembers(mine, X, m.items, drop)
           new == IF drop THEN all ELSE MergeModes(all, m)
           it == [u \in Users |-> IF u \in X THEN m.items[u] ELSE "out"]
           fwd == [m EXCEPT !.items = it]
           F == FakeDirection(w, t, s, m, mine)
           w1 == KickBack(w, t, s, F)
           w2 == SendToServer(w1, t, s, fwd)
           c == sub1_from_channel(new)
<1>0. w \in WorldType /\ Knows(w)
  BY Zenon DEF Good
<1>1. /\ m \in [type : {"SJOIN"}, ts : Times, modes : SUBSET Modes,
                items : [Users -> Status], limit : Limits \cup {0}]
      /\ m.ts \in Times /\ m.items \in [Users -> Status]
      /\ m.modes \in SUBSET Modes /\ m.limit \in Limits \cup {0}
  BY MessageFields, Zenon
<1>2. old \in Channel \cup {None}
  BY <1>0, Zenon DEF WorldType
<1>3. drop \in BOOLEAN
  BY Zenon DEF RemoveTheirs
<1>4. X \in SUBSET Users /\ F \in SUBSET Users /\ \A u \in X : w.known[t][u] = s
  BY Zenon DEF Accepted, FakeDirection
<1>5. it \in [Users -> Status]
  BY <1>1, Zenon DEF Status
<1>6. cmd_sjoin(w, t, s, m) = SetChan(w2, t, c)
  BY Zenon DEF cmd_sjoin
<1> HIDE DEF drop, X, F, it
<1>7. /\ mine \in Channel
      /\ \A u \in Members(mine) : old # None /\ u \in Members(old)
      /\ old # None => mine.ts <= old.ts
  BY <1>1, <1>2, MeetType, SMTT(60)
<1> HIDE DEF mine
<1>8. /\ all \in Channel /\ all.ts = mine.ts
      /\ Members(all) \subseteq Members(mine) \cup X
  BY <1>1, <1>3, <1>7, AddMembersType, SMTT(60)
<1> HIDE DEF all
<1>9. new \in Channel /\ new.ts = mine.ts /\ Members(new) = Members(all)
  BY <1>1, <1>8, MergeModesType, Zenon
<1> HIDE DEF new
<1>10. c \in Channel \cup {None} /\ (c # None => c = new /\ Members(c) # {})
  BY <1>9, Sub1, SMTT(60)
<1> HIDE DEF c
<1>11. \A u \in Members(mine) : w.known[t][u] # None
  BY <1>0, <1>7, SMTT(60) DEF Knows, IsMember, Members
<1>12. \A u \in Members(new) : w.known[t][u] # None
  BY <1>4, <1>8, <1>9, <1>11, NoneAssumption, Zenon
<1>13. fwd \in Message
  BY <1>1, <1>5, Zenon DEF Message
<1> HIDE DEF fwd
<1>14. Good(w1) /\ w1.chan = w.chan /\ w1.known = w.known
  BY <1>4, KickBackGood
<1> HIDE DEF w1
<1>15. Good(w2) /\ w2.chan = w.chan /\ w2.known = w.known
  BY <1>13, <1>14, SendToServerGood
<1> HIDE DEF w2
<1>16. c # None => Members(c) # {} /\ \A u \in Members(c) : w2.known[t][u] # None
  BY <1>10, <1>12, <1>15, SMTT(60)
<1>17. Good(SetChan(w2, t, c)) /\ SetChan(w2, t, c).chan = [w.chan EXCEPT ![t] = c]
  BY <1>10, <1>15, <1>16, SetChanGood
<1>18. w.chan[t] # None /\ c # None => c.ts <= w.chan[t].ts
  BY <1>7, <1>9, <1>10, SMTT(60)
<1>19. Older(w, SetChan(w2, t, c))
  BY <1>0, <1>10, <1>17, <1>18, SetChanOlder, SMTT(60)
<1> QED BY <1>6, <1>17, <1>19, Zenon

-----------------------------------------------------------------------------
(* The other messages *)

\* PART and KICK keep a world good.
LEMMA LeaveGood ==
    ASSUME NEW w, Good(w), NEW t \in Servers, NEW s, NEW u \in Users,
           NEW m \in Message
    PROVE  Good(cmd_leave(w, t, s, u, m)) /\ Older(w, cmd_leave(w, t, s, u, m))
<1> DEFINE w1 == SendToServer(w, t, s, m)
<1>1. Good(w1) /\ w1.chan = w.chan
  BY SendToServerGood
<1> HIDE DEF w1
<1>2. Good(RemoveUsers(w1, t, {u})) /\ Older(w1, RemoveUsers(w1, t, {u}))
  BY <1>1, RemoveUsersGood, SMTT(60)
<1>3. Older(w, RemoveUsers(w1, t, {u}))
  BY <1>1, <1>2, Zenon DEF Older
<1>4. Older(w, w)
  BY SameOlder, Zenon DEF Good
<1>5. cmd_leave(w, t, s, u, m) \in {w, RemoveUsers(w1, t, {u})}
  BY SMTT(60) DEF cmd_leave, w1
<1> QED BY <1>2, <1>3, <1>4, <1>5, Zenon

\* Replacing a channel by one with the same members and no later time, and
\* telling the other servers, keeps a world good.
LEMMA UpdateGood ==
    ASSUME NEW w, Good(w), NEW t \in Servers, NEW s, NEW m \in Message,
           w.chan[t] # None, NEW c \in Channel, c.ts <= w.chan[t].ts,
           Members(c) = Members(w.chan[t])
    PROVE  LET r == SetChan(SendToServer(w, t, s, m), t, c)
           IN  Good(r) /\ Older(w, r)
<1> DEFINE w1 == SendToServer(w, t, s, m)
<1>0. w \in WorldType /\ NonEmpty(w) /\ Knows(w)
  BY Zenon DEF Good
<1>1. Good(w1) /\ w1.chan = w.chan /\ w1.known = w.known
  BY SendToServerGood
<1> HIDE DEF w1
<1>2. Members(c) # {} /\ \A u \in Members(c) : w1.known[t][u] # None
  BY <1>0, <1>1, SMTT(60) DEF NonEmpty, Knows, IsMember, Members
<1>3. Good(SetChan(w1, t, c)) /\ SetChan(w1, t, c).chan = [w.chan EXCEPT ![t] = c]
  BY <1>1, <1>2, SetChanGood, SMTT(60)
<1>4. Older(w, SetChan(w1, t, c))
  BY <1>0, <1>3, SetChanOlder
<1> QED BY <1>3, <1>4, SMTT(60) DEF w1

\* A MODE by a server: an older time or none.
LEMMA ModeServerGood ==
    ASSUME NEW w, Good(w), NEW t \in Servers, NEW s, NEW m \in Message,
           m.type = "TSMODE"
    PROVE  /\ Good(cmd_mode_server(w, t, s, m))
           /\ Older(w, cmd_mode_server(w, t, s, m))
<1> DEFINE c == w.chan[t]
           new == [c EXCEPT !.modes = c.modes \cup m.modes, !.ts = m.ts]
           o == IF new.modes # c.modes THEN m ELSE TSMODE(m.ts, {})
<1>0. w \in WorldType /\ Older(w, w)
  BY SameOlder, Zenon DEF Good
<1>1. m.ts \in Times /\ m.modes \in SUBSET Modes
  BY MessageFields, Zenon
<1>2. CASE c = None \/ m.ts > c.ts \/ new = c
  BY <1>0, <1>2, SMTT(60) DEF cmd_mode_server
<1>3. CASE ~(c = None \/ m.ts > c.ts \/ new = c)
  <2>1. c \in Channel
    BY <1>0, <1>3, Zenon DEF WorldType
  <2>2. new \in Channel /\ new.ts = m.ts /\ new.mem = c.mem
    BY <1>1, <2>1, Zenon DEF Channel
  <2>3. c.ts \in Nat /\ m.ts \in Nat
    BY <1>1, <2>1, ValuesAssumption, Zenon DEF Channel
  <2>4. new.ts <= c.ts
    BY <1>3, <2>2, <2>3
  <2>5. Members(new) = Members(c)
    BY <2>2, Zenon DEF Members
  <2>6. o \in Message
    BY <1>1, MessageTypes, Zenon
  <2>7. cmd_mode_server(w, t, s, m) = SetChan(SendToServer(w, t, s, o), t, new)
    BY <1>3, Zenon DEF cmd_mode_server
  <2> HIDE DEF new, o
  <2> QED BY <1>3, <2>2, <2>4, <2>5, <2>6, <2>7, UpdateGood, SMTT(60)
<1> QED BY <1>2, <1>3, Zenon

\* A MODE by a user leaves members and time alone.
LEMMA ChangeType ==
    ASSUME NEW c \in Channel, NEW m \in Message,
           m.type \in {"STATUS", "FLAG", "LIMIT"}
    PROVE  /\ Change(c, m) \in Channel
           /\ Change(c, m).ts = c.ts
           /\ Members(Change(c, m)) = Members(c)
<1>1. CASE m.type = "STATUS"
  <2> DEFINE f == [c.mem EXCEPT ![m.u] = m.st]
             d == [c EXCEPT !.mem = f]
  <2>1. m.u \in Users /\ m.st \in {"in", "op"}
    BY <1>1, MessageFields, Zenon
  <2>2. f \in [Users -> Status]
    BY <2>1, Zenon DEF Channel, Status
  <2>3. d \in Channel /\ d.ts = c.ts /\ d.mem = f
    BY <2>2, Zenon DEF Channel
  <2>4. c.mem[m.u] # "out" => Members(d) = Members(c)
    BY <2>1, <2>3, Zenon DEF Members, Channel
  <2>5. Change(c, m) = IF c.mem[m.u] = "out" THEN c ELSE d
    BY <1>1, Zenon DEF Change
  <2> HIDE DEF d
  <2> QED BY <2>3, <2>4, <2>5, Zenon
<1>2. CASE m.type = "FLAG"
  <2> DEFINE f == IF m.on THEN c.modes \cup {m.mode} ELSE c.modes \ {m.mode}
             d == [c EXCEPT !.modes = f]
  <2>1. m.mode \in Modes
    BY <1>2, MessageFields, Zenon
  <2>2. f \in SUBSET Modes
    BY <2>1, Zenon DEF Channel
  <2>3. d \in Channel /\ d.ts = c.ts /\ d.mem = c.mem
    BY <2>2, Zenon DEF Channel
  <2>4. Change(c, m) = d
    BY <1>2, Zenon DEF Change
  <2> HIDE DEF d
  <2> QED BY <2>3, <2>4, Zenon DEF Members
<1>3. CASE m.type = "LIMIT"
  <2> DEFINE d == [c EXCEPT !.limit = m.limit]
  <2>1. m.limit \in Limits \cup {0}
    BY <1>3, MessageFields, Zenon
  <2>3. d \in Channel /\ d.ts = c.ts /\ d.mem = c.mem
    BY <2>1, Zenon DEF Channel
  <2>4. Change(c, m) = d
    BY <1>3, Zenon DEF Change
  <2> HIDE DEF d
  <2> QED BY <2>3, <2>4 DEF Members
<1> QED BY <1>1, <1>2, <1>3, SMTT(60)

\* A MODE by a user of another server keeps a world good.
LEMMA ModeUserGood ==
    ASSUME NEW w, Good(w), NEW t \in Servers, NEW s, NEW m \in Message,
           m.type \in {"STATUS", "FLAG", "LIMIT"}
    PROVE  /\ Good(cmd_mode_user(w, t, s, m))
           /\ Older(w, cmd_mode_user(w, t, s, m))
<1> DEFINE c == w.chan[t]
           d == Change(c, m)
<1>0. w \in WorldType /\ Older(w, w)
  BY SameOlder, Zenon DEF Good
<1>1. CASE c = None \/ d = c
  BY <1>0, <1>1, SMTT(60) DEF cmd_mode_user
<1>2. CASE ~(c = None \/ d = c)
  <2>1. c \in Channel
    BY <1>0, <1>2, Zenon DEF WorldType
  <2>2. d \in Channel /\ d.ts = c.ts /\ Members(d) = Members(c)
    BY <2>1, ChangeType, Zenon
  <2>3. c.ts \in Nat
    BY <2>1, ValuesAssumption, ZenonT(90) DEF Channel
  <2>4. cmd_mode_user(w, t, s, m) = SetChan(SendToServer(w, t, s, m), t, d)
    BY <1>2, Zenon DEF cmd_mode_user
  <2> HIDE DEF d
  <2>5. d.ts <= c.ts
    BY <2>2, <2>3
  <2> QED BY <1>2, <2>2, <2>4, <2>5, UpdateGood, Zenon
<1> QED BY <1>1, <1>2, Zenon

\* QUIT and SQUIT keep a world good.
LEMMA QuitGood ==
    ASSUME NEW w, Good(w), NEW t \in Servers, NEW s, NEW m \in Message, NEW X
    PROVE  LET r == exit_one_client(SendToServer(w, t, s, m), t, X)
           IN  Good(r) /\ Older(w, r)
<1> DEFINE w1 == SendToServer(w, t, s, m)
           r == exit_one_client(w1, t, X)
<1>1. Good(w1) /\ w1.chan = w.chan
  BY SendToServerGood
<1> HIDE DEF w1
<1>2. Good(r) /\ Older(w1, r)
  BY <1>1, ExitGood, Zenon
<1>3. Older(w, r)
  BY <1>1, <1>2, Zenon DEF Older
<1> QED BY <1>2, <1>3, Zenon DEF w1

\* New clients keep a world good.
LEMMA UidGood ==
    ASSUME NEW w, Good(w), NEW t \in Servers, NEW s \in Servers,
           NEW m \in Message, m.type = "UID"
    PROVE  Good(cmd_uid(w, t, s, m)) /\ Older(w, cmd_uid(w, t, s, m))
<1> DEFINE new == {u \in m.users : w.known[t][u] = None}
           f == [u \in Users |-> IF u \in new THEN s ELSE w.known[t][u]]
           k == [w.known EXCEPT ![t] = f]
           w1 == [w EXCEPT !.known = k]
           r == SendToServer(w1, t, s, UIDs(new))
<1>0. w \in WorldType /\ NonEmpty(w) /\ Knows(w)
  BY Zenon DEF Good
<1>1. new \in SUBSET Users
  BY MessageFields, Zenon
<1>2. f \in [Users -> Servers \cup {None}]
  BY <1>0 DEF WorldType
<1>3. k \in [Servers -> [Users -> Servers \cup {None}]]
  <2> HIDE DEF f
  <2> QED BY <1>0, <1>2, SMTT(60) DEF WorldType
<1>4. \A x \in Servers, u \in Users : w.known[x][u] # None => k[x][u] # None
  BY <1>0, NoneAssumption, Zenon DEF WorldType
<1>5. cmd_uid(w, t, s, m) = r
  BY SMTT(60) DEF cmd_uid
<1>6. UIDs(new) \in Message
  BY <1>1, MessageTypes, Zenon
<1> HIDE DEF k, new
<1>7. w1 \in WorldType /\ w1.chan = w.chan /\ w1.known = k
  BY <1>0, <1>3, ZenonT(90) DEF WorldType
<1> HIDE DEF w1
<1>8. Good(w1)
  BY <1>0, <1>4, <1>7, Zenon DEF Good, NonEmpty, Knows, IsMember
<1>9. Good(r) /\ r.chan = w.chan
  BY <1>6, <1>7, <1>8, SendToServerGood
<1>10. Older(w, r)
  BY <1>0, <1>9, SameOlder, Zenon
<1> QED BY <1>5, <1>9, <1>10, Zenon

\* Every message a linked server processes keeps a world good.
LEMMA HandleGood ==
    ASSUME NEW w, Good(w), NEW t \in Servers, NEW s \in Servers,
           NEW m \in Message, m \notin {SERVER, EOF}
    PROVE  Good(Handle(w, t, s, m)) /\ Older(w, Handle(w, t, s, m))
<1> DEFINE r == Handle(w, t, s, m)
<1>0. Older(w, w)
  BY SameOlder, Zenon DEF Good
<1>1. CASE m.type = "UID"
  <2>1. r = cmd_uid(w, t, s, m)
    BY <1>1, Zenon DEF Handle
  <2> QED BY <1>1, <2>1, UidGood, Zenon
<1>2. CASE m.type = "SJOIN"
  <2>1. r = cmd_sjoin(w, t, s, m)
    BY <1>2, Zenon DEF Handle
  <2> QED BY <1>2, <2>1, SjoinGood, Zenon
<1>3. CASE m.type \in {"PART", "KICK"}
  <2>1. r = cmd_leave(w, t, s, m.u, m)
    BY <1>3, Zenon DEF Handle
  <2>2. m.u \in Users
    BY <1>3, MessageFields, Zenon
  <2> QED BY <2>1, <2>2, LeaveGood, Zenon
<1>4. CASE m.type = "TSMODE"
  <2>1. r = cmd_mode_server(w, t, s, m)
    BY <1>4, Zenon DEF Handle
  <2> QED BY <1>4, <2>1, ModeServerGood, Zenon
<1>5. CASE m.type \in {"STATUS", "FLAG", "LIMIT"}
  <2>1. r = cmd_mode_user(w, t, s, m)
    BY <1>5, Zenon DEF Handle
  <2> QED BY <1>5, <2>1, ModeUserGood, Zenon
<1>6. CASE m.type = "QUIT"
  <2>1. r = cmd_quit(w, t, s, m)
    BY <1>6, Zenon DEF Handle
  <2>2. r = w \/ r = exit_one_client(SendToServer(w, t, s, m), t, {m.u})
    BY <2>1, Zenon DEF cmd_quit
  <2> HIDE DEF r
  <2>3. Good(r) /\ Older(w, r)
    BY <1>0, <2>2, QuitGood, Zenon
  <2> QED BY <2>3, Zenon DEF r
<1>7. CASE m.type = "SQUIT"
  <2> DEFINE X == {u \in Users : w.known[t][u] = s /\ Home[u] \in m.servers}
  <2>1. r = cmd_squit(w, t, s, m)
    BY <1>7, Zenon DEF Handle
  <2>2. r = exit_one_client(SendToServer(w, t, s, m), t, X)
    BY <2>1, Zenon DEF cmd_squit
  <2> HIDE DEF X
  <2> QED BY <2>2, QuitGood, Zenon
<1> QED BY <1>1, <1>2, <1>3, <1>4, <1>5, <1>6, <1>7, MessageFields, SMTT(60)

\* server_sync: linking only sends, and adds a peer.
LEMMA ServerGood ==
    ASSUME NEW w, Good(w), NEW t \in Servers, NEW s \in Servers, NEW X
    PROVE  /\ Good(cmd_server(w, t, s, X))
           /\ cmd_server(w, t, s, X).chan = w.chan
<1> DEFINE reply == IF <<s, t>> \in Dials THEN <<SERVER>> ELSE <<>>
           N == {u \in Users : w.known[t][u] \notin {None, s}}
           users == <<UIDs(N)>>
           burst == ChannelBurst(w.chan[t], X)
           q == w.link[t][s] \o reply \o users \o burst
           l == [w.link EXCEPT ![t] = [w.link[t] EXCEPT ![s] = q]]
           p == [w.peers EXCEPT ![t] = w.peers[t] \cup {s}]
           r == cmd_server(w, t, s, X)
<1>0. w \in WorldType /\ NonEmpty(w) /\ Knows(w)
  BY Zenon DEF Good
<1>1. reply \in Seq(Message)
  BY MessageTypes
<1>a. UIDs(N) \in Message
  BY MessageTypes, Zenon
<1>2. users \in Seq(Message)
  BY <1>a
<1>3. burst \in Seq(Message)
  <2> DEFINE c == w.chan[t]
             m1 == SJOIN(c.ts, Only(c.mem, Users \ X), c.modes, c.limit)
             m2 == SJOIN(c.ts, Only(c.mem, X), {}, 0)
  <2>1. CASE c = None
    BY <2>1 DEF ChannelBurst
  <2>2. CASE c # None
    <3>1. c \in Channel
      BY <1>0, <2>2, SMTT(60) DEF WorldType
    <3>2. /\ Only(c.mem, Users \ X) \in [Users -> Status]
          /\ Only(c.mem, X) \in [Users -> Status]
      BY <3>1, Zenon DEF Only, Channel, Status
    <3>3. c.ts \in Times /\ c.modes \in SUBSET Modes /\ c.limit \in Limits \cup {0}
      BY <3>1, SMTT(60) DEF Channel
    <3>4. m1 \in Message /\ m2 \in Message
      BY <3>2, <3>3, MessageTypes, Zenon
    <3>5. burst = <<m1>> \o IF X = {} THEN <<>> ELSE <<m2>>
      BY <2>2, Zenon DEF ChannelBurst
    <3> HIDE DEF m1, m2
    <3> QED BY <3>4, <3>5
  <2> QED BY <2>1, <2>2, Zenon
<1> HIDE DEF reply, users, burst
<1>4. w.link[t][s] \in Seq(Message)
  BY <1>0, Zenon DEF WorldType
<1>b. w.link[t][s] \o reply \in Seq(Message)
  BY <1>1, <1>4
<1>c. w.link[t][s] \o reply \o users \in Seq(Message)
  BY <1>2, <1>b
<1>5. q \in Seq(Message)
  BY <1>3, <1>c
<1>6. r = [w EXCEPT !.peers = p, !.link = l]
  BY Zenon DEF cmd_server, reply, users, burst
<1> HIDE DEF q
<1>7. l \in [Servers -> [Servers -> Seq(Message)]]
  BY <1>0, <1>5, Zenon DEF WorldType
<1>8. p \in [Servers -> SUBSET Servers]
  BY <1>0, Zenon DEF WorldType
<1> HIDE DEF l, p
<1>9. r \in WorldType /\ r.chan = w.chan /\ r.known = w.known
  BY <1>0, <1>6, <1>7, <1>8, ZenonT(90) DEF WorldType
<1> HIDE DEF r
<1>10. Good(r)
  BY <1>0, <1>9, Zenon DEF Good, NonEmpty, Knows, IsMember
<1> QED BY <1>9, <1>10, Zenon DEF r

-----------------------------------------------------------------------------
(* The actions *)

\* The inductive invariant.
Inv == TypeOK /\ NoEmptyChannel /\ MembersKnown

CountType ==
    [joins : 0..MaxJoins, changes : 0..MaxChanges, splits : 0..MaxSplits]

\* What every step does.
Kept ==
    /\ Inv'
    /\ \A s \in Servers :
           chan[s] # None /\ chan'[s] # None => chan'[s].ts <= chan[s].ts

\* The invariant says that the world is good.
LEMMA WorldGood ==
    ASSUME Inv
    PROVE  Good(World)
BY Zenon DEF Inv, TypeOK, NoEmptyChannel, MembersKnown, Good, WorldType, World,
       NonEmpty, Knows, IsMember

\* ... and becoming a good world with no younger channel is what Kept asks.
LEMMA BecomeKept ==
    ASSUME NEW r, Good(r), Older(World, r), Become(r), count' \in CountType,
           entitled' \subseteq Users \X Times
    PROVE  Kept
<1>1. TypeOK'
  BY Zenon DEF Good, WorldType, Become, TypeOK, CountType
<1>2. NoEmptyChannel'
  BY SMTT(60) DEF Good, NonEmpty, Become, NoEmptyChannel
<1>3. MembersKnown'
  BY SMTT(60) DEF Good, Knows, Become, MembersKnown, IsMember, World
<1>4. \A s \in Servers :
          chan[s] # None /\ chan'[s] # None => chan'[s].ts <= chan[s].ts
  BY Zenon DEF Older, Become, World
<1> QED BY <1>1, <1>2, <1>3, <1>4, Zenon DEF Kept, Inv

\* Taking the first message from a queue.
LEMMA TakenGood ==
    ASSUME Inv, NEW s \in Servers, NEW t \in Servers, link[s][t] # <<>>
    PROVE  /\ Good(Taken(s, t))
           /\ Taken(s, t).chan = chan
           /\ Head(link[s][t]) \in Message
<1> DEFINE l == [link EXCEPT ![s] = [link[s] EXCEPT ![t] = Tail(link[s][t])]]
<1>1. link \in [Servers -> [Servers -> Seq(Message)]]
  BY Zenon DEF Inv, TypeOK
<1>2. link[s][t] \in Seq(Message)
  BY <1>1, Zenon
<1>3. Head(link[s][t]) \in Message /\ Tail(link[s][t]) \in Seq(Message)
  BY <1>2
<1>4. l \in [Servers -> [Servers -> Seq(Message)]]
  BY <1>1, <1>3, Zenon
<1> HIDE DEF l
<1>5. Good([World EXCEPT !.link = l]) /\ [World EXCEPT !.link = l].chan = World.chan
  BY <1>4, WorldGood, RelinkGood, ZenonT(90)
<1>6. World.chan = chan
  BY Zenon DEF World
<1>7. Taken(s, t) = [World EXCEPT !.link = l]
  BY Zenon DEF Taken, l
<1> QED BY <1>3, <1>5, <1>6, <1>7, Zenon

\* Older only looks at the channels.
LEMMA OlderFrom ==
    ASSUME NEW w, NEW v, NEW r, v.chan = w.chan, Older(v, r)
    PROVE  Older(w, r)
BY Zenon DEF Older

\* A message from a linked server: one of the handlers above.
LEMMA ReceiveKept ==
    ASSUME Inv, NEW s \in Servers, NEW t \in Servers, Receive(s, t)
    PROVE  Kept
<1> DEFINE v == Taken(s, t)
           m == Head(link[s][t])
           r == Handle(v, t, s, m)
<1>1. link[s][t] # <<>> /\ m \notin {SERVER, EOF} /\ Become(r)
      /\ UNCHANGED <<count, entitled>>
  BY Zenon DEF Receive
<1>2. Good(v) /\ v.chan = chan /\ m \in Message
  BY <1>1, TakenGood, SMTT(60)
<1> HIDE DEF v, m
<1>3. Good(r) /\ Older(v, r)
  BY <1>1, <1>2, HandleGood, Zenon
<1> HIDE DEF r
<1>4. Older(World, r)
  BY <1>2, <1>3, OlderFrom, Zenon DEF World
<1>5. count' \in CountType /\ entitled' \subseteq Users \X Times
  BY <1>1, Zenon DEF Inv, TypeOK, CountType
<1> QED BY <1>1, <1>3, <1>4, <1>5, BecomeKept, Zenon

\* A completed handshake sends the burst and adds a peer.
LEMMA ReceiveServerKept ==
    ASSUME Inv, NEW s \in Servers, NEW t \in Servers, ReceiveServer(s, t)
    PROVE  Kept
<1> DEFINE v == Taken(s, t)
<1>1. link[s][t] # <<>> /\ UNCHANGED <<count, entitled>>
  BY Zenon DEF ReceiveServer
<1>2. PICK X : Become(cmd_server(v, t, s, X))
  BY Zenon DEF ReceiveServer
<1> DEFINE r == cmd_server(v, t, s, X)
<1>3. Good(v) /\ v.chan = chan
  BY <1>1, TakenGood, SMTT(60)
<1> HIDE DEF v
<1>4. Good(r) /\ r.chan = v.chan
  BY <1>3, ServerGood
<1>5. Become(r)
  BY <1>2, SMTT(60)
<1> HIDE DEF r
<1>6. Older(World, r)
  BY <1>3, <1>4, WorldGood, SameOlder, SMTT(60) DEF Good, World
<1>7. count' \in CountType /\ entitled' \subseteq Users \X Times
  BY <1>1, SMTT(60) DEF Inv, TypeOK, CountType
<1> QED BY <1>4, <1>5, <1>6, <1>7, BecomeKept, SMTT(60)

\* A link lost by the other side.
LEMMA ReceiveEOFKept ==
    ASSUME Inv, NEW s \in Servers, NEW t \in Servers, ReceiveEOF(s, t)
    PROVE  Kept
<1> DEFINE v == Taken(s, t)
           w == IF s \in peers[t] THEN ExitServer(v, t, s) ELSE v
           l == [w.link EXCEPT ![t] = [w.link[t] EXCEPT ![s] = <<>>]]
           r == [w EXCEPT !.link = l]
<1>1. link[s][t] # <<>> /\ Become(r) /\ UNCHANGED <<count, entitled>>
  BY Zenon DEF ReceiveEOF
<1>2. Good(v) /\ v.chan = chan
  BY <1>1, TakenGood, Zenon
<1> HIDE DEF v
<1>3. Older(v, v)
  BY <1>2, SameOlder, SMTT(60) DEF Good
<1>4. Good(w) /\ Older(v, w)
  BY <1>2, <1>3, ExitServerGood, Zenon
<1> HIDE DEF w
<1>5. w.link \in [Servers -> [Servers -> Seq(Message)]]
  BY <1>4, Zenon DEF Good, WorldType
<1>6. l \in [Servers -> [Servers -> Seq(Message)]]
  BY <1>5
<1> HIDE DEF l
<1>7. Good(r) /\ r.chan = w.chan
  BY <1>4, <1>6, RelinkGood, ZenonT(90)
<1> HIDE DEF r
<1>8. Older(World, r)
  BY <1>2, <1>4, <1>7 DEF Older, World
<1>9. count' \in CountType /\ entitled' \subseteq Users \X Times
  BY <1>1, Zenon DEF Inv, TypeOK, CountType
<1> QED BY <1>1, <1>7, <1>8, <1>9, BecomeKept, SMTT(60)

\* Connecting only sends.
LEMMA DialKept ==
    ASSUME Inv, NEW s \in Servers, NEW t \in Servers, Dial(s, t)
    PROVE  Kept
<1> DEFINE r == SendTo(World, s, {t}, SERVER)
<1>1. Become(r) /\ UNCHANGED <<count, entitled>>
  BY SMTT(60) DEF Dial
<1>2. Good(r) /\ r.chan = World.chan
  BY WorldGood, SendToGood, MessageTypes, SMTT(60)
<1> HIDE DEF r
<1>3. Older(World, r)
  BY <1>2, WorldGood, SameOlder, SMTT(60) DEF Good
<1>4. count' \in CountType /\ entitled' \subseteq Users \X Times
  BY <1>1, Zenon DEF Inv, TypeOK, CountType
<1> QED BY <1>1, <1>2, <1>3, <1>4, BecomeKept, SMTT(60)

\* A link lost with messages under way.
LEMMA SplitKept ==
    ASSUME Inv, NEW s \in Servers, NEW t \in Servers, NEW k, Split(s, t, k)
    PROVE  Kept
<1> DEFINE w == ExitServer(World, s, t)
           e == Append(SubSeq(link[s][t], 1, k), EOF)
           l == [x \in Servers |-> [y \in Servers |->
                    IF x = s /\ y = t THEN e
                    ELSE IF x = t /\ y = s THEN <<>>
                    ELSE w.link[x][y]]]
           r == [w EXCEPT !.link = l]
<1>1. /\ Become(r) /\ UNCHANGED entitled
      /\ count.splits < MaxSplits /\ k \in 0..Len(link[s][t])
      /\ count' = [count EXCEPT !.splits = count.splits + 1]
  BY Zenon DEF Split
<1>2. Good(w) /\ Older(World, w)
  BY WorldGood, ExitServerGood, SMTT(60)
<1> HIDE DEF w
<1>3. w.link \in [Servers -> [Servers -> Seq(Message)]]
  BY <1>2, SMTT(60) DEF Good, WorldType
<1>4. link[s][t] \in Seq(Message)
  BY Zenon DEF Inv, TypeOK
<1>5. SubSeq(link[s][t], 1, k) \in Seq(Message)
  BY <1>1, <1>4, SMTT(60)
<1>6. e \in Seq(Message)
  BY <1>5, MessageTypes, SMTT(60)
<1> HIDE DEF e
<1>7. l \in [Servers -> [Servers -> Seq(Message)]]
  BY <1>3, <1>6
<1> HIDE DEF l
<1>8. Good(r) /\ r.chan = w.chan
  BY <1>2, <1>7, RelinkGood, ZenonT(90)
<1> HIDE DEF r
<1>9. Older(World, r)
  BY <1>2, <1>8 DEF Older
<1>10. count \in CountType /\ entitled' \subseteq Users \X Times
  BY <1>1, Zenon DEF Inv, TypeOK, CountType
<1>11. count' \in CountType
  BY <1>1, <1>10, BoundsAssumption, SMTT(60) DEF CountType
<1> QED BY <1>1, <1>8, <1>9, <1>10, <1>11, BecomeKept, SMTT(60)

\* A JOIN adds a user connected here, and to an existing channel only.
LEMMA LocalJoinKept ==
    ASSUME Inv, NEW u \in Users, NEW now \in Times, LocalJoin(u, now)
    PROVE  Kept
<1> DEFINE s == Home[u]
           st == LevelOnJoin(s)
           old == IF chan[s] = None THEN make_channel(now) ELSE chan[s]
           f == [old.mem EXCEPT ![u] = st]
           c == [old EXCEPT !.mem = f]
           first == Members(c) = {u} /\ c.modes = {} /\ c.limit = 0 /\ OnJoin # {}
           m1 == SJOIN(c.ts, JoinItems(u, st), {}, 0)
           m2 == TSMODE(c.ts, OnJoin)
           w1 == SendTo(World, s, peers[s], m1)
           w2 == IF first THEN SendTo(w1, s, peers[s], m2) ELSE w1
           new == IF first THEN [c EXCEPT !.modes = OnJoin] ELSE c
           r == SetChan(w2, s, new)
<1>0. TypeOK /\ Good(World)
  BY WorldGood, SMTT(60) DEF Inv
<1>1. /\ count.joins < MaxJoins /\ Connected(u)
      /\ Become(r)
      /\ count' = [count EXCEPT !.joins = count.joins + 1]
      /\ entitled' = entitled \cup
             (IF chan[s] = None THEN {<<u, now>>} ELSE {})
  BY Zenon DEF LocalJoin
<1>2. s \in Servers
  BY TreeAssumption, Zenon
<1>3. st \in {"in", "op"}
  BY SMTT(60) DEF LevelOnJoin
<1>4. /\ old \in Channel
      /\ chan[s] = None => Members(old) = {}
      /\ chan[s] # None => old = chan[s]
  BY <1>0, <1>2, MakeChannelType, SMTT(60) DEF TypeOK
<1> HIDE DEF s, st, old
<1>5. f \in [Users -> Status]
  BY <1>3, <1>4, SMTT(60) DEF Channel, Status
<1>6. c \in Channel /\ c.ts = old.ts /\ c.mem = f
  BY <1>4, <1>5, Zenon DEF Channel
<1>7. Members(c) = Members(old) \cup {u}
  BY <1>3, <1>4, <1>6, SMTT(60) DEF Members, Channel
<1>8. JoinItems(u, st) \in [Users -> Status]
  BY <1>3, SMTT(60) DEF JoinItems, Status
<1> HIDE DEF f, c
<1>9. c.ts \in Times
  BY <1>6, SMTT(60) DEF Channel
<1>10. m1 \in Message /\ m2 \in Message
  BY <1>8, <1>9, MessageTypes, ValuesAssumption, ZenonT(90)
<1>11. new \in Channel /\ new.ts = c.ts /\ new.mem = c.mem
  BY <1>6, ValuesAssumption, Zenon DEF Channel
<1>12. Members(new) = Members(old) \cup {u}
  BY <1>7, <1>11, SMTT(60) DEF Members
<1> HIDE DEF m1, m2, new, first
<1>13. Good(w1) /\ w1.chan = World.chan /\ w1.known = World.known
  BY <1>0, <1>2, <1>10, SendToGood, SMTT(60)
<1> HIDE DEF w1
<1>14. Good(SendTo(w1, s, peers[s], m2))
       /\ SendTo(w1, s, peers[s], m2).chan = w1.chan
       /\ SendTo(w1, s, peers[s], m2).known = w1.known
  BY <1>2, <1>10, <1>13, SendToGood, SMTT(60)
<1>15. Good(w2) /\ w2.chan = chan /\ w2.known = known
  BY <1>13, <1>14, Zenon DEF World
<1> HIDE DEF w2
<1>16. known[s][u] # None
  BY <1>1, SMTT(60) DEF Connected, s
<1>17. \A x \in Members(old) : known[s][x] # None
  BY <1>2, <1>4, Zenon DEF Inv, MembersKnown, IsMember, World, Members
<1>18. Members(new) # {} /\ \A x \in Members(new) : w2.known[s][x] # None
  BY <1>12, <1>15, <1>16, <1>17, SMTT(60)
<1>19. Good(r) /\ r.chan = [chan EXCEPT ![s] = new]
  BY <1>2, <1>11, <1>15, <1>18, SetChanGood, SMTT(60)
<1>20. old.ts \in Nat
  BY <1>4, ValuesAssumption, ZenonT(90) DEF Channel
<1>21. chan[s] # None /\ new # None => new.ts <= chan[s].ts
  BY <1>4, <1>6, <1>11, <1>20
<1> HIDE DEF r
<1>22. World \in WorldType /\ World.chan = chan
  BY <1>0, Zenon DEF Good, World
<1>23. Older(World, r)
  BY <1>2, <1>11, <1>19, <1>21, <1>22, SetChanOlder, SMTT(60)
<1>24. entitled' \subseteq Users \X Times
  BY <1>0, <1>1, SMTT(60) DEF TypeOK
<1>25. count \in CountType
  BY <1>0, Zenon DEF TypeOK, CountType
<1>26. count' \in CountType
  BY <1>1, <1>25, BoundsAssumption DEF CountType
<1> QED BY <1>1, <1>19, <1>23, <1>24, <1>26, BecomeKept, Zenon

\* A PART of a local user.
LEMMA LocalPartKept ==
    ASSUME Inv, NEW u \in Users, LocalPart(u)
    PROVE  Kept
<1> DEFINE s == Home[u]
           w1 == SendToServer(World, s, s, PART(u))
           r == RemoveUsers(w1, s, {u})
<1>1. Become(r) /\ UNCHANGED <<count, entitled>>
  BY SMTT(60) DEF LocalPart
<1>2. s \in Servers /\ PART(u) \in Message
  BY TreeAssumption, MessageTypes, Zenon
<1>3. Good(w1) /\ w1.chan = World.chan
  BY <1>2, WorldGood, SendToServerGood, SMTT(60)
<1> HIDE DEF w1, s
<1>4. Good(r) /\ Older(w1, r)
  BY <1>2, <1>3, RemoveUsersGood, SMTT(60)
<1> HIDE DEF r
<1>5. Older(World, r)
  BY <1>3, <1>4, SMTT(60) DEF Older
<1>6. count' \in CountType /\ entitled' \subseteq Users \X Times
  BY <1>1, Zenon DEF Inv, TypeOK, CountType
<1> QED BY <1>1, <1>4, <1>5, <1>6, BecomeKept, SMTT(60)

\* A KICK by a local user.
LEMMA LocalKickKept ==
    ASSUME Inv, NEW o \in Users, NEW u \in Users, LocalKick(o, u)
    PROVE  Kept
<1> DEFINE s == Home[o]
           w1 == SendToServer(World, s, s, KICK(u))
           r == RemoveUsers(w1, s, {u})
<1>1. /\ count.changes < MaxChanges /\ Become(r)
      /\ count' = [count EXCEPT !.changes = count.changes + 1]
      /\ UNCHANGED entitled
  BY SMTT(60) DEF LocalKick
<1>2. s \in Servers /\ KICK(u) \in Message
  BY TreeAssumption, MessageTypes, SMTT(60)
<1>3. Good(w1) /\ w1.chan = World.chan
  BY <1>2, WorldGood, SendToServerGood, SMTT(60)
<1> HIDE DEF w1, s
<1>4. Good(r) /\ Older(w1, r)
  BY <1>2, <1>3, RemoveUsersGood, SMTT(60)
<1> HIDE DEF r
<1>5. Older(World, r)
  BY <1>3, <1>4, SMTT(60) DEF Older
<1>6. count \in CountType /\ entitled \subseteq Users \X Times
  BY Zenon DEF Inv, TypeOK, CountType
<1>7. count' \in CountType
  BY <1>1, <1>6, BoundsAssumption DEF CountType
<1>8. entitled' \subseteq Users \X Times
  BY <1>1, <1>6, Zenon
<1> QED BY <1>1, <1>4, <1>5, <1>7, <1>8, BecomeKept, SMTT(60)

\* A MODE by a local user.
LEMMA LocalModeKept ==
    ASSUME Inv, NEW o \in Users, NEW m \in Changes, LocalMode(o, m)
    PROVE  Kept
<1> DEFINE s == Home[o]
           d == Change(chan[s], m)
           r == SetChan(SendToServer(World, s, s, m), s, d)
<1>0. TypeOK /\ Good(World) /\ World.chan = chan
  BY WorldGood, Zenon DEF Inv, World
<1>1. /\ count.changes < MaxChanges /\ IsOp(World, s, o)
      /\ Become(r)
      /\ count' = [count EXCEPT !.changes = count.changes + 1]
      /\ entitled' = entitled \cup
             {<<u, chan[s].ts>> : u \in {v \in Users : m = STATUS(v, "op")}}
  BY Zenon DEF LocalMode
<1>2. s \in Servers
  BY TreeAssumption, SMTT(60)
<1>3. m \in Message /\ m.type \in {"STATUS", "FLAG", "LIMIT"}
  BY Zenon DEF Changes, Message
<1>4. chan[s] # None /\ chan[s] \in Channel
  BY <1>0, <1>1, <1>2, SMTT(60) DEF IsOp, TypeOK
<1> HIDE DEF s
<1>5. d \in Channel /\ d.ts = chan[s].ts /\ Members(d) = Members(chan[s])
  BY <1>3, <1>4, ChangeType, SMTT(60)
<1>6. chan[s].ts \in Times
  BY <1>4, SMTT(60) DEF Channel
<1>a. chan[s].ts \in Nat
  BY <1>6, ValuesAssumption, SMTT(60)
<1> HIDE DEF d
<1>7. d.ts <= chan[s].ts
  BY <1>5, <1>a, SMTT(60)
<1>8. Good(r) /\ Older(World, r)
  BY <1>0, <1>2, <1>3, <1>4, <1>5, <1>7, UpdateGood, SMTT(60)
<1> HIDE DEF r
<1>b. \A u \in Users : <<u, chan[s].ts>> \in Users \X Times
  BY <1>6, Zenon
<1>9. entitled' \subseteq Users \X Times
  BY <1>0, <1>1, <1>b, SMTT(60) DEF TypeOK
<1>10. count \in CountType
  BY <1>0, Zenon DEF TypeOK, CountType
<1>11. count' \in CountType
  BY <1>1, <1>10, BoundsAssumption, SMTT(60) DEF CountType
<1> QED BY <1>1, <1>8, <1>9, <1>11, BecomeKept, SMTT(60)

\* A local user quits.
LEMMA LocalQuitKept ==
    ASSUME Inv, NEW u \in Users, LocalQuit(u)
    PROVE  Kept
<1> DEFINE s == Home[u]
           r == exit_one_client(SendToServer(World, s, s, QUIT(u)), s, {u})
<1>1. Become(r) /\ UNCHANGED <<count, entitled>>
  BY SMTT(60) DEF LocalQuit
<1>2. s \in Servers /\ QUIT(u) \in Message
  BY TreeAssumption, MessageTypes, SMTT(60)
<1>3. Good(r) /\ Older(World, r)
  BY <1>2, WorldGood, QuitGood, SMTT(60)
<1> HIDE DEF r
<1>4. count' \in CountType /\ entitled' \subseteq Users \X Times
  BY <1>1 DEF Inv, TypeOK, CountType
<1> QED BY <1>1, <1>3, <1>4, BecomeKept, SMTT(60)

-----------------------------------------------------------------------------
(* The theorems *)

\* The invariant holds initially.
LEMMA InitInv == Init => Inv
<1> SUFFICES ASSUME Init PROVE Inv
  BY SMTT(60)
<1>1. chan \in [Servers -> Channel \cup {None}]
  BY SMTT(60) DEF Init
<1>2. known \in [Servers -> [Users -> Servers \cup {None}]]
  BY TreeAssumption, SMTT(60) DEF Init
<1>3. peers \in [Servers -> SUBSET Servers]
  BY SMTT(60) DEF Init
<1>4. link \in [Servers -> [Servers -> Seq(Message)]]
  BY SMTT(60) DEF Init
<1>5. count \in [joins : 0..MaxJoins, changes : 0..MaxChanges,
                 splits : 0..MaxSplits]
  BY BoundsAssumption, SMTT(60) DEF Init
<1>6. entitled \subseteq Users \X Times
  BY SMTT(60) DEF Init
<1>7. \A s \in Servers : chan[s] # None =>
          Members(chan[s]) # {} /\ \A u \in Members(chan[s]) : Home[u] = s
  BY SMTT(60) DEF Init, InitChan
<1>8. NoEmptyChannel
  BY <1>7, SMTT(60) DEF NoEmptyChannel
<1>9. \A s \in Servers, u \in Users : Home[u] = s => known[s][u] # None
  BY TreeAssumption, NoneAssumption, SMTT(60) DEF Init
<1>10. MembersKnown
  BY <1>7, <1>9, Zenon DEF MembersKnown, IsMember, World, Members
<1> QED BY <1>1, <1>2, <1>3, <1>4, <1>5, <1>6, <1>8, <1>10, SMTT(60) DEF Inv, TypeOK

\* Every step keeps it and makes no channel younger.
LEMMA NextKept == Inv /\ [Next]_vars => Kept
<1> SUFFICES ASSUME Inv, [Next]_vars PROVE Kept
  BY Zenon
<1>1. CASE UNCHANGED vars
  <2>1. Become(World) /\ UNCHANGED <<count, entitled>>
    BY <1>1, Zenon DEF vars, Become, World
  <2>2. Good(World) /\ Older(World, World)
    BY WorldGood, SameOlder, SMTT(60) DEF Good
  <2>3. count' \in CountType /\ entitled' \subseteq Users \X Times
    BY <2>1, Zenon DEF Inv, TypeOK, CountType
  <2> QED BY <2>1, <2>2, <2>3, BecomeKept, SMTT(60)
<1>2. ASSUME NEW u \in Users, NEW now \in Times, LocalJoin(u, now)
      PROVE  Kept
  BY <1>2, LocalJoinKept, Zenon
<1>3. ASSUME NEW u \in Users, LocalPart(u) PROVE Kept
  BY <1>3, LocalPartKept, Zenon
<1>4. ASSUME NEW u \in Users, NEW v \in Users, LocalKick(u, v) PROVE Kept
  BY <1>4, LocalKickKept, Zenon
<1>5. ASSUME NEW u \in Users, NEW m \in Changes, LocalMode(u, m) PROVE Kept
  BY <1>5, LocalModeKept, SMTT(60)
<1>6. ASSUME NEW u \in Users, LocalQuit(u) PROVE Kept
  BY <1>6, LocalQuitKept
<1>7. ASSUME NEW s \in Servers, NEW t \in Servers, Receive(s, t) PROVE Kept
  BY <1>7, ReceiveKept
<1>8. ASSUME NEW s \in Servers, NEW t \in Servers, ReceiveServer(s, t)
      PROVE  Kept
  BY <1>8, ReceiveServerKept
<1>9. ASSUME NEW s \in Servers, NEW t \in Servers, ReceiveEOF(s, t)
      PROVE  Kept
  BY <1>9, ReceiveEOFKept
<1>10. ASSUME NEW s \in Servers, NEW t \in Servers, Dial(s, t) PROVE Kept
  BY <1>10, DialKept
<1>11. ASSUME NEW s \in Servers, NEW t \in Servers, NEW k, Split(s, t, k)
       PROVE  Kept
  BY <1>11, SplitKept, SMTT(60)
<1>12. CASE UserStep
  BY <1>2, <1>3, <1>4, <1>5, <1>6, <1>12, SMTT(60) DEF UserStep
<1>13. CASE ServerStep
  BY <1>7, <1>8, <1>9, <1>10, <1>11, <1>13, SMTT(60) DEF ServerStep
<1> QED BY <1>1, <1>12, <1>13, Zenon DEF Next

\* Inv is an invariant.
LEMMA Invariance == Spec => []Inv
<1>1. Inv /\ [Next]_vars => Inv'
  BY NextKept, Zenon DEF Kept
<1> QED BY InitInv, <1>1, PTL DEF Spec

\* For any network, users, clocks and modes: the tables and the queues hold
\* what they may hold.
THEOREM ChannelSyncTypes == Spec => []TypeOK
<1>1. Inv => TypeOK
  BY SMTT(60) DEF Inv
<1> QED BY Invariance, <1>1, PTL

\* No order of joins, parts, kicks, quits, splits and bursts leaves an empty
\* channel at a server: sub1_from_channel() runs wherever a member goes.
THEOREM ChannelsNeverEmpty == Spec => []NoEmptyChannel
<1>1. Inv => NoEmptyChannel
  BY SMTT(60) DEF Inv
<1> QED BY Invariance, <1>1, PTL

\* Every member of a channel is a client the server knows: cmd_sjoin only adds
\* such clients, and exit_one_client() removes their memberships with them.
THEOREM MembersAreKnown == Spec => []MembersKnown
<1>1. Inv => MembersKnown
  BY Zenon DEF Inv
<1> QED BY Invariance, <1>1, PTL

\* While a channel exists its creation time never rises.
THEOREM CreationTimeOnlyFalls == Spec => TSNeverNewer
<1> DEFINE A == \A s \in Servers :
                   chan[s] # None /\ chan'[s] # None =>
                       chan'[s].ts <= chan[s].ts
<1>1. Inv /\ [Next]_vars => [A]_vars
  BY NextKept, Zenon DEF Kept
<1> QED BY Invariance, <1>1, PTL DEF Spec, TSNeverNewer
-----------------------------------------------------------------------------
(* Agreement on the members *)

Neighbours(s, t) == <<s, t>> \in Dials \/ <<t, s>> \in Dials

Standings == {"absent", "present", "member"}

\* What server s has of user u.
Standing(w, s, u) ==
    IF w.known[s][u] = None THEN "absent"
    ELSE IF IsMember(w, s, u) THEN "member" ELSE "present"

\* What message m says of user u ...
Effect(m, u) ==
    IF m.type = "UID" /\ u \in m.users THEN "up"
    ELSE IF m.type = "SJOIN" /\ m.items[u] # "out" THEN "in"
    ELSE IF m.type = "PART" /\ m.u = u THEN "out"
    ELSE IF m.type = "QUIT" /\ m.u = u THEN "gone"
    ELSE IF m.type = "SQUIT" /\ Home[u] \in m.servers THEN "gone"
    ELSE "none"

\* ... and what that does to a server that has x of the user.
Apply(e, x) ==
    IF e = "up" THEN IF x = "absent" THEN "present" ELSE x
    ELSE IF e = "in" THEN IF x = "absent" THEN "absent" ELSE "member"
    ELSE IF e = "out" THEN IF x = "member" THEN "present" ELSE x
    ELSE IF e = "gone" THEN "absent"
    ELSE x

\* Processing the messages q takes a server from x to y, as to user u.
Leads(q, u, x, y) ==
    \E g \in [0..Len(q) -> Standings] :
        /\ g[0] = x /\ g[Len(q)] = y
        /\ \A i \in 1..Len(q) : g[i] = Apply(Effect(q[i], u), g[i - 1])

\* Nothing under way leads nowhere.
LEMMA LeadsEmpty ==
    ASSUME NEW u, NEW x \in Standings, NEW y
    PROVE  Leads(<<>>, u, x, y) <=> x = y
<1>1. ASSUME x = y PROVE Leads(<<>>, u, x, y)
  <2> DEFINE g == [i \in 0..0 |-> x]
  <2>1. g \in [0..Len(<<>>) -> Standings] /\ g[0] = x /\ g[Len(<<>>)] = y
    BY <1>1
  <2>2. 1..Len(<<>>) = {}
    OBVIOUS
  <2> HIDE DEF g
  <2> QED BY <2>1, <2>2, Zenon DEF Leads
<1>2. ASSUME Leads(<<>>, u, x, y) PROVE x = y
  BY <1>2, Zenon DEF Leads
<1> QED BY <1>1, <1>2, Zenon

\* An effect on a standing is a standing.
LEMMA ApplyType ==
    ASSUME NEW e, NEW x \in Standings
    PROVE  Apply(e, x) \in Standings
BY Zenon DEF Apply, Standings

\* One more message.
LEMMA LeadsAppend ==
    ASSUME NEW q \in Seq(Message), NEW m \in Message, NEW u, NEW x,
           NEW y \in Standings, Leads(q, u, x, y)
    PROVE  Leads(Append(q, m), u, x, Apply(Effect(m, u), y))
<1> DEFINE n == Len(q)
           z == Apply(Effect(m, u), y)
           p == Append(q, m)
<1>1. PICK g \in [0..n -> Standings] :
          /\ g[0] = x /\ g[n] = y
          /\ \A i \in 1..n : g[i] = Apply(Effect(q[i], u), g[i - 1])
  BY Zenon DEF Leads
<1>2. n \in Nat /\ Len(p) = n + 1 /\ p[n + 1] = m /\ \A i \in 1..n : p[i] = q[i]
  OBVIOUS
<1>3. z \in Standings
  BY ApplyType, Zenon
<1> HIDE DEF p, z, n
<1> DEFINE h == [i \in 0..(n + 1) |-> IF i = n + 1 THEN z ELSE g[i]]
<1>4. h \in [0..(n + 1) -> Standings] /\ h[0] = x /\ h[n + 1] = z /\ h[n] = y
  BY <1>1, <1>2, <1>3
<1>5. \A i \in 1..n : h[i] = g[i] /\ h[i - 1] = g[i - 1]
  BY <1>2
<1> HIDE DEF h
<1>6. ASSUME NEW i \in 1..(n + 1) PROVE h[i] = Apply(Effect(p[i], u), h[i - 1])
  <2>1. CASE i = n + 1
    BY <1>2, <1>4, <2>1 DEF z
  <2>2. CASE i \in 1..n
    BY <1>1, <1>2, <1>5, <2>2, Zenon
  <2> QED BY <1>2, <2>1, <2>2
<1>7. Leads(p, u, x, z)
  BY <1>2, <1>4, <1>6, Zenon DEF Leads
<1> QED BY <1>7, Zenon DEF p, z

\* The first message processed.
LEMMA LeadsTail ==
    ASSUME NEW q \in Seq(Message), q # <<>>, NEW u, NEW x \in Standings, NEW y,
           Leads(q, u, x, y)
    PROVE  Leads(Tail(q), u, Apply(Effect(Head(q), u), x), y)
<1> DEFINE n == Len(q)
           z == Apply(Effect(Head(q), u), x)
           p == Tail(q)
<1>1. PICK g \in [0..n -> Standings] :
          /\ g[0] = x /\ g[n] = y
          /\ \A i \in 1..n : g[i] = Apply(Effect(q[i], u), g[i - 1])
  BY Zenon DEF Leads
<1>2. n \in Nat \ {0} /\ Len(p) = n - 1 /\ Head(q) = q[1]
      /\ \A i \in 1..(n - 1) : p[i] = q[i + 1]
  OBVIOUS
<1> HIDE DEF p, n
<1> DEFINE h == [i \in 0..(n - 1) |-> g[i + 1]]
<1>4. h \in [0..(n - 1) -> Standings] /\ h[n - 1] = y /\ h[0] = g[1]
  BY <1>1, <1>2
<1>5. \A i \in 1..(n - 1) : h[i] = g[i + 1] /\ h[i - 1] = g[i]
  BY <1>2
<1> HIDE DEF h
<1>6. h[0] = z
  BY <1>1, <1>2, <1>4
<1> HIDE DEF z
<1>7. ASSUME NEW i \in 1..(n - 1) PROVE h[i] = Apply(Effect(p[i], u), h[i - 1])
  <2>1. g[i + 1] = Apply(Effect(q[i + 1], u), g[i])
    <3>1. i + 1 \in 1..n /\ (i + 1) - 1 = i
      BY <1>2
    <3> QED BY <1>1, <3>1, Zenon
  <2> QED BY <1>2, <1>5, <2>1, Zenon
<1>8. Leads(p, u, z, y)
  BY <1>2, <1>4, <1>6, <1>7, Zenon DEF Leads
<1> QED BY <1>8, Zenon DEF p, z

\* Every standing a server has is one of the three.
LEMMA StandingType ==
    ASSUME NEW w, NEW s, NEW u
    PROVE  Standing(w, s, u) \in Standings
BY Zenon DEF Standing, Standings

\* r differs from w by message m, sent by t to the servers T.
Sent(w, r, t, T, m) ==
    \A x, y \in Servers :
        r.link[x][y] = IF x = t /\ y \in T THEN Append(w.link[x][y], m)
                       ELSE w.link[x][y]

\* Message m, under way from s to t, is about users behind s.
Aimed(m, s, t) ==
    \A u \in Users : Effect(m, u) # "none" => Hop[t][Home[u]] = s

\* Messages of a network without kicks and mode changes by users.
Tame(m) == m.type \notin {"KICK", "STATUS", "FLAG", "LIMIT"}

\* Users are known in the direction of their server.
Heading(w, t) ==
    \A u \in Users : w.known[t][u] \in {None, Hop[t][Home[u]]}

\* Only server t has changed what it has of the users.
Elsewhere(w, r, t) ==
    \A x \in Servers \ {t}, u \in Users :
        w.known[x][u] = r.known[x][u] /\ Standing(w, x, u) = Standing(r, x, u)

\* What t has of the users follows message m.
Follows(w, r, t, m) ==
    \A u \in Users : Standing(r, t, u) = Apply(Effect(m, u), Standing(w, t, u))

\* Message m2 may follow message m: it tells as much or less.
Tells(m2, m) ==
    /\ m2 \in Message \ {SERVER, EOF}
    /\ Tame(m2)
    /\ \A u \in Users : Effect(m2, u) \in {"none", Effect(m, u)}

\* r is w after t has processed message m from s: t has done what m says, and
\* has told the other servers what it has done.
Processed(w, r, t, s, m) ==
    /\ r.peers = w.peers
    /\ Elsewhere(w, r, t)
    /\ Heading(r, t)
    /\ Follows(w, r, t, m)
    /\ \/ /\ r.link = w.link
          /\ \A u \in Users : Standing(r, t, u) = Standing(w, t, u)
       \/ \E m2 : /\ Tells(m2, m)
                  /\ Sent(w, r, t, w.peers[t] \ {s}, m2)
                  /\ Follows(w, r, t, m2)

\* The types of the messages built here.
LEMMA TypesDiffer ==
    /\ SERVER.type = "SERVER" /\ EOF.type = "EOF"
    /\ \A X : UIDs(X).type = "UID" /\ UIDs(X).users = X
    /\ \A u : PART(u).type = "PART" /\ PART(u).u = u
    /\ \A u : QUIT(u).type = "QUIT" /\ QUIT(u).u = u
    /\ \A X : SQUIT(X).type = "SQUIT" /\ SQUIT(X).servers = X
    /\ \A ts, ms : TSMODE(ts, ms).type = "TSMODE"
    /\ \A ts, it, ms, l : SJOIN(ts, it, ms, l).type = "SJOIN"
                          /\ SJOIN(ts, it, ms, l).items = it
BY Zenon DEF SERVER, EOF, UIDs, PART, QUIT, SQUIT, TSMODE, SJOIN

\* Message m is in the queue q.
Has(q, m) == \E i \in 1..Len(q) : q[i] = m

\* The handshake and the end of the link from s to t: SERVER opens a queue,
\* and only while the other side has not answered; EOF ends it, and only when
\* the sender has dropped the link; a server sends nothing else over a link it
\* does not have.
Wire(w, s, t) ==
    LET q == w.link[s][t]
    IN  /\ t \in w.peers[s] \/ q # <<>> => Neighbours(s, t)
        /\ \A i \in 1..Len(q) : q[i] = SERVER =>
               /\ i = 1 /\ s \notin w.peers[t] /\ w.link[t][s] = <<>>
               /\ <<s, t>> \in Dials => Len(q) = 1 /\ t \notin w.peers[s]
        /\ \A i \in 1..Len(q) : q[i] = EOF => i = Len(q) /\ t \notin w.peers[s]
        /\ t \notin w.peers[s] /\ q # <<>> => q = <<SERVER>> \/ q[Len(q)] = EOF

Wires(w) == \A s, t \in Servers : Wire(w, s, t)

\* Everything under way is about users behind the sender.
Traffic(w) ==
    \A s, t \in Servers : \A i \in 1..Len(w.link[s][t]) :
        Aimed(w.link[s][t][i], s, t) /\ Tame(w.link[s][t][i])

Directed(w) == \A t \in Servers : Heading(w, t)

\* t has nothing, and nothing under way, from s.
Apart(w, t, s) ==
    s \notin w.peers[t] \/ (t \notin w.peers[s] /\ ~Has(w.link[s][t], EOF))

\* A server that has no link to a neighbour knows nobody behind it.
Strangers(w) ==
    \A s, t \in Servers : Neighbours(s, t) /\ Apart(w, t, s) =>
        \A u \in Users : Hop[t][Home[u]] = s => w.known[t][u] = None

\* s sends to t, and t will process it.
Flow(w, s, t) == t \in w.peers[s] /\ ~Has(w.link[t][s], EOF)

\* What is under way from s to t leads from what t has to what s has of every
\* user behind s.
Carried(w) ==
    \A s, t \in Servers, u \in Users : Flow(w, s, t) /\ Hop[t][Home[u]] = s =>
        Leads(w.link[s][t], u, Standing(w, t, u), Standing(w, s, u))

Net(w) == Wires(w) /\ Traffic(w) /\ Directed(w) /\ Strangers(w) /\ Carried(w)

\* Neighbours are different servers on the two sides of their link.
LEMMA Tree ==
    ASSUME NEW s \in Servers, NEW t \in Servers, Neighbours(s, t)
    PROVE  /\ s # t /\ Neighbours(t, s)
           /\ Hop[s][t] = t /\ Hop[t][s] = s
           /\ ~(<<s, t>> \in Dials /\ <<t, s>> \in Dials)
           /\ \A h \in Servers : Hop[s][h] = t <=> Hop[t][h] # s
<1>1. ASSUME NEW a \in Servers, NEW b \in Servers, <<a, b>> \in Dials
      PROVE  /\ <<b, a>> \notin Dials /\ Hop[a][b] = b /\ Hop[b][a] = a
             /\ \A h \in Servers : (Hop[a][h] = b) # (Hop[b][h] = a)
  <2> DEFINE d == <<a, b>>
  <2>1. d \in Dials /\ d[1] = a /\ d[2] = b
    BY <1>1, Zenon
  <2> HIDE DEF d
  <2>2. <<b, a>> \notin Dials /\ \A h \in Servers : (Hop[a][h] = b) # (Hop[b][h] = a)
    BY <2>1, LinksAssumption, Zenon
  <2>3. Hop[a][b] = b /\ Hop[b][a] = a
    BY <2>1, TreeAssumption, Zenon
  <2> QED BY <2>2, <2>3, Zenon
<1> QED BY <1>1 DEF Neighbours

\* The queues of a world are sequences of messages.
LEMMA LinkType ==
    ASSUME NEW w \in WorldType, NEW x \in Servers, NEW y \in Servers
    PROVE  w.link[x][y] \in Seq(Message)
BY DEF WorldType

\* A queue with one more message.
LEMMA Appended ==
    ASSUME NEW q \in Seq(Message), NEW m \in Message
    PROVE  /\ Len(Append(q, m)) = Len(q) + 1 /\ Len(q) \in Nat
           /\ \A i \in 1..Len(q) : Append(q, m)[i] = q[i]
           /\ Append(q, m)[Len(q) + 1] = m
           /\ \A i \in 1..Len(Append(q, m)) : i \in 1..Len(q) \/ i = Len(q) + 1
OBVIOUS

\* A queue without its first message.
LEMMA TailOf ==
    ASSUME NEW q \in Seq(Message), q # <<>>
    PROVE  /\ Tail(q) \in Seq(Message) /\ Len(Tail(q)) + 1 = Len(q) /\ Len(Tail(q)) \in Nat
           /\ \A i \in 1..Len(Tail(q)) :
                  i + 1 \in 1..Len(q) /\ Tail(q)[i] = q[i + 1] /\ i + 1 # 1
OBVIOUS

\* The last place of a queue, one place back.
LEMMA LastBefore == \A a, b \in Nat : a + 1 = b => \A i \in 1..a : i + 1 = b => i = a
OBVIOUS

\* A wire is the links of the world and who has them.
LEMMA SameWire ==
    ASSUME NEW v, NEW r, r.link = v.link, r.peers = v.peers, NEW x, NEW y, Wire(v, x, y)
    PROVE  Wire(r, x, y)
BY DEF Wire

\* Only server t has changed whom it knows, and it knows them where they are.
LEMMA DirectedOn ==
    ASSUME NEW w, Directed(w), NEW r, NEW t, Heading(r, t), Elsewhere(w, r, t)
    PROVE  Directed(r)
<1> SUFFICES ASSUME NEW x \in Servers, NEW u \in Users
             PROVE  r.known[x][u] \in {None, Hop[x][Home[u]]}
  BY Zenon DEF Directed, Heading
<1>1. w.known[x][u] \in {None, Hop[x][Home[u]]}
  BY Zenon DEF Directed, Heading
<1>2. CASE x = t
  BY <1>2, Zenon DEF Heading
<1>3. CASE x # t
  BY <1>1, <1>3, Zenon DEF Elsewhere
<1> QED BY <1>2, <1>3, Zenon

\* What Strangers and Carried say of two servers and a user.
LEMMA StrangersGive ==
    ASSUME NEW w, Strangers(w), NEW x \in Servers, NEW y \in Servers, Neighbours(x, y),
           Apart(w, y, x), NEW u \in Users, Hop[y][Home[u]] = x
    PROVE  w.known[y][u] = None
BY Zenon DEF Strangers

LEMMA CarriedGive ==
    ASSUME NEW w, Carried(w), NEW x \in Servers, NEW y \in Servers, NEW u \in Users,
           Flow(w, x, y), Hop[y][Home[u]] = x
    PROVE  Leads(w.link[x][y], u, Standing(w, y, u), Standing(w, x, u))
BY Zenon DEF Carried

\* Sending over links one has keeps the wires in order.
LEMMA SentWires ==
    ASSUME NEW w \in WorldType, Wires(w), NEW r, r.peers = w.peers,
           NEW t \in Servers, NEW T, T \subseteq w.peers[t],
           NEW m \in Message \ {SERVER, EOF}, Sent(w, r, t, T, m)
    PROVE  Wires(r) /\ \A x, y \in Servers : Has(r.link[x][y], EOF) <=> Has(w.link[x][y], EOF)
<1> SUFFICES ASSUME NEW x \in Servers, NEW y \in Servers
             PROVE  Wire(r, x, y) /\ (Has(r.link[x][y], EOF) <=> Has(w.link[x][y], EOF))
  BY Zenon DEF Wires
<1> DEFINE q == w.link[x][y]
           b == w.link[y][x]
<1>1. q \in Seq(Message) /\ Wire(w, x, y) /\ Wire(w, y, x)
  BY Zenon DEF WorldType, Wires
<1>2. r.link[x][y] = IF x = t /\ y \in T THEN Append(q, m) ELSE q
  BY Zenon DEF Sent
<1>3. r.link[y][x] = IF y = t /\ x \in T THEN Append(b, m) ELSE b
  BY Zenon DEF Sent
<1>4. CASE x = t /\ y \in T
  <2>1. y \in w.peers[x] /\ Neighbours(x, y)
    BY <1>1, <1>4, Zenon DEF Wire
  <2>2. x # y
    BY <2>1, Tree, Zenon
  <2>3. r.link[x][y] = Append(q, m) /\ r.link[y][x] = b
    BY <1>2, <1>3, <1>4, <2>2, Zenon
  <2>4. /\ \A i \in 1..Len(q) : q[i] # EOF
        /\ \A i \in 1..Len(q) : q[i] = SERVER =>
               i = 1 /\ x \notin w.peers[y] /\ b = <<>> /\ <<x, y>> \notin Dials
    BY <1>1, <2>1, Zenon DEF Wire
  <2>a. /\ Len(Append(q, m)) = Len(q) + 1 /\ Len(q) \in Nat
        /\ \A i \in 1..Len(q) : Append(q, m)[i] = q[i]
        /\ Append(q, m)[Len(q) + 1] = m
    <3>1. m \in Message
      BY Zenon
    <3> HIDE DEF q
    <3> QED BY <1>1, <3>1, Appended
  <2>5. \A i \in 1..Len(Append(q, m)) :
            /\ Append(q, m)[i] # EOF
            /\ Append(q, m)[i] = SERVER => i \in 1..Len(q) /\ q[i] = SERVER
    <3> DEFINE p == Append(q, m)
               n == Len(q)
    <3>1. n \in Nat /\ Len(p) = n + 1 /\ p[n + 1] = m /\ \A i \in 1..n : p[i] = q[i]
      BY <2>a, Zenon
    <3>2. m # EOF /\ m # SERVER
      BY Zenon
    <3> HIDE DEF p, n
    <3>3. \A i \in 1..Len(p) : i \in 1..n \/ i = n + 1
      BY <3>1
    <3>4. \A i \in 1..Len(p) : p[i] # EOF /\ (p[i] = SERVER => i \in 1..n /\ q[i] = SERVER)
      BY <2>4, <3>1, <3>2, <3>3, Zenon DEF n
    <3> QED BY <3>4, Zenon DEF p, n
  <2>6. ~Has(Append(q, m), EOF) /\ ~Has(q, EOF)
    BY <2>4, <2>5, Zenon DEF Has
  <2> HIDE DEF q, b
  <2>7. Wire(r, x, y)
    BY <2>1, <2>3, <2>4, <2>5, Zenon DEF Wire
  <2> QED BY <2>3, <2>6, <2>7, Zenon DEF q
<1>5. CASE ~(x = t /\ y \in T)
  <2>1. r.link[x][y] = q
    BY <1>2, <1>5, Zenon
  <2>2. \A i \in 1..Len(q) : q[i] = SERVER => r.link[y][x] = b
    BY <1>1, <1>3, Zenon DEF Wire
  <2>3. Wire(r, x, y)
    BY <1>1, <2>1, <2>2, Zenon DEF Wire
  <2> QED BY <2>1, <2>3, Zenon
<1> QED BY <1>4, <1>5, Zenon

\* v is w with the first message from s to t taken.
TookFirst(w, v, s, t) ==
    /\ v.peers = w.peers /\ v.known = w.known /\ v.chan = w.chan
    /\ \A x, y \in Servers :
           v.link[x][y] = IF x = s /\ y = t THEN Tail(w.link[x][y]) ELSE w.link[x][y]

\* The first message from s to t is m, and neither opens nor ends the link.
First(w, s, t, m) ==
    /\ w.link[s][t] # <<>> /\ m = Head(w.link[s][t])
    /\ m \notin {SERVER, EOF}

\* A queue that is not empty has a last message.
LEMMA LastIndex ==
    ASSUME NEW q \in Seq(Message), q # <<>>
    PROVE  Len(q) \in 1..Len(q)
OBVIOUS

\* Processing a message other than SERVER and EOF keeps the wires in order.
LEMMA TookWires ==
    ASSUME NEW w \in WorldType, Wires(w), NEW v, NEW s \in Servers, NEW t \in Servers,
           NEW m, First(w, s, t, m), TookFirst(w, v, s, t)
    PROVE  Wires(v) /\ \A x, y \in Servers : Has(v.link[x][y], EOF) <=> Has(w.link[x][y], EOF)
<1> SUFFICES ASSUME NEW x \in Servers, NEW y \in Servers
             PROVE  Wire(v, x, y) /\ (Has(v.link[x][y], EOF) <=> Has(w.link[x][y], EOF))
  BY Zenon DEF Wires
<1> DEFINE q == w.link[x][y]
           b == w.link[y][x]
<1>1. q \in Seq(Message) /\ b \in Seq(Message) /\ Wire(w, x, y) /\ Wire(w, y, x)
  BY Zenon DEF WorldType, Wires
<1>2. v.link[x][y] = IF x = s /\ y = t THEN Tail(q) ELSE q
  BY Zenon DEF TookFirst
<1>3. v.link[y][x] = IF y = s /\ x = t THEN Tail(b) ELSE b
  BY Zenon DEF TookFirst
<1>4. v.peers = w.peers
  BY Zenon DEF TookFirst
<1>5. CASE x = s /\ y = t
  <2>1. q # <<>> /\ q[1] \notin {SERVER, EOF}
    BY <1>5, <1>1 DEF First
  <2>2. /\ Tail(q) \in Seq(Message) /\ Len(Tail(q)) = Len(q) - 1 /\ Len(q) \in Nat \ {0}
        /\ \A i \in 1..Len(Tail(q)) : i + 1 \in 1..Len(q) /\ Tail(q)[i] = q[i + 1]
        /\ \A i \in 1..Len(q) : i # 1 => i - 1 \in 1..Len(Tail(q)) /\ Tail(q)[i - 1] = q[i]
    BY <1>1, <2>1
  <2>3. v.link[x][y] = Tail(q)
    BY <1>2, <1>5, Zenon
  <2>4. \A i \in 1..Len(q) : q[i] # SERVER
    BY <1>1, <2>1, Zenon DEF Wire
  <2>5. \A i \in 1..Len(q) : q[i] = EOF => i = Len(q) /\ y \notin w.peers[x]
    BY <1>1, ZenonT(60) DEF Wire
  <2>6. Has(Tail(q), EOF) <=> Has(q, EOF)
    BY <2>1, <2>2 DEF Has
  <2>7. Neighbours(x, y)
    BY <1>1, <2>1, Zenon DEF Wire
  <2>8. y \notin w.peers[x] => q[Len(q)] = EOF
    <3>1. <<SERVER>>[1] = SERVER
      OBVIOUS
    <3> QED BY <1>1, <2>1, <3>1, Zenon DEF Wire
  <2>9. \A i \in 1..Len(Tail(q)) : Tail(q)[i] # SERVER
    BY <2>2, <2>4, Zenon
  <2>10. \A i \in 1..Len(Tail(q)) : Tail(q)[i] = EOF => i = Len(Tail(q)) /\ y \notin w.peers[x]
    BY <2>2, <2>5
  <2>11. Tail(q) # <<>> => Len(Tail(q)) \in 1..Len(Tail(q))
    <3>0. Tail(q) \in Seq(Message)
      BY <2>2, Zenon
    <3> QED BY <3>0, LastIndex, Zenon
  <2>a. Tail(q) # <<>> => Tail(q)[Len(Tail(q))] = q[Len(Tail(q)) + 1]
    BY <2>2, <2>11, Zenon
  <2>b. Len(Tail(q)) + 1 = Len(q)
    BY <2>2
  <2>12. y \notin w.peers[x] /\ Tail(q) # <<>> => Tail(q)[Len(Tail(q))] = EOF
    BY <2>8, <2>a, <2>b, Zenon
  <2> HIDE DEF q
  <2>13. Wire(v, x, y)
    BY <1>4, <2>3, <2>7, <2>9, <2>10, <2>12, Zenon DEF Wire
  <2> QED BY <2>3, <2>6, <2>13, Zenon DEF q
<1>6. CASE ~(x = s /\ y = t)
  <2>1. v.link[x][y] = q
    BY <1>2, <1>6, Zenon
  <2>2. b = <<>> => v.link[y][x] = b
    BY <1>3, Zenon DEF First
  <2> HIDE DEF b
  <2>3. Wire(v, x, y)
    BY <1>1, <1>4, <2>1, <2>2, Zenon DEF Wire, b
  <2> QED BY <2>1, <2>3, Zenon
<1> QED BY <1>5, <1>6, Zenon

\* What a server passes on is about users behind it, for the next server.
LEMMA AimedOn ==
    ASSUME NEW s \in Servers, NEW t \in Servers, NEW y \in Servers, NEW m, NEW m2,
           Aimed(m, s, t), Tells(m2, m), Neighbours(t, y), y # s
    PROVE  Aimed(m2, t, y)
<1>1. \A h \in Servers : Hop[t][h] = s => Hop[y][h] = t
  BY Tree, Zenon
<1>2. \A u \in Users : Home[u] \in Servers
  BY TreeAssumption, Zenon
<1> QED BY <1>1, <1>2, Zenon DEF Aimed, Tells

\* Sending what is aimed right keeps the traffic in order.
LEMMA SentTraffic ==
    ASSUME NEW w \in WorldType, Traffic(w), NEW r, NEW t \in Servers, NEW T,
           NEW m \in Message, Sent(w, r, t, T, m), Tame(m),
           \A y \in Servers : y \in T => Aimed(m, t, y)
    PROVE  Traffic(r)
<1> SUFFICES ASSUME NEW x \in Servers, NEW y \in Servers, NEW i \in 1..Len(r.link[x][y])
             PROVE  Aimed(r.link[x][y][i], x, y) /\ Tame(r.link[x][y][i])
  BY Zenon DEF Traffic
<1> DEFINE q == w.link[x][y]
<1>1. q \in Seq(Message)
  BY Zenon DEF WorldType
<1>2. r.link[x][y] = IF x = t /\ y \in T THEN Append(q, m) ELSE q
  BY Zenon DEF Sent
<1>3. \A j \in 1..Len(q) : Aimed(q[j], x, y) /\ Tame(q[j])
  BY Zenon DEF Traffic
<1>4. CASE x = t /\ y \in T
  <2>1. r.link[x][y] = Append(q, m)
    BY <1>2, <1>4, Zenon
  <2>2. /\ Len(Append(q, m)) = Len(q) + 1 /\ Len(q) \in Nat
        /\ \A j \in 1..Len(q) : Append(q, m)[j] = q[j]
        /\ Append(q, m)[Len(q) + 1] = m
    <3>1. m \in Message
      BY Zenon
    <3> HIDE DEF q
    <3> QED BY <1>1, <3>1, Appended
  <2>3. i \in 1..Len(q) \/ i = Len(q) + 1
    <3>1. i \in 1..Len(Append(q, m))
      BY <2>1, Zenon
    <3> HIDE DEF q
    <3> QED BY <2>2, <3>1
  <2> QED BY <1>3, <1>4, <2>1, <2>2, <2>3, Zenon
<1>5. CASE ~(x = t /\ y \in T)
  BY <1>2, <1>3, <1>5, Zenon
<1> QED BY <1>4, <1>5, Zenon

\* A message less keeps the traffic in order.
LEMMA TookTraffic ==
    ASSUME NEW w \in WorldType, Traffic(w), NEW v, NEW s \in Servers, NEW t \in Servers,
           w.link[s][t] # <<>>, TookFirst(w, v, s, t)
    PROVE  Traffic(v)
<1> SUFFICES ASSUME NEW x \in Servers, NEW y \in Servers, NEW i \in 1..Len(v.link[x][y])
             PROVE  Aimed(v.link[x][y][i], x, y) /\ Tame(v.link[x][y][i])
  BY Zenon DEF Traffic
<1> DEFINE q == w.link[x][y]
<1>1. q \in Seq(Message)
  BY Zenon DEF WorldType
<1>2. v.link[x][y] = IF x = s /\ y = t THEN Tail(q) ELSE q
  BY Zenon DEF TookFirst
<1>3. \A j \in 1..Len(q) : Aimed(q[j], x, y) /\ Tame(q[j])
  BY Zenon DEF Traffic
<1>4. CASE x = s /\ y = t
  <2>1. v.link[x][y] = Tail(q) /\ q # <<>>
    BY <1>2, <1>4, Zenon
  <2>2. i + 1 \in 1..Len(q) /\ Tail(q)[i] = q[i + 1]
    BY <1>1, <2>1
  <2> QED BY <1>3, <2>1, <2>2, Zenon
<1>5. CASE ~(x = s /\ y = t)
  BY <1>2, <1>3, <1>5, Zenon
<1> QED BY <1>4, <1>5, Zenon

\* What the message under way from s to t says is about users behind s, and
\* leaves what t has of everybody else alone.
LEMMA OthersStay ==
    ASSUME NEW v, NEW r, NEW s, NEW t, NEW m, Aimed(m, s, t), Follows(v, r, t, m)
    PROVE  \A u \in Users : Hop[t][Home[u]] # s => Standing(r, t, u) = Standing(v, t, u)
<1>1. \A u \in Users : Hop[t][Home[u]] # s => Effect(m, u) = "none"
  BY Zenon DEF Aimed
<1>2. \A x : Apply("none", x) = x
  BY Zenon DEF Apply
<1> QED BY <1>1, <1>2, Zenon DEF Follows

\* t processes message m from s, with everything it passes on.
LEMMA ProcessedNet ==
    ASSUME NEW w, Good(w), Net(w), NEW s \in Servers, NEW t \in Servers,
           s \in w.peers[t], NEW m, First(w, s, t, m),
           NEW v, Good(v), TookFirst(w, v, s, t), NEW r, Good(r),
           Processed(v, r, t, s, m)
    PROVE  Net(r)
<1>0. /\ w \in WorldType /\ v \in WorldType /\ r \in WorldType
      /\ Wires(w) /\ Traffic(w) /\ Directed(w) /\ Strangers(w) /\ Carried(w)
  BY ZenonT(60) DEF Good, Net
<1>1. w.link[s][t] \in Seq(Message) /\ m \in Message
  BY <1>0 DEF WorldType, First
<1>2. Aimed(m, s, t)
  BY <1>0, <1>1 DEF Traffic, First
<1>3. /\ v.peers = w.peers /\ v.known = w.known
      /\ \A x, y \in Servers : v.link[x][y] =
             IF x = s /\ y = t THEN Tail(w.link[x][y]) ELSE w.link[x][y]
      /\ \A x, u : Standing(v, x, u) = Standing(w, x, u)
  BY Zenon DEF TookFirst, Standing, IsMember
<1>4. \A x, y \in Servers : y \in w.peers[x] => Neighbours(x, y) /\ x # y
  BY <1>0, Tree, Zenon DEF Wires, Wire
<1>5. s # t /\ Neighbours(s, t)
  BY <1>4, Tree, Zenon
<1>6. Wires(v) /\ \A x, y \in Servers : Has(v.link[x][y], EOF) <=> Has(w.link[x][y], EOF)
  BY <1>0, TookWires, Zenon
<1>7. Traffic(v)
  BY <1>0, TookTraffic, Zenon DEF First
<1>8. /\ r.peers = v.peers /\ Elsewhere(v, r, t) /\ Heading(r, t)
      /\ Follows(v, r, t, m)
  BY Zenon DEF Processed
<1>9. \A u \in Users : Hop[t][Home[u]] # s => Standing(r, t, u) = Standing(w, t, u)
  <2>1. \A u \in Users : Hop[t][Home[u]] # s => Standing(r, t, u) = Standing(v, t, u)
    BY <1>2, <1>8, OthersStay, SMTT(30)
  <2> QED BY <1>3, <2>1, ZenonT(60)
<1>10. \A x \in Servers \ {t}, u \in Users :
           r.known[x][u] = w.known[x][u] /\ Standing(r, x, u) = Standing(w, x, u)
  BY <1>3, <1>8 DEF Elsewhere
<1>11. \/ /\ r.link = v.link
          /\ \A u \in Users : Standing(r, t, u) = Standing(w, t, u)
       \/ \E m2 : /\ Tells(m2, m)
                  /\ Sent(v, r, t, v.peers[t] \ {s}, m2)
                  /\ Follows(v, r, t, m2)
  BY <1>3, Zenon DEF Processed
<1>12. /\ Wires(r) /\ Traffic(r)
       /\ \A x, y \in Servers : Has(r.link[x][y], EOF) <=> Has(w.link[x][y], EOF)
  <2>1. CASE r.link = v.link
    <3>1. Wires(r) /\ Traffic(r)
      <4>1. \A x, y \in Servers : Wire(v, x, y) => Wire(r, x, y)
        BY <1>8, <2>1, SameWire, Zenon
      <4>3. Wires(r)
        BY <1>6, <4>1, Zenon DEF Wires
      <4>2. Traffic(r)
        BY <1>7, <2>1, Zenon DEF Traffic
      <4> QED BY <4>2, <4>3, Zenon
    <3> QED BY <1>6, <2>1, <3>1, Zenon
  <2>2. ASSUME NEW m2, Tells(m2, m), Sent(v, r, t, v.peers[t] \ {s}, m2)
        PROVE  /\ Wires(r) /\ Traffic(r)
               /\ \A x, y \in Servers : Has(r.link[x][y], EOF) <=> Has(w.link[x][y], EOF)
    <3>1. m2 \in Message \ {SERVER, EOF} /\ Tame(m2)
      BY <2>2, Zenon DEF Tells
    <3>2. \A y \in Servers : y \in v.peers[t] \ {s} => Aimed(m2, t, y)
      BY <1>2, <1>3, <1>4, <2>2, AimedOn, Zenon
    <3>3. Traffic(r)
      BY <1>0, <1>7, <2>2, <3>1, <3>2, SentTraffic, Zenon
    <3>4. Wires(r) /\ \A x, y \in Servers : Has(r.link[x][y], EOF) <=> Has(v.link[x][y], EOF)
      <4> DEFINE T == v.peers[t] \ {s}
      <4>1. T \subseteq v.peers[t] /\ Sent(v, r, t, T, m2)
        BY <2>2, Zenon
      <4> HIDE DEF T
      <4> QED BY <1>0, <1>6, <1>8, <3>1, <4>1, SentWires, Zenon
    <3> QED BY <1>6, <3>3, <3>4, Zenon
  <2> QED BY <1>11, <2>1, <2>2, Zenon
<1>13. Directed(r)
  <2>1. Elsewhere(w, r, t)
    BY <1>10, Zenon DEF Elsewhere
  <2> QED BY <1>0, <1>8, <2>1, DirectedOn, Zenon
<1>14. Strangers(r)
  <2> SUFFICES ASSUME NEW x \in Servers, NEW y \in Servers, Neighbours(x, y),
                      Apart(r, y, x), NEW u \in Users, Hop[y][Home[u]] = x
               PROVE  r.known[y][u] = None
    BY Zenon DEF Strangers
  <2>1. Apart(w, y, x)
    BY <1>3, <1>8, <1>12, Zenon DEF Apart
  <2>2. w.known[y][u] = None
    BY <1>0, <2>1, Zenon DEF Strangers
  <2>3. CASE y # t
    BY <1>10, <2>2, <2>3, Zenon
  <2>4. CASE y = t /\ x # s
    <3>1. Standing(r, t, u) = Standing(w, t, u)
      BY <1>9, <2>4, Zenon
    <3> QED BY <2>2, <2>4, <3>1, Zenon DEF Standing
  <2>5. CASE y = t /\ x = s
    <3>1. t \notin w.peers[s] /\ ~Has(w.link[s][t], EOF)
      BY <2>1, <2>5, Zenon DEF Apart
    <3>2. Wire(w, s, t)
      BY <1>0, Zenon DEF Wires
    <3>3. w.link[s][t] = <<SERVER>> \/ w.link[s][t][Len(w.link[s][t])] = EOF
      BY <3>1, <3>2, ZenonT(60) DEF Wire, First
    <3>4. Len(w.link[s][t]) \in 1..Len(w.link[s][t])
      BY <1>1 DEF First
    <3>5. w.link[s][t] # <<SERVER>>
      BY DEF First
    <3> QED BY <3>1, <3>3, <3>4, <3>5, Zenon DEF Has
  <2> QED BY <2>3, <2>4, <2>5, Zenon
<1>15. Carried(r)
  <2> SUFFICES ASSUME NEW x \in Servers, NEW y \in Servers, NEW u \in Users,
                      Flow(r, x, y), Hop[y][Home[u]] = x
               PROVE  Leads(r.link[x][y], u, Standing(r, y, u), Standing(r, x, u))
    BY Zenon DEF Carried
  <2>1. Flow(w, x, y) /\ y \in w.peers[x]
    BY <1>3, <1>8, <1>12, Zenon DEF Flow
  <2>2. Leads(w.link[x][y], u, Standing(w, y, u), Standing(w, x, u))
    BY <1>0, <2>1, Zenon DEF Carried
  <2>3. Neighbours(x, y) /\ x # y
    BY <1>4, <2>1, Zenon
  <2>4. /\ Standing(w, x, u) \in Standings /\ Standing(w, y, u) \in Standings
        /\ w.link[x][y] \in Seq(Message)
    <3>1. w.link[x][y] \in Seq(Message)
      BY <1>0, LinkType, Zenon
    <3> QED BY <3>1, StandingType, Zenon
  <2>5. x # t => r.link[x][y] = v.link[x][y]
    BY <1>11, Zenon DEF Sent
  <2>6. CASE x = s /\ y = t
    <3>1. r.link[x][y] = Tail(w.link[x][y])
      BY <1>3, <1>5, <2>5, <2>6, Zenon
    <3>2. Standing(r, y, u) = Apply(Effect(Head(w.link[x][y]), u), Standing(w, y, u))
      BY <1>3, <1>8, <2>6, Zenon DEF Follows, First
    <3>3. Standing(r, x, u) = Standing(w, x, u)
      BY <1>5, <1>10, <2>6, Zenon
    <3>4. w.link[x][y] # <<>>
      BY <2>6, Zenon DEF First
    <3> QED BY <2>2, <2>4, <3>1, <3>2, <3>3, <3>4, LeadsTail, Zenon
  <2>7. CASE x # t /\ ~(x = s /\ y = t)
    <3>1. r.link[x][y] = w.link[x][y]
      BY <1>3, <2>5, <2>7, Zenon
    <3>2. Standing(r, y, u) = Standing(w, y, u)
      BY <1>9, <1>10, <2>7, Zenon
    <3>3. Standing(r, x, u) = Standing(w, x, u)
      BY <1>10, <2>7, Zenon
    <3> QED BY <2>2, <3>1, <3>2, <3>3, Zenon
  <2>8. CASE x = t
    <3>0. v.link[x][y] = w.link[x][y]
      BY <1>3, <1>5, <2>8, Zenon
    <3>1. Standing(r, y, u) = Standing(w, y, u)
      BY <1>10, <2>3, <2>8, Zenon
    <3>2. CASE r.link = v.link /\ \A z \in Users : Standing(r, t, z) = Standing(w, t, z)
      BY <2>2, <2>8, <3>0, <3>1, <3>2, Zenon
    <3>3. ASSUME NEW m2, Tells(m2, m), Sent(v, r, t, v.peers[t] \ {s}, m2),
                 Follows(v, r, t, m2)
          PROVE  Leads(r.link[x][y], u, Standing(r, y, u), Standing(r, x, u))
      <4>1. CASE y # s
        <5>1. r.link[x][y] = Append(w.link[x][y], m2)
          <6>1. y \in v.peers[t] \ {s}
            BY <1>3, <2>1, <2>8, <4>1, Zenon
          <6> QED BY <2>8, <3>0, <3>3, <6>1, Zenon DEF Sent
        <5>2. Standing(r, x, u) = Apply(Effect(m2, u), Standing(w, x, u))
          BY <1>3, <2>8, <3>3, ZenonT(60) DEF Follows
        <5>3. m2 \in Message
          BY <3>3, Zenon DEF Tells
        <5> QED BY <2>2, <2>4, <3>1, <5>1, <5>2, <5>3, LeadsAppend, Zenon
      <4>2. CASE y = s
        <5>1. r.link[x][y] = w.link[x][y]
          BY <2>8, <3>0, <3>3, <4>2, Zenon DEF Sent
        <5>2. Home[u] \in Servers
          BY TreeAssumption, Zenon
        <5>3. Hop[t][Home[u]] # s
          <6>1. \A h \in Servers : Hop[s][h] = t <=> Hop[t][h] # s
            BY <1>5, Tree, Zenon
          <6> QED BY <2>8, <4>2, <5>2, <6>1, Zenon
        <5>4. Standing(r, x, u) = Standing(w, x, u)
          BY <1>9, <2>8, <5>3, Zenon
        <5> QED BY <2>2, <3>1, <5>1, <5>4, Zenon
      <4> QED BY <4>1, <4>2, Zenon
    <3> QED BY <1>11, <3>2, <3>3, Zenon
  <2> QED BY <2>6, <2>7, <2>8, Zenon
<1> QED BY <1>12, <1>13, <1>14, <1>15, Zenon DEF Net

\* A server tells all the servers it is linked to what one of its own users
\* does.
LEMMA LocalNet ==
    ASSUME NEW w, Good(w), Net(w), NEW s \in Servers, NEW m \in Message \ {SERVER, EOF},
           Tame(m), \A u \in Users : Effect(m, u) # "none" => Home[u] = s,
           NEW r, Good(r), r.peers = w.peers, Elsewhere(w, r, s), Heading(r, s),
           Follows(w, r, s, m), Sent(w, r, s, w.peers[s], m)
    PROVE  Net(r)
<1>0. /\ w \in WorldType /\ r \in WorldType
      /\ Wires(w) /\ Traffic(w) /\ Directed(w) /\ Strangers(w) /\ Carried(w)
  BY Zenon DEF Good, Net
<1>1. \A x, y \in Servers : y \in w.peers[x] => Neighbours(x, y) /\ x # y
  BY <1>0, Tree, Zenon DEF Wires, Wire
<1>2. \A x \in Servers, u \in Users :
          Neighbours(x, s) /\ Hop[s][Home[u]] = x => Effect(m, u) = "none"
  <2>1. \A x \in Servers : Neighbours(x, s) => x # s /\ Hop[s][s] = s
    BY Tree, TreeAssumption, Zenon
  <2> QED BY <2>1, Zenon
<1>3. \A y \in Servers : y \in w.peers[s] => Aimed(m, s, y)
  <2>1. \A y \in Servers : y \in w.peers[s] => Hop[y][s] = s
    BY <1>1, Tree, Zenon
  <2> QED BY <2>1, Zenon DEF Aimed
<1>4. Wires(r) /\ \A x, y \in Servers : Has(r.link[x][y], EOF) <=> Has(w.link[x][y], EOF)
  <2> DEFINE T == w.peers[s]
  <2>1. T \subseteq w.peers[s] /\ Sent(w, r, s, T, m)
    BY Zenon
  <2> HIDE DEF T
  <2> QED BY <1>0, <2>1, SentWires, Zenon
<1>5. Traffic(r)
  <2>1. m \in Message
    BY Zenon
  <2> QED BY <1>0, <1>3, <2>1, SentTraffic, Zenon
<1>6. \A x \in Servers \ {s}, u \in Users :
          r.known[x][u] = w.known[x][u] /\ Standing(r, x, u) = Standing(w, x, u)
  BY Zenon DEF Elsewhere
<1>7. \A x \in Servers, u \in Users : Neighbours(x, s) /\ Hop[s][Home[u]] = x =>
          Standing(r, s, u) = Standing(w, s, u)
  BY <1>2, Zenon DEF Follows, Apply
<1>8. Directed(r)
  BY <1>0, DirectedOn, Zenon
<1>9. Strangers(r)
  <2> SUFFICES ASSUME NEW x \in Servers, NEW y \in Servers, Neighbours(x, y),
                      Apart(r, y, x), NEW u \in Users, Hop[y][Home[u]] = x
               PROVE  r.known[y][u] = None
    BY Zenon DEF Strangers
  <2>1. Apart(w, y, x)
    BY <1>4, Zenon DEF Apart
  <2>2. w.known[y][u] = None
    BY <1>0, <2>1, Zenon DEF Strangers
  <2>3. Standing(r, y, u) = Standing(w, y, u)
    BY <1>6, <1>7, Zenon
  <2> QED BY <2>2, <2>3, Zenon DEF Standing
<1>10. Carried(r)
  <2> SUFFICES ASSUME NEW x \in Servers, NEW y \in Servers, NEW u \in Users,
                      Flow(r, x, y), Hop[y][Home[u]] = x
               PROVE  Leads(r.link[x][y], u, Standing(r, y, u), Standing(r, x, u))
    BY Zenon DEF Carried
  <2>1. Flow(w, x, y) /\ y \in w.peers[x]
    BY <1>4, Zenon DEF Flow
  <2>2. Leads(w.link[x][y], u, Standing(w, y, u), Standing(w, x, u))
    BY <1>0, <2>1, Zenon DEF Carried
  <2>3. Neighbours(x, y) /\ x # y
    BY <1>1, <2>1, Zenon
  <2>4. /\ Standing(w, x, u) \in Standings /\ Standing(w, y, u) \in Standings
        /\ w.link[x][y] \in Seq(Message)
    <3>1. w.link[x][y] \in Seq(Message)
      BY <1>0, LinkType, Zenon
    <3> QED BY <3>1, StandingType, Zenon
  <2>5. Standing(r, y, u) = Standing(w, y, u)
    BY <1>6, <1>7, <2>3, Zenon
  <2>6. CASE x = s
    <3>1. r.link[x][y] = Append(w.link[x][y], m)
      BY <2>1, <2>6, Zenon DEF Sent
    <3>2. Standing(r, x, u) = Apply(Effect(m, u), Standing(w, x, u))
      BY <2>6, Zenon DEF Follows
    <3>3. m \in Message
      BY Zenon
    <3> QED BY <2>2, <2>4, <2>5, <3>1, <3>2, <3>3, LeadsAppend, Zenon
  <2>7. CASE x # s
    <3>1. r.link[x][y] = w.link[x][y]
      BY <2>7, Zenon DEF Sent
    <3>2. Standing(r, x, u) = Standing(w, x, u)
      BY <1>6, <2>7, Zenon
    <3> QED BY <2>2, <2>5, <3>1, <3>2, Zenon
  <2> QED BY <2>6, <2>7, Zenon
<1> QED BY <1>4, <1>5, <1>8, <1>9, <1>10, Zenon DEF Net

\* s drops the link to t: r is w with everything behind t gone at s, the other
\* servers told, the queue from s replaced by a and the queue to s by nothing.
Dropped(w, r, s, t, a, m) ==
    /\ \A x \in Servers : r.peers[x] = IF x = s THEN w.peers[s] \ {t} ELSE w.peers[x]
    /\ \A x, y \in Servers :
           r.link[x][y] = IF x = s /\ y = t THEN a
                          ELSE IF x = t /\ y = s THEN <<>>
                          ELSE IF x = s /\ y \in w.peers[s] THEN Append(w.link[x][y], m)
                          ELSE w.link[x][y]
    /\ Elsewhere(w, r, s)
    /\ \A u \in Users :
           IF Hop[s][Home[u]] = t
           THEN r.known[s][u] = None /\ Standing(r, s, u) = "absent" /\ Effect(m, u) = "gone"
           ELSE /\ r.known[s][u] = w.known[s][u] /\ Standing(r, s, u) = Standing(w, s, u)
                /\ Effect(m, u) = "none"

\* What the queue from s to t may be then: with an end, or empty if t has
\* dropped the link already.
Ending(w, s, t, a) ==
    /\ a \in Seq(Message)
    /\ \/ a = <<>> /\ s \notin w.peers[t]
       \/ /\ a # <<>> /\ a[Len(a)] = EOF
          /\ \A i \in 1..Len(a) : i # Len(a) =>
                 i \in 1..Len(w.link[s][t]) /\ a[i] = w.link[s][t][i]

\* The wires after a link is dropped.
LEMMA DroppedWires ==
    ASSUME NEW w \in WorldType, Wires(w), NEW r, NEW s \in Servers, NEW t \in Servers,
           t \in w.peers[s], NEW a, Ending(w, s, t, a), NEW m \in Message \ {SERVER, EOF},
           Dropped(w, r, s, t, a, m)
    PROVE  Wires(r)
<1>1. Neighbours(s, t) /\ s # t /\ Neighbours(t, s)
  BY Tree, Zenon DEF Wires, Wire
<1>2. /\ \A x \in Servers : r.peers[x] = IF x = s THEN w.peers[s] \ {t} ELSE w.peers[x]
      /\ \A x, y \in Servers :
             r.link[x][y] = IF x = s /\ y = t THEN a
                            ELSE IF x = t /\ y = s THEN <<>>
                            ELSE IF x = s /\ y \in w.peers[s] THEN Append(w.link[x][y], m)
                            ELSE w.link[x][y]
  BY Zenon DEF Dropped
<1>3. Wire(r, s, t)
  <2>1. /\ r.link[s][t] = a /\ r.link[t][s] = <<>> /\ t \notin r.peers[s]
        /\ r.peers[t] = w.peers[t]
    BY <1>1, <1>2, ZenonT(60)
  <2>2. CASE a = <<>>
    BY <1>1, <2>1, <2>2 DEF Wire
  <2>3. CASE a # <<>> /\ a[Len(a)] = EOF /\ \A i \in 1..Len(a) : i # Len(a) =>
                 i \in 1..Len(w.link[s][t]) /\ a[i] = w.link[s][t][i]
    <3>1. SERVER # EOF
      BY TypesDiffer, ZenonT(60)
    <3>2. \A i \in 1..Len(a) : a[i] = SERVER =>
              i = 1 /\ s \notin w.peers[t] /\ <<s, t>> \notin Dials
      BY <2>3, <3>1 DEF Wires, Wire
    <3>a. \A i \in 1..Len(w.link[s][t]) : w.link[s][t][i] # EOF
      BY Zenon DEF Wires, Wire
    <3>3. \A i \in 1..Len(a) : a[i] = EOF => i = Len(a)
      BY <2>3, <3>a, Zenon
    <3> QED BY <1>1, <2>1, <2>3, <3>2, <3>3, Zenon DEF Wire
  <2> QED BY <2>2, <2>3, Zenon DEF Ending
<1>4. Wire(r, t, s)
  <2>1. r.link[t][s] = <<>>
    BY <1>1, <1>2, ZenonT(60)
  <2>2. 1..Len(<<>>) = {}
    OBVIOUS
  <2> QED BY <1>1, <2>1, <2>2, Zenon DEF Wire
<1>5. ASSUME NEW x \in Servers, NEW y \in Servers, ~(x = s /\ y = t), ~(x = t /\ y = s)
      PROVE  Wire(r, x, y)
  <2> DEFINE q == w.link[x][y]
             b == w.link[y][x]
  <2>1. q \in Seq(Message) /\ Wire(w, x, y) /\ Wire(w, y, x)
    BY Zenon DEF WorldType, Wires
  <2>2. /\ y \in r.peers[x] <=> y \in w.peers[x]
        /\ x \in r.peers[y] <=> x \in w.peers[y]
    BY <1>2, <1>5, ZenonT(60)
  <2>3. CASE x = s /\ y \in w.peers[s]
    <3>1. y \in w.peers[x] /\ Neighbours(x, y)
      BY <2>1, <2>3, Zenon DEF Wire
    <3>2. x # y
      BY <3>1, Tree, Zenon
    <3>3. r.link[x][y] = Append(q, m) /\ r.link[y][x] = b
      BY <1>2, <1>5, <2>3, <3>2, ZenonT(60)
    <3>4. /\ \A i \in 1..Len(q) : q[i] # EOF
          /\ \A i \in 1..Len(q) : q[i] = SERVER =>
                 i = 1 /\ x \notin w.peers[y] /\ b = <<>> /\ <<x, y>> \notin Dials
      BY <2>1, <3>1, Zenon DEF Wire
    <3> DEFINE p == Append(q, m)
               n == Len(q)
    <3>5. n \in Nat /\ Len(p) = n + 1 /\ p[n + 1] = m /\ \A i \in 1..n : p[i] = q[i]
      <4>1. q \in Seq(Message) /\ m \in Message
        BY <2>1, Zenon
      <4> HIDE DEF q
      <4> QED BY <4>1
    <3>6. m # EOF /\ m # SERVER
      BY Zenon
    <3> HIDE DEF p, n
    <3>7. \A i \in 1..Len(p) : i \in 1..n \/ i = n + 1
      BY <3>5
    <3>8. \A i \in 1..Len(p) : p[i] # EOF /\ (p[i] = SERVER => i \in 1..n /\ q[i] = SERVER)
      BY <3>4, <3>5, <3>6, <3>7, Zenon DEF n
    <3>9. r.link[x][y] = p
      BY <3>3, Zenon DEF p
    <3>10. \A i \in 1..Len(p) : p[i] = SERVER =>
               i = 1 /\ x \notin w.peers[y] /\ b = <<>> /\ <<x, y>> \notin Dials
      BY <3>4, <3>8, Zenon DEF n
    <3> HIDE DEF b, q
    <3> QED BY <2>2, <3>1, <3>3, <3>8, <3>9, <3>10, Zenon DEF Wire
  <2>4. CASE ~(x = s /\ y \in w.peers[s])
    <3>1. r.link[x][y] = q
      BY <1>2, <1>5, <2>4, Zenon
    <3>2. x \notin w.peers[y] => r.link[y][x] = b
      BY <1>2, <1>5, ZenonT(60)
    <3> QED BY <2>1, <2>2, <3>1, <3>2, Zenon DEF Wire
  <2> QED BY <2>3, <2>4, Zenon
<1> QED BY <1>3, <1>4, <1>5, Zenon DEF Wires

\* SERVER, EOF and their kind say nothing about users.
LEMMA PlainMessages ==
    /\ \A u : Effect(SERVER, u) = "none" /\ Effect(EOF, u) = "none"
    /\ Tame(SERVER) /\ Tame(EOF) /\ SERVER # EOF
BY TypesDiffer, Zenon DEF Effect, Tame

\* s drops the link to t, and tells the others.
LEMMA DroppedNet ==
    ASSUME NEW w, Good(w), Net(w), NEW s \in Servers, NEW t \in Servers,
           t \in w.peers[s], NEW a, Ending(w, s, t, a),
           NEW m \in Message \ {SERVER, EOF}, Tame(m),
           NEW r, Good(r), Dropped(w, r, s, t, a, m)
    PROVE  Net(r)
<1>0. /\ w \in WorldType /\ r \in WorldType
      /\ Wires(w) /\ Traffic(w) /\ Directed(w) /\ Strangers(w) /\ Carried(w)
  BY Zenon DEF Good, Net
<1>1. \A x, y \in Servers : y \in w.peers[x] => Neighbours(x, y) /\ x # y
  BY <1>0, Tree, Zenon DEF Wires, Wire
<1>2. s # t /\ Neighbours(s, t) /\ Neighbours(t, s)
  BY <1>1, Tree, Zenon
<1>3. /\ \A x \in Servers : r.peers[x] = IF x = s THEN w.peers[s] \ {t} ELSE w.peers[x]
      /\ \A x, y \in Servers :
             r.link[x][y] = IF x = s /\ y = t THEN a
                            ELSE IF x = t /\ y = s THEN <<>>
                            ELSE IF x = s /\ y \in w.peers[s] THEN Append(w.link[x][y], m)
                            ELSE w.link[x][y]
  BY Zenon DEF Dropped
<1>4. \A u \in Users :
          /\ Hop[s][Home[u]] = t => r.known[s][u] = None /\ Standing(r, s, u) = "absent"
                                    /\ Effect(m, u) = "gone"
          /\ Hop[s][Home[u]] # t => r.known[s][u] = w.known[s][u] /\ Effect(m, u) = "none"
                                    /\ Standing(r, s, u) = Standing(w, s, u)
  BY Zenon DEF Dropped
<1>5. \A x \in Servers \ {s}, u \in Users :
          r.known[x][u] = w.known[x][u] /\ Standing(r, x, u) = Standing(w, x, u)
  BY ZenonT(60) DEF Dropped, Elsewhere
<1>6. Wires(r)
  BY <1>0, DroppedWires, Zenon
<1>7. Follows(w, r, s, m)
  BY <1>4, Zenon DEF Follows, Apply
<1>8. \A y \in Servers : y \in w.peers[s] /\ y # t => Aimed(m, s, y)
  <2> SUFFICES ASSUME NEW y \in Servers, y \in w.peers[s], y # t, NEW u \in Users,
                      Effect(m, u) # "none"
               PROVE  Hop[y][Home[u]] = s
    BY Zenon DEF Aimed
  <2>1. Hop[s][Home[u]] = t /\ Home[u] \in Servers
    BY <1>4, TreeAssumption, Zenon
  <2>2. \A h \in Servers : Hop[s][h] = y <=> Hop[y][h] # s
    BY <1>1, Tree, Zenon
  <2> QED BY <2>1, <2>2, Zenon
<1>9. Has(a, EOF) \/ (a = <<>> /\ s \notin w.peers[t])
  <2>1. CASE a # <<>> /\ a[Len(a)] = EOF
    <3>1. Len(a) \in 1..Len(a)
      BY <2>1 DEF Ending
    <3> QED BY <2>1, <3>1, Zenon DEF Has
  <2> QED BY <2>1, Zenon DEF Ending
<1>10. ASSUME NEW x \in Servers, NEW y \in Servers, ~(x = s /\ y = t), ~(x = t /\ y = s)
       PROVE  Has(r.link[x][y], EOF) <=> Has(w.link[x][y], EOF)
  <2>1. CASE x = s /\ y \in w.peers[s]
    <3> DEFINE q == w.link[x][y]
    <3>1. r.link[x][y] = Append(q, m)
      BY <1>3, <1>10, <2>1, Zenon
    <3>2. q \in Seq(Message) /\ m \in Message /\ m # EOF
      BY <1>0, LinkType, Zenon
    <3> HIDE DEF q
    <3>3. /\ Len(Append(q, m)) = Len(q) + 1 /\ Len(q) \in Nat
          /\ \A j \in 1..Len(q) : Append(q, m)[j] = q[j]
          /\ Append(q, m)[Len(q) + 1] = m
      BY <3>2
    <3>4. \A i : i \in 1..(Len(q) + 1) <=> i \in 1..Len(q) \/ i = Len(q) + 1
      BY <3>3
    <3>5. Has(Append(q, m), EOF) <=> Has(q, EOF)
      BY <3>2, <3>3, <3>4, Zenon DEF Has
    <3> QED BY <3>1, <3>5, Zenon DEF q
  <2>2. CASE ~(x = s /\ y \in w.peers[s])
    BY <1>3, <1>10, <2>2, Zenon
  <2> QED BY <2>1, <2>2, Zenon
<1>11. Traffic(r)
  <2> SUFFICES ASSUME NEW x \in Servers, NEW y \in Servers, NEW i \in 1..Len(r.link[x][y])
               PROVE  Aimed(r.link[x][y][i], x, y) /\ Tame(r.link[x][y][i])
    BY ZenonT(60) DEF Traffic
  <2> DEFINE q == w.link[x][y]
  <2>1. q \in Seq(Message)
    BY <1>0 DEF WorldType
  <2>2. \A j \in 1..Len(q) : Aimed(q[j], x, y) /\ Tame(q[j])
    BY <1>0, Zenon DEF Traffic
  <2>3. CASE x = s /\ y = t
    <3>1. r.link[x][y] = a
      BY <1>3, <2>3, Zenon
    <3>2. i \in 1..Len(a)
      BY <3>1, Zenon
    <3>3. a[i] = EOF \/ (i \in 1..Len(q) /\ a[i] = q[i])
      BY <2>3, <3>2 DEF Ending
    <3>4. Aimed(EOF, x, y) /\ Tame(EOF)
      BY PlainMessages, Zenon DEF Aimed
    <3> QED BY <2>2, <3>1, <3>3, <3>4, Zenon
  <2>4. CASE x = t /\ y = s
    <3>1. r.link[x][y] = <<>>
      BY <1>2, <1>3, <2>4, Zenon
    <3> QED BY <3>1
  <2>5. CASE x = s /\ y \in w.peers[s] /\ y # t
    <3>1. r.link[x][y] = Append(q, m)
      BY <1>2, <1>3, <2>5, Zenon
    <3>2. m \in Message
      BY Zenon
    <3> HIDE DEF q
    <3>3. /\ Len(Append(q, m)) = Len(q) + 1 /\ Len(q) \in Nat
          /\ \A j \in 1..Len(q) : Append(q, m)[j] = q[j]
          /\ Append(q, m)[Len(q) + 1] = m
      BY <2>1, <3>2
    <3>4. i \in 1..Len(q) \/ i = Len(q) + 1
      BY <3>1, <3>3
    <3> QED BY <1>8, <2>2, <2>5, <3>1, <3>3, <3>4, Zenon
  <2>6. CASE ~(x = s /\ y = t) /\ ~(x = t /\ y = s) /\ ~(x = s /\ y \in w.peers[s] /\ y # t)
    <3>1. r.link[x][y] = q
      BY <1>3, <2>6, Zenon
    <3> QED BY <2>2, <3>1, Zenon
  <2> QED BY <2>3, <2>4, <2>5, <2>6, Zenon
<1>12. Directed(r)
  <2>1. Heading(w, s)
    BY <1>0, Zenon DEF Directed
  <2>2. Heading(r, s)
    BY <1>4, <2>1, Zenon DEF Heading
  <2>3. Elsewhere(w, r, s)
    BY <1>5, Zenon DEF Elsewhere
  <2> QED BY <1>0, <2>2, <2>3, DirectedOn, Zenon
<1>13. Strangers(r)
  <2> SUFFICES ASSUME NEW x \in Servers, NEW y \in Servers, Neighbours(x, y),
                      Apart(r, y, x), NEW u \in Users, Hop[y][Home[u]] = x
               PROVE  r.known[y][u] = None
    BY Zenon DEF Strangers
  <2>1. CASE y = s /\ x = t
    BY <1>4, <2>1, Zenon
  <2>2. CASE y = t /\ x = s
    <3>1. r.link[s][t] = a /\ r.peers[t] = w.peers[t]
      BY <1>2, <1>3, Zenon
    <3>2. s \notin w.peers[t]
      BY <1>9, <2>2, <3>1, Zenon DEF Apart
    <3>3. w.known[y][u] = None
      BY <1>0, <2>2, <3>2, ZenonT(60) DEF Strangers, Apart
    <3> QED BY <1>2, <1>5, <2>2, <3>3, Zenon
  <2>3. CASE ~(y = s /\ x = t) /\ ~(y = t /\ x = s)
    <3>1. /\ y \in r.peers[x] <=> y \in w.peers[x]
          /\ x \in r.peers[y] <=> x \in w.peers[y]
      BY <1>3, <2>3, ZenonT(60)
    <3>2. Has(r.link[x][y], EOF) <=> Has(w.link[x][y], EOF)
      BY <1>10, <2>3, Zenon
    <3>3. Apart(w, y, x)
      BY <3>1, <3>2, Zenon DEF Apart
    <3>4. w.known[y][u] = None
      BY <1>0, <3>3, Zenon DEF Strangers
    <3> QED BY <1>4, <1>5, <2>3, <3>4, Zenon
  <2> QED BY <2>1, <2>2, <2>3, Zenon
<1>14. Carried(r)
  <2> SUFFICES ASSUME NEW x \in Servers, NEW y \in Servers, NEW u \in Users,
                      Flow(r, x, y), Hop[y][Home[u]] = x
               PROVE  Leads(r.link[x][y], u, Standing(r, y, u), Standing(r, x, u))
    BY Zenon DEF Carried
  <2>1. ~(x = s /\ y = t)
    <3>1. t \notin r.peers[s]
      BY Zenon DEF Dropped
    <3> QED BY <3>1, Zenon DEF Flow
  <2>2. ~(x = t /\ y = s)
    <3>1. r.link[s][t] = a /\ r.peers[t] = w.peers[t]
      BY <1>2, <1>3, Zenon
    <3> QED BY <1>9, <3>1, Zenon DEF Flow
  <2>3. y \in w.peers[x] /\ Flow(w, x, y)
    <3>1. y \in r.peers[x] <=> y \in w.peers[x]
      BY <1>3, <2>1, ZenonT(60)
    <3>2. Has(r.link[y][x], EOF) <=> Has(w.link[y][x], EOF)
      BY <1>10, <2>1, <2>2, Zenon
    <3> QED BY <3>1, <3>2, Zenon DEF Flow
  <2>4. Leads(w.link[x][y], u, Standing(w, y, u), Standing(w, x, u))
    BY <1>0, <2>3, Zenon DEF Carried
  <2>5. Neighbours(x, y) /\ x # y
    BY <1>1, <2>3, Zenon
  <2>6. /\ Standing(w, x, u) \in Standings /\ Standing(w, y, u) \in Standings
        /\ w.link[x][y] \in Seq(Message)
    <3>1. w.link[x][y] \in Seq(Message)
      BY <1>0, LinkType, Zenon
    <3> QED BY <3>1, StandingType, Zenon
  <2>7. Standing(r, y, u) = Standing(w, y, u)
    BY <1>4, <1>5, <2>1, <2>2, Zenon
  <2>8. CASE x = s
    <3>1. r.link[x][y] = Append(w.link[x][y], m)
      BY <1>3, <2>1, <2>2, <2>3, <2>8, Zenon
    <3>2. Standing(r, x, u) = Apply(Effect(m, u), Standing(w, x, u))
      BY <1>7, <2>8, Zenon DEF Follows
    <3>3. m \in Message
      BY Zenon
    <3> QED BY <2>4, <2>6, <2>7, <3>1, <3>2, <3>3, LeadsAppend, ZenonT(60)
  <2>9. CASE x # s
    <3>1. r.link[x][y] = w.link[x][y]
      BY <1>3, <2>2, <2>9, ZenonT(60)
    <3>2. Standing(r, x, u) = Standing(w, x, u)
      BY <1>5, <2>9, Zenon
    <3> QED BY <2>4, <2>7, <3>1, <3>2, Zenon
  <2> QED BY <2>8, <2>9, Zenon
<1> QED BY <1>6, <1>11, <1>12, <1>13, <1>14, Zenon DEF Net

\* Both sides have dropped the link, and what was left of it is thrown away.
LEMMA HangUpNet ==
    ASSUME NEW w, Good(w), Net(w), NEW s \in Servers, NEW t \in Servers,
           s \notin w.peers[t], t \notin w.peers[s],
           NEW r, r.peers = w.peers, r.known = w.known, r.chan = w.chan,
           \A x, y \in Servers : r.link[x][y] =
               IF (x = s /\ y = t) \/ (x = t /\ y = s) THEN <<>> ELSE w.link[x][y]
    PROVE  Net(r)
<1>0. /\ Wires(w) /\ Traffic(w) /\ Directed(w) /\ Strangers(w) /\ Carried(w)
  BY Zenon DEF Net
<1>1. \A x, u : Standing(r, x, u) = Standing(w, x, u)
  BY Zenon DEF Standing, IsMember
<1>2. \A x, y \in Servers : r.link[x][y] = <<>> \/ r.link[x][y] = w.link[x][y]
  BY Zenon
<1>3. 1..Len(<<>>) = {}
  OBVIOUS
<1>4. \A x, y \in Servers : w.link[x][y] = <<>> => r.link[x][y] = <<>>
  BY <1>2, Zenon
<1>5. Wires(r)
  <2> SUFFICES ASSUME NEW x \in Servers, NEW y \in Servers PROVE Wire(r, x, y)
    BY Zenon DEF Wires
  <2>1. Wire(w, x, y)
    BY <1>0, Zenon DEF Wires
  <2>2. CASE r.link[x][y] = <<>>
    BY <1>3, <2>1, <2>2, Zenon DEF Wire
  <2>3. CASE r.link[x][y] = w.link[x][y]
    BY <1>4, <2>1, <2>3, Zenon DEF Wire
  <2> QED BY <1>2, <2>2, <2>3, Zenon
<1>6. Traffic(r)
  <2> SUFFICES ASSUME NEW x \in Servers, NEW y \in Servers, NEW i \in 1..Len(r.link[x][y])
               PROVE  Aimed(r.link[x][y][i], x, y) /\ Tame(r.link[x][y][i])
    BY Zenon DEF Traffic
  <2>1. r.link[x][y] = w.link[x][y]
    BY <1>2, <1>3, Zenon
  <2> QED BY <1>0, <2>1, Zenon DEF Traffic
<1>7. Directed(r)
  BY <1>0, Zenon DEF Directed, Heading
<1>8. ASSUME NEW x \in Servers, NEW y \in Servers, y \in w.peers[x] \/ x \in w.peers[y]
      PROVE  r.link[x][y] = w.link[x][y] /\ r.link[y][x] = w.link[y][x]
  BY <1>8, ZenonT(60)
<1>9. Strangers(r)
  <2> SUFFICES ASSUME NEW x \in Servers, NEW y \in Servers, Neighbours(x, y),
                      Apart(r, y, x), NEW u \in Users, Hop[y][Home[u]] = x
               PROVE  r.known[y][u] = None
    BY Zenon DEF Strangers
  <2>1. Apart(w, y, x)
    BY <1>8, Zenon DEF Apart
  <2>2. w.known[y][u] = None
    BY <1>0, <2>1, StrangersGive, ZenonT(60)
  <2> QED BY <2>2, Zenon
<1>10. Carried(r)
  <2> SUFFICES ASSUME NEW x \in Servers, NEW y \in Servers, NEW u \in Users,
                      Flow(r, x, y), Hop[y][Home[u]] = x
               PROVE  Leads(r.link[x][y], u, Standing(r, y, u), Standing(r, x, u))
    BY Zenon DEF Carried
  <2>1. y \in w.peers[x]
    BY Zenon DEF Flow
  <2>2. r.link[x][y] = w.link[x][y] /\ r.link[y][x] = w.link[y][x]
    BY <1>8, <2>1, Zenon
  <2>3. Flow(w, x, y)
    BY <2>1, <2>2, Zenon DEF Flow
  <2>4. Leads(w.link[x][y], u, Standing(w, y, u), Standing(w, x, u))
    BY <1>0, <2>3, CarriedGive, Zenon
  <2> QED BY <1>1, <2>2, <2>4, Zenon
<1> QED BY <1>5, <1>6, <1>7, <1>9, <1>10, Zenon DEF Net

\* A server calls a neighbour it has nothing to do with.
LEMMA DialNet ==
    ASSUME NEW w, Good(w), Net(w), NEW s \in Servers, NEW t \in Servers,
           <<s, t>> \in Dials, s \notin w.peers[t], t \notin w.peers[s],
           w.link[s][t] = <<>>, w.link[t][s] = <<>>,
           NEW r, r.peers = w.peers, r.known = w.known, r.chan = w.chan,
           Sent(w, r, s, {t}, SERVER)
    PROVE  Net(r)
<1>0. /\ Wires(w) /\ Traffic(w) /\ Directed(w) /\ Strangers(w) /\ Carried(w)
  BY Zenon DEF Net
<1>1. \A x, u : Standing(r, x, u) = Standing(w, x, u)
  BY Zenon DEF Standing, IsMember
<1>2. Neighbours(s, t) /\ s # t
  BY Tree, Zenon DEF Neighbours
<1>3. \A x, y \in Servers : r.link[x][y] =
          IF x = s /\ y = t THEN <<SERVER>> ELSE w.link[x][y]
  <2>1. Append(<<>>, SERVER) = <<SERVER>>
    OBVIOUS
  <2> QED BY <2>1, Zenon DEF Sent
<1>4. 1..Len(<<SERVER>>) = {1} /\ <<SERVER>>[1] = SERVER /\ Len(<<SERVER>>) = 1
      /\ 1..Len(<<>>) = {} /\ <<SERVER>> # <<>>
  OBVIOUS
<1>5. \A x, y \in Servers : Has(r.link[x][y], EOF) <=> Has(w.link[x][y], EOF)
  BY <1>3, <1>4, PlainMessages DEF Has
<1>6. Wires(r)
  <2> SUFFICES ASSUME NEW x \in Servers, NEW y \in Servers PROVE Wire(r, x, y)
    BY Zenon DEF Wires
  <2>1. Wire(w, x, y)
    BY <1>0, Zenon DEF Wires
  <2>2. CASE x = s /\ y = t
    <3>1. r.link[x][y] = <<SERVER>> /\ r.link[y][x] = <<>>
      BY <1>2, <1>3, <2>2, Zenon
    <3> QED BY <1>2, <1>4, <2>2, <3>1, PlainMessages, Zenon DEF Wire
  <2>3. CASE x = t /\ y = s
    <3>1. r.link[x][y] = <<>>
      BY <1>2, <1>3, <2>3, Zenon
    <3> QED BY <1>4, <2>3, <3>1, Zenon DEF Wire
  <2>4. CASE ~(x = s /\ y = t) /\ ~(x = t /\ y = s)
    <3>1. r.link[x][y] = w.link[x][y] /\ r.link[y][x] = w.link[y][x]
      BY <1>3, <2>4, Zenon
    <3> QED BY <2>1, <3>1, Zenon DEF Wire
  <2> QED BY <2>2, <2>3, <2>4, Zenon
<1>7. Traffic(r)
  <2>1. \A x, y : Aimed(SERVER, x, y) /\ Tame(SERVER)
    BY PlainMessages, Zenon DEF Aimed
  <2> SUFFICES ASSUME NEW x \in Servers, NEW y \in Servers, NEW i \in 1..Len(r.link[x][y])
               PROVE  Aimed(r.link[x][y][i], x, y) /\ Tame(r.link[x][y][i])
    BY ZenonT(60) DEF Traffic
  <2>2. CASE x = s /\ y = t
    BY <1>3, <1>4, <2>1, <2>2
  <2>3. CASE ~(x = s /\ y = t)
    BY <1>0, <1>3, <2>3, ZenonT(60) DEF Traffic
  <2> QED BY <2>2, <2>3, Zenon
<1>8. Directed(r)
  BY <1>0, Zenon DEF Directed, Heading
<1>9. Strangers(r)
  <2> SUFFICES ASSUME NEW x \in Servers, NEW y \in Servers, Neighbours(x, y),
                      Apart(r, y, x), NEW u \in Users, Hop[y][Home[u]] = x
               PROVE  r.known[y][u] = None
    BY Zenon DEF Strangers
  <2>1. Apart(w, y, x)
    BY <1>5, Zenon DEF Apart
  <2>2. w.known[y][u] = None
    BY <1>0, <2>1, StrangersGive, ZenonT(60)
  <2> QED BY <2>2, Zenon
<1>10. Carried(r)
  <2> SUFFICES ASSUME NEW x \in Servers, NEW y \in Servers, NEW u \in Users,
                      Flow(r, x, y), Hop[y][Home[u]] = x
               PROVE  Leads(r.link[x][y], u, Standing(r, y, u), Standing(r, x, u))
    BY Zenon DEF Carried
  <2>1. Flow(w, x, y) /\ ~(x = s /\ y = t)
    BY <1>5, Zenon DEF Flow
  <2>2. r.link[x][y] = w.link[x][y]
    BY <1>3, <2>1, Zenon
  <2>3. Leads(w.link[x][y], u, Standing(w, y, u), Standing(w, x, u))
    BY <1>0, <2>1, CarriedGive, Zenon
  <2> QED BY <1>1, <2>2, <2>3, Zenon
<1> QED BY <1>6, <1>7, <1>8, <1>9, <1>10, Zenon DEF Net

\* The burst q from t to s, sent so far, tells s of user u what F[u] says.
Bursting(q, t, s, F) ==
    /\ q \in Seq(Message)
    /\ \A u \in Users : Leads(q, u, "absent", F[u])
    /\ \A i \in 1..Len(q) :
           /\ Aimed(q[i], t, s) /\ Tame(q[i]) /\ q[i] # EOF
           /\ q[i] = SERVER => i = 1 /\ <<s, t>> \in Dials

\* t takes the SERVER line of s and answers with the burst n.
Answered(w, r, s, t, n) ==
    /\ r.known = w.known /\ r.chan = w.chan
    /\ \A x \in Servers : r.peers[x] = IF x = t THEN w.peers[t] \cup {s} ELSE w.peers[x]
    /\ \A x, y \in Servers : r.link[x][y] =
           IF x = t /\ y = s THEN n
           ELSE IF x = s /\ y = t THEN Tail(w.link[x][y]) ELSE w.link[x][y]

\* A server that answers SERVER with its burst.
LEMMA ServerNet ==
    ASSUME NEW w, Good(w), Net(w), NEW s \in Servers, NEW t \in Servers,
           s \notin w.peers[t], w.link[s][t] # <<>>, Head(w.link[s][t]) = SERVER,
           NEW n, Bursting(n, t, s, [u \in Users |-> Standing(w, t, u)]),
           NEW r, Answered(w, r, s, t, n)
    PROVE  Net(r)
<1> DEFINE q == w.link[s][t]
           p == Tail(q)
<1>0. /\ w \in WorldType
      /\ Wires(w) /\ Traffic(w) /\ Directed(w) /\ Strangers(w) /\ Carried(w)
  BY Zenon DEF Good, Net
<1>1. q \in Seq(Message) /\ q # <<>> /\ q[1] = SERVER /\ Len(q) \in Nat /\ 1 \in 1..Len(q)
  BY <1>0 DEF WorldType
<1>2. /\ Neighbours(s, t) /\ w.link[t][s] = <<>>
      /\ <<s, t>> \in Dials => Len(q) = 1 /\ t \notin w.peers[s]
      /\ \A i \in 1..Len(q) : q[i] = SERVER => i = 1
      /\ \A i \in 1..Len(q) : q[i] = EOF => i = Len(q) /\ t \notin w.peers[s]
      /\ t \notin w.peers[s] => q = <<SERVER>> \/ q[Len(q)] = EOF
  <2>1. Wire(w, s, t)
    BY <1>0, Zenon DEF Wires
  <2> QED BY <1>1, <2>1, Zenon DEF Wire
<1>3. s # t /\ Neighbours(t, s) /\ ~(<<s, t>> \in Dials /\ <<t, s>> \in Dials)
  BY <1>2, Tree, ZenonT(60)
<1>4. /\ p \in Seq(Message) /\ Len(p) + 1 = Len(q) /\ Len(p) \in Nat
      /\ \A i \in 1..Len(p) : i + 1 \in 1..Len(q) /\ p[i] = q[i + 1] /\ i + 1 # 1
  <2> HIDE DEF q
  <2> QED BY <1>1, TailOf
<1>c. Len(q) = 1 => p = <<>>
  BY <1>4
<1>d. q = <<SERVER>> => Len(q) = 1
  OBVIOUS
<1>e. p # <<>> => p[Len(p)] = q[Len(q)]
  <2>1. p # <<>> => Len(p) \in 1..Len(p)
    BY <1>4
  <2> QED BY <1>4, <2>1, ZenonT(60)
<1>5. /\ r.link[t][s] = n /\ r.link[s][t] = p
      /\ \A x, y \in Servers : {x, y} # {s, t} => r.link[x][y] = w.link[x][y]
      /\ r.peers[s] = w.peers[s] /\ r.peers[t] = w.peers[t] \cup {s}
  BY <1>3 DEF Answered
<1>6. /\ n \in Seq(Message)
      /\ \A i \in 1..Len(n) :
             /\ Aimed(n[i], t, s) /\ Tame(n[i]) /\ n[i] # EOF
             /\ n[i] = SERVER => i = 1 /\ <<s, t>> \in Dials
      /\ \A u \in Users : Leads(n, u, "absent", Standing(w, t, u))
  BY ZenonT(60) DEF Bursting
<1>7. \A x, y \in Servers : {x, y} # {s, t} => (y \in r.peers[x] <=> y \in w.peers[x])
  BY DEF Answered
<1>8. ~Has(w.link[t][s], EOF) /\ ~Has(n, EOF)
  <2>1. 1..Len(<<>>) = {}
    OBVIOUS
  <2> QED BY <1>2, <1>6, <2>1, ZenonT(60) DEF Has
<1>9. \A x, u : Standing(r, x, u) = Standing(w, x, u)
  BY Zenon DEF Standing, IsMember, Answered
<1>10. \A x, y \in Servers : {x, y} = {s, t} => (x = s /\ y = t) \/ (x = t /\ y = s)
  BY Zenon
<1>11. r.known = w.known
  BY Zenon DEF Answered
<1> HIDE DEF q, p
<1>12. Wires(r)
  <2> SUFFICES ASSUME NEW x \in Servers, NEW y \in Servers PROVE Wire(r, x, y)
    BY Zenon DEF Wires
  <2>1. CASE x = s /\ y = t
    <3>1. \A i \in 1..Len(p) : p[i] # SERVER
      BY <1>2, <1>4, ZenonT(60)
    <3>2. \A i \in 1..Len(p) : p[i] = EOF => i = Len(p) /\ t \notin w.peers[s]
      <4>1. \A i \in 1..Len(p) : p[i] = EOF => i + 1 = Len(q) /\ t \notin w.peers[s]
        BY <1>2, <1>4, Zenon
      <4> QED BY <1>1, <1>4, <4>1, LastBefore, ZenonT(60)
    <3>3. t \notin w.peers[s] /\ p # <<>> => p[Len(p)] = EOF
      BY <1>2, <1>c, <1>d, <1>e, ZenonT(60)
    <3> QED BY <1>2, <1>5, <2>1, <3>1, <3>2, <3>3, ZenonT(60) DEF Wire
  <2>2. CASE x = t /\ y = s
    <3>1. \A i \in 1..Len(n) : n[i] = SERVER =>
              /\ i = 1 /\ t \notin w.peers[s] /\ p = <<>> /\ <<t, s>> \notin Dials
      BY <1>2, <1>3, <1>6, <1>c, Zenon
    <3> QED BY <1>3, <1>5, <1>6, <2>2, <3>1, ZenonT(60) DEF Wire
  <2>3. CASE {x, y} # {s, t}
    <3>1. Wire(w, x, y)
      BY <1>0, Zenon DEF Wires
    <3>2. {y, x} # {s, t}
      BY <2>3, Zenon
    <3>3. /\ r.link[x][y] = w.link[x][y] /\ r.link[y][x] = w.link[y][x]
          /\ y \in r.peers[x] <=> y \in w.peers[x]
          /\ x \in r.peers[y] <=> x \in w.peers[y]
      BY <1>5, <1>7, <2>3, <3>2, Zenon
    <3> QED BY <3>1, <3>3, Zenon DEF Wire
  <2> QED BY <1>10, <2>1, <2>2, <2>3, Zenon
<1>13. Traffic(r)
  <2> SUFFICES ASSUME NEW x \in Servers, NEW y \in Servers, NEW i \in 1..Len(r.link[x][y])
               PROVE  Aimed(r.link[x][y][i], x, y) /\ Tame(r.link[x][y][i])
    BY Zenon DEF Traffic
  <2>1. CASE x = s /\ y = t
    <3>1. \A j \in 1..Len(q) : Aimed(q[j], s, t) /\ Tame(q[j])
      BY <1>0, Zenon DEF Traffic, q
    <3> QED BY <1>4, <1>5, <2>1, <3>1, Zenon
  <2>2. CASE x = t /\ y = s
    BY <1>5, <1>6, <2>2, Zenon
  <2>3. CASE {x, y} # {s, t}
    BY <1>0, <1>5, <2>3, ZenonT(60) DEF Traffic
  <2> QED BY <1>10, <2>1, <2>2, <2>3, Zenon
<1>14. Directed(r)
  BY <1>0, <1>11, Zenon DEF Directed, Heading
<1>a. Apart(w, t, s) /\ Apart(w, s, t)
  BY <1>8, Zenon DEF Apart
<1>b. \A u \in Users : /\ Hop[t][Home[u]] = s => w.known[t][u] = None
                       /\ Hop[s][Home[u]] = t => w.known[s][u] = None
  BY <1>0, <1>2, <1>3, <1>a, Zenon DEF Strangers
<1>15. Strangers(r)
  <2> SUFFICES ASSUME NEW x \in Servers, NEW y \in Servers, Neighbours(x, y),
                      Apart(r, y, x), NEW u \in Users, Hop[y][Home[u]] = x
               PROVE  r.known[y][u] = None
    BY Zenon DEF Strangers
  <2>1. CASE {x, y} = {s, t}
    BY <1>10, <1>11, <1>b, <2>1, Zenon
  <2>2. CASE {x, y} # {s, t}
    <3>1. Apart(w, y, x)
      <4>0. {y, x} # {s, t}
        BY <2>2, Zenon
      <4>1. r.link[x][y] = w.link[x][y] /\ r.link[y][x] = w.link[y][x]
        BY <1>5, <2>2, <4>0, Zenon
      <4>2. /\ y \in r.peers[x] <=> y \in w.peers[x]
            /\ x \in r.peers[y] <=> x \in w.peers[y]
        BY <1>7, <2>2, <4>0, Zenon
      <4> QED BY <4>1, <4>2, Zenon DEF Apart
    <3>2. w.known[y][u] = None
      BY <1>0, <3>1, StrangersGive, Zenon
    <3> QED BY <1>11, <3>2, Zenon
  <2> QED BY <2>1, <2>2, Zenon
<1>16. Carried(r)
  <2> SUFFICES ASSUME NEW x \in Servers, NEW y \in Servers, NEW u \in Users,
                      Flow(r, x, y), Hop[y][Home[u]] = x
               PROVE  Leads(r.link[x][y], u, Standing(r, y, u), Standing(r, x, u))
    BY Zenon DEF Carried
  <2>0. Standing(r, y, u) = Standing(w, y, u) /\ Standing(r, x, u) = Standing(w, x, u)
    BY <1>9, Zenon
  <2> SUFFICES Leads(r.link[x][y], u, Standing(w, y, u), Standing(w, x, u))
    BY <2>0, Zenon
  <2>1. CASE x = s /\ y = t
    <3>1. Flow(w, s, t)
      BY <1>5, <1>8, <2>1, Zenon DEF Flow
    <3>2. Leads(q, u, Standing(w, t, u), Standing(w, s, u))
      BY <1>0, <2>1, <3>1, Zenon DEF Carried, q
    <3>3. Standing(w, t, u) \in Standings /\ Standing(w, s, u) \in Standings
      BY StandingType, Zenon
    <3>4. Head(q) = SERVER
      BY Zenon DEF q
    <3>5. Leads(p, u, Apply(Effect(SERVER, u), Standing(w, t, u)), Standing(w, s, u))
      BY <1>1, <3>2, <3>3, <3>4, LeadsTail, ZenonT(60) DEF p
    <3>6. Apply(Effect(SERVER, u), Standing(w, t, u)) = Standing(w, t, u)
      BY PlainMessages, Zenon DEF Apply
    <3> QED BY <1>5, <2>1, <3>5, <3>6, Zenon
  <2>2. CASE x = t /\ y = s
    <3>1. Standing(w, s, u) = "absent"
      BY <1>b, <2>2, Zenon DEF Standing
    <3> QED BY <1>5, <1>6, <2>2, <3>1, Zenon
  <2>3. CASE {x, y} # {s, t}
    <3>1. {y, x} # {s, t}
      BY <2>3, Zenon
    <3>2. Flow(w, x, y) /\ r.link[x][y] = w.link[x][y]
      <4>1. r.link[x][y] = w.link[x][y] /\ r.link[y][x] = w.link[y][x]
        BY <1>5, <2>3, <3>1, Zenon
      <4>2. y \in r.peers[x] <=> y \in w.peers[x]
        BY <1>7, <2>3, Zenon
      <4> QED BY <4>1, <4>2, Zenon DEF Flow
    <3> QED BY <1>0, <3>2, Zenon DEF Carried
  <2> QED BY <1>10, <2>1, <2>2, <2>3, ZenonT(60)
<1> QED BY <1>12, <1>13, <1>14, <1>15, <1>16, Zenon DEF Net
=============================================================================
