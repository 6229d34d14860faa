----------------------- MODULE ChannelAgreementProofs -----------------------
(***************************************************************************)
(* Linked servers agree on the members of the channel whenever nothing is  *)
(* under way, for any tree of servers and any users, until somebody kicks  *)
(* or changes a mode.                                                      *)
(*                                                                         *)
(* Each handler is shown to change what its server has of the users as the *)
(* message says and to pass the message on, and each action to be one of   *)
(* the kinds of change that ChannelSyncProofs has shown to keep the        *)
(* network in order.  In an orderly network with empty queues, of two      *)
(* linked servers the one farther from a user has of them what the nearer  *)
(* one has.                                                                *)
(***************************************************************************)
EXTENDS ChannelSyncProofs

\* Sending only touches the queues, as described.
LEMMA SendToSends ==
    ASSUME NEW w \in WorldType, NEW s \in Servers, NEW T, NEW m \in Message
    PROVE  Sent(w, SendTo(w, s, T, m), s, T, m)
<1> DEFINE q == [t \in Servers |-> IF t \in T THEN Append(w.link[s][t], m)
                                   ELSE w.link[s][t]]
           r == SendTo(w, s, T, m)
<1>1. r.link = [w.link EXCEPT ![s] = q]
  BY Zenon DEF SendTo, WorldType
<1>2. w.link \in [Servers -> [Servers -> Seq(Message)]]
  BY Zenon DEF WorldType
<1>3. \A y \in Servers : q[y] = IF y \in T THEN Append(w.link[s][y], m) ELSE w.link[s][y]
  BY Zenon
<1> HIDE DEF q, r
<1>4. \A x \in Servers : r.link[x] = IF x = s THEN q ELSE w.link[x]
  BY <1>1, <1>2, Zenon
<1>5. Sent(w, r, s, T, m)
  BY <1>3, <1>4, Zenon DEF Sent
<1> QED BY <1>5, Zenon DEF r

\* The same for sendto_server(), with what it leaves alone.
LEMMA SendToServerSends ==
    ASSUME NEW w, Good(w), NEW s \in Servers, NEW but, NEW m \in Message
    PROVE  /\ Good(SendToServer(w, s, but, m))
           /\ Sent(w, SendToServer(w, s, but, m), s, w.peers[s] \ {but}, m)
           /\ SendToServer(w, s, but, m).chan = w.chan
           /\ SendToServer(w, s, but, m).known = w.known
           /\ SendToServer(w, s, but, m).peers = w.peers
<1>1. w \in WorldType
  BY Zenon DEF Good
<1>2. Sent(w, SendTo(w, s, w.peers[s] \ {but}, m), s, w.peers[s] \ {but}, m)
  BY <1>1, SendToSends, Zenon
<1>3. Sent(w, SendToServer(w, s, but, m), s, w.peers[s] \ {but}, m)
  BY <1>2, Zenon DEF SendToServer
<1> QED BY <1>3, SendToServerGood, ZenonT(60)

\* The members of one server's channel are replaced.
LEMMA SetChanMembers ==
    ASSUME NEW w \in WorldType, NEW s \in Servers, NEW c \in Channel \cup {None},
           NEW r, r = SetChan(w, s, c)
    PROVE  /\ r.known = w.known /\ r.peers = w.peers /\ r.link = w.link
           /\ \A x \in Servers, u \in Users : IsMember(r, x, u) <=>
                  IF x = s THEN c # None /\ u \in Members(c) ELSE IsMember(w, x, u)
<1>1. /\ r.chan = [w.chan EXCEPT ![s] = c]
      /\ r.known = w.known /\ r.peers = w.peers /\ r.link = w.link
  BY Zenon DEF SetChan, WorldType
<1>2. \A x \in Servers : r.chan[x] = IF x = s THEN c ELSE w.chan[x]
  BY <1>1, Zenon DEF WorldType
<1>3. \A x \in Servers, u \in Users : IsMember(r, x, u) <=>
          IF x = s THEN c # None /\ u \in Members(c) ELSE IsMember(w, x, u)
  BY <1>2, Zenon DEF IsMember, Members
<1> QED BY <1>1, <1>3, Zenon

\* remove_user_from_channel() removes the users X and nobody else.
LEMMA RemoveUsersMembers ==
    ASSUME NEW w \in WorldType, NEW s \in Servers, NEW X,
           NEW r, r = RemoveUsers(w, s, X)
    PROVE  /\ r.known = w.known /\ r.peers = w.peers /\ r.link = w.link
           /\ \A x \in Servers, u \in Users : IsMember(r, x, u) <=>
                  IsMember(w, x, u) /\ ~(x = s /\ u \in X)
<1>1. CASE w.chan[s] = None
  BY <1>1, Zenon DEF RemoveUsers, IsMember
<1>2. CASE w.chan[s] # None
  <2> DEFINE d == [w.chan[s] EXCEPT !.mem = [u \in Users |->
                       IF u \in X THEN "out" ELSE w.chan[s].mem[u]]]
             c == sub1_from_channel(d)
  <2>1. w.chan[s] \in Channel
    BY <1>2, Zenon DEF WorldType
  <2>2. d \in Channel /\ Members(d) = Members(w.chan[s]) \ X
    BY <2>1, WithoutType, ZenonT(90)
  <2>3. r = SetChan(w, s, c)
    BY <1>2, Zenon DEF RemoveUsers
  <2> HIDE DEF d
  <2>4. c \in Channel \cup {None}
    BY <2>2, Sub1, Zenon
  <2>5. \A u \in Users : c # None /\ u \in Members(c) <=> u \in Members(d)
    BY <2>2, NoneAssumption, Zenon DEF sub1_from_channel
  <2> HIDE DEF c
  <2>6. /\ r.known = w.known /\ r.peers = w.peers /\ r.link = w.link
        /\ \A x \in Servers, u \in Users : IsMember(r, x, u) <=>
               IF x = s THEN c # None /\ u \in Members(c) ELSE IsMember(w, x, u)
    BY <2>3, <2>4, SetChanMembers, Zenon
  <2>7. \A u \in Users : IsMember(w, s, u) <=> u \in Members(w.chan[s])
    BY <1>2, Zenon DEF IsMember, Members
  <2>8. \A x \in Servers, u \in Users : IsMember(r, x, u) <=>
            IsMember(w, x, u) /\ ~(x = s /\ u \in X)
    BY <2>2, <2>5, <2>6, <2>7, Zenon
  <2> QED BY <2>6, <2>8, Zenon
<1> QED BY <1>1, <1>2, Zenon

\* After exit_one_client() the users X are unknown, the others as before.
LEMMA ExitStandings ==
    ASSUME NEW w \in WorldType, NEW s \in Servers, NEW X,
           NEW r, r = exit_one_client(w, s, X)
    PROVE  /\ r.peers = w.peers /\ r.link = w.link
           /\ \A x \in Servers, u \in Users :
                  /\ r.known[x][u] = IF x = s /\ u \in X THEN None ELSE w.known[x][u]
                  /\ Standing(r, x, u) = IF x = s /\ u \in X THEN "absent"
                                         ELSE Standing(w, x, u)
<1> DEFINE k == [u \in Users |-> IF u \in X THEN None ELSE w.known[s][u]]
           v == [w EXCEPT !.known = [w.known EXCEPT ![s] = k]]
<1>1. k \in [Users -> Servers \cup {None}]
  BY DEF WorldType
<1>2. r = RemoveUsers(v, s, X)
  BY Zenon DEF exit_one_client
<1>3. /\ v.known = [w.known EXCEPT ![s] = k]
      /\ v.chan = w.chan /\ v.peers = w.peers /\ v.link = w.link
  BY Zenon DEF WorldType
<1>4. v \in WorldType
  <2> HIDE DEF k
  <2> QED BY <1>1, ZenonT(90) DEF WorldType
<1>5. \A x \in Servers, u \in Users :
          v.known[x][u] = IF x = s /\ u \in X THEN None ELSE w.known[x][u]
  BY <1>3, Zenon DEF WorldType
<1> HIDE DEF k, v
<1>6. /\ r.known = v.known /\ r.peers = v.peers /\ r.link = v.link
      /\ \A x \in Servers, u \in Users : IsMember(r, x, u) <=>
             IsMember(v, x, u) /\ ~(x = s /\ u \in X)
  BY <1>2, <1>4, RemoveUsersMembers, ZenonT(60)
<1>7. \A x \in Servers, u \in Users : IsMember(v, x, u) <=> IsMember(w, x, u)
  BY <1>3, Zenon DEF IsMember
<1>8. \A x \in Servers, u \in Users : Standing(r, x, u) =
          IF x = s /\ u \in X THEN "absent" ELSE Standing(w, x, u)
  BY <1>5, <1>6, <1>7, ZenonT(60) DEF Standing
<1> QED BY <1>3, <1>5, <1>6, <1>8

\* New clients.
LEMMA UidProcessed ==
    ASSUME NEW w, Good(w), NEW t \in Servers, NEW s \in Servers,
           NEW m \in Message, m.type = "UID", Heading(w, t), Aimed(m, s, t)
    PROVE  Processed(w, cmd_uid(w, t, s, m), t, s, m)
<1> DEFINE new == {u \in m.users : w.known[t][u] = None}
           f == [u \in Users |-> IF u \in new THEN s ELSE w.known[t][u]]
           k == [w.known EXCEPT ![t] = f]
           w1 == [w EXCEPT !.known = k]
           m2 == UIDs(new)
           r == SendToServer(w1, t, s, m2)
<1>0. w \in WorldType /\ NonEmpty(w) /\ Knows(w)
  BY Zenon DEF Good
<1>1. m.users \in SUBSET Users /\ new \in SUBSET Users
  BY MessageFields, Zenon
<1>2. f \in [Users -> Servers \cup {None}]
  BY <1>0 DEF WorldType
<1>3. k \in [Servers -> [Users -> Servers \cup {None}]]
  <2> HIDE DEF f
  <2> QED BY <1>0, <1>2, Zenon DEF WorldType
<1>4. \A x \in Servers, u \in Users :
          k[x][u] = IF x = t /\ u \in new THEN s ELSE w.known[x][u]
  BY <1>0, Zenon DEF WorldType
<1>5. cmd_uid(w, t, s, m) = r
  BY Zenon DEF cmd_uid
<1>6. m2 \in Message /\ m2.type = "UID" /\ m2.users = new
  BY <1>1, MessageTypes, TypesDiffer, Zenon
<1>7. \A u \in Users : u \in new <=> u \in m.users /\ w.known[t][u] = None
  BY Zenon
<1> HIDE DEF k, new, m2
<1>8. w1 \in WorldType /\ w1.chan = w.chan /\ w1.known = k /\ w1.peers = w.peers
      /\ w1.link = w.link
  BY <1>0, <1>3, ZenonT(90) DEF WorldType
<1> HIDE DEF w1
<1>9. Good(w1)
  BY <1>0, <1>4, <1>8, NoneAssumption DEF Good, NonEmpty, Knows, IsMember
<1>10. /\ Sent(w1, r, t, w1.peers[t] \ {s}, m2)
       /\ r.chan = w1.chan /\ r.known = w1.known /\ r.peers = w1.peers
  BY <1>6, <1>9, SendToServerSends
<1> HIDE DEF r
<1>11. Sent(w, r, t, w.peers[t] \ {s}, m2)
  BY <1>8, <1>10 DEF Sent
<1>12. \A x \in Servers, u \in Users : IsMember(r, x, u) <=> IsMember(w, x, u)
  BY <1>8, <1>10, Zenon DEF IsMember
<1>13. \A x \in Servers, u \in Users :
           r.known[x][u] = IF x = t /\ u \in new THEN s ELSE w.known[x][u]
  BY <1>4, <1>8, <1>10, ZenonT(60)
<1>14. Elsewhere(w, r, t)
  BY <1>12, <1>13, Zenon DEF Elsewhere, Standing
<1>15. \A u \in Users : Effect(m, u) = IF u \in m.users THEN "up" ELSE "none"
  BY Zenon DEF Effect
<1>16. \A u \in Users : Effect(m2, u) = IF u \in new THEN "up" ELSE "none"
  BY <1>6, Zenon DEF Effect
<1>17. Heading(r, t)
  BY <1>7, <1>13, <1>15, ZenonT(60) DEF Heading, Aimed
<1>18. \A u \in Users : Standing(r, t, u) =
           IF u \in new THEN "present" ELSE Standing(w, t, u)
  BY <1>0, <1>7, <1>12, <1>13, NoneAssumption, ZenonT(60) DEF Standing, Knows
<1>19. \A u \in Users : u \in new => Standing(w, t, u) = "absent"
  BY <1>7, Zenon DEF Standing
<1>20. \A u \in Users : u \in m.users /\ u \notin new => Standing(w, t, u) # "absent"
  BY <1>7, Zenon DEF Standing
<1>21. Follows(w, r, t, m) /\ Follows(w, r, t, m2)
  BY <1>7, <1>15, <1>16, <1>18, <1>19, <1>20, Zenon DEF Follows, Apply
<1>22. Tells(m2, m)
  BY <1>6, <1>7, <1>15, <1>16, TypesDiffer, ZenonT(60) DEF Tells, Tame
<1> QED BY <1>5, <1>8, <1>10, <1>11, <1>14, <1>17, <1>21, <1>22, Zenon DEF Processed

\* A message passed on as it came, or not at all when it says nothing new.
LEMMA PassedOn ==
    ASSUME NEW m \in Message, m \notin {SERVER, EOF}, Tame(m)
    PROVE  Tells(m, m)
BY Zenon DEF Tells

\* QUIT and SQUIT.
LEMMA ExitProcessed ==
    ASSUME NEW w, Good(w), NEW t \in Servers, NEW s \in Servers,
           NEW m \in Message, m \notin {SERVER, EOF}, Tame(m), Heading(w, t), NEW X,
           \A u \in X : Effect(m, u) = "gone",
           \A u \in Users : Effect(m, u) # "none" =>
               Effect(m, u) = "gone" /\ (u \in X \/ w.known[t][u] = None)
    PROVE  Processed(w, exit_one_client(SendToServer(w, t, s, m), t, X), t, s, m)
<1> DEFINE w1 == SendToServer(w, t, s, m)
           r == exit_one_client(w1, t, X)
<1>1. /\ Good(w1) /\ Sent(w, w1, t, w.peers[t] \ {s}, m)
      /\ w1.chan = w.chan /\ w1.known = w.known /\ w1.peers = w.peers
  BY SendToServerSends
<1> HIDE DEF w1
<1>2. \A x \in Servers, u \in Users : Standing(w1, x, u) = Standing(w, x, u)
  BY <1>1, Zenon DEF Standing, IsMember
<1>3. /\ r.peers = w1.peers /\ r.link = w1.link
      /\ \A x \in Servers, u \in Users :
             /\ r.known[x][u] = IF x = t /\ u \in X THEN None ELSE w1.known[x][u]
             /\ Standing(r, x, u) = IF x = t /\ u \in X THEN "absent"
                                    ELSE Standing(w1, x, u)
  BY <1>1, ExitStandings DEF Good
<1> HIDE DEF r
<1>4. Elsewhere(w, r, t)
  BY <1>1, <1>2, <1>3 DEF Elsewhere
<1>5. Heading(r, t)
  BY <1>1, <1>3 DEF Heading
<1>6. \A u \in Users : w.known[t][u] = None => Standing(w, t, u) = "absent"
  BY Zenon DEF Standing
<1>7. Follows(w, r, t, m)
  BY <1>2, <1>3, <1>6, Zenon DEF Follows, Apply
<1>8. Sent(w, r, t, w.peers[t] \ {s}, m)
  BY <1>1, <1>3 DEF Sent
<1>9. Processed(w, r, t, s, m)
  BY <1>1, <1>3, <1>4, <1>5, <1>7, <1>8, PassedOn, Zenon DEF Processed
<1> QED BY <1>9, Zenon DEF r, w1

\* Nothing done.
LEMMA NothingProcessed ==
    ASSUME NEW w, NEW t \in Servers, NEW s, NEW m, Heading(w, t), Follows(w, w, t, m)
    PROVE  Processed(w, w, t, s, m)
BY Zenon DEF Processed, Elsewhere

\* A QUIT.
LEMMA QuitProcessed ==
    ASSUME NEW w, Good(w), NEW t \in Servers, NEW s \in Servers,
           NEW m \in Message, m.type = "QUIT", Heading(w, t)
    PROVE  Processed(w, cmd_quit(w, t, s, m), t, s, m)
<1>1. \A u \in Users : Effect(m, u) = IF m.u = u THEN "gone" ELSE "none"
  BY Zenon DEF Effect
<1>2. m \notin {SERVER, EOF} /\ Tame(m) /\ m.u \in Users
  BY TypesDiffer, MessageFields, Zenon DEF Tame
<1>3. CASE w.known[t][m.u] = None
  <2>1. Follows(w, w, t, m)
    BY <1>1, <1>3, Zenon DEF Follows, Apply, Standing
  <2>2. cmd_quit(w, t, s, m) = w
    BY <1>3, Zenon DEF cmd_quit
  <2> QED BY <2>1, <2>2, NothingProcessed, Zenon
<1>4. CASE w.known[t][m.u] # None
  <2>1. cmd_quit(w, t, s, m) = exit_one_client(SendToServer(w, t, s, m), t, {m.u})
    BY <1>4, Zenon DEF cmd_quit
  <2> DEFINE X == {m.u}
  <2>2. /\ \A u \in X : Effect(m, u) = "gone"
        /\ \A u \in Users : Effect(m, u) # "none" =>
               Effect(m, u) = "gone" /\ (u \in X \/ w.known[t][u] = None)
    BY <1>1, <1>2, Zenon
  <2>3. cmd_quit(w, t, s, m) = exit_one_client(SendToServer(w, t, s, m), t, X)
    BY <2>1, Zenon
  <2> HIDE DEF X
  <2> QED BY <1>2, <2>2, <2>3, ExitProcessed, Zenon
<1> QED BY <1>3, <1>4, Zenon

\* A SQUIT.
LEMMA SquitProcessed ==
    ASSUME NEW w, Good(w), NEW t \in Servers, NEW s \in Servers,
           NEW m \in Message, m.type = "SQUIT", Heading(w, t), Aimed(m, s, t)
    PROVE  Processed(w, cmd_squit(w, t, s, m), t, s, m)
<1> DEFINE X == {u \in Users : w.known[t][u] = s /\ Home[u] \in m.servers}
<1>1. \A u \in Users : Effect(m, u) = IF Home[u] \in m.servers THEN "gone" ELSE "none"
  BY Zenon DEF Effect
<1>2. m \notin {SERVER, EOF} /\ Tame(m)
  BY TypesDiffer, Zenon DEF Tame
<1>3. cmd_squit(w, t, s, m) = exit_one_client(SendToServer(w, t, s, m), t, X)
  BY Zenon DEF cmd_squit
<1>4. /\ \A u \in X : Effect(m, u) = "gone"
      /\ \A u \in Users : Effect(m, u) # "none" =>
             Effect(m, u) = "gone" /\ (u \in X \/ w.known[t][u] = None)
  BY <1>1, Zenon DEF Aimed, Heading
<1> HIDE DEF X
<1> QED BY <1>2, <1>3, <1>4, ExitProcessed, Zenon

\* A PART.
LEMMA PartProcessed ==
    ASSUME NEW w, Good(w), NEW t \in Servers, NEW s \in Servers,
           NEW m \in Message, m.type = "PART", Heading(w, t)
    PROVE  Processed(w, cmd_leave(w, t, s, m.u, m), t, s, m)
<1> DEFINE w1 == SendToServer(w, t, s, m)
           r == RemoveUsers(w1, t, {m.u})
<1>1. \A u \in Users : Effect(m, u) = IF m.u = u THEN "out" ELSE "none"
  BY Zenon DEF Effect
<1>2. m \notin {SERVER, EOF} /\ Tame(m) /\ m.u \in Users
  BY TypesDiffer, MessageFields, Zenon DEF Tame
<1>3. CASE ~IsMember(w, t, m.u)
  <2>1. Follows(w, w, t, m)
    BY <1>1, <1>3, Zenon DEF Follows, Apply, Standing
  <2>2. cmd_leave(w, t, s, m.u, m) = w
    BY <1>3, Zenon DEF cmd_leave
  <2> QED BY <2>1, <2>2, NothingProcessed, Zenon
<1>4. CASE IsMember(w, t, m.u)
  <2>1. cmd_leave(w, t, s, m.u, m) = r
    BY <1>4, Zenon DEF cmd_leave
  <2>2. /\ Good(w1) /\ Sent(w, w1, t, w.peers[t] \ {s}, m)
        /\ w1.chan = w.chan /\ w1.known = w.known /\ w1.peers = w.peers
    BY SendToServerSends
  <2> HIDE DEF w1
  <2>3. /\ r.known = w1.known /\ r.peers = w1.peers /\ r.link = w1.link
        /\ \A x \in Servers, u \in Users : IsMember(r, x, u) <=>
               IsMember(w1, x, u) /\ ~(x = t /\ u \in {m.u})
    BY <2>2, RemoveUsersMembers DEF Good
  <2> HIDE DEF r
  <2>4. \A x \in Servers, u \in Users : IsMember(w1, x, u) <=> IsMember(w, x, u)
    BY <2>2, Zenon DEF IsMember
  <2>5. \A x \in Servers, u \in Users : IsMember(r, x, u) <=>
            IsMember(w, x, u) /\ ~(x = t /\ u = m.u)
    BY <2>3, <2>4, Zenon
  <2>6. Elsewhere(w, r, t)
    BY <2>2, <2>3, <2>5, Zenon DEF Elsewhere, Standing
  <2>7. Heading(r, t)
    BY <2>2, <2>3, Zenon DEF Heading
  <2>8. w.known[t][m.u] # None
    BY <1>2, <1>4, Zenon DEF Good, Knows
  <2>9. \A u \in Users : Standing(r, t, u) =
            IF u = m.u THEN "present" ELSE Standing(w, t, u)
    BY <2>2, <2>3, <2>5, <2>8, Zenon DEF Standing
  <2>10. Standing(w, t, m.u) = "member"
    BY <1>4, <2>8, Zenon DEF Standing
  <2>11. Follows(w, r, t, m)
    BY <1>1, <2>9, <2>10, Zenon DEF Follows, Apply
  <2>12. Sent(w, r, t, w.peers[t] \ {s}, m)
    BY <2>2, <2>3 DEF Sent
  <2>13. Processed(w, r, t, s, m)
    BY <1>2, <2>2, <2>3, <2>6, <2>7, <2>11, <2>12, PassedOn, Zenon DEF Processed
  <2> QED BY <2>1, <2>13, Zenon
<1> QED BY <1>3, <1>4, Zenon

\* A MODE by a server.
LEMMA ModeProcessed ==
    ASSUME NEW w, Good(w), NEW t \in Servers, NEW s \in Servers,
           NEW m \in Message, m.type = "TSMODE", Heading(w, t)
    PROVE  Processed(w, cmd_mode_server(w, t, s, m), t, s, m)
<1> DEFINE c == w.chan[t]
           new == [c EXCEPT !.modes = c.modes \cup m.modes, !.ts = m.ts]
           m2 == IF new.modes # c.modes THEN m ELSE TSMODE(m.ts, {})
           w1 == SendToServer(w, t, s, m2)
           r == SetChan(w1, t, new)
<1>0. w \in WorldType
  BY Zenon DEF Good
<1>1. m.ts \in Times /\ m.modes \in SUBSET Modes
  BY MessageFields, Zenon
<1>2. m2 \in Message /\ m2.type = "TSMODE"
  <2>1. TSMODE(m.ts, {}) \in Message /\ TSMODE(m.ts, {}).type = "TSMODE"
    BY <1>1, MessageTypes, TypesDiffer
  <2> QED BY <2>1, Zenon
<1>3. cmd_mode_server(w, t, s, m) =
          IF c = None \/ m.ts > c.ts \/ new = c THEN w ELSE r
  BY Zenon DEF cmd_mode_server
<1>4. c # None => new \in Channel /\ new.mem = c.mem
  <2>1. c # None => c \in Channel
    BY <1>0, Zenon DEF WorldType
  <2> QED BY <1>1, <2>1, Zenon DEF Channel
<1> HIDE DEF m2, new
<1>5. \A u \in Users : Effect(m, u) = "none" /\ Effect(m2, u) = "none"
  BY <1>2, Zenon DEF Effect
<1>6. Follows(w, w, t, m)
  BY <1>5, Zenon DEF Follows, Apply
<1>7. ASSUME c # None
      PROVE  Processed(w, r, t, s, m)
  <2>2. /\ Good(w1) /\ Sent(w, w1, t, w.peers[t] \ {s}, m2)
        /\ w1.chan = w.chan /\ w1.known = w.known /\ w1.peers = w.peers
    <3>1. m2 \in Message
      BY <1>2, Zenon
    <3> QED BY <3>1, SendToServerSends
  <2> HIDE DEF w1
  <2>3. /\ r.known = w1.known /\ r.peers = w1.peers /\ r.link = w1.link
        /\ \A x \in Servers, u \in Users : IsMember(r, x, u) <=>
               IF x = t THEN new # None /\ u \in Members(new) ELSE IsMember(w1, x, u)
    BY <1>4, <1>7, <2>2, SetChanMembers DEF Good
  <2>4. \A u \in Users : new # None /\ u \in Members(new) <=> IsMember(w, t, u)
    BY <1>4, <1>7, NoneAssumption, Zenon DEF IsMember, Members
  <2>5. \A x \in Servers, u \in Users : IsMember(w1, x, u) <=> IsMember(w, x, u)
    BY <2>2, Zenon DEF IsMember
  <2> HIDE DEF r
  <2>6. \A x \in Servers, u \in Users : IsMember(r, x, u) <=> IsMember(w, x, u)
    BY <2>3, <2>4, <2>5, Zenon
  <2>7. \A x \in Servers, u \in Users : Standing(r, x, u) = Standing(w, x, u)
    BY <2>2, <2>3, <2>6, Zenon DEF Standing
  <2>8. Elsewhere(w, r, t) /\ Heading(r, t)
    BY <2>2, <2>3, <2>7, Zenon DEF Elsewhere, Heading
  <2>9. Follows(w, r, t, m) /\ Follows(w, r, t, m2)
    BY <1>5, <2>7, Zenon DEF Follows, Apply
  <2>10. Sent(w, r, t, w.peers[t] \ {s}, m2)
    BY <2>2, <2>3 DEF Sent
  <2>11. Tells(m2, m)
    BY <1>2, <1>5, TypesDiffer, Zenon DEF Tells, Tame
  <2> QED BY <2>2, <2>3, <2>8, <2>9, <2>10, <2>11, ZenonT(60) DEF Processed
<1> QED BY <1>3, <1>6, <1>7, NothingProcessed, Zenon

\* Meeting a timestamp keeps the members.
LEMMA MeetMembers ==
    ASSUME NEW old \in Channel \cup {None}, NEW ts \in Times
    PROVE  /\ Meet(old, ts) \in Channel
           /\ old = None => Members(Meet(old, ts)) = {}
           /\ old # None => Members(Meet(old, ts)) = Members(old)
<1>0. Meet(old, ts) \in Channel
  BY MeetType, Zenon
<1>1. make_channel(ts) \in Channel /\ Members(make_channel(ts)) = {}
  BY MakeChannelType, Zenon
<1>2. CASE old = None
  BY <1>0, <1>1, <1>2, Zenon DEF Meet
<1>3. CASE old # None
  <2>1. CASE old.ts > ts
    <3> DEFINE f == [u \in Users |-> IF old.mem[u] = "out" THEN "out" ELSE "in"]
               d == [make_channel(ts) EXCEPT !.mem = f]
    <3>1. d.mem = f
      BY <1>1, Zenon DEF Channel
    <3>2. Meet(old, ts) = d
      BY <1>3, <2>1, Zenon DEF Meet
    <3>3. Members(d) = Members(old)
      BY <3>1 DEF Members
    <3> HIDE DEF d
    <3> QED BY <1>0, <1>3, <3>2, <3>3, Zenon
  <2>2. CASE ~(old.ts > ts)
    BY <1>0, <1>3, <2>2, Zenon DEF Meet
  <2> QED BY <2>1, <2>2, Zenon
<1> QED BY <1>2, <1>3, Zenon

\* Adding the users X makes them members.
LEMMA AddMembersMembers ==
    ASSUME NEW c \in Channel, NEW X \in SUBSET Users,
           NEW items \in [Users -> Status], NEW drop \in BOOLEAN,
           \A u \in X : items[u] # "out"
    PROVE  Members(AddMembers(c, X, items, drop)) = Members(c) \cup X
<1> DEFINE f == [u \in Users |-> IF u \in X /\ c.mem[u] = "out"
                                 THEN IF drop THEN "in" ELSE items[u]
                                 ELSE c.mem[u]]
           d == [c EXCEPT !.mem = f]
<1>1. d.mem = f
  BY Zenon DEF Channel
<1>2. AddMembers(c, X, items, drop) = d
  BY Zenon DEF AddMembers
<1>3. Members(d) = Members(c) \cup X
  BY <1>1 DEF Members
<1> QED BY <1>2, <1>3, Zenon

\* Nobody to kick back, nothing sent.
LEMMA KickBackNobody ==
    ASSUME NEW w \in WorldType, NEW t \in Servers, NEW s \in Servers
    PROVE  \A x, y \in Servers : KickBack(w, t, s, {}).link[x][y] = w.link[x][y]
<1> DEFINE q == Listed({})
           k == [i \in DOMAIN q |-> KICK(q[i])]
           l == [w.link EXCEPT ![t] = [w.link[t] EXCEPT ![s] = w.link[t][s] \o k]]
<1>1. {} \in SUBSET Users
  BY Zenon
<1>2. q \in Seq({})
  BY <1>1, ListedType, Zenon
<1>a. q = <<>>
  BY <1>2
<1>3. k = <<>>
  BY <1>a
<1>4. KickBack(w, t, s, {}).link = l
  BY Zenon DEF KickBack, WorldType
<1> HIDE DEF k
<1>5. w.link \in [Servers -> [Servers -> Seq(Message)]]
  BY Zenon DEF WorldType
<1>6. w.link[t][s] \o k = w.link[t][s]
  BY <1>3, <1>5
<1>7. \A x, y \in Servers : l[x][y] = w.link[x][y]
  BY <1>5, <1>6, Zenon
<1> HIDE DEF l
<1> QED BY <1>4, <1>7, Zenon

\* cmd_sjoin: with everybody known in the direction the SJOIN came from, the
\* server adds those of its users it knows, and passes on just these.
LEMMA SjoinProcessed ==
    ASSUME NEW w, Good(w), NEW t \in Servers, NEW s \in Servers,
           NEW m \in Message, m.type = "SJOIN", Heading(w, t), Aimed(m, s, t)
    PROVE  Processed(w, cmd_sjoin(w, t, s, m), t, s, m)
<1> DEFINE old == w.chan[t]
           drop == RemoveTheirs(old, m.ts)
           mine == Meet(old, m.ts)
           X == Accepted(w, t, s, m)
           all == AddMembers(mine, X, m.items, drop)
           new == IF drop THEN all ELSE MergeModes(all, m)
           it == [u \in Users |-> IF u \in X THEN m.items[u] ELSE "out"]
           fwd == [m EXCEPT !.items = it]
           F == FakeDirection(w, t, s, m, mine)
           w1 == KickBack(w, t, s, F)
           w2 == SendToServer(w1, t, s, fwd)
           c == sub1_from_channel(new)
           r == SetChan(w2, t, c)
<1>0. w \in WorldType /\ Knows(w)
  BY Zenon DEF Good
<1>1. /\ m \in [type : {"SJOIN"}, ts : Times, modes : SUBSET Modes,
                items : [Users -> Status], limit : Limits \cup {0}]
      /\ m.ts \in Times /\ m.items \in [Users -> Status]
      /\ m.modes \in SUBSET Modes /\ m.limit \in Limits \cup {0}
  BY MessageFields, Zenon
<1>2. old \in Channel \cup {None}
  BY <1>0, Zenon DEF WorldType
<1>3. drop \in BOOLEAN
  BY Zenon DEF RemoveTheirs
<1>4. \A u \in Users : Effect(m, u) = IF m.items[u] # "out" THEN "in" ELSE "none"
  BY Zenon DEF Effect
<1>5. \A u \in Users : m.items[u] # "out" => w.known[t][u] \in {None, s}
  BY <1>4, Zenon DEF Heading, Aimed
<1>6. F = {}
  BY <1>5, Zenon DEF FakeDirection
<1>7. /\ X \in SUBSET Users
      /\ \A u \in Users : u \in X <=> m.items[u] # "out" /\ w.known[t][u] # None
  BY <1>5, NoneAssumption, Zenon DEF Accepted
<1>8. it \in [Users -> Status] /\ \A u \in Users : it[u] # "out" <=> u \in X
  BY <1>1, <1>7, Zenon DEF Status
<1>9. cmd_sjoin(w, t, s, m) = r
  BY Zenon DEF cmd_sjoin
<1> HIDE DEF drop, X, F, it
<1>10. /\ mine \in Channel
       /\ old = None => Members(mine) = {}
       /\ old # None => Members(mine) = Members(old)
  BY <1>1, <1>2, MeetMembers, Zenon
<1> HIDE DEF mine
<1>11. /\ all \in Channel
       /\ Members(all) = Members(mine) \cup X
  BY <1>1, <1>3, <1>7, <1>10, AddMembersType, AddMembersMembers
<1> HIDE DEF all
<1>12. new \in Channel /\ Members(new) = Members(all)
  BY <1>1, <1>11, MergeModesType, Zenon
<1> HIDE DEF new
<1>13. c \in Channel \cup {None}
  BY <1>12, Sub1, Zenon
<1>14. \A u \in Users : c # None /\ u \in Members(c) <=> u \in Members(new)
  BY <1>12, NoneAssumption, Zenon DEF sub1_from_channel
<1> HIDE DEF c
<1>15. \A u \in Users : IsMember(w, t, u) <=> u \in Members(mine)
  BY <1>10, Zenon DEF IsMember, Members
<1>16. \A u \in Users : c # None /\ u \in Members(c) <=> IsMember(w, t, u) \/ u \in X
  BY <1>11, <1>12, <1>14, <1>15, Zenon
<1>17. fwd \in Message /\ fwd.type = "SJOIN" /\ fwd.items = it
  BY <1>1, <1>8, Zenon DEF Message
<1> HIDE DEF fwd
<1>18. Good(w1) /\ w1.chan = w.chan /\ w1.known = w.known /\ w1.peers = w.peers
  BY <1>6, KickBackGood
<1>19. \A x, y \in Servers : w1.link[x][y] = w.link[x][y]
  BY <1>0, <1>6, KickBackNobody
<1> HIDE DEF w1
<1>20. /\ Good(w2) /\ Sent(w1, w2, t, w1.peers[t] \ {s}, fwd)
       /\ w2.chan = w1.chan /\ w2.known = w1.known /\ w2.peers = w1.peers
  <2>1. fwd \in Message
    BY <1>17, Zenon
  <2>2. Good(w1)
    BY <1>18, Zenon
  <2> QED BY <2>1, <2>2, SendToServerSends
<1> HIDE DEF w2
<1>21. /\ r.known = w2.known /\ r.peers = w2.peers /\ r.link = w2.link
       /\ \A x \in Servers, u \in Users : IsMember(r, x, u) <=>
              IF x = t THEN c # None /\ u \in Members(c) ELSE IsMember(w2, x, u)
  BY <1>13, <1>20, SetChanMembers DEF Good
<1> HIDE DEF r
<1>22. r.known = w.known /\ r.peers = w.peers
  BY <1>18, <1>20, <1>21, Zenon
<1>23. \A x \in Servers, u \in Users : IsMember(w2, x, u) <=> IsMember(w, x, u)
  BY <1>18, <1>20, Zenon DEF IsMember
<1>24. \A x \in Servers, u \in Users : IsMember(r, x, u) <=>
           IsMember(w, x, u) \/ (x = t /\ u \in X)
  BY <1>16, <1>21, <1>23, Zenon
<1>25. Elsewhere(w, r, t) /\ Heading(r, t)
  BY <1>22, <1>24, Zenon DEF Elsewhere, Heading, Standing
<1>26. \A u \in Users : Standing(r, t, u) =
           IF u \in X THEN "member" ELSE Standing(w, t, u)
  BY <1>7, <1>22, <1>24, Zenon DEF Standing
<1>27. \A u \in Users : Effect(fwd, u) = IF u \in X THEN "in" ELSE "none"
  BY <1>8, <1>17, Zenon DEF Effect
<1>28. \A u \in Users : m.items[u] # "out" =>
           (Standing(w, t, u) = "absent" <=> u \notin X)
  BY <1>7, Zenon DEF Standing
<1>29. Follows(w, r, t, m)
  BY <1>4, <1>7, <1>26, <1>28, Zenon DEF Follows, Apply
<1>30. Follows(w, r, t, fwd)
  BY <1>7, <1>26, <1>27, <1>28, Zenon DEF Follows, Apply
<1>31. Sent(w, r, t, w.peers[t] \ {s}, fwd)
  BY <1>18, <1>19, <1>20, <1>21 DEF Sent
<1>32. Tells(fwd, m)
  BY <1>4, <1>7, <1>17, <1>27, TypesDiffer DEF Tells, Tame
<1> QED BY <1>9, <1>22, <1>25, <1>29, <1>30, <1>31, <1>32, Zenon DEF Processed

\* Every message of a network without kicks and mode changes.
LEMMA HandleProcessed ==
    ASSUME NEW w, Good(w), NEW t \in Servers, NEW s \in Servers,
           NEW m \in Message, m \notin {SERVER, EOF}, Tame(m), Heading(w, t),
           Aimed(m, s, t)
    PROVE  Processed(w, Handle(w, t, s, m), t, s, m)
<1>1. m.type \in {"UID", "SJOIN", "PART", "TSMODE", "QUIT", "SQUIT"}
  BY MessageFields, Zenon DEF Tame
<1>2. CASE m.type = "UID"
  BY <1>2, UidProcessed, Zenon DEF Handle
<1>3. CASE m.type = "SJOIN"
  BY <1>3, SjoinProcessed, Zenon DEF Handle
<1>4. CASE m.type = "PART"
  BY <1>4, PartProcessed, Zenon DEF Handle
<1>5. CASE m.type = "TSMODE"
  BY <1>5, ModeProcessed, Zenon DEF Handle
<1>6. CASE m.type = "QUIT"
  BY <1>6, QuitProcessed, Zenon DEF Handle
<1>7. CASE m.type = "SQUIT"
  BY <1>7, SquitProcessed, Zenon DEF Handle
<1> QED BY <1>1, <1>2, <1>3, <1>4, <1>5, <1>6, <1>7, Zenon

\* r is w with everybody behind t gone at s, and the other servers told so.
Exited(w, r, s, t, m) ==
    /\ \A x \in Servers : r.peers[x] = IF x = s THEN w.peers[s] \ {t} ELSE w.peers[x]
    /\ Sent(w, r, s, w.peers[s] \ {t}, m)
    /\ Elsewhere(w, r, s)
    /\ \A u \in Users :
           IF Hop[s][Home[u]] = t
           THEN r.known[s][u] = None /\ Standing(r, s, u) = "absent" /\ Effect(m, u) = "gone"
           ELSE /\ r.known[s][u] = w.known[s][u] /\ Standing(r, s, u) = Standing(w, s, u)
                /\ Effect(m, u) = "none"

\* exit_client() of the server t.
LEMMA ExitServerDoes ==
    ASSUME NEW w, Good(w), NEW s \in Servers, NEW t \in Servers, Heading(w, s),
           NEW m, m = SQUIT({v \in Servers : Hop[s][v] = t}),
           NEW r, r = ExitServer(w, s, t)
    PROVE  /\ Exited(w, r, s, t, m)
           /\ m \in Message \ {SERVER, EOF} /\ Tame(m)
<1> DEFINE V == {v \in Servers : Hop[s][v] = t}
           X == {u \in Users : w.known[s][u] = t}
           w1 == SendToServer(w, s, t, m)
           w2 == exit_one_client(w1, s, X)
           p == [w2.peers EXCEPT ![s] = w2.peers[s] \ {t}]
<1>1. m.type = "SQUIT" /\ m.servers = V
  BY TypesDiffer, Zenon
<1>2. m \in Message
  BY MessageTypes, Zenon
<1>3. m \in Message \ {SERVER, EOF} /\ Tame(m)
  BY <1>1, <1>2, TypesDiffer, Zenon DEF Tame
<1>4. \A u \in Users : Effect(m, u) = IF Hop[s][Home[u]] = t THEN "gone" ELSE "none"
  <2>1. \A u \in Users : Home[u] \in V <=> Hop[s][Home[u]] = t
    BY TreeAssumption, Zenon
  <2> HIDE DEF V
  <2> QED BY <1>1, <2>1, Zenon DEF Effect
<1>5. /\ Good(w1) /\ Sent(w, w1, s, w.peers[s] \ {t}, m)
      /\ w1.chan = w.chan /\ w1.known = w.known /\ w1.peers = w.peers
  <2> HIDE DEF V
  <2> QED BY <1>2, SendToServerSends
<1>6. r = [w2 EXCEPT !.peers = p]
  BY Zenon DEF ExitServer
<1> HIDE DEF w1
<1>7. /\ w2.peers = w1.peers /\ w2.link = w1.link
      /\ \A x \in Servers, u \in Users :
             /\ w2.known[x][u] = IF x = s /\ u \in X THEN None ELSE w1.known[x][u]
             /\ Standing(w2, x, u) = IF x = s /\ u \in X THEN "absent"
                                     ELSE Standing(w1, x, u)
  BY <1>5, ExitStandings DEF Good
<1>8. Good(w2)
  BY <1>5, ExitGood, Zenon
<1> HIDE DEF w2
<1>9. w2 \in WorldType
  BY <1>8, Zenon DEF Good
<1>10. r.peers = p /\ r.chan = w2.chan /\ r.known = w2.known /\ r.link = w2.link
  BY <1>6, <1>9, Zenon DEF WorldType
<1>11. \A x \in Servers : r.peers[x] = IF x = s THEN w.peers[s] \ {t} ELSE w.peers[x]
  BY <1>5, <1>7, <1>9, <1>10, SMTT(30) DEF WorldType
<1>12. Sent(w, r, s, w.peers[s] \ {t}, m)
  BY <1>5, <1>7, <1>10 DEF Sent
<1>13. \A x, u : Standing(r, x, u) = Standing(w2, x, u) /\ Standing(w1, x, u) = Standing(w, x, u)
  BY <1>5, <1>10, Zenon DEF Standing, IsMember
<1>14. \A u \in Users : u \in X <=> w.known[s][u] = t
  BY Zenon
<1> HIDE DEF X
<1>15. Elsewhere(w, r, s)
  BY <1>5, <1>7, <1>10, <1>13 DEF Elsewhere
<1>16. \A u \in Users : w.known[s][u] = None => Standing(w, s, u) = "absent"
  BY Zenon DEF Standing
<1>17. \A u \in Users : w.known[s][u] \in {None, Hop[s][Home[u]]}
  BY Zenon DEF Heading
<1>18. \A u \in Users :
           /\ Hop[s][Home[u]] = t => u \in X \/ w.known[s][u] = None
           /\ Hop[s][Home[u]] # t => u \notin X
  BY <1>14, <1>17, NoneAssumption, Zenon
<1>19. \A u \in Users :
           /\ r.known[s][u] = IF u \in X THEN None ELSE w.known[s][u]
           /\ Standing(r, s, u) = IF u \in X THEN "absent" ELSE Standing(w, s, u)
  BY <1>5, <1>7, <1>10, <1>13, SMTT(30)
<1>20. ASSUME NEW u \in Users
       PROVE  IF Hop[s][Home[u]] = t
              THEN r.known[s][u] = None /\ Standing(r, s, u) = "absent"
                   /\ Effect(m, u) = "gone"
              ELSE /\ r.known[s][u] = w.known[s][u]
                   /\ Standing(r, s, u) = Standing(w, s, u)
                   /\ Effect(m, u) = "none"
  BY <1>4, <1>16, <1>18, <1>19, Zenon
<1> QED BY <1>3, <1>11, <1>12, <1>15, <1>20, Zenon DEF Exited

\* One more line of the burst.
LEMMA BurstingOn ==
    ASSUME NEW q, NEW s, NEW t, NEW F \in [Users -> Standings], Bursting(q, t, s, F),
           NEW m \in Message \ {SERVER, EOF}, Aimed(m, t, s), Tame(m),
           NEW G, \A u \in Users : G[u] = Apply(Effect(m, u), F[u])
    PROVE  Bursting(Append(q, m), t, s, G)
<1> DEFINE p == Append(q, m)
           n == Len(q)
<1>1. q \in Seq(Message) /\ m \in Message
  BY Zenon DEF Bursting
<1>2. /\ p \in Seq(Message) /\ n \in Nat /\ Len(p) = n + 1 /\ p[n + 1] = m
      /\ \A i \in 1..n : p[i] = q[i]
  BY <1>1
<1>3. \A u \in Users : Leads(p, u, "absent", G[u])
  <2> SUFFICES ASSUME NEW u \in Users PROVE Leads(p, u, "absent", G[u])
    BY Zenon
  <2>1. Leads(q, u, "absent", F[u]) /\ F[u] \in Standings
    BY Zenon DEF Bursting
  <2>2. Leads(p, u, "absent", Apply(Effect(m, u), F[u]))
    BY <1>1, <2>1, LeadsAppend, Zenon
  <2> QED BY <2>2, Zenon
<1> HIDE DEF p, n
<1>4. \A i \in 1..Len(p) : i \in 1..n \/ i = n + 1
  BY <1>2
<1>5. \A i \in 1..Len(p) : /\ Aimed(p[i], t, s) /\ Tame(p[i]) /\ p[i] # EOF
                           /\ p[i] = SERVER => i = 1 /\ <<s, t>> \in Dials
  <2>1. \A i \in 1..n : /\ Aimed(q[i], t, s) /\ Tame(q[i]) /\ q[i] # EOF
                        /\ q[i] = SERVER => i = 1 /\ <<s, t>> \in Dials
    BY Zenon DEF Bursting, n
  <2>2. m # SERVER /\ m # EOF
    BY Zenon
  <2> QED BY <1>2, <1>4, <2>1, <2>2, Zenon
<1> QED BY <1>2, <1>3, <1>5, Zenon DEF Bursting, p

\* The burst of t, to a neighbour whose users it does not know, tells all that
\* t has of the users.
LEMMA BurstTells ==
    ASSUME NEW w, Good(w), NEW s \in Servers, NEW t \in Servers, Neighbours(t, s),
           Heading(w, t),
           \A u \in Users : Hop[t][Home[u]] = s => w.known[t][u] = None,
           NEW X \in Overflow(w.chan[t]),
           NEW n, n = (IF <<s, t>> \in Dials THEN <<SERVER>> ELSE <<>>)
                      \o <<UIDs({u \in Users : w.known[t][u] \notin {None, s}})>>
                      \o ChannelBurst(w.chan[t], X)
    PROVE  Bursting(n, t, s, [u \in Users |-> Standing(w, t, u)])
<1> DEFINE F0 == [u \in Users |-> "absent"]
           F1 == [u \in Users |-> IF w.known[t][u] = None THEN "absent" ELSE "present"]
           F2 == [u \in Users |-> IF IsMember(w, t, u) /\ u \notin X THEN "member" ELSE F1[u]]
           F3 == [u \in Users |-> Standing(w, t, u)]
           N == {u \in Users : w.known[t][u] \notin {None, s}}
           q0 == IF <<s, t>> \in Dials THEN <<SERVER>> ELSE <<>>
           q1 == Append(q0, UIDs(N))
           c == w.chan[t]
           m1 == SJOIN(c.ts, Only(c.mem, Users \ X), c.modes, c.limit)
           m2 == SJOIN(c.ts, Only(c.mem, X), {}, 0)
<1>0. w \in WorldType /\ Knows(w)
  BY Zenon DEF Good
<1>a. \A h \in Servers : Hop[t][h] = s <=> Hop[s][h] # t
  BY Tree, Zenon
<1>b. \A u \in Users : w.known[t][u] # None => Hop[s][Home[u]] = t /\ w.known[t][u] # s
  <2>1. \A u \in Users : Home[u] \in Servers
    BY TreeAssumption, Zenon
  <2> QED BY <1>a, <2>1, Zenon DEF Heading
<1>c. \A u \in Users : u \in N <=> w.known[t][u] # None
  BY <1>b, Zenon
<1>d. /\ F0 \in [Users -> Standings] /\ F1 \in [Users -> Standings]
      /\ F2 \in [Users -> Standings]
  BY Zenon DEF Standings
<1>e. \A u \in Users : IsMember(w, t, u) => w.known[t][u] # None
  BY <1>0, Zenon DEF Knows
<1>1. Bursting(q0, t, s, F0)
  <2>1. q0 \in Seq(Message)
    BY MessageTypes
  <2>2. \A u \in Users : Leads(<<>>, u, "absent", "absent")
    BY LeadsEmpty, Zenon DEF Standings
  <2>3. \A u \in Users :
            Leads(Append(<<>>, SERVER), u, "absent", Apply(Effect(SERVER, u), "absent"))
    <3>1. <<>> \in Seq(Message) /\ SERVER \in Message /\ "absent" \in Standings
      BY MessageTypes DEF Standings
    <3> QED BY <2>2, <3>1, LeadsAppend, Zenon
  <2>4. Append(<<>>, SERVER) = <<SERVER>>
    OBVIOUS
  <2>5. \A u \in Users : Leads(<<SERVER>>, u, "absent", "absent")
    BY <2>3, <2>4, PlainMessages, Zenon DEF Apply
  <2>6. \A u \in Users : Leads(q0, u, "absent", F0[u])
    BY <2>2, <2>5, Zenon
  <2>7. \A i \in 1..Len(q0) : q0[i] = SERVER /\ i = 1 /\ <<s, t>> \in Dials
    OBVIOUS
  <2>8. Aimed(SERVER, t, s) /\ Tame(SERVER) /\ SERVER # EOF
    BY PlainMessages, Zenon DEF Aimed
  <2> HIDE DEF q0, F0
  <2> QED BY <2>1, <2>6, <2>7, <2>8, Zenon DEF Bursting
<1>2. Bursting(q1, t, s, F1)
  <2> DEFINE m == UIDs(N)
  <2>1. m \in Message /\ m.type = "UID" /\ m.users = N
    BY MessageTypes, TypesDiffer, Zenon
  <2> HIDE DEF m, N
  <2>2. m \in Message \ {SERVER, EOF} /\ Tame(m)
    BY <2>1, TypesDiffer, Zenon DEF Tame
  <2>3. \A u \in Users : Effect(m, u) = IF w.known[t][u] # None THEN "up" ELSE "none"
    BY <1>c, <2>1, Zenon DEF Effect
  <2>4. Aimed(m, t, s)
    BY <1>b, <2>3, Zenon DEF Aimed
  <2>5. \A u \in Users : F1[u] = Apply(Effect(m, u), F0[u])
    BY <2>3, Zenon DEF Apply
  <2> HIDE DEF F0, F1, q0
  <2>6. Bursting(Append(q0, m), t, s, F1)
    BY <1>1, <1>d, <2>2, <2>4, <2>5, BurstingOn, ZenonT(60)
  <2> QED BY <2>6, Zenon DEF m
<1>3. q0 \in Seq(Message) /\ q1 \in Seq(Message)
  BY <1>1, <1>2, Zenon DEF Bursting
<1>4. n = q1 \o ChannelBurst(c, X)
  <2>1. UIDs(N) \in Message
    BY MessageTypes, Zenon
  <2> DEFINE m == UIDs(N)
  <2>2. n = (q0 \o <<m>>) \o ChannelBurst(c, X)
    BY Zenon
  <2> HIDE DEF q0, m
  <2>3. q0 \o <<m>> = Append(q0, m)
    BY <1>3, <2>1 DEF m
  <2> QED BY <2>2, <2>3, Zenon DEF m
<1> HIDE DEF q0
<1>5. CASE c = None
  <2>1. n = q1
    <3>1. ChannelBurst(c, X) = <<>>
      BY <1>5, Zenon DEF ChannelBurst
    <3>2. n = q1 \o <<>>
      BY <1>4, <3>1, Zenon
    <3> HIDE DEF q1
    <3>3. q1 \o <<>> = q1
      BY <1>3
    <3> QED BY <3>2, <3>3, Zenon
  <2>2. \A u \in Users : F3[u] = F1[u]
    BY <1>5, Zenon DEF Standing, IsMember
  <2> HIDE DEF F1, F3, q1
  <2>3. Bursting(q1, t, s, F3)
    BY <1>2, <2>2, Zenon DEF Bursting
  <2> QED BY <2>1, <2>3, Zenon DEF F3
<1>6. CASE c # None
  <2>1. c \in Channel /\ X \in SUBSET Users
    BY <1>0, <1>6, Zenon DEF WorldType, Overflow, Members
  <2>2. \A u \in Users : IsMember(w, t, u) <=> c.mem[u] # "out"
    BY <1>6, Zenon DEF IsMember
  <2>3. /\ Only(c.mem, Users \ X) \in [Users -> Status]
        /\ Only(c.mem, X) \in [Users -> Status]
        /\ \A u \in Users : Only(c.mem, Users \ X)[u] # "out" <=> IsMember(w, t, u) /\ u \notin X
        /\ \A u \in Users : Only(c.mem, X)[u] # "out" <=> IsMember(w, t, u) /\ u \in X
    BY <2>1, <2>2, Zenon DEF Only, Channel, Status
  <2>4. c.ts \in Times /\ c.modes \in SUBSET Modes /\ c.limit \in Limits \cup {0}
        /\ {} \in SUBSET Modes /\ 0 \in Limits \cup {0}
    BY <2>1, Zenon DEF Channel
  <2>5. m1 \in Message /\ m2 \in Message
    BY <2>3, <2>4, MessageTypes, ZenonT(60)
  <2>6. /\ m1.type = "SJOIN" /\ m1.items = Only(c.mem, Users \ X)
        /\ m2.type = "SJOIN" /\ m2.items = Only(c.mem, X)
    BY TypesDiffer
  <2>7. ChannelBurst(c, X) = <<m1>> \o IF X = {} THEN <<>> ELSE <<m2>>
    BY <1>6, Zenon DEF ChannelBurst
  <2> HIDE DEF m1, m2
  <2>8. /\ m1 \in Message \ {SERVER, EOF} /\ Tame(m1)
        /\ m2 \in Message \ {SERVER, EOF} /\ Tame(m2)
    BY <2>5, <2>6, TypesDiffer, Zenon DEF Tame
  <2>9. \A u \in Users :
            /\ Effect(m1, u) = IF IsMember(w, t, u) /\ u \notin X THEN "in" ELSE "none"
            /\ Effect(m2, u) = IF IsMember(w, t, u) /\ u \in X THEN "in" ELSE "none"
    BY <2>3, <2>6, Zenon DEF Effect
  <2>10. Aimed(m1, t, s) /\ Aimed(m2, t, s)
    BY <1>b, <1>e, <2>9, Zenon DEF Aimed
  <2>11. \A u \in Users : F2[u] = Apply(Effect(m1, u), F1[u])
    BY <1>e, <2>9, Zenon DEF Apply
  <2>12. \A u \in Users : F3[u] = Apply(Effect(m2, u), F2[u])
    BY <1>e, <2>9, Zenon DEF Apply, Standing
  <2>13. X = {} => \A u \in Users : F3[u] = F2[u]
    BY <1>e, Zenon DEF Standing
  <2> HIDE DEF q1, F1, F2, F3
  <2>14. Bursting(Append(q1, m1), t, s, F2)
    BY <1>2, <1>d, <2>8, <2>10, <2>11, BurstingOn, ZenonT(60)
  <2>15. Bursting(Append(Append(q1, m1), m2), t, s, F3)
    BY <1>d, <2>8, <2>10, <2>12, <2>14, BurstingOn, ZenonT(60)
  <2>16. CASE X = {}
    <3>a. n = q1 \o (<<m1>> \o <<>>)
      BY <1>4, <2>7, <2>16, ZenonT(60)
    <3>b. q1 \o (<<m1>> \o <<>>) = Append(q1, m1)
      BY <1>3, <2>5
    <3>1. n = Append(q1, m1)
      BY <3>a, <3>b, Zenon
    <3>2. Bursting(n, t, s, F3)
      BY <2>13, <2>14, <2>16, <3>1, Zenon DEF Bursting
    <3> QED BY <3>2, Zenon DEF F3
  <2>17. CASE X # {}
    <3>1. n = q1 \o (<<m1>> \o <<m2>>)
      BY <1>4, <2>7, <2>17, ZenonT(60)
    <3>2. q1 \o (<<m1>> \o <<m2>>) = Append(Append(q1, m1), m2)
      BY <1>3, <2>5
    <3> QED BY <2>15, <3>1, <3>2, Zenon DEF F3
  <2> QED BY <2>16, <2>17, Zenon
<1> QED BY <1>5, <1>6, Zenon

\* The network is in order as long as nobody has kicked or changed a mode.
NetInv == count.changes = 0 => Net(World)

\* Becoming a world in order.
LEMMA BecomeNet ==
    ASSUME NEW r, Good(r), Net(r), Become(r)
    PROVE  NetInv'
<1>1. r \in WorldType
  BY Zenon DEF Good
<1>2. r = [chan |-> r.chan, known |-> r.known, peers |-> r.peers, link |-> r.link]
  BY <1>1, Zenon DEF WorldType
<1>3. World' = r
  BY <1>2, Zenon DEF World, Become
<1>4. Net(World')
  BY <1>3, Zenon
<1> QED BY <1>4, Zenon DEF NetInv

\* The fields of the world.
LEMMA WorldFields ==
    /\ World.chan = chan /\ World.known = known
    /\ World.peers = peers /\ World.link = link
BY Zenon DEF World

\* Taken takes the first message.
LEMMA TakenTook ==
    ASSUME Inv, NEW s \in Servers, NEW t \in Servers, link[s][t] # <<>>
    PROVE  TookFirst(World, Taken(s, t), s, t)
<1> DEFINE l == [link EXCEPT ![s] = [link[s] EXCEPT ![t] = Tail(link[s][t])]]
<1>1. \A x, y \in Servers :
          l[x][y] = IF x = s /\ y = t THEN Tail(link[x][y]) ELSE link[x][y]
  BY Zenon DEF Inv, TypeOK
<1> HIDE DEF l
<1>2. Taken(s, t) = [World EXCEPT !.link = l]
  BY Zenon DEF Taken, l
<1>3. /\ Taken(s, t).peers = World.peers /\ Taken(s, t).known = World.known
      /\ Taken(s, t).chan = World.chan /\ Taken(s, t).link = l
  BY <1>2, Zenon DEF World
<1> QED BY <1>1, <1>3, WorldFields, Zenon DEF TookFirst

\* A message from another server.
LEMMA ReceiveNet ==
    ASSUME Inv, NetInv, NEW s \in Servers, NEW t \in Servers, Receive(s, t)
    PROVE  NetInv'
<1> SUFFICES ASSUME count.changes = 0 PROVE NetInv'
  BY Zenon DEF NetInv, Receive
<1> DEFINE v == Taken(s, t)
           m == Head(link[s][t])
           r == Handle(v, t, s, m)
           w == World
<1>1. s \in peers[t] /\ link[s][t] # <<>> /\ m \notin {SERVER, EOF} /\ Become(r)
  BY Zenon DEF Receive
<1>2. Good(v) /\ m \in Message
  BY <1>1, TakenGood, SMTT(60)
<1>3. TookFirst(w, v, s, t)
  BY <1>1, TakenTook, Zenon
<1>4. Good(w) /\ Net(w)
  BY WorldGood, Zenon DEF NetInv
<1>5. s \in w.peers[t] /\ w.link[s][t] # <<>> /\ Head(w.link[s][t]) = m
  BY <1>1, WorldFields, Zenon
<1> HIDE DEF v, m, w
<1>6. Heading(v, t)
  BY <1>3, <1>4, Zenon DEF Net, Directed, Heading, TookFirst
<1>7. Aimed(m, s, t) /\ Tame(m)
  <2>1. w.link[s][t] \in Seq(Message)
    BY <1>4, ZenonT(60) DEF Good, WorldType
  <2>2. 1 \in 1..Len(w.link[s][t]) /\ w.link[s][t][1] = m
    BY <1>5, <2>1
  <2> QED BY <1>4, <2>2, Zenon DEF Net, Traffic
<1>8. Good(r)
  BY <1>1, <1>2, HandleGood, Zenon
<1>9. Processed(v, r, t, s, m)
  BY <1>1, <1>2, <1>6, <1>7, HandleProcessed, Zenon
<1> HIDE DEF r
<1>10. First(w, s, t, m)
  BY <1>1, <1>5, Zenon DEF First
<1>11. Net(r)
  BY <1>2, <1>3, <1>4, <1>5, <1>8, <1>9, <1>10, ProcessedNet, ZenonT(60)
<1> QED BY <1>1, <1>8, <1>11, BecomeNet, Zenon

\* A completed handshake.
LEMMA ReceiveServerNet ==
    ASSUME Inv, NetInv, NEW s \in Servers, NEW t \in Servers, ReceiveServer(s, t)
    PROVE  NetInv'
<1> SUFFICES ASSUME count.changes = 0 PROVE NetInv'
  BY Zenon DEF NetInv, ReceiveServer
<1> DEFINE v == Taken(s, t)
           w == World
<1>1. s \notin peers[t] /\ link[s][t] # <<>> /\ Head(link[s][t]) = SERVER
  BY Zenon DEF ReceiveServer
<1>2. PICK X \in Overflow(chan[t]) : Become(cmd_server(v, t, s, X))
  BY Zenon DEF ReceiveServer
<1>3. Good(v)
  BY <1>1, TakenGood, SMTT(60)
<1>4. TookFirst(w, v, s, t)
  BY <1>1, TakenTook, Zenon
<1>5. Good(w) /\ Net(w)
  BY WorldGood, Zenon DEF NetInv
<1>6. s \notin w.peers[t] /\ w.link[s][t] # <<>> /\ Head(w.link[s][t]) = SERVER
      /\ X \in Overflow(w.chan[t])
  BY <1>1, <1>2, WorldFields, Zenon
<1> HIDE DEF v, w
<1> DEFINE r == cmd_server(v, t, s, X)
           n == (IF <<s, t>> \in Dials THEN <<SERVER>> ELSE <<>>)
                \o <<UIDs({u \in Users : w.known[t][u] \notin {None, s}})>>
                \o ChannelBurst(w.chan[t], X)
           l == [v.link EXCEPT ![t] = [v.link[t] EXCEPT ![s] = n]]
           p == [v.peers EXCEPT ![t] = v.peers[t] \cup {s}]
<1>7. Good(r) /\ Become(r)
  BY <1>2, <1>3, ServerGood, Zenon
<1>8. v.chan = w.chan /\ v.known = w.known /\ v.peers = w.peers
  BY <1>4, Zenon DEF TookFirst
<1>9. Wire(w, s, t) /\ w.link[s][t] \in Seq(Message)
  BY <1>5, Zenon DEF Net, Wires, Good, WorldType
<1>10. w.link[t][s] = <<>> /\ Neighbours(s, t)
  <2>1. 1 \in 1..Len(w.link[s][t]) /\ w.link[s][t][1] = SERVER
    BY <1>6, <1>9
  <2> QED BY <1>6, <1>9, <2>1, Zenon DEF Wire
<1>11. s # t /\ Neighbours(t, s)
  BY <1>10, Tree, Zenon
<1>12. v.link[t][s] = <<>>
  BY <1>4, <1>10, <1>11, Zenon DEF TookFirst
<1>13. r = [v EXCEPT !.peers = p, !.link = l]
  <2> DEFINE a == IF <<s, t>> \in Dials THEN <<SERVER>> ELSE <<>>
             b == <<UIDs({u \in Users : w.known[t][u] \notin {None, s}})>>
  <2>1. <<>> \o a = a
    <3>1. a \in Seq(Message)
      BY MessageTypes
    <3> QED BY <3>1
  <2> HIDE DEF a
  <2>2. r = [v EXCEPT !.peers = p, !.link = [v.link EXCEPT ![t] = [v.link[t] EXCEPT ![s] =
                 v.link[t][s] \o a \o b \o ChannelBurst(w.chan[t], X)]]]
    BY <1>8, Zenon DEF cmd_server, a
  <2>3. v.link[t][s] \o a = a
    BY <1>12, <2>1, Zenon
  <2> QED BY <2>2, <2>3, Zenon DEF a
<1> HIDE DEF r, n
<1>14. v \in WorldType
  BY <1>3, Zenon DEF Good
<1>a. r.peers = p /\ r.known = v.known /\ r.chan = v.chan /\ r.link = l
  BY <1>13, <1>14, Zenon DEF WorldType
<1>b. \A x \in Servers : r.peers[x] = IF x = t THEN w.peers[t] \cup {s} ELSE w.peers[x]
  BY <1>8, <1>14, <1>a DEF WorldType
<1>c. \A x, y \in Servers : l[x][y] = IF x = t /\ y = s THEN n ELSE v.link[x][y]
  BY <1>14, Zenon DEF WorldType
<1> HIDE DEF l
<1>d. \A x, y \in Servers : r.link[x][y] =
          IF x = t /\ y = s THEN n
          ELSE IF x = s /\ y = t THEN Tail(w.link[x][y]) ELSE w.link[x][y]
  BY <1>4, <1>a, <1>c DEF TookFirst
<1>15. Answered(w, r, s, t, n)
  BY <1>8, <1>a, <1>b, <1>d, Zenon DEF Answered
<1>16. \A u \in Users : Hop[t][Home[u]] = s => w.known[t][u] = None
  <2>1. Apart(w, t, s)
    BY <1>6, Zenon DEF Apart
  <2> QED BY <1>5, <1>10, <2>1, Zenon DEF Net, Strangers
<1>17. Bursting(n, t, s, [u \in Users |-> Standing(w, t, u)])
  <2>1. Heading(w, t)
    BY <1>5, Zenon DEF Net, Directed
  <2>2. X \in Overflow(w.chan[t])
    BY <1>6, Zenon
  <2>3. Good(w)
    BY <1>5, Zenon
  <2> QED BY <1>11, <1>16, <2>1, <2>2, <2>3, BurstTells, ZenonT(60) DEF n
<1>18. Net(r)
  BY <1>5, <1>6, <1>15, <1>17, ServerNet, ZenonT(60)
<1> QED BY <1>7, <1>18, BecomeNet, ZenonT(60)

\* A server calls another.
LEMMA DialStepNet ==
    ASSUME Inv, NetInv, NEW s \in Servers, NEW t \in Servers, Dial(s, t)
    PROVE  NetInv'
<1> SUFFICES ASSUME count.changes = 0 PROVE NetInv'
  BY Zenon DEF NetInv, Dial
<1> DEFINE w == World
           r == SendTo(w, s, {t}, SERVER)
<1>1. /\ <<s, t>> \in Dials /\ t \notin peers[s] /\ s \notin peers[t]
      /\ link[s][t] = <<>> /\ link[t][s] = <<>> /\ Become(r)
  BY Zenon DEF Dial
<1>2. /\ t \notin w.peers[s] /\ s \notin w.peers[t]
      /\ w.link[s][t] = <<>> /\ w.link[t][s] = <<>>
  BY <1>1, WorldFields, Zenon
<1>3. Good(w) /\ Net(w) /\ w \in WorldType
  BY WorldGood, Zenon DEF NetInv, Good
<1> HIDE DEF w
<1>4. Good(r) /\ r.peers = w.peers /\ r.known = w.known /\ r.chan = w.chan
  BY <1>3, MessageTypes, SendToGood
<1>5. Sent(w, r, s, {t}, SERVER)
  BY <1>3, MessageTypes, SendToSends, Zenon
<1> HIDE DEF r
<1>6. Net(r)
  BY <1>1, <1>2, <1>3, <1>4, <1>5, DialNet, ZenonT(60)
<1> QED BY <1>1, <1>4, <1>6, BecomeNet, ZenonT(60)

\* A queue cut off after k messages and ended.
LEMMA CutOff ==
    ASSUME NEW w, NEW s, NEW t, NEW q \in Seq(Message), q = w.link[s][t],
           NEW k \in 0..Len(q), NEW a, a = Append(SubSeq(q, 1, k), EOF)
    PROVE  Ending(w, s, t, a)
<1> DEFINE p == SubSeq(q, 1, k)
<1>1. p \in Seq(Message) /\ Len(p) = k /\ \A i \in 1..k : p[i] = q[i]
  OBVIOUS
<1>2. EOF \in Message
  BY MessageTypes, Zenon
<1> HIDE DEF p
<1>3. a = Append(p, EOF)
  BY Zenon DEF p
<1>a. k \in Nat /\ Len(q) \in Nat /\ k <= Len(q)
  OBVIOUS
<1>b. Append(p, EOF) \in Seq(Message) /\ Len(Append(p, EOF)) = Len(p) + 1
      /\ Append(p, EOF)[Len(p) + 1] = EOF
      /\ \A i \in 1..Len(p) : Append(p, EOF)[i] = p[i]
  BY <1>1, <1>2
<1>4. /\ a \in Seq(Message) /\ Len(a) = k + 1 /\ a[k + 1] = EOF
      /\ \A i \in 1..k : a[i] = p[i]
  BY <1>1, <1>3, <1>b, Zenon
<1>5. a # <<>>
  <2>1. Len(a) # 0
    BY <1>4, <1>a
  <2> QED BY <2>1, Zenon
<1>6. \A i \in 1..Len(a) : i # Len(a) => i \in 1..k /\ i \in 1..Len(q)
  BY <1>4, <1>a
<1>7. \A i \in 1..Len(a) : i # Len(a) => i \in 1..Len(q) /\ a[i] = q[i]
  BY <1>1, <1>4, <1>6, Zenon
<1>8. a[Len(a)] = EOF
  BY <1>4, Zenon
<1> QED BY <1>4, <1>5, <1>7, <1>8, ZenonT(60) DEF Ending

\* A link lost with messages under way.
LEMMA SplitNet ==
    ASSUME Inv, NetInv, NEW s \in Servers, NEW t \in Servers, NEW k, Split(s, t, k)
    PROVE  NetInv'
<1>0. count'.changes = count.changes
  BY Zenon DEF Split, Inv, TypeOK
<1> SUFFICES ASSUME count.changes = 0 PROVE NetInv'
  BY <1>0, Zenon DEF NetInv
<1> DEFINE w == World
           v == ExitServer(w, s, t)
           a == Append(SubSeq(w.link[s][t], 1, k), EOF)
           m == SQUIT({x \in Servers : Hop[s][x] = t})
           l == [x \in Servers |-> [y \in Servers |->
                    IF x = s /\ y = t THEN a
                    ELSE IF x = t /\ y = s THEN <<>> ELSE v.link[x][y]]]
           r == [v EXCEPT !.link = l]
<1>1. t \in w.peers[s] /\ k \in 0..Len(w.link[s][t]) /\ Become(r)
  BY WorldFields, Zenon DEF Split
<1>2. Good(w) /\ Net(w) /\ w \in WorldType
  BY WorldGood, Zenon DEF NetInv, Good
<1> HIDE DEF w
<1>3. w.link[s][t] \in Seq(Message)
  BY <1>2, Zenon DEF WorldType
<1>4. Ending(w, s, t, a)
  <2> DEFINE q == w.link[s][t]
  <2>1. q \in Seq(Message) /\ k \in 0..Len(q) /\ a = Append(SubSeq(q, 1, k), EOF)
    BY <1>1, <1>3, Zenon
  <2> HIDE DEF a, q
  <2>2. q = w.link[s][t]
    BY Zenon DEF q
  <2> QED BY <2>1, <2>2, CutOff, Zenon
<1>5. a \in Seq(Message)
  BY <1>4, Zenon DEF Ending
<1> HIDE DEF a
<1>6. Good(v)
  BY <1>2, ExitServerGood, Zenon
<1>7. Heading(w, s)
  BY <1>2, ZenonT(60) DEF Net, Directed
<1>8. Exited(w, v, s, t, m) /\ m \in Message \ {SERVER, EOF} /\ Tame(m)
  BY <1>2, <1>7, ExitServerDoes
<1> HIDE DEF v, m
<1>9. l \in [Servers -> [Servers -> Seq(Message)]]
  BY <1>5, <1>6 DEF Good, WorldType
<1>10. \A x, y \in Servers : l[x][y] =
           IF x = s /\ y = t THEN a
           ELSE IF x = t /\ y = s THEN <<>> ELSE v.link[x][y]
  BY Zenon
<1> HIDE DEF l
<1>11. Good(r) /\ r.chan = v.chan /\ r.known = v.known /\ r.peers = v.peers
  BY <1>6, <1>9, RelinkGood, ZenonT(90)
<1>12. r.link = l
  BY <1>6, ZenonT(60) DEF Good, WorldType
<1> HIDE DEF r
<1>13. \A x, y \in Servers : r.link[x][y] =
           IF x = s /\ y = t THEN a
           ELSE IF x = t /\ y = s THEN <<>>
           ELSE IF x = s /\ y \in w.peers[s] THEN Append(w.link[x][y], m)
           ELSE w.link[x][y]
  BY <1>8, <1>10, <1>12 DEF Exited, Sent
<1>14. \A x, u : Standing(r, x, u) = Standing(v, x, u)
  BY <1>11, ZenonT(60) DEF Standing, IsMember
<1>a. Elsewhere(w, r, s)
  BY <1>8, <1>11, <1>14 DEF Exited, Elsewhere
<1>b. \A x \in Servers : r.peers[x] = IF x = s THEN w.peers[s] \ {t} ELSE w.peers[x]
  BY <1>8, <1>11, ZenonT(60) DEF Exited
<1>c. \A u \in Users :
          IF Hop[s][Home[u]] = t
          THEN r.known[s][u] = None /\ Standing(r, s, u) = "absent" /\ Effect(m, u) = "gone"
          ELSE /\ r.known[s][u] = w.known[s][u] /\ Standing(r, s, u) = Standing(w, s, u)
               /\ Effect(m, u) = "none"
  BY <1>8, <1>11, <1>14 DEF Exited
<1>15. Dropped(w, r, s, t, a, m)
  BY <1>13, <1>a, <1>b, <1>c, Zenon DEF Dropped
<1>16. m \in Message \ {SERVER, EOF} /\ Tame(m)
  BY <1>8, Zenon
<1>17. Good(w) /\ Net(w) /\ t \in w.peers[s] /\ Good(r)
  BY <1>1, <1>2, <1>11, Zenon
<1>18. Net(r)
  BY <1>4, <1>15, <1>16, <1>17, DroppedNet, ZenonT(60)
<1> QED BY <1>1, <1>17, <1>18, BecomeNet, ZenonT(60)

\* The other side has dropped the link.
LEMMA ReceiveEOFNet ==
    ASSUME Inv, NetInv, NEW s \in Servers, NEW t \in Servers, ReceiveEOF(s, t)
    PROVE  NetInv'
<1> SUFFICES ASSUME count.changes = 0 PROVE NetInv'
  BY Zenon DEF NetInv, ReceiveEOF
<1> DEFINE w == World
           v == Taken(s, t)
           d == IF s \in w.peers[t] THEN ExitServer(v, t, s) ELSE v
           l == [d.link EXCEPT ![t] = [d.link[t] EXCEPT ![s] = <<>>]]
           r == [d EXCEPT !.link = l]
           m == SQUIT({x \in Servers : Hop[t][x] = s})
<1>1. link[s][t] # <<>> /\ Head(link[s][t]) = EOF /\ Become(r)
  BY WorldFields, Zenon DEF ReceiveEOF
<1>2. Good(w) /\ Net(w) /\ w \in WorldType
  BY WorldGood DEF NetInv, Good
<1>3. Good(v)
  BY <1>1, TakenGood, SMTT(60)
<1>4. TookFirst(w, v, s, t)
  BY <1>1, TakenTook, Zenon
<1>5. w.link[s][t] # <<>> /\ Head(w.link[s][t]) = EOF
  BY <1>1, WorldFields, Zenon
<1> HIDE DEF w, v
<1>6. w.link[s][t] \in Seq(Message) /\ Wire(w, s, t)
  BY <1>2, Zenon DEF WorldType, Net, Wires
<1>7. t \notin w.peers[s] /\ Tail(w.link[s][t]) = <<>> /\ Neighbours(s, t)
  <2> DEFINE q == w.link[s][t]
  <2>1. 1 \in 1..Len(q) /\ q[1] = EOF
    BY <1>5, <1>6
  <2>2. Len(q) = 1 /\ t \notin w.peers[s] /\ Neighbours(s, t)
    BY <1>5, <1>6, <2>1, Zenon DEF Wire
  <2> HIDE DEF q
  <2>3. q \in Seq(Message) /\ q # <<>>
    BY <1>5, <1>6, Zenon DEF q
  <2>4. Tail(q) \in Seq(Message) /\ Len(Tail(q)) = 0
    BY <2>2, <2>3
  <2>5. Tail(q) = <<>>
    BY <2>4
  <2> QED BY <2>2, <2>5, ZenonT(60) DEF q
<1>8. s # t
  BY <1>7, Tree, Zenon
<1>9. /\ v.peers = w.peers /\ v.known = w.known /\ v.chan = w.chan
      /\ \A x, y \in Servers : v.link[x][y] =
             IF x = s /\ y = t THEN <<>> ELSE w.link[x][y]
  BY <1>4, <1>7, Zenon DEF TookFirst
<1>10. Good(d)
  BY <1>3, ExitServerGood, Zenon
<1>11. d = IF s \in w.peers[t] THEN ExitServer(v, t, s) ELSE v
  BY Zenon
<1> HIDE DEF d
<1>12. d.link \in [Servers -> [Servers -> Seq(Message)]]
  BY <1>10, Zenon DEF Good, WorldType
<1>13. /\ l \in [Servers -> [Servers -> Seq(Message)]]
       /\ \A x, y \in Servers : l[x][y] = IF x = t /\ y = s THEN <<>> ELSE d.link[x][y]
  <2>1. <<>> \in Seq(Message)
    OBVIOUS
  <2>2. [d.link[t] EXCEPT ![s] = <<>>] \in [Servers -> Seq(Message)]
    BY <1>12, <2>1, Zenon
  <2>3. l \in [Servers -> [Servers -> Seq(Message)]]
    BY <1>12, <2>2, Zenon
  <2>4. \A x, y \in Servers : l[x][y] = IF x = t /\ y = s THEN <<>> ELSE d.link[x][y]
    BY <1>12, Zenon
  <2> QED BY <2>3, <2>4, Zenon
<1> HIDE DEF l
<1>14. Good(r) /\ r.chan = d.chan /\ r.known = d.known /\ r.peers = d.peers
  BY <1>10, <1>13, RelinkGood, ZenonT(90)
<1>15. r.link = l
  BY <1>10, Zenon DEF Good, WorldType
<1> HIDE DEF r
<1>16. CASE s \notin w.peers[t]
  <2>1. d = v
    BY <1>11, <1>16, Zenon
  <2>2. r.chan = w.chan /\ r.known = w.known /\ r.peers = w.peers
    BY <1>9, <1>14, <2>1, Zenon
  <2>3. \A x, y \in Servers : r.link[x][y] =
            IF (x = s /\ y = t) \/ (x = t /\ y = s) THEN <<>> ELSE w.link[x][y]
    <3>2. \A x, y \in Servers : r.link[x][y] = IF x = t /\ y = s THEN <<>> ELSE v.link[x][y]
      BY <1>13, <1>15, <2>1, Zenon
    <3>3. \A x, y \in Servers : v.link[x][y] = IF x = s /\ y = t THEN <<>> ELSE w.link[x][y]
      BY <1>9, Zenon
    <3> QED BY <3>2, <3>3
  <2>5. Good(w) /\ Net(w) /\ t \notin w.peers[s] /\ s \notin w.peers[t]
    BY <1>2, <1>7, <1>16, ZenonT(60)
  <2>4. Net(r)
    BY <2>2, <2>3, <2>5, HangUpNet, SMTT(30)
  <2> QED BY <1>1, <1>14, <2>4, BecomeNet, Zenon
<1>17. CASE s \in w.peers[t]
  <2>1. d = ExitServer(v, t, s)
    BY <1>11, <1>17, Zenon
  <2>2. Heading(v, t)
    BY <1>2, <1>9, ZenonT(60) DEF Net, Directed, Heading
  <2>3. Exited(v, d, t, s, m) /\ m \in Message \ {SERVER, EOF} /\ Tame(m)
    BY <1>3, <2>1, <2>2, ExitServerDoes, SMTT(30)
  <2> HIDE DEF m
  <2>4. \A x, u : Standing(r, x, u) = Standing(d, x, u) /\ Standing(v, x, u) = Standing(w, x, u)
    BY <1>9, <1>14, ZenonT(60) DEF Standing, IsMember
  <2>5. \A x, y \in Servers : r.link[x][y] =
            IF x = t /\ y = s THEN <<>>
            ELSE IF x = s /\ y = t THEN <<>>
            ELSE IF x = t /\ y \in w.peers[t] THEN Append(w.link[x][y], m)
            ELSE w.link[x][y]
    <3>1. \A x, y \in Servers : r.link[x][y] = IF x = t /\ y = s THEN <<>> ELSE d.link[x][y]
      BY <1>13, <1>15, ZenonT(60)
    <3>2. \A x, y \in Servers : d.link[x][y] =
              IF x = t /\ y \in w.peers[t] \ {s} THEN Append(v.link[x][y], m) ELSE v.link[x][y]
      BY <1>9, <2>3 DEF Exited, Sent
    <3>3. \A x, y \in Servers : v.link[x][y] = IF x = s /\ y = t THEN <<>> ELSE w.link[x][y]
      BY <1>9
    <3> QED BY <1>8, <3>1, <3>2, <3>3, SMTT(30)
  <2>6. \A x \in Servers : r.peers[x] = IF x = t THEN w.peers[t] \ {s} ELSE w.peers[x]
    BY <1>9, <1>14, <2>3, ZenonT(60) DEF Exited
  <2>7. Elsewhere(w, r, t)
    <3>1. Elsewhere(v, d, t)
      BY <2>3, Zenon DEF Exited
    <3>2. v.known = w.known /\ r.known = d.known
      BY <1>9, <1>14, Zenon
    <3> QED BY <2>4, <3>1, <3>2, ZenonT(60) DEF Elsewhere
  <2>8. \A u \in Users :
            IF Hop[t][Home[u]] = s
            THEN r.known[t][u] = None /\ Standing(r, t, u) = "absent"
                 /\ Effect(m, u) = "gone"
            ELSE /\ r.known[t][u] = w.known[t][u]
                 /\ Standing(r, t, u) = Standing(w, t, u)
                 /\ Effect(m, u) = "none"
    BY <1>9, <1>14, <2>3, <2>4 DEF Exited
  <2>9. Dropped(w, r, t, s, <<>>, m)
    BY <2>5, <2>6, <2>7, <2>8, ZenonT(60) DEF Dropped
  <2>10. Ending(w, t, s, <<>>)
    BY <1>7 DEF Ending
  <2>11. m \in Message \ {SERVER, EOF} /\ Tame(m)
    BY <2>3, Zenon
  <2>12. Good(w) /\ Net(w) /\ s \in w.peers[t] /\ Good(r)
    BY <1>2, <1>14, <1>17, Zenon
  <2>13. Net(r)
    BY <2>9, <2>10, <2>11, <2>12, DroppedNet, ZenonT(60)
  <2> QED BY <1>1, <2>12, <2>13, BecomeNet, ZenonT(60)
<1> QED BY <1>16, <1>17, Zenon

\* What a local user does, done as a message from the server itself.
LEMMA OwnNet ==
    ASSUME NEW w, Good(w), Net(w), NEW s \in Servers, NEW m,
           \A u \in Users : Effect(m, u) # "none" => Home[u] = s,
           NEW r, Good(r), Processed(w, r, s, s, m),
           \E u \in Users : Standing(r, s, u) # Standing(w, s, u)
    PROVE  Net(r)
<1>1. PICK m2 : /\ Tells(m2, m)
                /\ Sent(w, r, s, w.peers[s] \ {s}, m2)
                /\ Follows(w, r, s, m2)
  BY Zenon DEF Processed
<1>2. w.peers[s] \ {s} = w.peers[s]
  <2>1. Wire(w, s, s)
    BY Zenon DEF Net, Wires
  <2>2. s \notin w.peers[s]
    BY <2>1, Tree, Zenon DEF Wire
  <2> QED BY <2>2, Zenon
<1>3. m2 \in Message \ {SERVER, EOF} /\ Tame(m2)
  BY <1>1, Zenon DEF Tells
<1>4. \A u \in Users : Effect(m2, u) # "none" => Home[u] = s
  BY <1>1, Zenon DEF Tells
<1>5. r.peers = w.peers /\ Elsewhere(w, r, s) /\ Heading(r, s)
  BY Zenon DEF Processed
<1>6. Sent(w, r, s, w.peers[s], m2) /\ Follows(w, r, s, m2)
  BY <1>1, <1>2, Zenon
<1> QED BY <1>3, <1>4, <1>5, <1>6, LocalNet, ZenonT(60)

\* A user leaves the channel.
LEMMA LocalPartNet ==
    ASSUME Inv, NetInv, NEW u \in Users, LocalPart(u)
    PROVE  NetInv'
<1> SUFFICES ASSUME count.changes = 0 PROVE NetInv'
  BY Zenon DEF NetInv, LocalPart
<1> DEFINE s == Home[u]
           w == World
           m == PART(u)
           r == RemoveUsers(SendToServer(w, s, s, m), s, {u})
<1>1. IsMember(w, s, u) /\ Become(r)
  BY Zenon DEF LocalPart
<1>2. s \in Servers /\ m \in Message /\ m.type = "PART" /\ m.u = u
  BY TreeAssumption, MessageTypes, TypesDiffer, Zenon
<1>3. Good(w) /\ Net(w)
  BY WorldGood, Zenon DEF NetInv
<1> HIDE DEF s, w, m
<1>4. r = cmd_leave(w, s, s, m.u, m)
  BY <1>1, <1>2, Zenon DEF cmd_leave
<1>5. Good(SendToServer(w, s, s, m))
  BY <1>2, <1>3, SendToServerGood, Zenon
<1>6. Good(r)
  BY <1>2, <1>5, RemoveUsersGood, Zenon
<1> HIDE DEF r
<1>7. Heading(w, s)
  BY <1>2, <1>3, Zenon DEF Net, Directed
<1>8. Processed(w, r, s, s, m)
  <2>1. m.type = "PART" /\ m \in Message /\ Good(w) /\ s \in Servers
    BY <1>2, <1>3, Zenon
  <2> QED BY <1>4, <1>7, <2>1, PartProcessed, ZenonT(60)
<1>9. \A x \in Users : Effect(m, x) = IF x = u THEN "out" ELSE "none"
  BY <1>2, Zenon DEF Effect
<1>10. Standing(w, s, u) = "member"
  BY <1>1, <1>2, <1>3, Zenon DEF Standing, Good, Knows
<1>11. Standing(r, s, u) # Standing(w, s, u)
  BY <1>8, <1>9, <1>10, ZenonT(60) DEF Processed, Follows, Apply
<1>12. \A x \in Users : Effect(m, x) # "none" => Home[x] = s
  BY <1>9, Zenon DEF s
<1>13. Net(r)
  BY <1>2, <1>3, <1>6, <1>8, <1>11, <1>12, OwnNet, ZenonT(60)
<1> QED BY <1>1, <1>6, <1>13, BecomeNet, ZenonT(60)

\* A user leaves the network.
LEMMA LocalQuitNet ==
    ASSUME Inv, NetInv, NEW u \in Users, LocalQuit(u)
    PROVE  NetInv'
<1> SUFFICES ASSUME count.changes = 0 PROVE NetInv'
  BY Zenon DEF NetInv, LocalQuit
<1> DEFINE s == Home[u]
           w == World
           m == QUIT(u)
           r == exit_one_client(SendToServer(w, s, s, m), s, {u})
<1>1. w.known[s][u] # None /\ Become(r)
  BY WorldFields, Zenon DEF LocalQuit, Connected
<1>2. s \in Servers /\ m \in Message /\ m.type = "QUIT" /\ m.u = u
  BY TreeAssumption, MessageTypes, TypesDiffer, Zenon
<1>3. Good(w) /\ Net(w)
  BY WorldGood DEF NetInv
<1> HIDE DEF s, w, m
<1>4. r = cmd_quit(w, s, s, m)
  BY <1>1, <1>2, Zenon DEF cmd_quit
<1>5. Good(SendToServer(w, s, s, m))
  BY <1>2, <1>3, SendToServerGood, Zenon
<1>6. Good(r)
  BY <1>2, <1>5, ExitGood, Zenon
<1> HIDE DEF r
<1>7. Heading(w, s)
  BY <1>2, <1>3, Zenon DEF Net, Directed
<1>8. Processed(w, r, s, s, m)
  <2>1. m.type = "QUIT" /\ m \in Message /\ Good(w) /\ s \in Servers
    BY <1>2, <1>3, Zenon
  <2> QED BY <1>4, <1>7, <2>1, QuitProcessed, Zenon
<1>9. \A x \in Users : Effect(m, x) = IF x = u THEN "gone" ELSE "none"
  BY <1>2, Zenon DEF Effect
<1>10. Standing(w, s, u) # "absent"
  BY <1>1, Zenon DEF Standing
<1>11. Standing(r, s, u) # Standing(w, s, u)
  BY <1>8, <1>9, <1>10, ZenonT(60) DEF Processed, Follows, Apply
<1>12. \A x \in Users : Effect(m, x) # "none" => Home[x] = s
  BY <1>9, Zenon DEF s
<1>13. Net(r)
  BY <1>2, <1>3, <1>6, <1>8, <1>11, <1>12, OwnNet, ZenonT(60)
<1> QED BY <1>1, <1>6, <1>13, BecomeNet, ZenonT(60)

\* Kicks and mode changes are outside the agreement on members.
LEMMA ChangesNet ==
    ASSUME Inv, NEW o \in Users,
           (\E u \in Users : LocalKick(o, u)) \/ (\E m \in Changes : LocalMode(o, m))
    PROVE  NetInv'
<1>1. count' = [count EXCEPT !.changes = count.changes + 1]
  BY Zenon DEF LocalKick, LocalMode
<1>2. count.changes \in Nat /\ count \in CountType
  BY BoundsAssumption DEF Inv, TypeOK, CountType
<1>3. count'.changes # 0
  BY <1>1, <1>2 DEF CountType
<1> QED BY <1>3, Zenon DEF NetInv

\* Initially the network is in order.
LEMMA InitNet == Init => NetInv
<1> SUFFICES ASSUME Init PROVE Net(World)
  BY Zenon DEF NetInv
<1> DEFINE w == World
<1>0. w.link = link /\ w.peers = peers /\ w.known = known /\ w.chan = chan
  BY WorldFields, ZenonT(60)
<1>1. \A s, t \in Servers : w.link[s][t] = <<>>
  BY <1>0 DEF Init
<1>2. \A s, t \in Servers : t \in w.peers[s] <=> StartLinked /\ Neighbours(s, t)
  <2>1. peers = [s \in Servers |->
                    {t \in Servers : StartLinked /\ (<<s, t>> \in Dials \/ <<t, s>> \in Dials)}]
    BY Zenon DEF Init
  <2>2. \A s \in Servers : w.peers[s] =
            {t \in Servers : StartLinked /\ (<<s, t>> \in Dials \/ <<t, s>> \in Dials)}
    BY <1>0, <2>1, Zenon
  <2> QED BY <2>2, Zenon DEF Neighbours
<1>3. \A s \in Servers, u \in Users : w.known[s][u] =
          IF StartLinked \/ Home[u] = s THEN Hop[s][Home[u]] ELSE None
  BY <1>0 DEF Init
<1>4. StartLinked => \A s \in Servers : w.chan[s] = None
  BY <1>0, Zenon DEF Init, InitChan
<1> HIDE DEF w
<1>5. 1..Len(<<>>) = {}
  OBVIOUS
<1>6. Wires(w)
  BY <1>1, <1>2, <1>5, Zenon DEF Wires, Wire
<1>7. Traffic(w)
  BY <1>1, <1>5, Zenon DEF Traffic
<1>8. Directed(w)
  BY <1>3, Zenon DEF Directed, Heading
<1>9. \A s, t \in Servers : ~Has(w.link[s][t], EOF)
  BY <1>1, <1>5, Zenon DEF Has
<1>10. Strangers(w)
  <2> SUFFICES ASSUME NEW s \in Servers, NEW t \in Servers, Neighbours(s, t),
                      Apart(w, t, s), NEW u \in Users, Hop[t][Home[u]] = s
               PROVE  w.known[t][u] = None
    BY Zenon DEF Strangers
  <2>1. s # t /\ Neighbours(t, s)
    BY Tree, Zenon
  <2>2. ~StartLinked
    BY <1>2, <2>1, Zenon DEF Apart
  <2>3. Home[u] # t
    BY <2>1, TreeAssumption, Zenon
  <2> QED BY <1>3, <2>2, <2>3, Zenon
<1>11. Carried(w)
  <2> SUFFICES ASSUME NEW s \in Servers, NEW t \in Servers, NEW u \in Users,
                      Flow(w, s, t), Hop[t][Home[u]] = s
               PROVE  Leads(w.link[s][t], u, Standing(w, t, u), Standing(w, s, u))
    BY Zenon DEF Carried
  <2>1. StartLinked
    BY <1>2, Zenon DEF Flow
  <2>2. Hop[s][Home[u]] \in Servers /\ Hop[t][Home[u]] \in Servers
    BY TreeAssumption
  <2>3. w.known[s][u] # None /\ w.known[t][u] # None
    BY <1>3, <2>1, <2>2, NoneAssumption, ZenonT(60)
  <2>4. Standing(w, s, u) = "present" /\ Standing(w, t, u) = "present"
    BY <1>4, <2>1, <2>3, ZenonT(60) DEF Standing, IsMember
  <2>5. Leads(<<>>, u, "present", "present")
    BY LeadsEmpty, Zenon DEF Standings
  <2> QED BY <1>1, <2>4, <2>5, ZenonT(60)
<1> QED BY <1>6, <1>7, <1>8, <1>10, <1>11, ZenonT(60) DEF Net, w

\* Nothing under way between linked servers: they have the same members.
LEMMA NetAgrees == Inv /\ NetInv => MembersAgree
<1> SUFFICES ASSUME Inv, Net(World), Quiet, NEW s \in Servers, NEW t \in Servers,
                    LinkedPair(s, t), NEW u \in Users
             PROVE  IsMember(World, s, u) <=> IsMember(World, t, u)
  BY Zenon DEF MembersAgree, NetInv
<1> DEFINE w == World
<1>1. /\ \A x, y \in Servers : w.link[x][y] = <<>>
      /\ s \in w.peers[t] /\ t \in w.peers[s]
  BY WorldFields, Zenon DEF Quiet, LinkedPair
<1>2. Good(w) /\ Net(w)
  BY WorldGood, Zenon
<1> HIDE DEF w
<1>3. Knows(w) /\ Wire(w, s, t) /\ Carried(w)
  BY <1>2, Zenon DEF Good, Net, Wires
<1>4. Neighbours(s, t)
  BY <1>1, <1>3, Zenon DEF Wire
<1>5. Flow(w, s, t) /\ Flow(w, t, s)
  BY <1>1 DEF Flow, Has
<1>6. Home[u] \in Servers
  BY TreeAssumption, Zenon
<1>7. Hop[t][Home[u]] = s \/ Hop[s][Home[u]] = t
  BY <1>4, <1>6, Tree, Zenon
<1>8. \/ Leads(<<>>, u, Standing(w, t, u), Standing(w, s, u))
      \/ Leads(<<>>, u, Standing(w, s, u), Standing(w, t, u))
  BY <1>1, <1>3, <1>5, <1>7, ZenonT(60) DEF Carried
<1>9. Standing(w, t, u) = Standing(w, s, u)
  BY <1>8, LeadsEmpty, StandingType, Zenon
<1>10. \A x \in Servers : IsMember(w, x, u) <=> Standing(w, x, u) = "member"
  BY <1>3, Zenon DEF Knows, Standing
<1> QED BY <1>9, <1>10, Zenon DEF w

\* A line that says nothing of the members.
LEMMA PlainNet ==
    ASSUME NEW w, Good(w), Net(w), NEW s \in Servers,
           NEW m \in Message, m \notin {SERVER, EOF}, Tame(m),
           \A u \in Users : Effect(m, u) = "none",
           NEW r, Good(r), r.known = w.known, r.peers = w.peers,
           \A x \in Servers, u \in Users : IsMember(r, x, u) <=> IsMember(w, x, u),
           Sent(w, r, s, w.peers[s], m)
    PROVE  Net(r)
<1>1. \A x \in Servers, u \in Users : Standing(r, x, u) = Standing(w, x, u)
  BY Zenon DEF Standing
<1>2. Follows(w, r, s, m)
  BY <1>1, Zenon DEF Follows, Apply
<1>3. Elsewhere(w, r, s)
  BY <1>1, Zenon DEF Elsewhere
<1>4. Heading(r, s)
  BY Zenon DEF Net, Directed, Heading
<1>5. \A u \in Users : Effect(m, u) # "none" => Home[u] = s
  BY Zenon
<1> QED BY <1>2, <1>3, <1>4, <1>5, LocalNet, ZenonT(60)

\* The SJOIN of a JOIN says what the server has done.
LEMMA JoinedNet ==
    ASSUME NEW w, Good(w), Net(w), NEW u \in Users, NEW s \in Servers, s = Home[u],
           w.known[s][u] # None,
           NEW m \in Message, m.type = "SJOIN",
           \A x \in Users : m.items[x] # "out" <=> x = u,
           NEW c \in Channel,
           \A x \in Users : x \in Members(c) <=> x = u \/ IsMember(w, s, x),
           NEW v, Good(v), v.chan = w.chan, v.known = w.known, v.peers = w.peers,
           Sent(w, v, s, w.peers[s], m),
           NEW r, r = SetChan(v, s, c), Good(r)
    PROVE  Net(r)
<1>1. v \in WorldType
  BY Zenon DEF Good
<1>2. c # None
  BY NoneAssumption, ZenonT(60)
<1>3. /\ r.known = v.known /\ r.peers = v.peers /\ r.link = v.link
      /\ \A x \in Servers, y \in Users : IsMember(r, x, y) <=>
             IF x = s THEN c # None /\ y \in Members(c) ELSE IsMember(v, x, y)
  BY <1>1, SetChanMembers
<1>4. \A x \in Servers, y \in Users : IsMember(v, x, y) <=> IsMember(w, x, y)
  BY Zenon DEF IsMember
<1>5. \A x \in Servers, y \in Users : IsMember(r, x, y) <=>
          IsMember(w, x, y) \/ (x = s /\ y = u)
  BY <1>2, <1>3, <1>4, ZenonT(60)
<1>6. \A x \in Servers, y \in Users : Standing(r, x, y) =
          IF x = s /\ y = u THEN "member" ELSE Standing(w, x, y)
  BY <1>3, <1>5, Zenon DEF Standing
<1>7. \A y \in Users : Effect(m, y) = IF y = u THEN "in" ELSE "none"
  BY Zenon DEF Effect
<1>8. Follows(w, r, s, m)
  <2>1. Standing(w, s, u) # "absent"
    BY Zenon DEF Standing
  <2> QED BY <1>6, <1>7, <2>1, ZenonT(60) DEF Follows, Apply
<1>9. r.known = w.known
  BY <1>3, Zenon
<1>10. Elsewhere(w, r, s)
  BY <1>6, <1>9, Zenon DEF Elsewhere
<1>11. Heading(w, s)
  BY Zenon DEF Net, Directed
<1>12. Heading(r, s)
  BY <1>9, <1>11, ZenonT(60) DEF Heading
<1>13. Sent(w, r, s, w.peers[s], m) /\ r.peers = w.peers
  BY <1>3 DEF Sent
<1>14. m \in Message \ {SERVER, EOF} /\ Tame(m)
  BY TypesDiffer, Zenon DEF Tame
<1>15. \A y \in Users : Effect(m, y) # "none" => Home[y] = s
  BY <1>7, Zenon
<1> QED BY <1>8, <1>10, <1>12, <1>13, <1>14, <1>15, LocalNet, ZenonT(60)

\* The TSMODE of the first JOIN says nothing of the members.
LEMMA JoinedModesNet ==
    ASSUME NEW v, Good(v), NEW s \in Servers, NEW c \in Channel, NEW d \in Channel,
           Members(d) = Members(c),
           NEW w, w = SetChan(v, s, c), Good(w), Net(w),
           NEW m \in Message, m.type = "TSMODE",
           NEW v2, Good(v2), v2.chan = v.chan, v2.known = v.known, v2.peers = v.peers,
           Sent(v, v2, s, v.peers[s], m),
           NEW r, r = SetChan(v2, s, d), Good(r)
    PROVE  Net(r)
<1>1. v \in WorldType /\ v2 \in WorldType /\ c # None /\ d # None
  BY NoneAssumption, Zenon DEF Good
<1>2. /\ w.known = v.known /\ w.peers = v.peers /\ w.link = v.link
      /\ \A x \in Servers, y \in Users : IsMember(w, x, y) <=>
             IF x = s THEN c # None /\ y \in Members(c) ELSE IsMember(v, x, y)
  BY <1>1, SetChanMembers
<1>3. /\ r.known = v2.known /\ r.peers = v2.peers /\ r.link = v2.link
      /\ \A x \in Servers, y \in Users : IsMember(r, x, y) <=>
             IF x = s THEN d # None /\ y \in Members(d) ELSE IsMember(v2, x, y)
  BY <1>1, SetChanMembers
<1>4. \A x \in Servers, y \in Users : IsMember(v2, x, y) <=> IsMember(v, x, y)
  BY Zenon DEF IsMember
<1>5. \A x \in Servers, y \in Users : IsMember(r, x, y) <=> IsMember(w, x, y)
  BY <1>1, <1>2, <1>3, <1>4, ZenonT(60)
<1>6. r.known = w.known /\ r.peers = w.peers
  BY <1>2, <1>3, ZenonT(60)
<1>7. Sent(w, r, s, w.peers[s], m)
  BY <1>2, <1>3 DEF Sent
<1>8. m \notin {SERVER, EOF} /\ Tame(m)
  BY TypesDiffer, Zenon DEF Tame
<1>9. \A y \in Users : Effect(m, y) = "none"
  BY Zenon DEF Effect
<1> QED BY <1>5, <1>6, <1>7, <1>8, <1>9, PlainNet, ZenonT(60)

\* A user joins the channel.
LEMMA LocalJoinNet ==
    ASSUME Inv, NetInv, NEW u \in Users, NEW now \in Times, LocalJoin(u, now)
    PROVE  NetInv'
<1>0. count'.changes = count.changes
  BY Zenon DEF LocalJoin, Inv, TypeOK
<1> SUFFICES ASSUME count.changes = 0 PROVE NetInv'
  BY <1>0, Zenon DEF NetInv
<1> DEFINE w == World
           s == Home[u]
           st == LevelOnJoin(s)
           old == IF w.chan[s] = None THEN make_channel(now) ELSE w.chan[s]
           f == [old.mem EXCEPT ![u] = st]
           c == [old EXCEPT !.mem = f]
           first == Members(c) = {u} /\ c.modes = {} /\ c.limit = 0 /\ OnJoin # {}
           m1 == SJOIN(c.ts, JoinItems(u, st), {}, 0)
           m2 == TSMODE(c.ts, OnJoin)
           w1 == SendTo(w, s, w.peers[s], m1)
           w2 == IF first THEN SendTo(w1, s, w.peers[s], m2) ELSE w1
           d == [c EXCEPT !.modes = OnJoin]
           r == SetChan(w2, s, IF first THEN d ELSE c)
<1>1. w.known[s][u] # None /\ Become(r)
  BY WorldFields, Zenon DEF LocalJoin, Connected
<1>2. s \in Servers
  BY TreeAssumption, Zenon
<1>3. Good(w) /\ Net(w) /\ w \in WorldType
  BY WorldGood, Zenon DEF NetInv, Good
<1>4. st \in {"in", "op"}
  BY Zenon DEF LevelOnJoin
<1> HIDE DEF w, s, st
<1>5. /\ old \in Channel
      /\ w.chan[s] = None => Members(old) = {}
      /\ w.chan[s] # None => old = w.chan[s]
  BY <1>2, <1>3, MakeChannelType, ZenonT(60) DEF WorldType
<1>6. \A x \in Users : x \in Members(old) <=> IsMember(w, s, x)
  BY <1>5, Zenon DEF IsMember, Members
<1> HIDE DEF old
<1>7. f \in [Users -> Status]
  BY <1>4, <1>5, Zenon DEF Channel, Status
<1>8. c \in Channel /\ c.ts = old.ts /\ c.mem = f
  BY <1>5, <1>7, Zenon DEF Channel
<1>9. Members(c) = Members(old) \cup {u}
  BY <1>4, <1>5, <1>8 DEF Members, Channel
<1>10. JoinItems(u, st) \in [Users -> Status]
  BY <1>4, Zenon DEF JoinItems, Status
<1> HIDE DEF f, c
<1>11. c.ts \in Times
  BY <1>8, Zenon DEF Channel
<1>12. m1 \in Message /\ m2 \in Message
  BY <1>10, <1>11, MessageTypes, ValuesAssumption, ZenonT(90)
<1>13. m1.type = "SJOIN" /\ m1.items = JoinItems(u, st) /\ m2.type = "TSMODE"
  BY TypesDiffer
<1>14. d \in Channel /\ d.mem = c.mem
  BY <1>8, ValuesAssumption, Zenon DEF Channel
<1>15. Members(d) = Members(c)
  BY <1>14, Zenon DEF Members
<1>16. \A x \in Users : m1.items[x] # "out" <=> x = u
  BY <1>4, <1>13, Zenon DEF JoinItems
<1>17. \A x \in Users : x \in Members(c) <=> x = u \/ IsMember(w, s, x)
  BY <1>6, <1>9, Zenon
<1>18. c \in Channel /\ d \in Channel /\ s = Home[u]
  BY <1>8, <1>14, Zenon DEF s
<1>19. m1 \in Message /\ m1.type = "SJOIN" /\ m2 \in Message /\ m2.type = "TSMODE"
  BY <1>12, <1>13, Zenon
<1>20. Members(c) # {} /\ \A x \in Members(c) : w.known[s][x] # None
  <2>1. Members(c) \subseteq Users /\ Knows(w) /\ u \in Members(c)
    BY <1>3, <1>17, Zenon DEF Members, Good
  <2> QED BY <1>1, <1>2, <1>17, <2>1, ZenonT(60) DEF Knows
<1> DEFINE v2 == SendTo(w1, s, w.peers[s], m2)
           r1 == SetChan(w1, s, c)
           r2 == SetChan(v2, s, d)
<1>21. r = r1 \/ r = r2
  BY ZenonT(60)
<1> HIDE DEF m1, m2, d, first, r
<1>22. /\ Good(w1) /\ w1.chan = w.chan /\ w1.known = w.known /\ w1.peers = w.peers
       /\ Sent(w, w1, s, w.peers[s], m1)
  BY <1>2, <1>3, <1>19, SendToGood, SendToSends, SMTT(30)
<1> HIDE DEF w1
<1>23. Good(r1)
  <2>1. Members(c) # {} /\ \A x \in Members(c) : w1.known[s][x] # None
    BY <1>20, <1>22, Zenon
  <2>2. Good(w1) /\ c \in Channel \cup {None}
    BY <1>18, <1>22, Zenon
  <2> QED BY <1>2, <2>1, <2>2, SetChanGood, Zenon
<1>24. r1 = SetChan(w1, s, c)
  BY Zenon
<1> HIDE DEF r1
<1>25. Good(w) /\ Net(w) /\ w.known[s][u] # None
  BY <1>1, <1>3, Zenon
<1>a. m1 \in Message /\ m1.type = "SJOIN"
  BY <1>19, Zenon
<1>b. c \in Channel /\ s = Home[u]
  BY <1>18, Zenon
<1>26. Net(r1)
  BY <1>2, <1>16, <1>17, <1>22, <1>23, <1>24, <1>25, <1>a, <1>b, JoinedNet, ZenonT(60)
<1>27. w1 \in WorldType
  BY <1>22, Zenon DEF Good
<1>28. /\ Good(v2) /\ v2.chan = w1.chan /\ v2.known = w1.known /\ v2.peers = w1.peers
       /\ Sent(w1, v2, s, w1.peers[s], m2)
  BY <1>2, <1>19, <1>22, <1>27, SendToGood, SendToSends, SMTT(30)
<1> HIDE DEF v2
<1>29. Good(r2)
  <2>1. Members(d) # {} /\ \A x \in Members(d) : v2.known[s][x] # None
    BY <1>15, <1>20, <1>22, <1>28, ZenonT(60)
  <2> QED BY <1>2, <1>18, <1>28, <2>1, SetChanGood, ZenonT(60)
<1>30. r2 = SetChan(v2, s, d)
  OBVIOUS
<1> HIDE DEF r2
<1>c. m2 \in Message /\ m2.type = "TSMODE"
  BY <1>19, Zenon
<1>d. c \in Channel /\ d \in Channel /\ Good(w1)
  BY <1>18, <1>22, Zenon
<1>31. Net(r2)
  BY <1>2, <1>15, <1>23, <1>24, <1>26, <1>28, <1>29, <1>30, <1>c, <1>d, JoinedModesNet, ZenonT(60)
<1>32. Good(r) /\ Net(r)
  BY <1>21, <1>23, <1>26, <1>29, <1>31, ZenonT(60)
<1> QED BY <1>1, <1>32, BecomeNet, Zenon

\* Every step keeps the network in order.
LEMMA NextNet == Inv /\ NetInv /\ [Next]_vars => NetInv'
<1> SUFFICES ASSUME Inv, NetInv, [Next]_vars PROVE NetInv'
  BY Zenon
<1>1. CASE UNCHANGED vars
  <2>1. World' = World /\ count' = count
    BY <1>1, Zenon DEF vars, World
  <2> QED BY <2>1, Zenon DEF NetInv
<1>2. ASSUME NEW u \in Users, NEW now \in Times, LocalJoin(u, now) PROVE NetInv'
  BY <1>2, LocalJoinNet, Zenon
<1>3. ASSUME NEW u \in Users, LocalPart(u) PROVE NetInv'
  BY <1>3, LocalPartNet, Zenon
<1>4. ASSUME NEW u \in Users, NEW v \in Users, LocalKick(u, v) PROVE NetInv'
  BY <1>4, ChangesNet, Zenon
<1>5. ASSUME NEW u \in Users, NEW m \in Changes, LocalMode(u, m) PROVE NetInv'
  BY <1>5, ChangesNet, Zenon
<1>6. ASSUME NEW u \in Users, LocalQuit(u) PROVE NetInv'
  BY <1>6, LocalQuitNet
<1>7. ASSUME NEW s \in Servers, NEW t \in Servers, Receive(s, t) PROVE NetInv'
  BY <1>7, ReceiveNet, Zenon
<1>8. ASSUME NEW s \in Servers, NEW t \in Servers, ReceiveServer(s, t) PROVE NetInv'
  BY <1>8, ReceiveServerNet, Zenon
<1>9. ASSUME NEW s \in Servers, NEW t \in Servers, ReceiveEOF(s, t) PROVE NetInv'
  BY <1>9, ReceiveEOFNet
<1>10. ASSUME NEW s \in Servers, NEW t \in Servers, Dial(s, t) PROVE NetInv'
  BY <1>10, DialStepNet
<1>11. ASSUME NEW s \in Servers, NEW t \in Servers, NEW k, Split(s, t, k) PROVE NetInv'
  BY <1>11, SplitNet, Zenon
<1>12. CASE UserStep
  BY <1>2, <1>3, <1>4, <1>5, <1>6, <1>12, ZenonT(60) DEF UserStep
<1>13. CASE ServerStep
  BY <1>7, <1>8, <1>9, <1>10, <1>11, <1>13, ZenonT(60) DEF ServerStep
<1> QED BY <1>1, <1>12, <1>13, Zenon DEF Next

\* In any tree of servers and for any users: whenever nothing is under way,
\* linked servers have the same members in the channel, whatever joins, parts,
\* quits, splits, bursts and handshakes crossed each other before, as long as
\* nobody has kicked or changed a mode.
THEOREM MembersComeToAgree == Spec => []MembersAgree
<1>1. Inv /\ NetInv /\ [Next]_vars => NetInv'
  BY NextNet, Zenon
<1>2. Inv /\ NetInv => MembersAgree
  BY NetAgrees, Zenon
<1> QED BY Invariance, InitNet, <1>1, <1>2, PTL DEF Spec
=============================================================================
