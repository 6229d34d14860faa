------------------------- MODULE PersistenceProofs -------------------------
(***************************************************************************)
(* The ghosts of Persistence are in its file and come back after a         *)
(* restart, and its lists, shadow flags, channels and nick hash table only *)
(* refer to clients that are there, for any connections, accounts,         *)
(* channels, limits and inputs.                                            *)
(*                                                                         *)
(* The actions are compositions of the functions of the source, each a map *)
(* from worlds to worlds.  A world is steady when it has its types and an  *)
(* entry without ghost leaves no trace of one; it is durable for a file    *)
(* when the file holds its ghosts; it is live when what it refers to is    *)
(* there.  Each function is shown to keep all three (Keeps), from lemmas   *)
(* on worlds that differ in one entry, one client or the memberships only; *)
(* Keeps is transitive, so an action keeps them as well.                   *)
(*                                                                         *)
(* A live world needs that no session logs out and then identifies again:  *)
(* LOGOUT clears the account of a session and leaves it attached, and the  *)
(* next login would treat an attached session as a client of its own.      *)
(* Separate says that the inputs do not have both.  Types, durability and  *)
(* restarts do not depend on it.                                           *)
(***************************************************************************)
EXTENDS Persistence, TLAPS

WorldFields == {"conn", "name", "account", "session", "restore", "hash", "in", "shadow",
                "seen", "entry", "dirty"}

\* The types of a World.
Typed(w) ==
    /\ DOMAIN w = WorldFields
    /\ w.conn \in [Conns -> {"off", "unreg", "user"}]
    /\ w.name \in [Conns -> Nicks \cup {None}]
    /\ w.account \in [Conns -> Accounts \cup {None}]
    /\ w.session \in [Conns -> BOOLEAN]
    /\ w.restore \in [Conns -> Accounts \cup {None}]
    /\ w.hash \in SUBSET Nicks
    /\ w.in \in [Chans -> SUBSET Nicks]
    /\ w.shadow \in [Chans -> SUBSET Conns]
    /\ \A ch \in Chans : w.shadow[ch] \subseteq w.in[ch]
    /\ w.seen \in [Chans -> SUBSET (Nicks \cup {None})]
    /\ w.entry \in [Accounts -> Entry]
    /\ w.dirty \in BOOLEAN

\* The ghost of a is there.
Haunting(w, a) == w.entry[a].alloc /\ w.entry[a].ghost

\* The ghost of an entry is gone with it, it has a nick, and its account has
\* persistence on.
Ghosts(w) ==
    \A a \in Accounts :
        /\ ~Haunting(w, a) => a \notin w.hash /\ \A ch \in Chans : a \notin w.in[ch]
        /\ Haunting(w, a) => w.entry[a].nick # None /\ persistence_effective(w, a)

\* The file d holds every ghost, unless a save is pending.
Durable(w, d) ==
    \A a \in Accounts, ch \in Chans :
        Haunting(w, a) /\ a \in w.in[ch] /\ ~w.dirty =>
            d[a].alloc /\ ch \in d[a].saved /\ d[a].nick = w.entry[a].nick

\* c is on no list of sessions.
Unlisted(w, c) ==
    \A a \in Accounts : w.entry[a].alloc => c \notin Listed(w.entry[a].sessions)

\* Every session is listed once.
Distinct(l) == \A i, j \in DOMAIN l : l[i] = l[j] => i = j

\* Lists, shadow flags, channels and the hash table refer to clients that are there.
Live(w) ==
    /\ \A a \in Accounts : w.entry[a].alloc =>
          /\ Distinct(w.entry[a].sessions)
          /\ \A s \in Listed(w.entry[a].sessions) :
                w.conn[s] = "user" /\ w.session[s] /\ w.restore[s] = a
    /\ \A ch \in Chans : \A c \in w.shadow[ch] : w.session[c]
    /\ \A c \in Conns : w.conn[c] = "off" =>
          c \notin w.hash /\ \A ch \in Chans : c \notin w.in[ch]
    /\ "logout" \notin Inputs => \A c \in Conns : w.session[c] => w.account[c] # None

Steady(w) == Typed(w) /\ Ghosts(w)

\* Who is listed is a connection.
LEMMA ListedConns == ASSUME NEW l \in Seq(Conns) PROVE Listed(l) \subseteq Conns
  BY DEF Listed

\* Entries as they are created.
LEMMA NewEntryType ==
    /\ EmptyEntry \in Entry /\ NewEntry \in Entry
    /\ EmptyEntry.alloc = FALSE /\ EmptyEntry.ghost = FALSE /\ EmptyEntry.sessions = <<>>
    /\ NewEntry.alloc = TRUE /\ NewEntry.ghost = FALSE /\ NewEntry.sessions = <<>>
    /\ NewEntry.preference = "default"
<1>1. EmptyEntry \in Entry
  BY DEF EmptyEntry, Entry
<1>2. /\ EmptyEntry.alloc = FALSE /\ EmptyEntry.ghost = FALSE
      /\ EmptyEntry.sessions = <<>> /\ EmptyEntry.preference = "default"
  BY Zenon DEF EmptyEntry
<1>3. NewEntry \in Entry
  BY <1>1, Zenon DEF NewEntry, Entry
<1>4. /\ NewEntry.alloc = TRUE /\ NewEntry.ghost = FALSE
      /\ NewEntry.sessions = <<>> /\ NewEntry.preference = "default"
  BY <1>1, <1>2, Zenon DEF NewEntry, Entry
<1> QED BY <1>1, <1>2, <1>3, <1>4, Zenon

-----------------------------------------------------------------------------
(* Changes of one part of the world, and what they keep *)

\* What the helpers keep, from w to u.
Calm(w, u) == Steady(u) /\ \A d : Durable(w, d) => Durable(u, d)

Keeps(w, u) == Calm(w, u) /\ (Live(w) => Live(u))

SameClients(w, u) ==
    /\ u.conn = w.conn /\ u.name = w.name /\ u.account = w.account
    /\ u.session = w.session /\ u.restore = w.restore /\ u.hash = w.hash

SameMembers(w, u) == u.in = w.in /\ u.shadow = w.shadow /\ u.seen = w.seen

\* Entry a has changed, and nothing else.
OneEntry(w, u, a) ==
    /\ DOMAIN u = WorldFields /\ SameClients(w, u) /\ SameMembers(w, u)
    /\ u.dirty = w.dirty
    /\ u.entry \in [Accounts -> Entry]
    /\ \A b \in Accounts \ {a} : u.entry[b] = w.entry[b]

\* There is no ghost before or after, or nothing about it has changed.
GhostFits(w, u, a) ==
    \/ ~Haunting(w, a) /\ ~Haunting(u, a)
    \/ /\ u.entry[a].alloc = w.entry[a].alloc /\ u.entry[a].ghost = w.entry[a].ghost
       /\ u.entry[a].nick = w.entry[a].nick /\ u.entry[a].preference = w.entry[a].preference

\* Who is listed afterwards was so before, or is a session of the entry.
ListFits(w, u, a) ==
    u.entry[a].alloc =>
        /\ Distinct(u.entry[a].sessions)
        /\ \A s \in Listed(u.entry[a].sessions) :
              \/ w.entry[a].alloc /\ s \in Listed(w.entry[a].sessions)
              \/ w.conn[s] = "user" /\ w.session[s] /\ w.restore[s] = a

\* Nothing but the memberships differs, and no ghost has got a new one.
OnlyMembers(w, u) ==
    /\ DOMAIN u = WorldFields /\ SameClients(w, u)
    /\ u.entry = w.entry /\ u.dirty = w.dirty
    /\ u.in \in [Chans -> SUBSET Nicks] /\ u.shadow \in [Chans -> SUBSET Conns]
    /\ u.seen \in [Chans -> SUBSET (Nicks \cup {None})]
    /\ \A ch \in Chans : u.shadow[ch] \subseteq u.in[ch]
    /\ \A ch \in Chans : \A a \in Accounts : a \in u.in[ch] => a \in w.in[ch]

\* Who joins is there, and who gets the shadow flag is a session.
MembersFit(w, u) ==
    \A ch \in Chans : \A c \in Conns :
        /\ c \in u.in[ch] => c \in w.in[ch] \/ w.conn[c] # "off"
        /\ c \in u.shadow[ch] => c \in w.shadow[ch] \/ w.session[c]

\* Nothing but the client c differs.
OneClient(w, u, c) ==
    /\ DOMAIN u = WorldFields /\ SameMembers(w, u)
    /\ u.entry = w.entry /\ u.dirty = w.dirty
    /\ u.conn \in [Conns -> {"off", "unreg", "user"}]
    /\ u.name \in [Conns -> Nicks \cup {None}]
    /\ u.account \in [Conns -> Accounts \cup {None}]
    /\ u.session \in [Conns -> BOOLEAN]
    /\ u.restore \in [Conns -> Accounts \cup {None}]
    /\ u.hash \subseteq Nicks
    /\ \A k \in Conns \ {c} :
          /\ u.conn[k] = w.conn[k] /\ u.account[k] = w.account[k]
          /\ u.session[k] = w.session[k] /\ u.restore[k] = w.restore[k]
    /\ \A x \in Nicks \ {c} : x \in u.hash => x \in w.hash

\* It was on no list, or is still there as the session it was; and so on.
ClientFits(w, u, c) ==
    /\ \/ Unlisted(w, c)
       \/ /\ u.conn[c] = w.conn[c] /\ u.session[c] = w.session[c]
          /\ u.restore[c] = w.restore[c]
    /\ \/ u.session[c] \/ u.session[c] = w.session[c]
       \/ \A ch \in Chans : c \notin w.shadow[ch]
    /\ u.conn[c] = "off" => c \notin u.hash /\ \A ch \in Chans : c \notin w.in[ch]
    /\ "logout" \notin Inputs /\ u.session[c] => u.account[c] # None

\* A change of one entry.
LEMMA EntryKeeps ==
    ASSUME NEW w, Steady(w), NEW u, NEW a \in Accounts, OneEntry(w, u, a),
           GhostFits(w, u, a)
    PROVE  Calm(w, u) /\ (Live(w) /\ ListFits(w, u, a) => Live(u))
<1>2. Typed(u)
  BY Zenon DEF Steady, Typed, OneEntry, SameClients, SameMembers
<1>3. Ghosts(u)
  BY DEF Steady, Ghosts, Typed, Haunting, persistence_effective,
         OneEntry, SameClients, SameMembers, GhostFits
<1>4. \A d : Durable(w, d) => Durable(u, d)
  BY DEF Durable, Haunting, OneEntry, SameMembers, GhostFits
<1>5. ASSUME Live(w), ListFits(w, u, a) PROVE Live(u)
  BY <1>5 DEF Live, OneEntry, SameClients, SameMembers, ListFits
<1> QED BY <1>2, <1>3, <1>4, <1>5, Zenon DEF Steady, Calm

\* A change of the members of channels.
LEMMA MembersKeep ==
    ASSUME NEW w, Steady(w), NEW u, OnlyMembers(w, u)
    PROVE  /\ Calm(w, u) /\ (Live(w) /\ MembersFit(w, u) => Live(u))
           /\ \A c \in Conns : Unlisted(w, c) => Unlisted(u, c)
<1>1. Typed(u)
  BY Zenon DEF Steady, Typed, OnlyMembers, SameClients
<1>2. Ghosts(u)
  BY DEF Steady, Ghosts, Haunting, persistence_effective, OnlyMembers, SameClients
<1>3. \A d : Durable(w, d) => Durable(u, d)
  BY Zenon DEF Durable, Haunting, OnlyMembers
<1>4. \A c \in Conns : Unlisted(w, c) => Unlisted(u, c)
  BY Zenon DEF Unlisted, OnlyMembers
<1>5. ASSUME Live(w), MembersFit(w, u) PROVE Live(u)
  BY <1>5 DEF Live, OnlyMembers, SameClients, MembersFit
<1> QED BY <1>1, <1>2, <1>3, <1>4, <1>5, Zenon DEF Steady, Calm

\* A change of one client, in its own fields and the hash table.
LEMMA ClientKeeps ==
    ASSUME NEW w, Steady(w), NEW u, NEW c \in Conns, OneClient(w, u, c)
    PROVE  /\ Calm(w, u) /\ (Live(w) /\ ClientFits(w, u, c) => Live(u))
           /\ \A k \in Conns : Unlisted(w, k) => Unlisted(u, k)
<1>1. Typed(u)
  BY Zenon DEF Steady, Typed, OneClient, SameMembers
<1>2. Ghosts(u)
  <2>1. \A a \in Accounts : a \in u.hash => a \in w.hash
    BY NamesAssumption, Zenon DEF OneClient, Nicks
  <2> QED BY <2>1 DEF Steady, Ghosts, Haunting, persistence_effective, OneClient, SameMembers
<1>3. \A d : Durable(w, d) => Durable(u, d)
  BY DEF Durable, Haunting, OneClient, SameMembers
<1>4. \A k \in Conns : Unlisted(w, k) => Unlisted(u, k)
  BY Zenon DEF Unlisted, OneClient
<1>5. ASSUME Live(w), ClientFits(w, u, c) PROVE Live(u)
  <2>1. ASSUME NEW a \in Accounts, w.entry[a].alloc, NEW k \in Listed(w.entry[a].sessions)
        PROVE  u.conn[k] = "user" /\ u.session[k] /\ u.restore[k] = a
    <3>1. k \in Conns
      BY <2>1, ListedConns, Zenon DEF Steady, Typed, Entry
    <3>2. w.conn[k] = "user" /\ w.session[k] /\ w.restore[k] = a
      BY <2>1, <1>5, Zenon DEF Live
    <3> QED BY <1>5, <2>1, <3>1, <3>2 DEF Unlisted, OneClient, ClientFits
  <2>2. \A ch \in Chans : \A k \in w.shadow[ch] : u.session[k]
    BY <1>5 DEF Live, Steady, Typed, OneClient, ClientFits
  <2>3. \A k \in Conns : u.conn[k] = "off" =>
            k \notin u.hash /\ \A ch \in Chans : k \notin w.in[ch]
    BY <1>5 DEF Live, OneClient, ClientFits, Nicks
  <2>4. "logout" \notin Inputs => \A k \in Conns : u.session[k] => u.account[k] # None
    BY <1>5 DEF Live, OneClient, ClientFits
  <2> QED BY <1>5, <2>1, <2>2, <2>3, <2>4, Zenon DEF Live, OneClient, SameMembers
<1> QED BY <1>1, <1>2, <1>3, <1>4, <1>5, Zenon DEF Steady, Calm

\* A save becomes due.
LEMMA DirtyKeeps ==
    ASSUME NEW w, Steady(w)
    PROVE  LET u == MarkDirty(w) IN
           /\ Keeps(w, u) /\ \A d : Durable(u, d)
           /\ u.entry = w.entry /\ SameClients(w, u)
<1> DEFINE u == MarkDirty(w)
<1>1. /\ DOMAIN u = WorldFields /\ SameClients(w, u) /\ SameMembers(w, u)
      /\ u.entry = w.entry /\ u.dirty = TRUE
  BY Zenon DEF MarkDirty, Steady, Typed, WorldFields, SameClients, SameMembers
<1> HIDE DEF u
<1>2. Typed(u)
  BY <1>1, Zenon DEF Steady, Typed, SameClients, SameMembers
<1>3. Ghosts(u)
  BY <1>1, Zenon DEF Steady, Ghosts, Haunting, persistence_effective, SameClients, SameMembers
<1>4. \A d : Durable(u, d)
  BY <1>1, Zenon DEF Durable
<1>5. Live(w) => Live(u)
  BY <1>1 DEF Live, SameClients, SameMembers
<1> QED BY <1>1, <1>2, <1>3, <1>4, <1>5, Zenon DEF u, Steady, Keeps, Calm

\* What is kept twice is kept.
LEMMA KeepsTransitive ==
    ASSUME NEW w, NEW v, NEW u, Keeps(w, v), Keeps(v, u)
    PROVE  Keeps(w, u)
  BY Zenon DEF Keeps, Calm

-----------------------------------------------------------------------------
(* The helpers *)

\* get_or_create_entry()
LEMMA CreateKeeps ==
    ASSUME NEW w, Steady(w), NEW a \in Accounts
    PROVE  LET u == get_or_create_entry(w, a) IN
           /\ Keeps(w, u) /\ u.entry[a].alloc /\ SameClients(w, u) /\ SameMembers(w, u)
           /\ \A c \in Conns : Unlisted(w, c) => Unlisted(u, c)
<1> DEFINE u == [w EXCEPT !.entry[a] = NewEntry]
<1>1. CASE w.entry[a].alloc
  <2>1. get_or_create_entry(w, a) = w
    BY <1>1, Zenon DEF get_or_create_entry
  <2> QED BY <1>1, <2>1, Zenon DEF Keeps, Calm, SameClients, SameMembers
<1>2. CASE ~w.entry[a].alloc
  <2>1. get_or_create_entry(w, a) = u
    BY <1>2, Zenon DEF get_or_create_entry
  <2>2. OneEntry(w, u, a) /\ u.entry[a] = NewEntry
    BY NewEntryType, Zenon DEF Steady, Typed, WorldFields, OneEntry, SameClients, SameMembers
  <2> HIDE DEF u
  <2>3. GhostFits(w, u, a) /\ ListFits(w, u, a)
    BY <1>2, <2>2, NewEntryType DEF GhostFits, ListFits, Haunting, Distinct, Listed
  <2>4. Keeps(w, u)
    BY <2>2, <2>3, EntryKeeps, Zenon DEF Keeps
  <2>5. \A c \in Conns : Unlisted(w, c) => Unlisted(u, c)
    BY <2>2, NewEntryType DEF Unlisted, Listed, OneEntry
  <2> QED BY <2>1, <2>2, <2>4, <2>5, NewEntryType, Zenon DEF OneEntry
<1> QED BY <1>1, <1>2, Zenon

\* StripChannels()
LEMMA StripKeeps ==
    ASSUME NEW w, Steady(w), NEW x \in Nicks
    PROVE  LET u == StripChannels(w, x) IN
           /\ Keeps(w, u) /\ OnlyMembers(w, u) /\ u.seen = w.seen
           /\ \A ch \in Chans : x \notin u.in[ch] /\ x \notin u.shadow[ch]
<1> DEFINE u == StripChannels(w, x)
<1>1. /\ DOMAIN u = WorldFields /\ SameClients(w, u) /\ u.seen = w.seen
      /\ u.entry = w.entry /\ u.dirty = w.dirty
      /\ u.in = [ch \in Chans |-> w.in[ch] \ {x}]
      /\ u.shadow = [ch \in Chans |-> w.shadow[ch] \ {x}]
  BY Zenon DEF StripChannels, Steady, Typed, WorldFields, SameClients
<1> HIDE DEF u
<1>2. OnlyMembers(w, u) /\ MembersFit(w, u)
  BY <1>1 DEF OnlyMembers, MembersFit, Steady, Typed
<1>3. Keeps(w, u)
  BY <1>2, MembersKeep, Zenon DEF Keeps
<1> QED BY <1>1, <1>2, <1>3, Zenon DEF u

\* AddSilently() for a connection
LEMMA AddKeeps ==
    ASSUME NEW w, Steady(w), NEW c \in Conns, NEW cs
    PROVE  LET u == AddSilently(w, c, cs) IN
           /\ (w.conn[c] # "off" => Keeps(w, u)) /\ OnlyMembers(w, u) /\ u.shadow = w.shadow
<1> DEFINE u == AddSilently(w, c, cs)
<1>1. /\ DOMAIN u = WorldFields /\ SameClients(w, u) /\ u.seen = w.seen
      /\ u.entry = w.entry /\ u.dirty = w.dirty /\ u.shadow = w.shadow
      /\ u.in = [ch \in Chans |-> IF ch \in cs THEN w.in[ch] \cup {c} ELSE w.in[ch]]
  BY Zenon DEF AddSilently, Steady, Typed, WorldFields, SameClients
<1> HIDE DEF u
<1>2. OnlyMembers(w, u) /\ (w.conn[c] # "off" => MembersFit(w, u))
  BY <1>1, NamesAssumption DEF OnlyMembers, MembersFit, Steady, Typed, Nicks
<1>3. w.conn[c] # "off" => Keeps(w, u)
  BY <1>2, MembersKeep, Zenon DEF Keeps
<1> QED BY <1>1, <1>2, <1>3, Zenon DEF u

\* The sessions that follow c into a channel.
Followers(w, c) ==
    IF w.session[c] \/ w.account[c] = None \/ ~w.entry[w.account[c]].alloc
    THEN {} ELSE Listed(w.entry[w.account[c]].sessions)

\* Only c and its followers are new in u, and of these the followers as shadows.
Joined(w, u, c) ==
    /\ DOMAIN u = WorldFields /\ SameClients(w, u)
    /\ u.entry = w.entry /\ u.dirty = w.dirty
    /\ u.in \in [Chans -> SUBSET Nicks] /\ u.shadow \in [Chans -> SUBSET Conns]
    /\ u.seen \in [Chans -> SUBSET (Nicks \cup {None})]
    /\ \A k \in Chans : /\ u.shadow[k] \subseteq u.in[k]
                        /\ u.in[k] \subseteq w.in[k] \cup {c} \cup Followers(w, c)
                        /\ u.shadow[k] \subseteq w.shadow[k] \cup Followers(w, c)

\* join_channel(), as to members
LEMMA JoinJoins ==
    ASSUME NEW w, Steady(w), NEW c \in Conns, NEW ch \in Chans
    PROVE  Joined(w, join_channel(w, c, ch), c)
<1> DEFINE v == [w EXCEPT !.in[ch] = @ \cup {c}, !.seen[ch] = @ \cup {w.name[c]}]
           a == w.account[c]
           G == {s \in Listed(w.entry[a].sessions) : s \notin v.in[ch]}
           x == [v EXCEPT !.in[ch] = @ \cup G, !.shadow[ch] = @ \cup G]
<1>1. /\ DOMAIN v = WorldFields /\ SameClients(w, v)
      /\ v.entry = w.entry /\ v.dirty = w.dirty /\ v.shadow = w.shadow
      /\ v.in = [w.in EXCEPT ![ch] = @ \cup {c}]
      /\ v.seen = [w.seen EXCEPT ![ch] = @ \cup {w.name[c]}]
  BY Zenon DEF Steady, Typed, WorldFields, SameClients
<1>2. join_channel(w, c, ch) = persist_local_join(v, c, ch)
  BY Zenon DEF join_channel
<1> HIDE DEF v
<1>3. v.account[c] = a /\ v.session[c] = w.session[c]
  BY <1>1, Zenon DEF SameClients
<1>4. CASE w.session[c] \/ a = None \/ ~w.entry[a].alloc
  <2>1. join_channel(w, c, ch) = v
    BY <1>1, <1>2, <1>3, <1>4, Zenon DEF persist_local_join
  <2>2. Joined(w, v, c)
    BY <1>1 DEF Joined, Steady, Typed, Nicks
  <2> QED BY <2>1, <2>2, Zenon
<1>5. CASE ~(w.session[c] \/ a = None \/ ~w.entry[a].alloc)
  <2>1. join_channel(w, c, ch) = x
    BY <1>1, <1>2, <1>3, <1>5, Zenon DEF persist_local_join
  <2>2. G \subseteq Conns /\ G \subseteq Followers(w, c)
    BY <1>5, ListedConns, Zenon DEF Steady, Typed, Entry, Followers
  <2> HIDE DEF G
  <2>3. /\ DOMAIN x = WorldFields /\ SameClients(w, x)
        /\ x.entry = w.entry /\ x.dirty = w.dirty /\ x.seen = v.seen
        /\ x.in = [v.in EXCEPT ![ch] = @ \cup G]
        /\ x.shadow = [v.shadow EXCEPT ![ch] = @ \cup G]
    BY <1>1, Zenon DEF WorldFields, SameClients
  <2> HIDE DEF x
  <2>4. Joined(w, x, c)
    BY <1>1, <2>2, <2>3 DEF Joined, Steady, Typed, Nicks
  <2> QED BY <2>1, <2>4
<1> QED BY <1>4, <1>5, Zenon

\* JoinAll(), as to members
LEMMA JoinAllJoins ==
    ASSUME NEW w, Steady(w), NEW c \in Conns, NEW cs
    PROVE  Joined(w, JoinAll(w, c, cs), c)
<1> DEFINE j(ch) == join_channel(w, c, ch)
           u == JoinAll(w, c, cs)
<1>1. /\ DOMAIN u = WorldFields /\ SameClients(w, u)
      /\ u.entry = w.entry /\ u.dirty = w.dirty
      /\ u.in = [ch \in Chans |-> IF ch \in cs THEN j(ch).in[ch] ELSE w.in[ch]]
      /\ u.shadow = [ch \in Chans |-> IF ch \in cs THEN j(ch).shadow[ch] ELSE w.shadow[ch]]
      /\ u.seen = [ch \in Chans |-> IF ch \in cs THEN j(ch).seen[ch] ELSE w.seen[ch]]
  BY Zenon DEF Steady, Typed, WorldFields, SameClients, JoinAll
<1>2. \A ch \in Chans : Joined(w, j(ch), c)
  BY JoinJoins, Zenon
<1> HIDE DEF j, u
<1>3. Joined(w, u, c)
  BY <1>1, <1>2 DEF Joined, Steady, Typed
<1> QED BY <1>3, Zenon DEF u

\* A join of a client that is there
LEMMA JoinKeeps ==
    ASSUME NEW w, Steady(w), NEW c \in Conns, NEW u, Joined(w, u, c)
    PROVE  (w.conn[c] # "off" => Keeps(w, u)) /\ OnlyMembers(w, u)
<1>1. /\ Followers(w, c) \subseteq Conns
      /\ Live(w) => \A s \in Followers(w, c) : w.conn[s] = "user" /\ w.session[s]
  BY ListedConns DEF Followers, Steady, Typed, Entry, Live
<1>2. OnlyMembers(w, u)
  BY <1>1, NamesAssumption, Zenon DEF Joined, OnlyMembers
<1>3. Live(w) /\ w.conn[c] # "off" => MembersFit(w, u)
  BY <1>1, Zenon DEF Joined, MembersFit
<1> QED BY <1>2, <1>3, MembersKeep, Zenon DEF Keeps

\* Entry a has lost its ghost, and the ghost its nick and its channels.
Dissolved(w, u, a) ==
    /\ DOMAIN u = WorldFields
    /\ u.conn = w.conn /\ u.name = w.name /\ u.account = w.account
    /\ u.session = w.session /\ u.restore = w.restore /\ u.hash = w.hash \ {a}
    /\ u.shadow = w.shadow /\ u.seen = w.seen /\ u.dirty = w.dirty
    /\ u.in \in [Chans -> SUBSET Nicks] /\ \A ch \in Chans : u.in[ch] = w.in[ch] \ {a}
    /\ u.entry \in [Accounts -> Entry] /\ u.entry[a].ghost = FALSE
    /\ \A b \in Accounts \ {a} : u.entry[b] = w.entry[b]
    /\ u.entry[a].alloc = w.entry[a].alloc /\ u.entry[a].nick = w.entry[a].nick
    /\ u.entry[a].sessions = w.entry[a].sessions /\ u.entry[a].saved = w.entry[a].saved
    /\ u.entry[a].canonical = w.entry[a].canonical
    /\ u.entry[a].preference = w.entry[a].preference

\* Steady, but that the ghost of a may be one persistence is off for.
Loose(w, a) ==
    /\ Typed(w)
    /\ \A b \in Accounts :
          /\ ~Haunting(w, b) => b \notin w.hash /\ \A ch \in Chans : b \notin w.in[ch]
          /\ Haunting(w, b) /\ b # a => w.entry[b].nick # None /\ persistence_effective(w, b)

\* destroy_ghost() for any ghost
LEMMA DestroyLoose ==
    ASSUME NEW w, NEW a \in Accounts, Loose(w, a), w.entry[a].alloc
    PROVE  LET u == destroy_ghost(w, a) IN Dissolved(w, u, a) /\ Keeps(w, u)
<1> DEFINE u == destroy_ghost(w, a)
<1>1. Dissolved(w, u, a)
  <2>0. w.entry \in [Accounts -> Entry] /\ w.entry[a] \in Entry
    BY Zenon DEF Loose, Typed
  <2>1. CASE w.entry[a].ghost
    <3> DEFINE x == [w EXCEPT !.entry[a].ghost = FALSE, !.hash = @ \ {a}]
               e == [w.entry[a] EXCEPT !.ghost = FALSE]
    <3>1. u = StripChannels(x, a)
      BY <2>1, Zenon DEF destroy_ghost
    <3>2. /\ DOMAIN x = WorldFields
          /\ x.conn = w.conn /\ x.name = w.name /\ x.account = w.account
          /\ x.session = w.session /\ x.restore = w.restore /\ x.hash = w.hash \ {a}
          /\ x.in = w.in /\ x.shadow = w.shadow /\ x.seen = w.seen /\ x.dirty = w.dirty
          /\ x.entry = [w.entry EXCEPT ![a] = e]
      BY Zenon DEF Loose, Typed, WorldFields
    <3>3. /\ e \in Entry /\ e.ghost = FALSE /\ e.alloc = w.entry[a].alloc
          /\ e.nick = w.entry[a].nick /\ e.sessions = w.entry[a].sessions
          /\ e.saved = w.entry[a].saved /\ e.canonical = w.entry[a].canonical
          /\ e.preference = w.entry[a].preference
      BY <2>0, Zenon DEF Entry
    <3> HIDE DEF x, u, e
    <3>4. /\ DOMAIN u = WorldFields
          /\ u.conn = x.conn /\ u.name = x.name /\ u.account = x.account
          /\ u.session = x.session /\ u.restore = x.restore /\ u.hash = x.hash
          /\ u.seen = x.seen /\ u.dirty = x.dirty /\ u.entry = x.entry
          /\ u.in = [ch \in Chans |-> x.in[ch] \ {a}]
          /\ u.shadow = [ch \in Chans |-> x.shadow[ch] \ {a}]
      BY <3>1, <3>2, Zenon DEF StripChannels, WorldFields
    <3>5. \A ch \in Chans : w.shadow[ch] \ {a} = w.shadow[ch]
      BY NamesAssumption DEF Loose, Typed
    <3>6. u.shadow = w.shadow
      <4>1. w.shadow = [ch \in Chans |-> w.shadow[ch]]
        BY Zenon DEF Loose, Typed
      <4>2. u.shadow = [ch \in Chans |-> w.shadow[ch] \ {a}]
        BY <3>2, <3>4, Zenon
      <4>3. u.shadow = [ch \in Chans |-> w.shadow[ch]]
        BY <3>5, <4>2, Zenon
      <4> QED BY <4>1, <4>3, Zenon
    <3>7. /\ u.entry \in [Accounts -> Entry] /\ u.entry[a] = e
          /\ \A b \in Accounts \ {a} : u.entry[b] = w.entry[b]
      BY <2>0, <3>2, <3>3, <3>4
    <3>8. u.in \in [Chans -> SUBSET Nicks] /\ \A ch \in Chans : u.in[ch] = w.in[ch] \ {a}
      BY <3>2, <3>4 DEF Loose, Typed
    <3> QED BY <3>2, <3>3, <3>4, <3>6, <3>7, <3>8, Zenon DEF Dissolved
  <2>2. CASE ~w.entry[a].ghost
    <3>1. u = w
      BY <2>2, Zenon DEF destroy_ghost
    <3>2. /\ a \notin w.hash /\ \A ch \in Chans : a \notin w.in[ch]
      BY <2>2, Zenon DEF Loose, Haunting
    <3>3. w.entry[a].ghost = FALSE
      BY <2>0, <2>2, Zenon DEF Entry
    <3>4. w.hash = w.hash \ {a} /\ \A ch \in Chans : w.in[ch] = w.in[ch] \ {a}
      BY <3>2, Zenon
    <3>5. w.in \in [Chans -> SUBSET Nicks] /\ DOMAIN w = WorldFields
      BY Zenon DEF Loose, Typed
    <3> HIDE DEF u
    <3> QED BY <2>0, <3>1, <3>3, <3>4, <3>5, Zenon DEF Dissolved
  <2> QED BY <2>1, <2>2, Zenon
<1> HIDE DEF u
<1>3. Typed(u)
  BY <1>1, NamesAssumption DEF Dissolved, Loose, Typed
<1>4. Ghosts(u)
  BY <1>1 DEF Dissolved, Loose, Ghosts, Haunting, persistence_effective
<1>5. \A d : Durable(w, d) => Durable(u, d)
  BY <1>1 DEF Dissolved, Durable, Haunting
<1>6. Live(w) => Live(u)
  BY <1>1 DEF Dissolved, Live
<1> QED BY <1>1, <1>3, <1>4, <1>5, <1>6, Zenon DEF u, Keeps, Calm, Steady

\* destroy_ghost()
LEMMA DestroyKeeps ==
    ASSUME NEW w, Steady(w), NEW a \in Accounts, w.entry[a].alloc
    PROVE  LET u == destroy_ghost(w, a) IN Dissolved(w, u, a) /\ Keeps(w, u)
<1>1. Loose(w, a)
  BY Zenon DEF Steady, Ghosts, Loose
<1> QED BY <1>1, DestroyLoose, Zenon

\* save_client_to_entry() for an entry without a ghost
LEMMA SaveKeeps ==
    ASSUME NEW w, Steady(w), NEW a \in Accounts, NEW c \in Conns, ~w.entry[a].ghost
    PROVE  LET u == save_client_to_entry(w, c, a) IN
           /\ OneEntry(w, u, a) /\ Keeps(w, u)
           /\ u.entry[a].alloc = w.entry[a].alloc /\ u.entry[a].ghost = w.entry[a].ghost
           /\ u.entry[a].sessions = w.entry[a].sessions
           /\ u.entry[a].preference = w.entry[a].preference
<1> DEFINE u == save_client_to_entry(w, c, a)
           e == [w.entry[a] EXCEPT !.nick = w.name[c], !.saved = ChannelsOf(w, c),
                                   !.old = FALSE]
<1>1. /\ DOMAIN u = WorldFields /\ SameClients(w, u) /\ SameMembers(w, u)
      /\ u.dirty = w.dirty
      /\ u.entry = [w.entry EXCEPT ![a] = e]
  BY Zenon DEF save_client_to_entry, Steady, Typed, WorldFields, SameClients, SameMembers
<1>2. /\ e \in Entry /\ e.alloc = w.entry[a].alloc /\ e.ghost = w.entry[a].ghost
      /\ e.sessions = w.entry[a].sessions /\ e.preference = w.entry[a].preference
  <2>1. w.entry[a] \in Entry /\ w.name[c] \in Nicks \cup {None}
    BY Zenon DEF Steady, Typed
  <2>2. ChannelsOf(w, c) \subseteq Chans
    BY Zenon DEF ChannelsOf
  <2> QED BY <2>1, <2>2, Zenon DEF Entry
<1> HIDE DEF u, e
<1>3. OneEntry(w, u, a) /\ u.entry[a] = e
  BY <1>1, <1>2, Zenon DEF OneEntry, Steady, Typed
<1>4. GhostFits(w, u, a)
  BY <1>2, <1>3, Zenon DEF GhostFits, Haunting
<1>5. Live(w) => ListFits(w, u, a)
  BY <1>2, <1>3, Zenon DEF Live, ListFits
<1>6. Keeps(w, u)
  BY <1>3, <1>4, <1>5, EntryKeeps, Zenon DEF Keeps
<1> QED BY <1>2, <1>3, <1>6, Zenon DEF u

\* do_create_ghost() for an account with persistence on
LEMMA GhostKeeps ==
    ASSUME NEW w, Steady(w), NEW a \in Accounts, w.entry[a].alloc, persistence_effective(w, a)
    PROVE  LET u == do_create_ghost(w, a) IN
           /\ Steady(u) /\ (Live(w) => Live(u))
           /\ \A c \in Conns : Unlisted(w, c) => Unlisted(u, c)
<1> DEFINE u == do_create_ghost(w, a)
<1>0. w.entry \in [Accounts -> Entry] /\ w.entry[a] \in Entry
  BY Zenon DEF Steady, Typed
<1>1. CASE w.entry[a].nick = None \/ w.entry[a].saved = {}
  <2>1. u = w
    BY <1>1, Zenon DEF do_create_ghost
  <2> HIDE DEF u
  <2>2. Steady(u) /\ (Live(w) => Live(u)) /\ \A c \in Conns : Unlisted(w, c) => Unlisted(u, c)
    BY <2>1, Zenon
  <2> QED BY <2>2, Zenon DEF u
<1>2. CASE w.entry[a].nick # None /\ w.entry[a].saved # {}
  <2> DEFINE x == [w EXCEPT !.entry[a].ghost = TRUE, !.hash = @ \cup {a}]
             e == [w.entry[a] EXCEPT !.ghost = TRUE]
             cs == w.entry[a].saved
  <2>1. u = AddSilently(x, a, cs)
    BY <1>2, Zenon DEF do_create_ghost
  <2>2. /\ DOMAIN x = WorldFields
        /\ x.conn = w.conn /\ x.name = w.name /\ x.account = w.account
        /\ x.session = w.session /\ x.restore = w.restore /\ x.hash = w.hash \cup {a}
        /\ x.in = w.in /\ x.shadow = w.shadow /\ x.seen = w.seen /\ x.dirty = w.dirty
        /\ x.entry = [w.entry EXCEPT ![a] = e]
    BY Zenon DEF Steady, Typed, WorldFields
  <2>3. /\ e \in Entry /\ e.ghost = TRUE /\ e.alloc = w.entry[a].alloc
        /\ e.nick = w.entry[a].nick /\ e.sessions = w.entry[a].sessions
        /\ e.preference = w.entry[a].preference
    BY <1>0, Zenon DEF Entry
  <2> HIDE DEF x, u, e
  <2>4. /\ DOMAIN u = WorldFields
        /\ u.conn = x.conn /\ u.name = x.name /\ u.account = x.account
        /\ u.session = x.session /\ u.restore = x.restore /\ u.hash = x.hash
        /\ u.seen = x.seen /\ u.dirty = x.dirty /\ u.entry = x.entry /\ u.shadow = x.shadow
        /\ u.in = [ch \in Chans |-> IF ch \in cs THEN x.in[ch] \cup {a} ELSE x.in[ch]]
    BY <2>1, <2>2, Zenon DEF AddSilently, WorldFields
  <2> HIDE DEF cs
  <2>5. /\ u.in \in [Chans -> SUBSET Nicks]
        /\ \A ch \in Chans : w.in[ch] \subseteq u.in[ch] /\ u.in[ch] \subseteq w.in[ch] \cup {a}
    BY <2>2, <2>4 DEF Steady, Typed, Nicks
  <2>6. /\ u.entry \in [Accounts -> Entry] /\ u.entry[a] = e
        /\ \A b \in Accounts \ {a} : u.entry[b] = w.entry[b]
    BY <1>0, <2>2, <2>3, <2>4
  <2>7. Typed(u)
    BY <2>2, <2>4, <2>5, <2>6 DEF Steady, Typed, Nicks
  <2>8. Ghosts(u)
    <3>1. Haunting(u, a) /\ persistence_effective(u, a) /\ u.entry[a].nick # None
      BY <1>2, <2>3, <2>6, Zenon DEF Haunting, persistence_effective
    <3>2. ASSUME NEW b \in Accounts \ {a}
          PROVE  /\ ~Haunting(u, b) => b \notin u.hash /\ \A ch \in Chans : b \notin u.in[ch]
                 /\ Haunting(u, b) => u.entry[b].nick # None /\ persistence_effective(u, b)
      BY <2>2, <2>4, <2>5, <2>6 DEF Steady, Ghosts, Haunting, persistence_effective
    <3> QED BY <3>1, <3>2, Zenon DEF Ghosts
  <2>9. Live(w) => Live(u)
    <3>1. \A b \in Accounts : u.entry[b].alloc = w.entry[b].alloc
                              /\ u.entry[b].sessions = w.entry[b].sessions
      BY <2>3, <2>6, Zenon
    <3>2. \A c \in Conns : /\ c \in u.hash => c \in w.hash
                           /\ \A ch \in Chans : c \in u.in[ch] => c \in w.in[ch]
      BY <2>2, <2>4, <2>5, NamesAssumption
    <3> QED BY <2>2, <2>4, <3>1, <3>2 DEF Live
  <2>10. \A c \in Conns : Unlisted(w, c) => Unlisted(u, c)
    BY <2>3, <2>6, Zenon DEF Unlisted
  <2> QED BY <2>7, <2>8, <2>9, <2>10, Zenon DEF Steady, u
<1> QED BY <1>1, <1>2, Zenon

\* c is there and on no list.
Arriving(w, c) == Live(w) /\ w.conn[c] # "off" /\ Unlisted(w, c)

\* What is kept of a world with such a client.
Admits(w, u, c) == Calm(w, u) /\ (Arriving(w, c) => Live(u))

\* restore_channels()
LEMMA RestoreKeeps ==
    ASSUME NEW w, Steady(w), NEW a \in Accounts, NEW c \in Conns
    PROVE  LET u == restore_channels(w, c, a) IN
           /\ Admits(w, u, c) /\ u.entry = w.entry /\ u.conn = w.conn /\ u.name = w.name
           /\ u.session = w.session /\ u.account = w.account /\ u.hash = w.hash
           /\ u.dirty = w.dirty
<1> DEFINE back == {ch \in w.entry[a].saved : ChannelExists(w, ch) /\ c \notin w.in[ch]}
           v == IF w.name[c] = w.entry[a].nick THEN AddSilently(w, c, back)
                ELSE JoinAll(w, c, back)
           u == [v EXCEPT !.restore[c] = None]
<1>1. restore_channels(w, c, a) = u
  BY Zenon DEF restore_channels
<1>2. (w.conn[c] # "off" => Keeps(w, v)) /\ OnlyMembers(w, v)
  BY AddKeeps, JoinAllJoins, JoinKeeps, Zenon
<1> HIDE DEF v
<1>3. Steady(v) /\ Calm(w, v)
  BY <1>2, MembersKeep, Zenon DEF Calm
<1>4. /\ DOMAIN u = WorldFields /\ SameMembers(v, u) /\ u.entry = v.entry
      /\ u.dirty = v.dirty /\ u.conn = v.conn /\ u.name = v.name /\ u.account = v.account
      /\ u.session = v.session /\ u.hash = v.hash
      /\ u.restore = [v.restore EXCEPT ![c] = None]
  BY <1>3, Zenon DEF Steady, Typed, WorldFields, SameMembers
<1> HIDE DEF u
<1>5. OneClient(v, u, c)
  BY <1>3, <1>4 DEF OneClient, Steady, Typed
<1>6. /\ v.conn = w.conn /\ v.session = w.session /\ v.account = w.account
      /\ v.entry = w.entry /\ v.name = w.name /\ v.hash = w.hash /\ v.dirty = w.dirty
  BY <1>2, Zenon DEF OnlyMembers, SameClients
<1>7. Arriving(w, c) => ClientFits(v, u, c)
  BY <1>4, <1>6 DEF ClientFits, Arriving, Live, Unlisted
<1>8. Admits(w, u, c)
  <2>1. Calm(v, u) /\ (Live(v) /\ ClientFits(v, u, c) => Live(u))
    BY <1>3, <1>5, ClientKeeps, Zenon
  <2> QED BY <1>2, <1>3, <1>7, <2>1, Zenon DEF Keeps, Calm, Admits, Arriving
<1> QED BY <1>1, <1>4, <1>6, <1>8, Zenon

\* The lists after a client has been taken off one of them.
LEMMA TailKeeps ==
    ASSUME NEW l \in Seq(Conns), l # <<>>
    PROVE  /\ Tail(l) \in Seq(Conns) /\ Head(l) \in Listed(l)
           /\ Listed(Tail(l)) \subseteq Listed(l)
           /\ Distinct(l) => Distinct(Tail(l)) /\ Head(l) \notin Listed(Tail(l))
<1>1. /\ Len(l) \in Nat /\ Len(l) > 0 /\ DOMAIN l = 1..Len(l) /\ Head(l) = l[1]
      /\ Tail(l) \in Seq(Conns)
  OBVIOUS
<1>2. DOMAIN Tail(l) = 1..(Len(l) - 1) /\ \A i \in 1..(Len(l) - 1) : Tail(l)[i] = l[i + 1]
  OBVIOUS
<1> DEFINE t == Tail(l)
           h == Head(l)
<1> HIDE DEF t, h
<1>3. /\ DOMAIN t = 1..(Len(l) - 1) /\ h = l[1]
      /\ \A i \in DOMAIN t : t[i] = l[i + 1] /\ i + 1 \in DOMAIN l /\ i \in Nat /\ i > 0
  BY <1>1, <1>2 DEF t, h
<1>4. Listed(t) \subseteq Listed(l) /\ h \in Listed(l)
  BY <1>1, <1>3 DEF Listed
<1>5. ASSUME Distinct(l) PROVE Distinct(t) /\ h \notin Listed(t)
  <2>1. ASSUME NEW i \in DOMAIN t, NEW j \in DOMAIN t, t[i] = t[j] PROVE i = j
    <3>1. i + 1 = j + 1
      BY <1>3, <1>5, <2>1, Zenon DEF Distinct
    <3> QED BY <1>3, <3>1
  <2>2. ASSUME NEW i \in DOMAIN t, h = t[i] PROVE FALSE
    <3>1. 1 = i + 1
      BY <1>1, <1>3, <1>5, <2>2 DEF Distinct
    <3> QED BY <1>3, <3>1
  <2> QED BY <2>1, <2>2, Zenon DEF Distinct, Listed
<1> QED BY <1>1, <1>4, <1>5, Zenon DEF t, h

\* A list without its element k.
Without(l, k) == [i \in 1..Len(l) - 1 |-> IF i < k THEN l[i] ELSE l[i + 1]]

\* The list after one element has been taken off.
LEMMA WithoutKeeps ==
    ASSUME NEW l \in Seq(Conns), l # <<>>, NEW k
    PROVE  LET m == Without(l, k) IN
           /\ m \in Seq(Conns) /\ Listed(m) \subseteq Listed(l)
           /\ Distinct(l) /\ k \in DOMAIN l => Distinct(m) /\ l[k] \notin Listed(m)
<1> DEFINE m == Without(l, k)
           n == Len(l) - 1
           p(i) == IF i < k THEN i ELSE i + 1
<1>1. /\ n \in Nat /\ DOMAIN l = 1..n + 1
      /\ \A i \in 1..n + 1 : l[i] \in Conns
  OBVIOUS
<1>2. DOMAIN m = 1..n /\ \A i \in 1..n : m[i] = l[p(i)]
  BY Zenon DEF Without
<1> HIDE DEF n
<1>3. \A i \in 1..n : p(i) \in 1..n + 1 /\ (k \in 1..n + 1 => p(i) # k)
  BY <1>1
<1>4. k \in 1..n + 1 => \A i, j \in 1..n : p(i) = p(j) => i = j
  BY <1>1
<1>5. m \in [1..n -> Conns]
  <2>1. m = [i \in 1..n |-> m[i]]
    BY Zenon DEF Without, n
  <2> HIDE DEF m, p
  <2>2. \A i \in 1..n : m[i] \in Conns
    BY <1>1, <1>2, <1>3, Zenon
  <2> QED BY <2>1, <2>2, Zenon
<1> HIDE DEF m, p
<1>6. m \in Seq(Conns)
  BY <1>1, <1>5
<1>7. Listed(m) \subseteq Listed(l)
  BY <1>1, <1>2, <1>3, Zenon DEF Listed
<1>8. ASSUME Distinct(l), k \in DOMAIN l PROVE Distinct(m)
  BY <1>1, <1>2, <1>3, <1>4, <1>8, Zenon DEF Distinct
<1>9. ASSUME Distinct(l), k \in DOMAIN l PROVE l[k] \notin Listed(m)
  <2>1. ASSUME NEW i \in 1..n, l[k] = m[i] PROVE FALSE
    BY <1>1, <1>2, <1>3, <1>9, <2>1, Zenon DEF Distinct
  <2> QED BY <1>2, <2>1, Zenon DEF Listed
<1> QED BY <1>6, <1>7, <1>8, <1>9, Zenon DEF m

\* remove_session()
LEMMA UnlinkKeeps ==
    ASSUME NEW w, Steady(w), NEW a \in Accounts, NEW c \in Conns
    PROVE  LET u == remove_session(w, c, a) IN
           /\ Keeps(w, u) /\ OneEntry(w, u, a) /\ u.entry[a].alloc = w.entry[a].alloc
           /\ Distinct(w.entry[a].sessions) => c \notin Listed(u.entry[a].sessions)
<1> DEFINE u == remove_session(w, c, a)
           l == w.entry[a].sessions
           at == {i \in DOMAIN l : l[i] = c}
           k == CHOOSE i \in at : \A j \in at : i <= j
           m == Without(l, k)
           e == [w.entry[a] EXCEPT !.sessions = m]
<1>1. w.entry \in [Accounts -> Entry] /\ w.entry[a] \in Entry /\ l \in Seq(Conns)
  BY Zenon DEF Steady, Typed, Entry
<1>2. CASE at = {}
  <2>1. u = w
    BY <1>2, Zenon DEF remove_session
  <2>2. c \notin Listed(l)
    BY <1>2, Zenon DEF Listed
  <2>3. Keeps(w, w) /\ OneEntry(w, w, a)
    BY Zenon DEF Keeps, Calm, OneEntry, Steady, Typed, SameClients, SameMembers
  <2> QED BY <2>1, <2>2, <2>3, Zenon
<1>3. CASE at # {}
  <2>1. u = [w EXCEPT !.entry[a].sessions = m]
    BY <1>3, Zenon DEF remove_session, Without
  <2>2. /\ DOMAIN u = WorldFields /\ SameClients(w, u) /\ SameMembers(w, u)
        /\ u.dirty = w.dirty /\ u.entry = [w.entry EXCEPT ![a] = e]
    <3> HIDE DEF u, m
    <3> QED BY <2>1, Zenon DEF Steady, Typed, WorldFields, SameClients, SameMembers
  <2> HIDE DEF u
  <2>3. l # <<>> /\ (Distinct(l) => k \in DOMAIN l /\ l[k] = c)
    <3>1. PICK i \in DOMAIN l : l[i] = c
      BY <1>3, Zenon
    <3>2. l # <<>> /\ i \in Nat
      BY <1>1, <3>1
    <3>3. ASSUME Distinct(l) PROVE at = {i}
      BY <3>1, <3>3, Zenon DEF Distinct
    <3>4. ASSUME Distinct(l) PROVE \E n \in at : \A j \in at : n <= j
      <4>1. i <= i
        BY <3>2
      <4> QED BY <3>3, <3>4, <4>1, Zenon
    <3>5. ASSUME Distinct(l) PROVE k \in at
      BY <3>4, <3>5, Zenon
    <3> QED BY <3>2, <3>5, Zenon
  <2> HIDE DEF k, at
  <2>4. /\ m \in Seq(Conns) /\ Listed(m) \subseteq Listed(l)
        /\ Distinct(l) => Distinct(m) /\ c \notin Listed(m)
    BY <1>1, <2>3, WithoutKeeps
  <2> HIDE DEF m
  <2>10. /\ e \in Entry /\ e.alloc = w.entry[a].alloc /\ e.ghost = w.entry[a].ghost
         /\ e.sessions = m /\ e.preference = w.entry[a].preference
         /\ e.nick = w.entry[a].nick
    BY <1>1, <2>4, Zenon DEF Entry
  <2> HIDE DEF e
  <2>11. OneEntry(w, u, a) /\ u.entry[a] = e
    BY <1>1, <2>2, <2>10, Zenon DEF OneEntry
  <2>12. GhostFits(w, u, a)
    BY <2>10, <2>11, Zenon DEF GhostFits
  <2>13. Live(w) => ListFits(w, u, a)
    BY <2>4, <2>10, <2>11, Zenon DEF Live, ListFits
  <2>14. Keeps(w, u)
    BY <2>11, <2>12, <2>13, EntryKeeps, Zenon DEF Keeps
  <2> QED BY <2>4, <2>10, <2>11, <2>14, Zenon DEF u
<1> QED BY <1>2, <1>3, Zenon

\* A change of the canonical of an entry.
LEMMA CanonicalKeeps ==
    ASSUME NEW w, Steady(w), NEW a \in Accounts, NEW k \in Conns \cup {None}
    PROVE  LET u == [w EXCEPT !.entry[a].canonical = k] IN
           /\ Keeps(w, u) /\ OneEntry(w, u, a)
           /\ u.entry[a].alloc = w.entry[a].alloc /\ u.entry[a].ghost = w.entry[a].ghost
           /\ u.entry[a].sessions = w.entry[a].sessions
           /\ u.entry[a].preference = w.entry[a].preference
           /\ u.entry[a].nick = w.entry[a].nick
           /\ \A c \in Conns : Unlisted(w, c) => Unlisted(u, c)
<1> DEFINE u == [w EXCEPT !.entry[a].canonical = k]
           e == [w.entry[a] EXCEPT !.canonical = k]
<1>1. w.entry \in [Accounts -> Entry] /\ w.entry[a] \in Entry
  BY Zenon DEF Steady, Typed
<1>2. /\ DOMAIN u = WorldFields /\ SameClients(w, u) /\ SameMembers(w, u)
      /\ u.dirty = w.dirty /\ u.entry = [w.entry EXCEPT ![a] = e]
  BY Zenon DEF Steady, Typed, WorldFields, SameClients, SameMembers
<1>3. /\ e \in Entry /\ e.alloc = w.entry[a].alloc /\ e.ghost = w.entry[a].ghost
      /\ e.sessions = w.entry[a].sessions /\ e.preference = w.entry[a].preference
      /\ e.nick = w.entry[a].nick
  BY <1>1, Zenon DEF Entry
<1> HIDE DEF u, e
<1>4. OneEntry(w, u, a) /\ u.entry[a] = e
  BY <1>1, <1>2, <1>3, Zenon DEF OneEntry
<1>5. GhostFits(w, u, a)
  BY <1>3, <1>4, Zenon DEF GhostFits
<1>6. Live(w) => ListFits(w, u, a)
  BY <1>3, <1>4, Zenon DEF Live, ListFits
<1>7. Keeps(w, u)
  BY <1>4, <1>5, <1>6, EntryKeeps, Zenon DEF Keeps
<1>8. \A c \in Conns : Unlisted(w, c) => Unlisted(u, c)
  BY <1>3, <1>4, Zenon DEF Unlisted, OneEntry
<1> QED BY <1>3, <1>4, <1>7, <1>8, Zenon DEF u

\* promote_session() for an entry with sessions
LEMMA PromoteKeeps ==
    ASSUME NEW w, Steady(w), NEW a \in Accounts, w.entry[a].alloc, w.entry[a].sessions # <<>>
    PROVE  LET u == promote_session(w, a) IN
           /\ Keeps(w, u) /\ u.conn = w.conn
           /\ \A c \in Conns : Unlisted(w, c) => Unlisted(u, c)
<1> DEFINE l == w.entry[a].sessions
           s == Head(l)
           t == Tail(l)
           e == [w.entry[a] EXCEPT !.sessions = t]
           shown == [ch \in Chans |-> w.shadow[ch] \ {s}]
           v1 == [w EXCEPT !.entry[a].sessions = t]
           v2 == [v1 EXCEPT !.shadow = shown]
           v3 == [w EXCEPT !.entry[a].sessions = t, !.hash = @ \cup {s},
                           !.session[s] = FALSE, !.shadow = shown]
           v4 == restore_channels(v3, s, a)
           u == promote_session(w, a)
<1>1. w.entry \in [Accounts -> Entry] /\ w.entry[a] \in Entry /\ l \in Seq(Conns)
  BY Zenon DEF Steady, Typed, Entry
<1>2. /\ t \in Seq(Conns) /\ s \in Listed(l) /\ s \in Conns /\ Listed(t) \subseteq Listed(l)
      /\ Distinct(l) => Distinct(t) /\ s \notin Listed(t)
  BY <1>1, TailKeeps, ListedConns, Zenon
<1>3. u = [v4 EXCEPT !.entry[a].canonical = s]
  BY Zenon DEF promote_session
<1> HIDE DEF u, v4, s, t
<1>4. /\ DOMAIN v1 = WorldFields /\ SameClients(w, v1) /\ SameMembers(w, v1)
      /\ v1.dirty = w.dirty /\ v1.entry = [w.entry EXCEPT ![a] = e]
  BY Zenon DEF Steady, Typed, WorldFields, SameClients, SameMembers
<1>5. /\ DOMAIN v2 = WorldFields /\ SameClients(w, v2) /\ v2.in = w.in /\ v2.seen = w.seen
      /\ v2.dirty = w.dirty /\ v2.entry = [w.entry EXCEPT ![a] = e]
      /\ v2.shadow = shown
  BY Zenon DEF Steady, Typed, WorldFields, SameClients, SameMembers
<1>6. /\ DOMAIN v3 = WorldFields /\ v3.conn = w.conn /\ v3.name = w.name
      /\ v3.account = w.account /\ v3.restore = w.restore
      /\ v3.session = [w.session EXCEPT ![s] = FALSE] /\ v3.hash = w.hash \cup {s}
      /\ v3.in = w.in /\ v3.seen = w.seen /\ v3.shadow = shown
      /\ v3.dirty = w.dirty /\ v3.entry = [w.entry EXCEPT ![a] = e]
  BY Zenon DEF Steady, Typed, WorldFields
<1>7. /\ e \in Entry /\ e.alloc = w.entry[a].alloc /\ e.ghost = w.entry[a].ghost
      /\ e.sessions = t /\ e.preference = w.entry[a].preference
      /\ e.nick = w.entry[a].nick
  BY <1>1, <1>2, Zenon DEF Entry
<1>8. shown \in [Chans -> SUBSET Conns] /\ \A ch \in Chans : shown[ch] = w.shadow[ch] \ {s}
  BY Zenon DEF Steady, Typed
<1> HIDE DEF v1, v2, v3, e, shown
<1>9. OneEntry(w, v1, a) /\ v1.entry[a] = e /\ v2.entry[a] = e
  BY <1>1, <1>4, <1>5, <1>7, Zenon DEF OneEntry
<1>10. GhostFits(w, v1, a)
  BY <1>7, <1>9, Zenon DEF GhostFits
<1>11. Live(w) => ListFits(w, v1, a)
  BY <1>2, <1>7, <1>9, Zenon DEF Live, ListFits
<1>12. Keeps(w, v1)
  BY <1>9, <1>10, <1>11, EntryKeeps, Zenon DEF Keeps
<1>13. OnlyMembers(v1, v2) /\ MembersFit(v1, v2)
  BY <1>4, <1>5, <1>8 DEF OnlyMembers, MembersFit, Steady, Typed, SameClients, SameMembers
<1>14. Keeps(v1, v2)
  BY <1>12, <1>13, MembersKeep, Zenon DEF Keeps, Calm
<1>15. Keeps(w, v2) /\ Steady(v2)
  BY <1>12, <1>14, KeepsTransitive, Zenon DEF Keeps, Calm
<1>16. OneClient(v2, v3, s)
  <2>1. v3.session \in [Conns -> BOOLEAN]
    <3>1. w.session \in [Conns -> BOOLEAN]
      BY Zenon DEF Steady, Typed
    <3>2. [w.session EXCEPT ![s] = FALSE] \in [Conns -> BOOLEAN]
      BY <3>1, Zenon
    <3>3. v3.session = [w.session EXCEPT ![s] = FALSE]
      BY <1>6, Zenon
    <3> QED BY <3>2, <3>3, Zenon
  <2>2. v3.hash \subseteq Nicks
    BY <1>2, <1>6 DEF Steady, Typed, Nicks
  <2> QED BY <1>2, <1>5, <1>6, <2>1, <2>2
          DEF OneClient, Steady, Typed, SameMembers, SameClients
<1>17. ASSUME Live(w) PROVE Unlisted(v2, s) /\ w.conn[s] = "user"
  <2>1. w.conn[s] = "user" /\ w.restore[s] = a /\ Distinct(l)
    BY <1>2, <1>17, Zenon DEF Live
  <2>2. s \notin Listed(v2.entry[a].sessions)
    BY <1>2, <1>7, <1>9, <2>1, Zenon
  <2>3. ASSUME NEW b \in Accounts \ {a}, v2.entry[b].alloc
        PROVE  s \notin Listed(v2.entry[b].sessions)
    BY <1>1, <1>5, <1>17, <2>1, <2>3 DEF Live
  <2> QED BY <2>1, <2>2, <2>3, Zenon DEF Unlisted
<1>18. ASSUME Live(w) PROVE ClientFits(v2, v3, s)
  <2>1. v3.session[s] = FALSE /\ v3.conn[s] = "user"
    BY <1>2, <1>6, <1>17, <1>18, Zenon DEF Steady, Typed
  <2>2. \A ch \in Chans : s \notin v2.shadow[ch]
    BY <1>5, <1>8, Zenon
  <2> QED BY <1>17, <1>18, <2>1, <2>2, Zenon DEF ClientFits
<1>19. Calm(v2, v3) /\ (Live(v2) /\ ClientFits(v2, v3, s) => Live(v3))
  BY <1>2, <1>15, <1>16, ClientKeeps, Zenon
<1>20. Steady(v3) /\ Keeps(w, v3)
  BY <1>15, <1>18, <1>19, Zenon DEF Keeps, Calm
<1>21. Live(w) => Arriving(v3, s)
  <2>1. Unlisted(v2, s) => Unlisted(v3, s)
    BY <1>5, <1>6, Zenon DEF Unlisted
  <2> QED BY <1>6, <1>17, <1>20, <2>1, Zenon DEF Keeps, Arriving
<1>22. Keeps(w, v4) /\ v4.entry = v3.entry /\ v4.conn = v3.conn
  <2>1. Admits(v3, v4, s) /\ v4.entry = v3.entry /\ v4.conn = v3.conn
    BY <1>2, <1>20, RestoreKeeps, Zenon DEF v4
  <2> QED BY <1>20, <1>21, <2>1, Zenon DEF Keeps, Calm, Admits
<1>23. Keeps(v4, u) /\ OneEntry(v4, u, a) /\ \A k \in Conns : Unlisted(v4, k) => Unlisted(u, k)
  BY <1>2, <1>3, <1>22, CanonicalKeeps, Zenon DEF Keeps, Calm
<1>24. u.conn = w.conn
  BY <1>6, <1>22, <1>23, Zenon DEF OneEntry, SameClients
<1>25. ASSUME NEW c \in Conns, Unlisted(w, c) PROVE Unlisted(u, c)
  <2>1. Unlisted(v3, c)
    BY <1>1, <1>2, <1>6, <1>7, <1>25, Zenon DEF Unlisted
  <2>2. Unlisted(v4, c)
    BY <1>22, <2>1, Zenon DEF Unlisted
  <2> QED BY <1>23, <2>2, Zenon
<1> QED BY <1>22, <1>23, <1>24, <1>25, KeepsTransitive, Zenon DEF u

\* A client that has lost its name.
LEMMA NamelessKeeps ==
    ASSUME NEW w, Steady(w), NEW c \in Conns
    PROVE  LET u == [w EXCEPT !.name[c] = None] IN
           /\ Keeps(w, u) /\ u.entry = w.entry /\ u.in = w.in /\ u.shadow = w.shadow
           /\ u.conn = w.conn /\ u.session = w.session /\ u.hash = w.hash
           /\ \A k \in Conns : Unlisted(w, k) => Unlisted(u, k)
<1> DEFINE u == [w EXCEPT !.name[c] = None]
<1>1. /\ DOMAIN u = WorldFields /\ SameMembers(w, u) /\ u.entry = w.entry
      /\ u.dirty = w.dirty /\ u.conn = w.conn /\ u.account = w.account
      /\ u.session = w.session /\ u.hash = w.hash /\ u.restore = w.restore
      /\ u.name = [w.name EXCEPT ![c] = None]
  BY Zenon DEF Steady, Typed, WorldFields, SameMembers
<1> HIDE DEF u
<1>2. OneClient(w, u, c)
  BY <1>1 DEF OneClient, Steady, Typed
<1>3. Live(w) => ClientFits(w, u, c)
  BY <1>1 DEF ClientFits, Live
<1>4. Keeps(w, u) /\ \A k \in Conns : Unlisted(w, k) => Unlisted(u, k)
  BY <1>2, <1>3, ClientKeeps, Zenon DEF Keeps
<1> QED BY <1>1, <1>4, Zenon DEF u, SameMembers

\* persist_local_quit() for a session
LEMMA SessionQuitKeeps ==
    ASSUME NEW w, Steady(w), NEW c \in Conns
    PROVE  LET u == SessionQuit(w, c) IN
           Keeps(w, u) /\ u.conn = w.conn /\ (Live(w) => Unlisted(u, c))
<1> DEFINE a == w.restore[c]
           v == IF a = None THEN w ELSE remove_session(w, c, a)
           x == StripChannels(v, c)
           u == SessionQuit(w, c)
<1>1. a \in Accounts \cup {None}
  BY Zenon DEF Steady, Typed
<1>2. Keeps(w, v) /\ v.conn = w.conn /\ (Live(w) => Unlisted(v, c))
  <2>1. CASE a = None
    <3>1. Live(w) => Unlisted(w, c)
      BY <2>1, NamesAssumption DEF Live, Unlisted
    <3> QED BY <2>1, <3>1, Zenon DEF Keeps, Calm
  <2>2. CASE a # None
    <3>1. /\ Keeps(w, v) /\ OneEntry(w, v, a) /\ v.entry[a].alloc = w.entry[a].alloc
          /\ Distinct(w.entry[a].sessions) => c \notin Listed(v.entry[a].sessions)
      BY <1>1, <2>2, UnlinkKeeps, Zenon
    <3>2. v.conn = w.conn
      BY <3>1, Zenon DEF OneEntry, SameClients
    <3> HIDE DEF v
    <3>3. ASSUME Live(w), NEW b \in Accounts, v.entry[b].alloc
          PROVE  c \notin Listed(v.entry[b].sessions)
      <4>1. CASE b = a
        BY <3>1, <3>3, <4>1, Zenon DEF Live
      <4>2. CASE b # a
        BY <3>1, <3>3, <4>2, Zenon DEF Live, OneEntry
      <4> QED BY <4>1, <4>2, Zenon
    <3> QED BY <3>1, <3>2, <3>3, Zenon DEF Unlisted
  <2> QED BY <2>1, <2>2, Zenon
<1>3. u = [x EXCEPT !.name[c] = None]
  BY Zenon DEF SessionQuit
<1> HIDE DEF v, a, u
<1>4. Steady(v) /\ c \in Nicks
  BY <1>2, Zenon DEF Keeps, Calm, Nicks
<1>5. Keeps(v, x) /\ OnlyMembers(v, x)
  BY <1>4, StripKeeps, Zenon
<1> HIDE DEF x
<1>6. Steady(x) /\ x.conn = v.conn /\ (Unlisted(v, c) => Unlisted(x, c))
  BY <1>5, Zenon DEF Keeps, Calm, OnlyMembers, SameClients, Unlisted
<1>7. Keeps(x, u) /\ u.conn = x.conn /\ (Unlisted(x, c) => Unlisted(u, c))
  BY <1>3, <1>6, NamelessKeeps, Zenon
<1> QED BY <1>2, <1>5, <1>6, <1>7, KeepsTransitive, Zenon DEF u

\* What persist_local_quit() does for a client that is no session.
Handed(w, u, c) ==
    /\ Steady(u) /\ (Live(w) => Live(u)) /\ u.conn = w.conn
    /\ Unlisted(w, c) => Unlisted(u, c)

\* Two such steps are one.
LEMMA HandedTransitive ==
    ASSUME NEW w, NEW v, NEW u, NEW c, Handed(w, v, c), Handed(v, u, c)
    PROVE  Handed(w, u, c)
  BY Zenon DEF Handed

\* HandOver() for an account with persistence on
LEMMA HandOverKeeps ==
    ASSUME NEW w, Steady(w), NEW c \in Conns, NEW a \in Accounts, w.entry[a].alloc,
           persistence_effective(w, a)
    PROVE  LET u == HandOver(w, c, a) IN
           Keeps(w, u) /\ u.conn = w.conn /\ (Unlisted(w, c) => Unlisted(u, c))
<1> DEFINE v1 == [w EXCEPT !.entry[a].canonical = None]
           v2 == destroy_ghost(v1, a)
           v3 == save_client_to_entry(v2, c, a)
           v4 == [v3 EXCEPT !.hash = @ \ {c}]
           v5 == IF v4.entry[a].sessions # <<>> THEN promote_session(v4, a)
                 ELSE do_create_ghost(v4, a)
           v6 == StripChannels(v5, c)
           v7 == [v6 EXCEPT !.name[c] = None]
           u == HandOver(w, c, a)
<1>1. u = MarkDirty(v7)
  BY Zenon DEF HandOver
<1> HIDE DEF u, v2, v3, v4, v5, v6, v7
<1>2. /\ Handed(w, v1, c) /\ v1.entry[a].alloc
      /\ v1.entry[a].preference = w.entry[a].preference
  <2>1. /\ Keeps(w, v1) /\ OneEntry(w, v1, a)
        /\ v1.entry[a].alloc = w.entry[a].alloc
        /\ v1.entry[a].preference = w.entry[a].preference
        /\ Unlisted(w, c) => Unlisted(v1, c)
    <3>1. None \in Conns \cup {None}
      BY Zenon
    <3> QED BY <3>1, CanonicalKeeps, Zenon
  <2> HIDE DEF v1
  <2> QED BY <2>1, Zenon DEF Handed, Keeps, Calm, OneEntry, SameClients
<1> HIDE DEF v1
<1>3. Dissolved(v1, v2, a) /\ Keeps(v1, v2)
  BY <1>2, DestroyKeeps, Zenon DEF Handed, v2
<1>4. Unlisted(v1, c) => Unlisted(v2, c)
  BY <1>3, Zenon DEF Dissolved, Unlisted
<1>5. /\ Handed(v1, v2, c) /\ v2.entry[a].alloc /\ ~v2.entry[a].ghost
      /\ v2.entry[a].preference = w.entry[a].preference
  BY <1>2, <1>3, <1>4, Zenon DEF Dissolved, Handed, Keeps, Calm
<1>6. /\ OneEntry(v2, v3, a) /\ Keeps(v2, v3)
      /\ v3.entry[a].alloc = v2.entry[a].alloc
      /\ v3.entry[a].sessions = v2.entry[a].sessions
      /\ v3.entry[a].preference = v2.entry[a].preference
  BY <1>5, SaveKeeps, Zenon DEF Handed, v3
<1>7. Unlisted(v2, c) => Unlisted(v3, c)
  BY <1>6, Zenon DEF OneEntry, Unlisted
<1>8. /\ Handed(v2, v3, c) /\ v3.entry[a].alloc
      /\ v3.entry[a].preference = w.entry[a].preference
  BY <1>5, <1>6, <1>7, Zenon DEF OneEntry, SameClients, Handed, Keeps, Calm
<1>9. Steady(v3)
  BY <1>8, Zenon DEF Handed
<1>10. /\ DOMAIN v4 = WorldFields /\ SameMembers(v3, v4) /\ v4.entry = v3.entry
       /\ v4.dirty = v3.dirty /\ v4.conn = v3.conn /\ v4.account = v3.account
       /\ v4.session = v3.session /\ v4.restore = v3.restore /\ v4.name = v3.name
       /\ v4.hash = v3.hash \ {c}
  BY <1>9, Zenon DEF Steady, Typed, WorldFields, SameMembers, v4
<1>11. OneClient(v3, v4, c)
  BY <1>9, <1>10, Zenon DEF OneClient, Steady, Typed
<1>12. Live(v3) => ClientFits(v3, v4, c)
  BY <1>10 DEF ClientFits, Live
<1>13. Handed(v3, v4, c)
  BY <1>9, <1>10, <1>11, <1>12, ClientKeeps, Zenon DEF Handed, Keeps, Calm
<1>14. v4.entry[a].alloc /\ persistence_effective(v4, a)
  BY <1>8, <1>10, Zenon DEF persistence_effective
<1>15. Handed(v4, v5, c)
  <2>1. CASE v4.entry[a].sessions # <<>>
    <3>1. v5 = promote_session(v4, a)
      BY <2>1, Zenon DEF v5
    <3> QED BY <1>13, <1>14, <2>1, <3>1, PromoteKeeps, Zenon DEF Handed, Keeps, Calm
  <2>2. CASE v4.entry[a].sessions = <<>>
    <3>1. v5 = do_create_ghost(v4, a)
      BY <2>2, Zenon DEF v5
    <3>2. v5.conn = v4.conn
      BY <3>1, <1>13, Zenon DEF do_create_ghost, AddSilently, Handed, Steady, Typed, WorldFields
    <3> QED BY <1>13, <1>14, <3>1, <3>2, GhostKeeps, Zenon DEF Handed
  <2> QED BY <2>1, <2>2, Zenon
<1>16. Handed(v5, v6, c)
  <2>1. Keeps(v5, v6) /\ OnlyMembers(v5, v6)
    BY <1>15, StripKeeps, Zenon DEF Handed, v6, Nicks
  <2> QED BY <2>1, Zenon DEF Handed, Keeps, Calm, OnlyMembers, SameClients, Unlisted
<1>17. Handed(v6, v7, c)
  BY <1>16, NamelessKeeps, Zenon DEF Handed, v7, Keeps, Calm
<1>18. Handed(v7, u, c) /\ \A d : Durable(u, d)
  BY <1>1, <1>17, DirtyKeeps, Zenon DEF Handed, Keeps, Calm, SameClients, Unlisted
<1>19. Handed(w, v4, c)
  BY <1>2, <1>5, <1>8, <1>13, HandedTransitive, Zenon
<1>20. Handed(v4, u, c)
  BY <1>15, <1>16, <1>17, <1>18, HandedTransitive, Zenon
<1> QED BY <1>18, <1>19, <1>20, Zenon DEF Handed, Keeps, Calm, u

\* persist_local_quit() for a registered client
LEMMA QuitKeeps ==
    ASSUME NEW w, Steady(w), NEW c \in Conns
    PROVE  LET u == persist_local_quit(w, c) IN
           Keeps(w, u) /\ u.conn = w.conn /\ (Live(w) => Unlisted(u, c))
<1> DEFINE a == w.account[c]
           x == get_or_create_entry(w, a)
           u == persist_local_quit(w, c)
<1>1. a \in Accounts \cup {None} /\ w.session[c] \in BOOLEAN
  BY Zenon DEF Steady, Typed
<1>2. ASSUME ~w.session[c] PROVE Live(w) => Unlisted(w, c)
  BY <1>2, Zenon DEF Live, Unlisted
<1>3. CASE w.session[c]
  <2>1. u = SessionQuit(w, c)
    BY <1>3, Zenon DEF persist_local_quit
  <2> QED BY <2>1, SessionQuitKeeps, Zenon
<1>4. CASE ~w.session[c] /\ a = None
  <2>1. u = w
    BY <1>4, Zenon DEF persist_local_quit
  <2> QED BY <1>2, <1>4, <2>1, Zenon DEF Keeps, Calm
<1>5. CASE ~w.session[c] /\ a # None /\ ~persistence_effective(w, a)
  <2>1. u = IF w.entry[a].alloc /\ w.entry[a].canonical = c
            THEN [w EXCEPT !.entry[a].canonical = None] ELSE w
    BY <1>5, Zenon DEF persist_local_quit
  <2> DEFINE v == [w EXCEPT !.entry[a].canonical = None]
  <2>2. Keeps(w, v) /\ OneEntry(w, v, a) /\ (Unlisted(w, c) => Unlisted(v, c))
    BY <1>1, <1>5, CanonicalKeeps, Zenon
  <2> HIDE DEF v
  <2>3. u = v \/ u = w
    BY <2>1, Zenon DEF v
  <2> QED BY <1>2, <1>5, <2>2, <2>3, Zenon DEF Keeps, Calm, OneEntry, SameClients
<1>6. CASE ~w.session[c] /\ a # None /\ persistence_effective(w, a)
  <2>1. u = IF x.entry[a].canonical \in {None, c} THEN HandOver(x, c, a) ELSE x
    BY <1>6, Zenon DEF persist_local_quit
  <2>2. /\ Keeps(w, x) /\ x.entry[a].alloc /\ SameClients(w, x)
        /\ Unlisted(w, c) => Unlisted(x, c)
    BY <1>1, <1>6, CreateKeeps, Zenon
  <2>3. persistence_effective(x, a)
    <3>1. CASE w.entry[a].alloc
      BY <1>6, <3>1, Zenon DEF get_or_create_entry
    <3>2. CASE ~w.entry[a].alloc
      <4>1. x.entry[a] = NewEntry
        BY <1>1, <1>6, <3>2, Zenon DEF get_or_create_entry, Steady, Typed, WorldFields
      <4> QED BY <1>6, <3>2, <4>1, NewEntryType, Zenon DEF persistence_effective
    <3> QED BY <3>1, <3>2, Zenon
  <2> HIDE DEF x
  <2> DEFINE v == HandOver(x, c, a)
  <2>4. Keeps(x, v) /\ v.conn = x.conn /\ (Unlisted(x, c) => Unlisted(v, c))
    BY <1>1, <1>6, <2>2, <2>3, HandOverKeeps, Zenon DEF Keeps, Calm
  <2> HIDE DEF v
  <2>5. Keeps(w, v)
    BY <2>2, <2>4, KeepsTransitive, Zenon
  <2>6. u = v \/ u = x
    BY <2>1, Zenon DEF v
  <2> QED BY <1>2, <1>6, <2>2, <2>4, <2>5, <2>6, Zenon DEF SameClients
<1> QED BY <1>1, <1>3, <1>4, <1>5, <1>6, Zenon

\* exit_client()
LEMMA ExitKeeps ==
    ASSUME NEW w, Steady(w), NEW c \in Conns
    PROVE  Keeps(w, exit_client(w, c))
<1> DEFINE v == IF w.conn[c] = "user" THEN persist_local_quit(w, c) ELSE w
           told == [ch \in Chans |-> IF c \in v.in[ch] THEN v.seen[ch] \ {v.name[c]}
                                     ELSE v.seen[ch]]
           x == StripChannels(v, c)
           y == [x EXCEPT !.seen = told]
           u == exit_client(w, c)
<1>1. Keeps(w, v) /\ (Live(w) => Unlisted(v, c))
  <2>1. CASE w.conn[c] = "user"
    BY <2>1, QuitKeeps, Zenon
  <2>2. CASE w.conn[c] # "user"
    <3>1. Live(w) => Unlisted(w, c)
      BY <2>2, Zenon DEF Live, Unlisted
    <3> QED BY <2>2, <3>1, Zenon DEF Keeps, Calm
  <2> QED BY <2>1, <2>2, Zenon
<1>2. u = [x EXCEPT !.seen = told, !.hash = @ \ {c}, !.conn[c] = "off", !.name[c] = None,
                    !.account[c] = None, !.session[c] = FALSE, !.restore[c] = None]
  BY Zenon DEF exit_client
<1> HIDE DEF v, u
<1>3. Steady(v) /\ c \in Nicks
  BY <1>1, Zenon DEF Keeps, Calm, Nicks
<1>4. /\ Keeps(v, x) /\ OnlyMembers(v, x)
      /\ \A ch \in Chans : c \notin x.in[ch] /\ c \notin x.shadow[ch]
  BY <1>3, StripKeeps, Zenon
<1>5. told \in [Chans -> SUBSET (Nicks \cup {None})]
  BY <1>3, Zenon DEF Steady, Typed
<1> HIDE DEF x, told
<1>6. Steady(x) /\ x.entry = v.entry
  BY <1>4, Zenon DEF Keeps, Calm, OnlyMembers
<1>7. /\ DOMAIN y = WorldFields /\ SameClients(x, y) /\ y.in = x.in /\ y.shadow = x.shadow
      /\ y.entry = x.entry /\ y.dirty = x.dirty /\ y.seen = told
  BY <1>6, Zenon DEF Steady, Typed, WorldFields, SameClients
<1>8. /\ DOMAIN u = WorldFields /\ u.in = x.in /\ u.shadow = x.shadow /\ u.seen = told
      /\ u.entry = x.entry /\ u.dirty = x.dirty /\ u.hash = x.hash \ {c}
      /\ u.conn = [x.conn EXCEPT ![c] = "off"] /\ u.name = [x.name EXCEPT ![c] = None]
      /\ u.account = [x.account EXCEPT ![c] = None]
      /\ u.session = [x.session EXCEPT ![c] = FALSE]
      /\ u.restore = [x.restore EXCEPT ![c] = None]
  BY <1>2, <1>6, Zenon DEF Steady, Typed, WorldFields
<1> HIDE DEF y
<1>9. OnlyMembers(x, y) /\ MembersFit(x, y)
  BY <1>5, <1>6, <1>7, Zenon DEF OnlyMembers, MembersFit, Steady, Typed, SameClients
<1>10. Keeps(x, y) /\ Steady(y)
  BY <1>6, <1>9, MembersKeep, Zenon DEF Keeps, Calm
<1>11. OneClient(y, u, c)
  <2>1. u.session \in [Conns -> BOOLEAN]
    <3>1. x.session \in [Conns -> BOOLEAN]
      BY <1>6, Zenon DEF Steady, Typed
    <3>2. [x.session EXCEPT ![c] = FALSE] \in [Conns -> BOOLEAN]
      BY <3>1, Zenon
    <3> QED BY <1>8, <3>2, Zenon
  <2>2. u.conn \in [Conns -> {"off", "unreg", "user"}]
    BY <1>6, <1>8 DEF Steady, Typed
  <2> QED BY <1>6, <1>7, <1>8, <2>1, <2>2
          DEF OneClient, Steady, Typed, SameMembers, SameClients
<1>12. u.session[c] = FALSE
  BY <1>6, <1>8 DEF Steady, Typed
<1>13. Unlisted(v, c) => Unlisted(y, c)
  BY <1>6, <1>7, Zenon DEF Unlisted
<1>14. ASSUME Live(w) PROVE ClientFits(y, u, c)
  BY <1>1, <1>4, <1>7, <1>8, <1>12, <1>13, <1>14, Zenon DEF ClientFits
<1>15. Calm(y, u) /\ (Live(y) /\ ClientFits(y, u, c) => Live(u))
  BY <1>10, <1>11, ClientKeeps, Zenon
<1>16. Keeps(w, y)
  BY <1>1, <1>4, <1>10, KeepsTransitive, Zenon
<1> QED BY <1>14, <1>15, <1>16, Zenon DEF Keeps, Calm, u

\* ReclaimGhost()
LEMMA ReclaimKeeps ==
    ASSUME NEW w, Steady(w), NEW a \in Accounts
    PROVE  LET u == ReclaimGhost(w, a) IN
           /\ Keeps(w, u) /\ u.conn = w.conn /\ u.account = w.account
           /\ \A c \in Conns : Unlisted(w, c) => Unlisted(u, c)
<1> DEFINE e == [w.entry[a] EXCEPT !.saved = ChannelsOf(w, a)]
           v == [w EXCEPT !.entry[a].saved = ChannelsOf(w, a)]
           u == ReclaimGhost(w, a)
<1>1. CASE ~(w.entry[a].alloc /\ w.entry[a].ghost)
  <2>1. u = w
    BY <1>1, Zenon DEF ReclaimGhost
  <2> QED BY <2>1, Zenon DEF Keeps, Calm
<1>2. CASE w.entry[a].alloc /\ w.entry[a].ghost
  <2>1. u = destroy_ghost(v, a)
    BY <1>2, Zenon DEF ReclaimGhost
  <2>2. w.entry \in [Accounts -> Entry] /\ w.entry[a] \in Entry
    BY Zenon DEF Steady, Typed
  <2>3. ChannelsOf(w, a) \subseteq Chans
    BY Zenon DEF ChannelsOf
  <2>4. /\ DOMAIN v = WorldFields /\ SameClients(w, v) /\ SameMembers(w, v)
        /\ v.dirty = w.dirty /\ v.entry = [w.entry EXCEPT ![a] = e]
    BY Zenon DEF Steady, Typed, WorldFields, SameClients, SameMembers
  <2>5. /\ e \in Entry /\ e.alloc = w.entry[a].alloc /\ e.ghost = w.entry[a].ghost
        /\ e.sessions = w.entry[a].sessions /\ e.preference = w.entry[a].preference
        /\ e.nick = w.entry[a].nick
    BY <2>2, <2>3, Zenon DEF Entry
  <2> HIDE DEF u, v, e
  <2>6. OneEntry(w, v, a) /\ v.entry[a] = e
    BY <2>2, <2>4, <2>5, Zenon DEF OneEntry
  <2>7. GhostFits(w, v, a)
    BY <2>5, <2>6, Zenon DEF GhostFits
  <2>8. Live(w) => ListFits(w, v, a)
    BY <2>5, <2>6, Zenon DEF Live, ListFits
  <2>9. Keeps(w, v)
    BY <2>6, <2>7, <2>8, EntryKeeps, Zenon DEF Keeps
  <2>10. Dissolved(v, u, a) /\ Keeps(v, u)
    BY <1>2, <2>1, <2>5, <2>6, <2>9, DestroyKeeps, Zenon DEF Keeps, Calm
  <2>11. \A c \in Conns : Unlisted(w, c) => Unlisted(u, c)
    BY <2>5, <2>6, <2>10 DEF OneEntry, Dissolved, Unlisted
  <2>12. u.conn = w.conn /\ u.account = w.account
    BY <2>4, <2>10, Zenon DEF Dissolved, SameClients
  <2> QED BY <2>9, <2>10, <2>11, <2>12, KeepsTransitive, Zenon DEF u
<1> QED BY <1>1, <1>2, Zenon

\* EnforceNick()
LEMMA EnforceKeeps ==
    ASSUME NEW w, Steady(w), NEW c \in Conns, NEW a \in Accounts
    PROVE  LET u == EnforceNick(w, c, a) IN
           /\ Keeps(w, u) /\ u.conn = w.conn /\ u.account = w.account
           /\ Unlisted(w, c) => Unlisted(u, c)
<1> DEFINE v == [w EXCEPT !.name[c] = a, !.hash = @ \cup {c}]
           u == EnforceNick(w, c, a)
<1>1. CASE w.conn[c] = "unreg"
  <2>1. u = w \/ u = v
    BY Zenon DEF EnforceNick
  <2>2. /\ DOMAIN v = WorldFields /\ SameMembers(w, v) /\ v.entry = w.entry
        /\ v.dirty = w.dirty /\ v.conn = w.conn /\ v.account = w.account
        /\ v.session = w.session /\ v.restore = w.restore
        /\ v.hash = w.hash \cup {c} /\ v.name = [w.name EXCEPT ![c] = a]
    BY Zenon DEF Steady, Typed, WorldFields, SameMembers
  <2> HIDE DEF u, v
  <2>3. OneClient(w, v, c)
    BY <2>2 DEF OneClient, Steady, Typed, Nicks
  <2>4. Live(w) => ClientFits(w, v, c)
    BY <1>1, <2>2 DEF ClientFits, Live
  <2>5. Keeps(w, v) /\ (Unlisted(w, c) => Unlisted(v, c))
    BY <2>3, <2>4, ClientKeeps, Zenon DEF Keeps
  <2>6. Keeps(w, w)
    BY Zenon DEF Keeps, Calm
  <2> QED BY <2>1, <2>2, <2>5, <2>6, Zenon DEF u
<1>2. CASE w.conn[c] # "unreg"
  <2>1. u = w
    BY <1>2, Zenon DEF EnforceNick
  <2> QED BY <2>1, Zenon DEF Keeps, Calm
<1> QED BY <1>1, <1>2, Zenon

\* AttachOrRestore() for a client of a
LEMMA AttachKeeps ==
    ASSUME NEW w, Steady(w), NEW c \in Conns, NEW a \in Accounts, w.account[c] = a
    PROVE  Admits(w, AttachOrRestore(w, c, a), c)
<1> DEFINE alone == [w EXCEPT !.entry[a].canonical = None]
           asked == [alone EXCEPT !.restore[c] = a]
           queued == MarkDirty(asked)
           back == restore_channels(queued, c, a)
           canon == [back EXCEPT !.entry[a].canonical = c]
           att == [w EXCEPT !.hash = @ \ {c}, !.name[c] = a, !.session[c] = TRUE,
                            !.restore[c] = a]
           u == AttachOrRestore(w, c, a)
<1>1. u \in {exit_client(w, c), att, alone, canon, queued}
  <2>1. w.entry[a].sessions \in Seq(Conns)
    BY Zenon DEF Steady, Typed, Entry
  <2>2. Len(w.entry[a].sessions) \in Nat /\ PERSIST_MAX_SESSIONS \in Nat
    BY <2>1, SessionsAssumption
  <2> DEFINE full == Len(w.entry[a].sessions) >= PERSIST_MAX_SESSIONS
             room == Len(w.entry[a].sessions) < PERSIST_MAX_SESSIONS
  <2>3. full \/ room
    BY <2>2
  <2>4. room => ~full
    BY <2>2
  <2>5. u = CASE CanonicalLive(w, a) /\ full -> exit_client(w, c)
              [] CanonicalLive(w, a) /\ room -> att
              [] ~CanonicalLive(w, a) /\ ~persistence_effective(w, a) -> alone
              [] OTHER -> IF w.conn[c] = "user" THEN canon ELSE queued
    BY Zenon DEF AttachOrRestore
  <2> HIDE DEF full, room, att, alone, canon, queued, u
  <2> QED BY <2>3, <2>4, <2>5, Zenon
<1> HIDE DEF u
<1>2. Keeps(w, exit_client(w, c))
  BY ExitKeeps, Zenon
<1>3. Admits(w, att, c)
  <2>1. /\ DOMAIN att = WorldFields /\ SameMembers(w, att) /\ att.entry = w.entry
        /\ att.dirty = w.dirty /\ att.conn = w.conn /\ att.account = w.account
        /\ att.session = [w.session EXCEPT ![c] = TRUE]
        /\ att.restore = [w.restore EXCEPT ![c] = a]
        /\ att.hash = w.hash \ {c} /\ att.name = [w.name EXCEPT ![c] = a]
    BY Zenon DEF Steady, Typed, WorldFields, SameMembers
  <2> HIDE DEF att
  <2>2. att.session \in [Conns -> BOOLEAN]
    <3>1. w.session \in [Conns -> BOOLEAN]
      BY Zenon DEF Steady, Typed
    <3>2. [w.session EXCEPT ![c] = TRUE] \in [Conns -> BOOLEAN]
      BY <3>1, Zenon
    <3> QED BY <2>1, <3>2, Zenon
  <2>3. OneClient(w, att, c)
    BY <2>1, <2>2 DEF OneClient, Steady, Typed, Nicks
  <2>4. att.session[c] /\ att.account[c] # None
    BY <2>1, NamesAssumption DEF Steady, Typed
  <2>5. Arriving(w, c) => ClientFits(w, att, c)
    BY <2>1, <2>4, Zenon DEF ClientFits, Arriving
  <2> QED BY <2>3, <2>5, ClientKeeps, Zenon DEF Admits, Arriving
<1>4. /\ Keeps(w, alone) /\ OneEntry(w, alone, a)
      /\ Unlisted(w, c) => Unlisted(alone, c)
  <2>1. None \in Conns \cup {None}
    BY Zenon
  <2> QED BY <2>1, CanonicalKeeps, Zenon
<1> HIDE DEF alone
<1>5. Steady(alone) /\ alone.conn = w.conn
  BY <1>4, Zenon DEF Keeps, Calm, OneEntry, SameClients
<1>6. Admits(w, asked, c) /\ asked.conn = w.conn /\ (Arriving(w, c) => Arriving(asked, c))
  <2>1. /\ DOMAIN asked = WorldFields /\ SameMembers(alone, asked)
        /\ asked.entry = alone.entry /\ asked.dirty = alone.dirty
        /\ asked.conn = alone.conn /\ asked.account = alone.account
        /\ asked.session = alone.session /\ asked.name = alone.name
        /\ asked.restore = [alone.restore EXCEPT ![c] = a] /\ asked.hash = alone.hash
    BY <1>5, Zenon DEF Steady, Typed, WorldFields, SameMembers
  <2> HIDE DEF asked
  <2>2. OneClient(alone, asked, c)
    BY <1>5, <2>1 DEF OneClient, Steady, Typed
  <2>3. Arriving(w, c) => ClientFits(alone, asked, c)
    <3>1. Arriving(w, c) => Arriving(alone, c)
      BY <1>4, <1>5, Zenon DEF Keeps, Arriving
    <3> QED BY <2>1, <3>1 DEF ClientFits, Live, Arriving
  <2>4. /\ Calm(alone, asked) /\ (Live(alone) /\ ClientFits(alone, asked, c) => Live(asked))
        /\ Unlisted(alone, c) => Unlisted(asked, c)
    BY <1>5, <2>2, ClientKeeps, Zenon
  <2> QED BY <1>4, <1>5, <2>1, <2>3, <2>4, Zenon DEF Keeps, Calm, Admits, Arriving
<1> HIDE DEF asked
<1>7. Keeps(asked, queued) /\ queued.conn = w.conn /\ queued.entry = asked.entry
  BY <1>6, DirtyKeeps, Zenon DEF Admits, Calm, SameClients
<1> HIDE DEF queued
<1>8. Admits(w, queued, c) /\ Steady(queued) /\ (Arriving(w, c) => Arriving(queued, c))
  BY <1>6, <1>7, Zenon DEF Keeps, Calm, Unlisted, Admits, Arriving
<1>9. Admits(queued, back, c) /\ Steady(back)
  BY <1>8, RestoreKeeps, Zenon DEF Admits, Calm
<1> HIDE DEF back
<1>10. Keeps(back, canon)
  BY <1>9, CanonicalKeeps, Zenon
<1>11. Admits(w, canon, c)
  BY <1>8, <1>9, <1>10, Zenon DEF Keeps, Calm, Admits
<1>12. Admits(w, exit_client(w, c), c) /\ Admits(w, alone, c)
  BY <1>2, <1>4, Zenon DEF Keeps, Admits, Arriving
<1> QED BY <1>1, <1>3, <1>8, <1>11, <1>12, Zenon DEF u

\* persist_account_login() for a client of a
LEMMA LoginKeeps ==
    ASSUME NEW w, Steady(w), NEW c \in Conns, NEW a \in Accounts, w.account[c] = a
    PROVE  Admits(w, persist_account_login(w, c, a), c)
<1> DEFINE v == ReclaimGhost(w, a)
           x == EnforceNick(v, c, a)
           y == AttachOrRestore(x, c, a)
           u == persist_account_login(w, c, a)
<1>1. Keeps(w, v) /\ v.conn = w.conn /\ v.account = w.account /\ (Unlisted(w, c) => Unlisted(v, c))
  BY ReclaimKeeps, Zenon
<1>2. u = y \/ u = x
  BY Zenon DEF persist_account_login
<1> HIDE DEF u, v
<1>3. Keeps(v, x) /\ x.conn = v.conn /\ x.account = v.account /\ (Unlisted(v, c) => Unlisted(x, c))
  BY <1>1, EnforceKeeps, Zenon DEF Keeps, Calm
<1> HIDE DEF x
<1>4. Admits(w, x, c) /\ Steady(x) /\ (Arriving(w, c) => Arriving(x, c))
  BY <1>1, <1>3, Zenon DEF Keeps, Calm, Admits, Arriving
<1>5. Admits(x, y, c)
  BY <1>1, <1>3, <1>4, AttachKeeps, Zenon
<1> HIDE DEF y
<1>6. Admits(w, y, c)
  BY <1>4, <1>5, Zenon DEF Calm, Admits
<1> QED BY <1>2, <1>4, <1>6, Zenon DEF u

\* A list with a new head.
Push(c, l) == <<c>> \o l

\* It has one more member, and no other twice.
LEMMA PushKeeps ==
    ASSUME NEW c \in Conns, NEW l \in Seq(Conns)
    PROVE  /\ Push(c, l) \in Seq(Conns) /\ Listed(Push(c, l)) = Listed(l) \cup {c}
           /\ Distinct(l) /\ c \notin Listed(l) => Distinct(Push(c, l))
<1> DEFINE m == Push(c, l)
           n == Len(l)
<1>1. /\ n \in Nat /\ DOMAIN l = 1..n
      /\ m \in Seq(Conns) /\ DOMAIN m = 1..n + 1 /\ m[1] = c
      /\ \A i \in 1..n : m[i + 1] = l[i]
  BY DEF Push
<1> HIDE DEF m, n
<1>2. ASSUME NEW i \in 1..n + 1, i # 1 PROVE i - 1 \in 1..n /\ m[i] = l[i - 1]
  <2>1. i - 1 \in 1..n /\ (i - 1) + 1 = i
    BY <1>1, <1>2
  <2>2. m[(i - 1) + 1] = l[i - 1]
    BY <1>1, <2>1, Zenon
  <2> QED BY <2>1, <2>2, Zenon
<1>3. 1 \in 1..n + 1 /\ \A i \in 1..n : i + 1 \in 1..n + 1
  BY <1>1
<1>4. Listed(m) = Listed(l) \cup {c}
  <2>1. Listed(m) \subseteq Listed(l) \cup {c}
    BY <1>1, <1>2 DEF Listed
  <2>2. Listed(l) \cup {c} \subseteq Listed(m)
    BY <1>1, <1>3, Zenon DEF Listed
  <2> QED BY <2>1, <2>2, Zenon
<1>5. ASSUME Distinct(l), c \notin Listed(l), NEW i \in 1..n + 1, NEW j \in 1..n + 1,
             m[i] = m[j]
      PROVE  i = j
  <2>1. CASE i = 1 \/ j = 1
    BY <1>1, <1>2, <1>5, <2>1, Zenon DEF Listed
  <2>2. CASE i # 1 /\ j # 1
    <3>1. i - 1 \in 1..n /\ j - 1 \in 1..n /\ l[i - 1] = l[j - 1]
      BY <1>2, <1>5, <2>2, Zenon
    <3>2. i - 1 = j - 1
      BY <1>1, <1>5, <3>1, Zenon DEF Distinct
    <3> QED BY <1>1, <3>2
  <2> QED BY <2>1, <2>2, Zenon
<1> QED BY <1>1, <1>4, <1>5, Zenon DEF Distinct, m

\* setup_session() for a session of the entry that is on no list
LEMMA SetupKeeps ==
    ASSUME NEW w, Steady(w), NEW c \in Conns, NEW a \in Accounts, w.conn[c] = "user",
           w.session[c], w.restore[c] = a
    PROVE  Admits(w, setup_session(w, c, a), c)
<1> DEFINE cs == {ch \in ChannelsOf(w, w.entry[a].canonical) : c \notin w.in[ch]}
           l == w.entry[a].sessions
           m == <<c>> \o l
           e == [w.entry[a] EXCEPT !.sessions = m]
           v == add_session(w, c, a)
           shown == [ch \in Chans |-> IF ch \in cs THEN w.shadow[ch] \cup {c} ELSE w.shadow[ch]]
           here == [ch \in Chans |-> IF ch \in cs THEN w.in[ch] \cup {c} ELSE w.in[ch]]
           u == setup_session(w, c, a)
<1>1. CASE ~CanonicalLive(w, a)
  <2>1. u = w
    BY <1>1, Zenon DEF setup_session
  <2> QED BY <2>1, Zenon DEF Admits, Calm, Arriving
<1>2. CASE CanonicalLive(w, a)
  <2>1. w.entry \in [Accounts -> Entry] /\ w.entry[a] \in Entry /\ l \in Seq(Conns)
    BY Zenon DEF Steady, Typed, Entry
  <2>2. /\ DOMAIN v = WorldFields /\ SameClients(w, v) /\ SameMembers(w, v)
        /\ v.dirty = w.dirty /\ v.entry = [w.entry EXCEPT ![a] = e]
    BY Zenon DEF add_session, Steady, Typed, WorldFields, SameClients, SameMembers
  <2>3. u = [AddSilently(v, c, cs) EXCEPT
                !.shadow = [ch \in Chans |-> IF ch \in cs THEN @[ch] \cup {c} ELSE @[ch]]]
    BY <1>2, Zenon DEF setup_session
  <2>4. /\ m \in Seq(Conns) /\ Listed(m) = Listed(l) \cup {c}
        /\ Distinct(l) /\ c \notin Listed(l) => Distinct(m)
    BY <2>1, PushKeeps, Zenon DEF Push
  <2> HIDE DEF m
  <2>5. /\ e \in Entry /\ e.alloc = w.entry[a].alloc /\ e.ghost = w.entry[a].ghost
        /\ e.sessions = m /\ e.preference = w.entry[a].preference
        /\ e.nick = w.entry[a].nick
    BY <2>1, <2>4, Zenon DEF Entry
  <2> HIDE DEF e, v, u, l
  <2>6. OneEntry(w, v, a) /\ v.entry[a] = e
    BY <2>1, <2>2, <2>5, Zenon DEF OneEntry
  <2>7. GhostFits(w, v, a)
    BY <2>5, <2>6, Zenon DEF GhostFits
  <2>8. Arriving(w, c) => ListFits(w, v, a)
    <3>1. ASSUME Arriving(w, c), w.entry[a].alloc
          PROVE  /\ Distinct(m)
                 /\ \A s \in Listed(m) : \/ s \in Listed(l)
                                         \/ w.conn[s] = "user" /\ w.session[s] /\ w.restore[s] = a
      BY <2>4, <3>1, Zenon DEF Live, Arriving, Unlisted, l
    <3> QED BY <2>5, <2>6, <3>1, Zenon DEF ListFits, l
  <2>9. Calm(w, v) /\ (Live(w) /\ ListFits(w, v, a) => Live(v))
    BY <2>6, <2>7, EntryKeeps, Zenon
  <2>10. /\ DOMAIN u = WorldFields /\ SameClients(v, u) /\ u.seen = v.seen
         /\ u.entry = v.entry /\ u.dirty = v.dirty /\ u.in = here /\ u.shadow = shown
    BY <2>2, <2>3, Zenon DEF AddSilently, SameClients, SameMembers, WorldFields
  <2> HIDE DEF cs
  <2>11. OnlyMembers(v, u) /\ MembersFit(v, u)
    BY <2>2, <2>10, NamesAssumption
       DEF OnlyMembers, MembersFit, Steady, Typed, SameClients, SameMembers, Nicks
  <2>12. Calm(v, u) /\ (Live(v) /\ MembersFit(v, u) => Live(u))
    BY <2>9, <2>11, MembersKeep, Zenon DEF Calm
  <2>13. Admits(w, u, c)
    BY <2>8, <2>9, <2>11, <2>12, Zenon DEF Calm, Admits, Arriving
  <2> QED BY <2>13, Zenon DEF u
<1> QED BY <1>1, <1>2, Zenon

\* persist_welcome() for a client that has just been registered
LEMMA WelcomeKeeps ==
    ASSUME NEW w, Steady(w), NEW c \in Conns, w.conn[c] = "user"
    PROVE  Admits(w, persist_welcome(w, c), c)
<1> DEFINE a == w.restore[c]
           v == restore_channels(w, c, a)
           x == [v EXCEPT !.entry[a].canonical = c]
           u == persist_welcome(w, c)
<1>1. a \in Accounts \cup {None}
  BY Zenon DEF Steady, Typed
<1>2. CASE a = None
  <2>1. u = w
    BY <1>2, Zenon DEF persist_welcome
  <2> QED BY <2>1, Zenon DEF Admits, Calm, Arriving
<1>3. CASE a # None /\ w.session[c]
  <2>1. u = setup_session(w, c, a)
    BY <1>3, Zenon DEF persist_welcome
  <2> QED BY <1>1, <1>3, <2>1, SetupKeeps, Zenon
<1>4. CASE a # None /\ ~w.session[c]
  <2>1. u = x
    BY <1>4, Zenon DEF persist_welcome
  <2>2. Admits(w, v, c)
    BY <1>1, <1>4, RestoreKeeps, Zenon
  <2> HIDE DEF v
  <2>3. Keeps(v, x)
    BY <1>1, <1>4, <2>2, CanonicalKeeps, Zenon DEF Admits, Calm
  <2> HIDE DEF x
  <2> QED BY <2>1, <2>2, <2>3, Zenon DEF Keeps, Calm, Admits
<1> QED BY <1>2, <1>3, <1>4, Zenon

\* persist_local_nickchange()
LEMMA NickChangeKeeps ==
    ASSUME NEW w, Steady(w), NEW c \in Conns, NEW n \in Nicks
    PROVE  LET u == persist_local_nickchange(w, c, n) IN Keeps(w, u) /\ u.conn = w.conn
<1> DEFINE a == w.account[c]
           g == Listed(w.entry[a].sessions)
           e == [w.entry[a] EXCEPT !.nick = n]
           v == [w EXCEPT !.entry[a].nick = n,
                          !.name = [d \in Conns |-> IF d \in g THEN n ELSE @[d]]]
           u == persist_local_nickchange(w, c, n)
<1>1. a \in Accounts \cup {None}
  BY Zenon DEF Steady, Typed
<1>2. CASE a = None \/ ~w.entry[a].alloc \/ w.entry[a].canonical # c
  <2>1. u = w
    BY <1>2, Zenon DEF persist_local_nickchange
  <2> QED BY <2>1, Zenon DEF Keeps, Calm
<1>3. CASE ~(a = None \/ ~w.entry[a].alloc \/ w.entry[a].canonical # c)
  <2>1. u = MarkDirty(v)
    BY <1>3, Zenon DEF persist_local_nickchange
  <2>2. a \in Accounts /\ w.entry \in [Accounts -> Entry] /\ w.entry[a] \in Entry
    BY <1>1, <1>3, Zenon DEF Steady, Typed
  <2> HIDE DEF g, a
  <2>3. /\ DOMAIN v = WorldFields /\ v.conn = w.conn /\ v.account = w.account
        /\ v.session = w.session /\ v.restore = w.restore /\ v.hash = w.hash
        /\ SameMembers(w, v) /\ v.dirty = w.dirty
        /\ v.entry = [w.entry EXCEPT ![a] = e]
        /\ v.name = [d \in Conns |-> IF d \in g THEN n ELSE w.name[d]]
    BY Zenon DEF Steady, Typed, WorldFields, SameMembers
  <2>4. /\ e \in Entry /\ e.alloc = w.entry[a].alloc /\ e.ghost = w.entry[a].ghost
        /\ e.sessions = w.entry[a].sessions /\ e.preference = w.entry[a].preference
        /\ e.nick = n
    BY <2>2, Zenon DEF Entry
  <2> HIDE DEF v, e
  <2>5. /\ v.entry \in [Accounts -> Entry] /\ v.entry[a] = e
        /\ \A b \in Accounts \ {a} : v.entry[b] = w.entry[b]
    BY <2>2, <2>3, <2>4, Zenon
  <2>6. v.name \in [Conns -> Nicks \cup {None}]
    BY <2>3 DEF Steady, Typed
  <2>7. Typed(v)
    BY <2>3, <2>5, <2>6, Zenon DEF Steady, Typed, SameMembers
  <2>8. n # None
    BY NamesAssumption, Zenon DEF Nicks
  <2>9. Ghosts(v)
    BY <2>3, <2>4, <2>5, <2>8
       DEF Steady, Ghosts, Haunting, persistence_effective, SameMembers
  <2>10. Live(w) => Live(v)
    BY <2>3, <2>4, <2>5 DEF Live, SameMembers
  <2>11. Keeps(v, u) /\ SameClients(v, u) /\ \A d : Durable(u, d)
    BY <2>1, <2>7, <2>9, DirtyKeeps, Zenon DEF Steady
  <2> HIDE DEF u
  <2>12. Keeps(w, u) /\ u.conn = w.conn
    BY <2>3, <2>10, <2>11, Zenon DEF Keeps, Calm, SameClients
  <2> QED BY <2>12, Zenon DEF u
<1> QED BY <1>2, <1>3, Zenon

\* DropShadows() and LeaveChannel()
LEMMA LeaveKeeps ==
    ASSUME NEW w, Steady(w), NEW x \in Nicks, NEW ch \in Chans
    PROVE  Keeps(w, DropShadows(w, x, ch)) /\ Keeps(w, LeaveChannel(w, x, ch))
<1> DEFINE a == IF x \in Accounts THEN x ELSE w.account[x]
           g == {s \in Listed(w.entry[a].sessions) : s \in w.shadow[ch]}
           v == [w EXCEPT !.in[ch] = @ \ g, !.shadow[ch] = @ \ g]
           u == LeaveChannel(w, x, ch)
<1>1. DropShadows(w, x, ch) = w \/ DropShadows(w, x, ch) = v
  BY Zenon DEF DropShadows
<1> HIDE DEF g
<1>2. /\ DOMAIN v = WorldFields /\ SameClients(w, v) /\ v.entry = w.entry
      /\ v.dirty = w.dirty /\ v.seen = w.seen
      /\ v.in = [w.in EXCEPT ![ch] = @ \ g]
      /\ v.shadow = [w.shadow EXCEPT ![ch] = @ \ g]
  BY Zenon DEF Steady, Typed, WorldFields, SameClients
<1>3. /\ DOMAIN u = WorldFields /\ SameClients(w, u) /\ u.entry = w.entry
      /\ u.dirty = w.dirty
      /\ u.in = [w.in EXCEPT ![ch] = @ \ {x}]
      /\ u.shadow = [w.shadow EXCEPT ![ch] = @ \ {x}]
      /\ u.seen = [w.seen EXCEPT ![ch] = @ \ {NameOf(w, x)}]
  BY Zenon DEF LeaveChannel, Steady, Typed, WorldFields, SameClients
<1> HIDE DEF v, u
<1>4. OnlyMembers(w, v) /\ MembersFit(w, v)
  BY <1>2 DEF OnlyMembers, MembersFit, Steady, Typed
<1>5. OnlyMembers(w, u) /\ MembersFit(w, u)
  BY <1>3 DEF OnlyMembers, MembersFit, Steady, Typed
<1>6. Keeps(w, v) /\ Keeps(w, u) /\ Keeps(w, w)
  BY <1>4, <1>5, MembersKeep, Zenon DEF Keeps, Calm
<1> QED BY <1>1, <1>6, Zenon DEF u

-----------------------------------------------------------------------------
(* The database *)

\* The records of a file: entries without ghost and sessions.
Stored(d) ==
    /\ d \in [Accounts -> Entry]
    /\ \A a \in Accounts : d[a].ghost = FALSE /\ d[a].sessions = <<>>

\* DBRecord()
LEMMA RecordStored ==
    ASSUME NEW w, Steady(w), NEW a \in Accounts
    PROVE  LET r == DBRecord(w, a) IN
           /\ r \in Entry /\ r.ghost = FALSE /\ r.sessions = <<>>
           /\ Haunting(w, a) /\ ChannelsOf(w, a) # {} =>
                 /\ r.alloc /\ r.saved = ChannelsOf(w, a) /\ r.nick = w.entry[a].nick
                 /\ r.preference = w.entry[a].preference /\ r.old = w.entry[a].old
           /\ Haunting(w, a) /\ ChannelsOf(w, a) = {} => r.saved = {}
<1> DEFINE e == w.entry[a]
           cs == IF e.ghost THEN ChannelsOf(w, a)
                 ELSE IF CanonicalLive(w, a) THEN ChannelsOf(w, e.canonical) ELSE e.saved
           n == [NewEntry EXCEPT !.nick = e.nick, !.saved = cs,
                                 !.preference = e.preference, !.old = e.old]
           r == DBRecord(w, a)
<1>1. r = IF e.alloc /\ (cs # {} \/ e.preference # "default") THEN n ELSE EmptyEntry
  BY Zenon DEF DBRecord
<1>2. e \in Entry
  BY Zenon DEF Steady, Typed
<1>3. cs \in SUBSET Chans
  BY <1>2, Zenon DEF ChannelsOf, Entry
<1>4. w.entry[a].ghost => cs = ChannelsOf(w, a)
  BY Zenon
<1>5. EmptyEntry.saved = {}
  BY Zenon DEF EmptyEntry
<1> HIDE DEF cs, r
<1>6. /\ n \in Entry /\ n.ghost = FALSE /\ n.sessions = <<>> /\ n.alloc = TRUE
      /\ n.saved = cs /\ n.nick = e.nick /\ n.preference = e.preference /\ n.old = e.old
  BY <1>2, <1>3, NewEntryType, Zenon DEF Entry
<1> HIDE DEF n
<1>7. r \in Entry /\ r.ghost = FALSE /\ r.sessions = <<>>
  BY <1>1, <1>6, NewEntryType, Zenon
<1>8. ASSUME Haunting(w, a), ChannelsOf(w, a) # {} PROVE r = n
  BY <1>1, <1>4, <1>8, Zenon DEF Haunting
<1>9. ASSUME Haunting(w, a), ChannelsOf(w, a) = {} PROVE r.saved = {}
  BY <1>1, <1>4, <1>5, <1>6, <1>9, Zenon DEF Haunting
<1>10. Haunting(w, a) => cs = ChannelsOf(w, a)
  BY <1>4, Zenon DEF Haunting
<1> QED BY <1>6, <1>7, <1>8, <1>9, <1>10, Zenon DEF r

\* The file d holds every ghost of w.
Holds(w, d) ==
    \A a \in Accounts, ch \in Chans :
        Haunting(w, a) /\ a \in w.in[ch] =>
            d[a].alloc /\ ch \in d[a].saved /\ d[a].nick = w.entry[a].nick

\* persist_save_db(): the file is sound, and holds every ghost.
LEMMA SaveStores ==
    ASSUME NEW w, Steady(w)
    PROVE  Stored(persist_save_db(w)) /\ Holds(w, persist_save_db(w))
<1> DEFINE d == persist_save_db(w)
<1>1. d = [a \in Accounts |-> DBRecord(w, a)]
  BY Zenon DEF persist_save_db
<1>2. Stored(d)
  <2>1. \A a \in Accounts : DBRecord(w, a) \in Entry /\ DBRecord(w, a).ghost = FALSE
                            /\ DBRecord(w, a).sessions = <<>>
    BY RecordStored, Zenon
  <2> QED BY <1>1, <2>1, Zenon DEF Stored
<1> HIDE DEF d
<1>3. ASSUME NEW a \in Accounts, NEW ch \in Chans, Haunting(w, a), a \in w.in[ch]
      PROVE  d[a].alloc /\ ch \in d[a].saved /\ d[a].nick = w.entry[a].nick
  <2>1. ch \in ChannelsOf(w, a)
    BY <1>3, Zenon DEF ChannelsOf
  <2>2. d[a] = DBRecord(w, a)
    BY <1>1, Zenon
  <2>3. d[a].alloc /\ d[a].saved = ChannelsOf(w, a) /\ d[a].nick = w.entry[a].nick
    <3>1. ChannelsOf(w, a) # {}
      BY <2>1, Zenon
    <3>2. Haunting(w, a) /\ ChannelsOf(w, a) # {} =>
             /\ DBRecord(w, a).alloc /\ DBRecord(w, a).saved = ChannelsOf(w, a)
             /\ DBRecord(w, a).nick = w.entry[a].nick
      BY RecordStored, Zenon
    <3> QED BY <1>3, <2>2, <3>1, <3>2, Zenon
  <2> QED BY <2>1, <2>3, Zenon
<1> QED BY <1>2, <1>3, Zenon DEF d, Holds

\* The accounts persist_load_db() makes a ghost for.
Woken(d) ==
    {a \in Accounts : /\ d[a].alloc /\ d[a].saved # {} /\ ~d[a].old /\ d[a].nick # None
                      /\ persistence_effective(ColdWorld(d), a)}

\* persist_load_db(), field by field
LEMMA LoadFields ==
    ASSUME NEW d, Stored(d)
    PROVE  LET u == persist_load_db(d) IN
           /\ DOMAIN u = WorldFields
           /\ u.conn = [c \in Conns |-> "off"] /\ u.name = [c \in Conns |-> None]
           /\ u.account = [c \in Conns |-> None] /\ u.session = [c \in Conns |-> FALSE]
           /\ u.restore = [c \in Conns |-> None] /\ u.hash = Woken(d)
           /\ u.in = [ch \in Chans |-> {a \in Woken(d) : ch \in d[a].saved}]
           /\ u.shadow = [ch \in Chans |-> {}] /\ u.dirty = FALSE
           /\ u.seen \in [Chans -> SUBSET (Nicks \cup {None})]
           /\ u.entry = [a \in Accounts |-> IF a \in Woken(d) THEN [d[a] EXCEPT !.ghost = TRUE]
                                            ELSE d[a]]
<1> DEFINE w == ColdWorld(d)
           as == {a \in Accounts : /\ d[a].alloc /\ d[a].saved # {} /\ ~d[a].old
                                   /\ persistence_effective(w, a)}
           j(a) == do_create_ghost(w, a)
           in2 == [ch \in Chans |-> w.in[ch] \cup UNION {j(a).in[ch] : a \in as}]
           seen2 == [ch \in Chans |-> {NameOf(w, x) : x \in in2[ch]}]
           hash2 == w.hash \cup UNION {j(a).hash : a \in as}
           entry2 == [a \in Accounts |-> IF a \in as THEN j(a).entry[a] ELSE w.entry[a]]
           u == persist_load_db(d)
<1>1. /\ DOMAIN w = WorldFields
      /\ w.conn = [c \in Conns |-> "off"] /\ w.name = [c \in Conns |-> None]
      /\ w.account = [c \in Conns |-> None] /\ w.session = [c \in Conns |-> FALSE]
      /\ w.restore = [c \in Conns |-> None] /\ w.hash = {}
      /\ w.in = [ch \in Chans |-> {}] /\ w.shadow = [ch \in Chans |-> {}]
      /\ w.entry = d /\ w.dirty = FALSE
  BY Zenon DEF ColdWorld, WorldFields
<1>2. Woken(d) = {a \in as : d[a].nick # None}
  BY Zenon DEF Woken
<1>3. u = [w EXCEPT !.entry = entry2, !.hash = hash2, !.in = in2, !.seen = seen2]
  BY Zenon DEF persist_load_db, WakeAll
<1> HIDE DEF w
<1>4. \A a \in as : a \in Accounts /\ d[a].saved # {} /\ d[a] \in Entry
  BY Zenon DEF Stored
<1> HIDE DEF as
<1>5. ASSUME NEW a \in as
      PROVE  /\ d[a].nick = None => j(a) = w
             /\ d[a].nick # None =>
                  /\ j(a).hash = {a} /\ j(a).entry[a] = [d[a] EXCEPT !.ghost = TRUE]
                  /\ \A ch \in Chans : j(a).in[ch] = IF ch \in d[a].saved THEN {a} ELSE {}
  <2>1. CASE d[a].nick = None
    BY <1>1, <2>1, Zenon DEF do_create_ghost
  <2>2. CASE d[a].nick # None
    <3> DEFINE x == [w EXCEPT !.entry[a].ghost = TRUE, !.hash = @ \cup {a}]
    <3>1. j(a) = AddSilently(x, a, d[a].saved)
      BY <1>1, <1>4, <2>2, Zenon DEF do_create_ghost
    <3>2. /\ DOMAIN x = WorldFields /\ x.in = w.in /\ x.hash = w.hash \cup {a}
          /\ x.entry = [w.entry EXCEPT ![a] = [w.entry[a] EXCEPT !.ghost = TRUE]]
      BY <1>1, Zenon DEF WorldFields
    <3> HIDE DEF x, j
    <3>3. /\ j(a).hash = x.hash /\ j(a).entry = x.entry
          /\ j(a).in = [ch \in Chans |-> IF ch \in d[a].saved THEN x.in[ch] \cup {a} ELSE x.in[ch]]
      BY <3>1, <3>2, Zenon DEF AddSilently, WorldFields
    <3>4. a \in DOMAIN d
      BY <1>4, Zenon DEF Stored
    <3>5. j(a).entry[a] = [d[a] EXCEPT !.ghost = TRUE]
      BY <1>1, <3>2, <3>3, <3>4
    <3>6. j(a).hash = {a}
      BY <1>1, <3>2, <3>3, Zenon
    <3>7. \A ch \in Chans : j(a).in[ch] = IF ch \in d[a].saved THEN {a} ELSE {}
      BY <1>1, <3>2, <3>3
    <3> QED BY <2>2, <3>5, <3>6, <3>7, Zenon
  <2> QED BY <2>1, <2>2, Zenon
<1> HIDE DEF j
<1>6. hash2 = Woken(d)
  <2>1. \A a \in as : j(a).hash = IF d[a].nick # None THEN {a} ELSE {}
    <3>1. ASSUME NEW a \in as, d[a].nick = None PROVE j(a).hash = {}
      BY <1>1, <1>5, <3>1, Zenon
    <3>2. ASSUME NEW a \in as, d[a].nick # None PROVE j(a).hash = {a}
      BY <1>5, <3>2, Zenon
    <3> QED BY <3>1, <3>2, Zenon
  <2>2. ASSUME NEW x PROVE x \in hash2 <=> \E a \in as : x \in j(a).hash
    BY <1>1, Zenon
  <2> HIDE DEF hash2
  <2>3. ASSUME NEW x \in hash2 PROVE x \in Woken(d)
    <3>1. PICK a \in as : x \in j(a).hash
      BY <2>2, <2>3, Zenon
    <3>2. d[a].nick # None /\ x = a
      <4>1. j(a).hash = IF d[a].nick # None THEN {a} ELSE {}
        BY <2>1, Zenon
      <4> QED BY <3>1, <4>1, Zenon
    <3> QED BY <1>2, <3>2, Zenon
  <2>4. ASSUME NEW x \in Woken(d) PROVE x \in hash2
    BY <1>2, <2>1, <2>2, Zenon
  <2> QED BY <2>3, <2>4, Zenon
<1>7. ASSUME NEW ch \in Chans PROVE in2[ch] = {a \in Woken(d) : ch \in d[a].saved}
  <2>1. \A a \in as : j(a).in[ch] = IF d[a].nick # None /\ ch \in d[a].saved THEN {a} ELSE {}
    <3>1. ASSUME NEW a \in as, d[a].nick = None PROVE j(a).in[ch] = {}
      BY <1>1, <1>5, <3>1, Zenon
    <3>2. ASSUME NEW a \in as, d[a].nick # None
          PROVE  j(a).in[ch] = IF ch \in d[a].saved THEN {a} ELSE {}
      BY <1>5, <3>2, Zenon
    <3> QED BY <3>1, <3>2, Zenon
  <2>2. ASSUME NEW x PROVE x \in in2[ch] <=> \E a \in as : x \in j(a).in[ch]
    <3>1. in2[ch] = w.in[ch] \cup UNION {j(a).in[ch] : a \in as}
      BY Zenon
    <3>2. w.in[ch] = {}
      BY <1>1, Zenon
    <3> HIDE DEF in2
    <3> QED BY <3>1, <3>2, Zenon
  <2> HIDE DEF in2
  <2>3. ASSUME NEW x \in in2[ch] PROVE x \in Woken(d) /\ ch \in d[x].saved
    <3>1. PICK a \in as : x \in j(a).in[ch]
      BY <2>2, <2>3, Zenon
    <3>2. d[a].nick # None /\ ch \in d[a].saved /\ x = a
      BY <2>1, <3>1, Zenon
    <3> QED BY <1>2, <3>2, Zenon
  <2>4. ASSUME NEW x \in Woken(d), ch \in d[x].saved PROVE x \in in2[ch]
    BY <1>2, <2>1, <2>2, <2>4, Zenon
  <2> QED BY <2>3, <2>4, Zenon
<1>8. \A a \in Accounts : entry2[a] = IF a \in Woken(d) THEN [d[a] EXCEPT !.ghost = TRUE]
                                      ELSE d[a]
  BY <1>1, <1>2, <1>5, Zenon
<1>9. seen2 \in [Chans -> SUBSET (Nicks \cup {None})]
  <2>1. ASSUME NEW ch \in Chans, NEW x \in in2[ch] PROVE NameOf(w, x) \in Nicks \cup {None}
    <3>1. x \in Accounts
      BY <1>2, <1>4, <1>7, Zenon
    <3> QED BY <1>1, <3>1, Zenon DEF NameOf, Stored, Entry
  <2> HIDE DEF in2
  <2> QED BY <2>1, Zenon
<1>10. /\ in2 = [ch \in Chans |-> {a \in Woken(d) : ch \in d[a].saved}]
       /\ entry2 = [a \in Accounts |-> IF a \in Woken(d) THEN [d[a] EXCEPT !.ghost = TRUE]
                                       ELSE d[a]]
  BY <1>7, <1>8, Zenon
<1> HIDE DEF in2, entry2, seen2, hash2, u
<1>11. /\ DOMAIN u = WorldFields /\ u.conn = w.conn /\ u.name = w.name
       /\ u.account = w.account /\ u.session = w.session /\ u.restore = w.restore
       /\ u.hash = hash2 /\ u.in = in2 /\ u.shadow = w.shadow /\ u.seen = seen2
       /\ u.entry = entry2 /\ u.dirty = w.dirty
  BY <1>1, <1>3, Zenon DEF WorldFields
<1> QED BY <1>1, <1>6, <1>9, <1>10, <1>11, Zenon DEF u

\* persist_load_db(): the world is sound, and the file holds its ghosts.
LEMMA LoadSteady ==
    ASSUME NEW d, Stored(d)
    PROVE  LET u == persist_load_db(d) IN Steady(u) /\ Live(u) /\ Durable(u, d)
<1> DEFINE u == persist_load_db(d)
           W == Woken(d)
<1>1. /\ DOMAIN u = WorldFields
      /\ u.conn = [c \in Conns |-> "off"] /\ u.name = [c \in Conns |-> None]
      /\ u.account = [c \in Conns |-> None] /\ u.session = [c \in Conns |-> FALSE]
      /\ u.restore = [c \in Conns |-> None] /\ u.hash = W
      /\ u.in = [ch \in Chans |-> {a \in W : ch \in d[a].saved}]
      /\ u.shadow = [ch \in Chans |-> {}] /\ u.dirty = FALSE
      /\ u.seen \in [Chans -> SUBSET (Nicks \cup {None})]
      /\ u.entry = [a \in Accounts |-> IF a \in W THEN [d[a] EXCEPT !.ghost = TRUE]
                                       ELSE d[a]]
  BY LoadFields, Zenon
<1>2. /\ W \subseteq Accounts
      /\ \A a \in W : d[a].alloc /\ d[a].nick # None /\ persistence_effective(ColdWorld(d), a)
  BY Zenon DEF Woken
<1>3. ColdWorld(d).entry = d
  BY Zenon DEF ColdWorld
<1> HIDE DEF u, W
<1>4. ASSUME NEW a \in Accounts
      PROVE  /\ u.entry[a] \in Entry /\ u.entry[a].alloc = d[a].alloc
             /\ u.entry[a].nick = d[a].nick /\ u.entry[a].sessions = <<>>
             /\ u.entry[a].preference = d[a].preference
             /\ u.entry[a].ghost <=> a \in W
  <2>1. d[a] \in Entry /\ d[a].ghost = FALSE /\ d[a].sessions = <<>>
    BY Zenon DEF Stored
  <2> DEFINE e == [d[a] EXCEPT !.ghost = TRUE]
  <2>2. /\ e \in Entry /\ e.alloc = d[a].alloc /\ e.nick = d[a].nick
        /\ e.sessions = <<>> /\ e.preference = d[a].preference /\ e.ghost = TRUE
    BY <2>1, Zenon DEF Entry
  <2> HIDE DEF e
  <2>3. u.entry[a] = IF a \in W THEN e ELSE d[a]
    BY <1>1, Zenon DEF e
  <2> QED BY <2>1, <2>2, <2>3, Zenon
<1>5. u.entry \in [Accounts -> Entry]
  <2>1. u.entry = [a \in Accounts |-> u.entry[a]]
    BY <1>1, Zenon
  <2> QED BY <1>4, <2>1, Zenon
<1>6. Typed(u)
  <2>1. u.session \in [Conns -> BOOLEAN] /\ u.dirty \in BOOLEAN
    BY <1>1, Zenon
  <2>2. u.in \in [Chans -> SUBSET Nicks] /\ u.hash \in SUBSET Nicks
    BY <1>1, <1>2 DEF Nicks
  <2>3. /\ u.conn \in [Conns -> {"off", "unreg", "user"}]
        /\ u.name \in [Conns -> Nicks \cup {None}]
        /\ u.account \in [Conns -> Accounts \cup {None}]
        /\ u.restore \in [Conns -> Accounts \cup {None}]
        /\ u.shadow \in [Chans -> SUBSET Conns]
        /\ \A ch \in Chans : u.shadow[ch] \subseteq u.in[ch]
    BY <1>1, Zenon
  <2> QED BY <1>1, <1>5, <2>1, <2>2, <2>3, Zenon DEF Typed
<1>7. Ghosts(u)
  <2>1. ASSUME NEW a \in Accounts PROVE Haunting(u, a) <=> a \in W
    BY <1>2, <1>4, Zenon DEF Haunting
  <2>2. ASSUME NEW a \in W PROVE u.entry[a].nick # None /\ persistence_effective(u, a)
    BY <1>2, <1>3, <1>4 DEF persistence_effective
  <2>3. ASSUME NEW a \in Accounts, a \notin W
        PROVE  a \notin u.hash /\ \A ch \in Chans : a \notin u.in[ch]
    BY <1>1, <2>3
  <2> QED BY <2>1, <2>2, <2>3, Zenon DEF Ghosts
<1>8. Live(u)
  <2>1. \A a \in Accounts : Distinct(u.entry[a].sessions) /\ Listed(u.entry[a].sessions) = {}
    BY <1>4 DEF Distinct, Listed
  <2>2. \A c \in Conns : c \notin u.hash /\ \A ch \in Chans : c \notin u.in[ch]
    BY <1>1, <1>2, NamesAssumption
  <2>3. \A c \in Conns : u.session[c] = FALSE
    BY <1>1, Zenon
  <2>4. \A ch \in Chans : u.shadow[ch] = {}
    BY <1>1, Zenon
  <2> QED BY <2>1, <2>2, <2>3, <2>4, Zenon DEF Live
<1>9. Durable(u, d)
  <2>1. ASSUME NEW a \in Accounts, NEW ch \in Chans, a \in u.in[ch]
        PROVE  a \in W /\ ch \in d[a].saved
    BY <1>1, <2>1
  <2> QED BY <1>2, <1>4, <2>1, Zenon DEF Durable
<1> QED BY <1>6, <1>7, <1>8, <1>9, Zenon DEF u, Steady

-----------------------------------------------------------------------------
(* The expiry of entries *)

\* free_entry() for an entry without a ghost
LEMMA FreeKeeps ==
    ASSUME NEW w, Steady(w), NEW a \in Accounts, ~w.entry[a].ghost
    PROVE  LET u == free_entry(w, a) IN
           Keeps(w, u) /\ OneEntry(w, u, a) /\ u.entry[a].alloc = FALSE
<1> DEFINE e == [w.entry[a] EXCEPT !.alloc = FALSE]
           u == free_entry(w, a)
<1>1. w.entry \in [Accounts -> Entry] /\ w.entry[a] \in Entry
  BY Zenon DEF Steady, Typed
<1>2. /\ DOMAIN u = WorldFields /\ SameClients(w, u) /\ SameMembers(w, u)
      /\ u.dirty = w.dirty /\ u.entry = [w.entry EXCEPT ![a] = e]
  BY Zenon DEF free_entry, Steady, Typed, WorldFields, SameClients, SameMembers
<1>3. e \in Entry /\ e.alloc = FALSE /\ e.ghost = w.entry[a].ghost
  BY <1>1, Zenon DEF Entry
<1> HIDE DEF e, u
<1>4. OneEntry(w, u, a) /\ u.entry[a] = e
  BY <1>1, <1>2, <1>3, Zenon DEF OneEntry
<1>5. GhostFits(w, u, a)
  BY <1>3, <1>4, Zenon DEF GhostFits, Haunting
<1>6. ListFits(w, u, a)
  BY <1>3, <1>4, Zenon DEF ListFits
<1> QED BY <1>3, <1>4, <1>5, <1>6, EntryKeeps, Zenon DEF Keeps, u

\* CleanupEntry() leaves everything as it was, or frees the entry and its ghost.
LEMMA CleanupFrees ==
    ASSUME NEW w, Steady(w), NEW a \in Accounts, w.entry[a].alloc
    PROVE  LET u == CleanupEntry(w, a) IN
           \/ u = w
           \/ /\ u.entry[a] \in Entry /\ ~u.entry[a].alloc /\ u.hash = w.hash \ {a}
              /\ u.shadow = w.shadow /\ \A ch \in Chans : u.in[ch] = w.in[ch] \ {a}
<1> DEFINE e == w.entry[a]
           v == destroy_ghost(w, a)
           x == free_entry(v, a)
           u == CleanupEntry(w, a)
           y == [x EXCEPT !.dirty = @ \/ e.ghost]
<1>1. u = w \/ u = y
  BY Zenon DEF CleanupEntry
<1>2. Dissolved(w, v, a) /\ Keeps(w, v)
  BY DestroyKeeps, Zenon
<1> HIDE DEF v, u
<1>3. Keeps(v, x) /\ OneEntry(v, x, a) /\ x.entry[a].alloc = FALSE
  BY <1>2, FreeKeeps, Zenon DEF Dissolved, Keeps, Calm
<1> HIDE DEF x
<1>4. y.entry = x.entry /\ y.hash = x.hash /\ y.shadow = x.shadow /\ y.in = x.in
  BY <1>3, Zenon DEF OneEntry, WorldFields
<1> HIDE DEF y
<1>5. /\ y.entry[a] \in Entry /\ ~y.entry[a].alloc /\ y.hash = w.hash \ {a}
      /\ y.shadow = w.shadow /\ \A ch \in Chans : y.in[ch] = w.in[ch] \ {a}
  BY <1>2, <1>3, <1>4 DEF Dissolved, OneEntry, SameClients, SameMembers
<1> QED BY <1>1, <1>5, Zenon DEF u

-----------------------------------------------------------------------------
(* The invariant *)

\* No client identifies after it has logged out.
Separate == ~({"identify", "logout"} \subseteq Inputs)

Inv ==
    /\ Steady(World) /\ Stored(db) /\ Durable(World, db)
    /\ Separate => Live(World)

\* The fields of World.
LEMMA WorldIs ==
    /\ DOMAIN World = WorldFields
    /\ World.conn = conn /\ World.name = name /\ World.account = account
    /\ World.session = session /\ World.restore = restore /\ World.hash = hash
    /\ World.in = in /\ World.shadow = shadow /\ World.seen = seen
    /\ World.entry = entry /\ World.dirty = dirty
  BY Zenon DEF World, WorldFields

\* A step to a sound world with a sound file.
LEMMA StepInv ==
    ASSUME NEW u, Steady(u), Durable(u, db'), Stored(db'), Separate => Live(u), Become(u)
    PROVE  Inv'
<1>1. /\ DOMAIN World' = WorldFields /\ SameClients(u, World') /\ SameMembers(u, World')
      /\ World'.entry = u.entry /\ World'.dirty = u.dirty
  BY Zenon DEF World, Become, WorldFields, SameClients, SameMembers
<1> DEFINE v == World'
<1> HIDE DEF v
<1>2. /\ DOMAIN v = WorldFields /\ SameClients(u, v) /\ SameMembers(u, v)
      /\ v.entry = u.entry /\ v.dirty = u.dirty
  BY <1>1, Zenon DEF v
<1>3. Typed(v)
  BY <1>2, Zenon DEF Steady, Typed, SameClients, SameMembers
<1>4. Ghosts(v)
  BY <1>2, Zenon DEF Steady, Ghosts, Haunting, persistence_effective, SameClients, SameMembers
<1>5. Durable(v, db')
  BY <1>2, Zenon DEF Durable, Haunting, SameMembers
<1>6. Separate => Live(v)
  BY <1>2 DEF Live, SameClients, SameMembers
<1> QED BY <1>3, <1>4, <1>5, <1>6, Zenon DEF Inv, v, Steady

\* A step that keeps what the helpers keep.
LEMMA KeepsInv ==
    ASSUME Inv, NEW u, Keeps(World, u), Become(u), db' = db
    PROVE  Inv'
<1>1. Steady(u) /\ Durable(u, db') /\ Stored(db') /\ (Separate => Live(u))
  BY Zenon DEF Inv, Keeps, Calm
<1> QED BY <1>1, StepInv, Zenon

\* Connect()
LEMMA ConnectInv ==
    ASSUME Inv, NEW c \in Conns, NEW n \in Nicks, Connect(c, n)
    PROVE  Inv'
<1> DEFINE w == World
           u == [w EXCEPT !.conn[c] = "unreg", !.name[c] = n, !.hash = @ \cup {c}]
<1>1. w.conn[c] = "off" /\ Become(u) /\ db' = db
  BY WorldIs, Zenon DEF Connect
<1> HIDE DEF w
<1>2. Steady(w)
  BY Zenon DEF w, Inv
<1>3. /\ DOMAIN u = WorldFields /\ SameMembers(w, u) /\ u.entry = w.entry
      /\ u.dirty = w.dirty /\ u.account = w.account /\ u.session = w.session
      /\ u.restore = w.restore /\ u.hash = w.hash \cup {c}
      /\ u.conn = [w.conn EXCEPT ![c] = "unreg"] /\ u.name = [w.name EXCEPT ![c] = n]
  BY <1>2, Zenon DEF Steady, Typed, WorldFields, SameMembers
<1> HIDE DEF u
<1>4. OneClient(w, u, c)
  BY <1>2, <1>3 DEF OneClient, Steady, Typed, Nicks
<1>5. Live(w) => ClientFits(w, u, c)
  <2>1. u.conn[c] = "unreg" /\ u.session[c] = w.session[c] /\ u.account[c] = w.account[c]
    BY <1>2, <1>3, Zenon DEF Steady, Typed
  <2>2. Live(w) => Unlisted(w, c)
    BY <1>1, Zenon DEF Live, Unlisted
  <2> QED BY <2>1, <2>2, Zenon DEF Live, ClientFits
<1>6. Keeps(w, u)
  BY <1>2, <1>4, <1>5, ClientKeeps, Zenon DEF Keeps
<1> QED BY <1>1, <1>6, KeepsInv, Zenon DEF w

\* A login, for a client on no list
LEMMA LoginStep ==
    ASSUME Inv, NEW c \in Conns, NEW a \in Accounts, conn[c] # "off",
           Separate => Unlisted(World, c), UNCHANGED db,
           Become(persist_account_login([World EXCEPT !.account[c] = a], c, a))
    PROVE  Inv'
<1> DEFINE w == World
           v == [w EXCEPT !.account[c] = a]
           u == persist_account_login(v, c, a)
<1>1. w.conn[c] # "off" /\ Become(u) /\ db' = db /\ (Separate => Unlisted(w, c))
  BY WorldIs, Zenon
<1> HIDE DEF w
<1>2. Steady(w) /\ (Separate => Live(w)) /\ Durable(w, db) /\ Stored(db)
  BY Zenon DEF w, Inv
<1>3. /\ DOMAIN v = WorldFields /\ SameMembers(w, v) /\ v.entry = w.entry
      /\ v.dirty = w.dirty /\ v.conn = w.conn /\ v.session = w.session
      /\ v.restore = w.restore /\ v.hash = w.hash /\ v.name = w.name
      /\ v.account = [w.account EXCEPT ![c] = a]
  BY <1>2, Zenon DEF Steady, Typed, WorldFields, SameMembers
<1> HIDE DEF v
<1>4. OneClient(w, v, c) /\ v.account[c] = a
  BY <1>2, <1>3 DEF OneClient, Steady, Typed
<1>5. Live(w) => ClientFits(w, v, c)
  BY <1>3, <1>4, NamesAssumption DEF Live, ClientFits
<1>6. Keeps(w, v) /\ (Unlisted(w, c) => Unlisted(v, c))
  BY <1>2, <1>4, <1>5, ClientKeeps, Zenon DEF Keeps
<1>7. Separate => Arriving(v, c)
  BY <1>1, <1>2, <1>3, <1>6, Zenon DEF Keeps, Arriving
<1>8. Admits(v, u, c)
  BY <1>4, <1>6, LoginKeeps, Zenon DEF Keeps, Calm
<1> HIDE DEF u
<1>9. Steady(u) /\ Durable(u, db') /\ Stored(db') /\ (Separate => Live(u))
  BY <1>1, <1>2, <1>6, <1>7, <1>8, Zenon DEF Admits, Keeps, Calm
<1> QED BY <1>1, <1>9, StepInv, Zenon

\* Login() and LoginRegistered()
LEMMA LoginInv ==
    ASSUME Inv, NEW c \in Conns, NEW a \in Accounts, Login(c, a) \/ LoginRegistered(c, a)
    PROVE  Inv'
<1>1. ASSUME Login(c, a) PROVE Separate => Unlisted(World, c)
  BY <1>1, WorldIs, Zenon DEF Login, Inv, Live, Unlisted
<1>2. ASSUME LoginRegistered(c, a) PROVE Separate => Unlisted(World, c)
  <2>1. Separate => "logout" \notin Inputs
    BY <1>2, Zenon DEF LoginRegistered, Separate
  <2>2. Separate => ~session[c]
    BY <1>2, <2>1, WorldIs, Zenon DEF LoginRegistered, Inv, Live
  <2> QED BY <2>2, WorldIs, Zenon DEF Inv, Live, Unlisted
<1>3. /\ conn[c] # "off" /\ UNCHANGED db
      /\ Become(persist_account_login([World EXCEPT !.account[c] = a], c, a))
  BY Zenon DEF Login, LoginRegistered
<1> QED BY <1>1, <1>2, <1>3, LoginStep, Zenon

\* Logout()
LEMMA LogoutInv ==
    ASSUME Inv, NEW c \in Conns, Logout(c)
    PROVE  Inv'
<1> DEFINE w == World
           u == [w EXCEPT !.account[c] = None]
<1>1. Become(u) /\ db' = db /\ "logout" \in Inputs
  BY Zenon DEF Logout
<1> HIDE DEF w
<1>2. Steady(w)
  BY Zenon DEF w, Inv
<1>3. /\ DOMAIN u = WorldFields /\ SameMembers(w, u) /\ u.entry = w.entry
      /\ u.dirty = w.dirty /\ u.conn = w.conn /\ u.session = w.session
      /\ u.restore = w.restore /\ u.hash = w.hash /\ u.name = w.name
      /\ u.account = [w.account EXCEPT ![c] = None]
  BY <1>2, Zenon DEF Steady, Typed, WorldFields, SameMembers
<1> HIDE DEF u
<1>4. OneClient(w, u, c)
  BY <1>2, <1>3 DEF OneClient, Steady, Typed
<1>5. Live(w) => ClientFits(w, u, c)
  BY <1>1, <1>3 DEF Live, ClientFits
<1>6. Keeps(w, u)
  BY <1>2, <1>4, <1>5, ClientKeeps, Zenon DEF Keeps
<1> QED BY <1>1, <1>6, KeepsInv, Zenon DEF w

\* Welcome()
LEMMA WelcomeInv ==
    ASSUME Inv, NEW c \in Conns, Welcome(c)
    PROVE  Inv'
<1> DEFINE w == World
           v == [w EXCEPT !.conn[c] = "user"]
           u == persist_welcome(v, c)
<1>1. w.conn[c] = "unreg" /\ Become(u) /\ db' = db
  BY WorldIs, Zenon DEF Welcome
<1> HIDE DEF w
<1>2. Steady(w) /\ (Separate => Live(w)) /\ Durable(w, db) /\ Stored(db)
  BY Zenon DEF w, Inv
<1>3. /\ DOMAIN v = WorldFields /\ SameMembers(w, v) /\ v.entry = w.entry
      /\ v.dirty = w.dirty /\ v.account = w.account /\ v.session = w.session
      /\ v.restore = w.restore /\ v.hash = w.hash /\ v.name = w.name
      /\ v.conn = [w.conn EXCEPT ![c] = "user"]
  BY <1>2, Zenon DEF Steady, Typed, WorldFields, SameMembers
<1> HIDE DEF v
<1>4. OneClient(w, v, c) /\ v.conn[c] = "user"
  BY <1>2, <1>3 DEF OneClient, Steady, Typed
<1>5. Live(w) => Unlisted(w, c)
  BY <1>1, Zenon DEF Live, Unlisted
<1>6. Live(w) => ClientFits(w, v, c)
  BY <1>3, <1>4, <1>5 DEF Live, ClientFits
<1>7. Keeps(w, v) /\ (Unlisted(w, c) => Unlisted(v, c))
  BY <1>2, <1>4, <1>6, ClientKeeps, Zenon DEF Keeps
<1>8. Separate => Arriving(v, c)
  BY <1>2, <1>4, <1>5, <1>7, Zenon DEF Keeps, Arriving
<1>9. Admits(v, u, c)
  BY <1>4, <1>7, WelcomeKeeps, Zenon DEF Keeps, Calm
<1> HIDE DEF u
<1>10. Steady(u) /\ Durable(u, db') /\ Stored(db') /\ (Separate => Live(u))
  BY <1>1, <1>2, <1>7, <1>8, <1>9, Zenon DEF Admits, Keeps, Calm
<1> QED BY <1>1, <1>10, StepInv, Zenon

\* Whom a command of a registered client is executed for.
LEMMA ActorThere ==
    ASSUME Inv, NEW c \in Conns, conn[c] = "user", Actor(c) # None
    PROVE  Actor(c) \in Conns /\ conn[Actor(c)] = "user"
<1>1. restore[c] \in Accounts \cup {None} /\ \A a \in Accounts : entry[a] \in Entry
  BY WorldIs, Zenon DEF Inv, Steady, Typed
<1>2. \A a \in Accounts : entry[a].canonical \in Conns \cup {None}
  BY <1>1, Zenon DEF Entry
<1> QED BY <1>1, <1>2, WorldIs, Zenon DEF Actor, CanonicalLive

\* Join() and Part()
LEMMA JoinPartInv ==
    ASSUME Inv, NEW c \in Conns, NEW ch \in Chans, Join(c, ch) \/ Part(c, ch)
    PROVE  Inv'
<1> DEFINE w == World
           k == Actor(c)
           j == join_channel(w, k, ch)
           v == IF session[k] THEN w ELSE DropShadows(w, k, ch)
           p == LeaveChannel(v, k, ch)
<1>1. (Become(j) \/ Become(p)) /\ db' = db /\ conn[c] = "user" /\ k # None
  BY Zenon DEF Join, Part
<1>2. k \in Conns /\ conn[k] = "user" /\ k \in Nicks
  BY <1>1, ActorThere, Zenon DEF Nicks
<1>3. w.conn[k] # "off" /\ Steady(w)
  BY <1>2, WorldIs, Zenon DEF Inv
<1> HIDE DEF w, k
<1>4. Keeps(w, j)
  BY <1>2, <1>3, JoinJoins, JoinKeeps, Zenon
<1>5. Keeps(w, v) /\ Steady(v)
  BY <1>2, <1>3, LeaveKeeps, Zenon DEF Keeps, Calm
<1> HIDE DEF v
<1>6. Keeps(w, p)
  BY <1>2, <1>5, LeaveKeeps, KeepsTransitive, Zenon
<1> HIDE DEF j, p
<1> QED BY <1>1, <1>4, <1>6, KeepsInv, Zenon DEF w

\* KickByLocal() and KickByRemote()
LEMMA KickInv ==
    ASSUME Inv, NEW x \in Nicks, NEW ch \in Chans, KickByLocal(x, ch) \/ KickByRemote(x, ch)
    PROVE  Inv'
<1> DEFINE w == World
           v == DropShadows(w, x, ch)
           p == LeaveChannel(v, x, ch)
           q == LeaveChannel(w, x, ch)
<1>1. (Become(p) \/ Become(q)) /\ db' = db
  BY Zenon DEF KickByLocal, KickByRemote
<1>2. Steady(w)
  BY Zenon DEF Inv
<1> HIDE DEF w
<1>3. Keeps(w, v) /\ Keeps(w, q) /\ Steady(v)
  BY <1>2, LeaveKeeps, Zenon DEF Keeps, Calm
<1> HIDE DEF v
<1>4. Keeps(w, p)
  BY <1>3, LeaveKeeps, KeepsTransitive, Zenon
<1> HIDE DEF p, q
<1> QED BY <1>1, <1>3, <1>4, KeepsInv, Zenon DEF w

\* Nick()
LEMMA NickInv ==
    ASSUME Inv, NEW c \in Conns, NEW n \in Nicks, Nick(c, n)
    PROVE  Inv'
<1> DEFINE w == World
           v == IF conn[c] = "user" THEN persist_local_nickchange(w, c, n) ELSE w
           told == [ch \in Chans |-> IF c \in in[ch] THEN (seen[ch] \ {name[c]}) \cup {n}
                                     ELSE seen[ch]]
           y == [v EXCEPT !.seen = told]
           u == [v EXCEPT !.name[c] = n, !.hash = @ \cup {c}, !.seen = told]
<1>1. w.conn[c] # "off" /\ Become(u) /\ db' = db
  BY WorldIs, Zenon DEF Nick
<1>2. Steady(w)
  BY DEF Inv
<1>3. told \in [Chans -> SUBSET (Nicks \cup {None})]
  BY <1>2, WorldIs DEF Steady, Typed
<1> HIDE DEF w, told
<1>4. Keeps(w, v) /\ v.conn = w.conn
  BY <1>2, NickChangeKeeps, Zenon DEF Keeps, Calm
<1> HIDE DEF v
<1>5. Steady(v)
  BY <1>4, Zenon DEF Keeps, Calm
<1>6. /\ DOMAIN y = WorldFields /\ SameClients(v, y) /\ y.in = v.in /\ y.shadow = v.shadow
      /\ y.entry = v.entry /\ y.dirty = v.dirty /\ y.seen = told
  BY <1>5, Zenon DEF Steady, Typed, WorldFields, SameClients
<1>7. /\ DOMAIN u = WorldFields /\ u.conn = v.conn /\ u.account = v.account
      /\ u.session = v.session /\ u.restore = v.restore /\ u.hash = v.hash \cup {c}
      /\ u.name = [v.name EXCEPT ![c] = n] /\ u.in = v.in /\ u.shadow = v.shadow
      /\ u.entry = v.entry /\ u.dirty = v.dirty /\ u.seen = told
  BY <1>5, Zenon DEF Steady, Typed, WorldFields
<1> HIDE DEF y, u
<1>8. OnlyMembers(v, y) /\ MembersFit(v, y)
  BY <1>3, <1>5, <1>6, Zenon DEF OnlyMembers, MembersFit, Steady, Typed, SameClients
<1>9. Keeps(v, y) /\ Steady(y)
  BY <1>5, <1>8, MembersKeep DEF Keeps, Calm
<1>10. OneClient(y, u, c)
  BY <1>5, <1>6, <1>7 DEF OneClient, Steady, Typed, Nicks, SameClients, SameMembers
<1>11. Live(y) => ClientFits(y, u, c)
  BY <1>1, <1>4, <1>6, <1>7 DEF Live, ClientFits, SameClients
<1>12. Keeps(y, u)
  BY <1>9, <1>10, <1>11, ClientKeeps, Zenon DEF Keeps
<1>13. Keeps(w, u)
  BY <1>4, <1>9, <1>12, KeepsTransitive, Zenon
<1> QED BY <1>1, <1>13, KeepsInv, Zenon DEF w

\* Quit()
LEMMA QuitInv ==
    ASSUME Inv, NEW c \in Conns, Quit(c)
    PROVE  Inv'
  BY ExitKeeps, KeepsInv, Zenon DEF Quit, Inv

\* Set()
LEMMA SetInv ==
    ASSUME Inv, NEW c \in Conns, NEW pref \in {"default", "on", "off"}, Set(c, pref)
    PROVE  Inv'
<1> DEFINE w == World
           a == account[c]
           v == get_or_create_entry(w, a)
           x == [v EXCEPT !.entry[a].preference = pref]
           e == [v.entry[a] EXCEPT !.preference = pref]
           y == destroy_ghost(x, a)
           z == IF persistence_effective(x, a) THEN x ELSE y
           u == MarkDirty(z)
<1>1. Become(u) /\ db' = db /\ a # None
  BY Zenon DEF Set
<1>2. Steady(w) /\ a \in Accounts
  BY <1>1, WorldIs, Zenon DEF Inv, Steady, Typed
<1> HIDE DEF w, a
<1>3. Keeps(w, v) /\ v.entry[a].alloc /\ Steady(v)
  BY <1>2, CreateKeeps, Zenon DEF Keeps, Calm
<1> HIDE DEF v
<1>4. v.entry \in [Accounts -> Entry] /\ v.entry[a] \in Entry
  BY <1>2, <1>3, Zenon DEF Steady, Typed
<1>5. /\ DOMAIN x = WorldFields /\ SameClients(v, x) /\ SameMembers(v, x)
      /\ x.dirty = v.dirty /\ x.entry = [v.entry EXCEPT ![a] = e]
  BY <1>3, Zenon DEF Steady, Typed, WorldFields, SameClients, SameMembers
<1>6. /\ e \in Entry /\ e.alloc = v.entry[a].alloc /\ e.ghost = v.entry[a].ghost
      /\ e.sessions = v.entry[a].sessions /\ e.nick = v.entry[a].nick
  BY <1>4, Zenon DEF Entry
<1> HIDE DEF e, x
<1>7. /\ x.entry \in [Accounts -> Entry] /\ x.entry[a] = e
      /\ \A b \in Accounts \ {a} : x.entry[b] = v.entry[b]
  BY <1>2, <1>4, <1>5, <1>6, Zenon
<1>8. Typed(x)
  BY <1>3, <1>5, <1>7, Zenon DEF Steady, Typed, SameClients, SameMembers
<1>9. Live(v) => Live(x)
  BY <1>5, <1>6, <1>7 DEF Live, SameClients, SameMembers
<1>10. Loose(x, a) /\ (persistence_effective(x, a) => Ghosts(x))
  <2>1. ASSUME NEW b \in Accounts \ {a}
        PROVE  /\ Haunting(x, b) <=> Haunting(v, b)
               /\ persistence_effective(x, b) <=> persistence_effective(v, b)
               /\ x.entry[b] = v.entry[b]
    BY <1>7, Zenon DEF Haunting, persistence_effective
  <2>2. (Haunting(x, a) <=> Haunting(v, a)) /\ x.entry[a].nick = v.entry[a].nick
    BY <1>6, <1>7, Zenon DEF Haunting
  <2>3. x.hash = v.hash /\ x.in = v.in
    BY <1>5, Zenon DEF SameClients, SameMembers
  <2> QED BY <1>3, <1>8, <2>1, <2>2, <2>3 DEF Steady, Ghosts, Loose
<1>11. Dissolved(x, y, a) /\ Keeps(x, y)
  BY <1>2, <1>3, <1>6, <1>7, <1>10, DestroyLoose, Zenon
<1> HIDE DEF y
<1>12. Steady(z) /\ (Live(w) => Live(z))
  BY <1>3, <1>8, <1>9, <1>10, <1>11 DEF Steady, Keeps, Calm
<1> HIDE DEF z
<1>13. Keeps(z, u) /\ \A d : Durable(u, d)
  BY <1>12, DirtyKeeps, Zenon
<1>14. Keeps(w, u)
  BY <1>12, <1>13, Zenon DEF Keeps, Calm
<1> QED BY <1>1, <1>14, KeepsInv, Zenon DEF w

\* Erase()
LEMMA EraseInv ==
    ASSUME Inv, NEW a \in Accounts, Erase(a)
    PROVE  Inv'
<1> DEFINE w == World
           v == destroy_ghost(w, a)
           x == free_entry(v, a)
           u == [x EXCEPT !.dirty = FALSE]
<1>1. Become(u) /\ db' = persist_save_db(u) /\ w.entry[a].alloc
  BY WorldIs, Zenon DEF Erase
<1>2. Steady(w) /\ (Separate => Live(w))
  BY Zenon DEF Inv
<1> HIDE DEF w
<1>3. Dissolved(w, v, a) /\ Keeps(w, v) /\ Steady(v)
  BY <1>1, <1>2, DestroyKeeps, Zenon DEF Keeps, Calm
<1> HIDE DEF v
<1>4. Keeps(v, x) /\ Steady(x)
  BY <1>3, FreeKeeps, Zenon DEF Dissolved, Keeps, Calm
<1> HIDE DEF x
<1>5. /\ DOMAIN u = WorldFields /\ SameClients(x, u) /\ SameMembers(x, u)
      /\ u.entry = x.entry /\ u.dirty = FALSE
  BY <1>4, Zenon DEF Steady, Typed, WorldFields, SameClients, SameMembers
<1> HIDE DEF u
<1>6. Steady(u)
  <2>1. u.dirty \in BOOLEAN
    BY <1>5, Zenon
  <2>2. Typed(u)
    BY <1>4, <1>5, <2>1, Zenon DEF Steady, Typed, SameClients, SameMembers
  <2>3. Ghosts(u)
    BY <1>4, <1>5 DEF Steady, Ghosts, Haunting, persistence_effective, SameClients, SameMembers
  <2> QED BY <2>2, <2>3, Zenon DEF Steady
<1>7. Separate => Live(u)
  <2>1. Separate => Live(x)
    BY <1>2, <1>3, <1>4, Zenon DEF Keeps
  <2> QED BY <1>5, <2>1 DEF Live, SameClients, SameMembers
<1>8. Stored(db') /\ Durable(u, db')
  BY <1>1, <1>6, SaveStores, Zenon DEF Holds, Durable
<1> QED BY <1>1, <1>6, <1>7, <1>8, StepInv, Zenon

\* persist_save_event
LEMMA SaveInv ==
    ASSUME Inv, persist_save_event
    PROVE  Inv'
<1> DEFINE w == World
           u == [w EXCEPT !.dirty = FALSE]
<1>1. Become(u) /\ db' = persist_save_db(w) /\ w.dirty
  BY WorldIs, Zenon DEF persist_save_event
<1>2. Steady(w) /\ (Separate => Live(w))
  BY Zenon DEF Inv
<1> HIDE DEF w
<1>5. /\ DOMAIN u = WorldFields /\ SameClients(w, u) /\ SameMembers(w, u)
      /\ u.entry = w.entry /\ u.dirty = FALSE
  BY <1>2, Zenon DEF Steady, Typed, WorldFields, SameClients, SameMembers
<1> HIDE DEF u
<1>6. Steady(u)
  <2>1. u.dirty \in BOOLEAN
    BY <1>5, Zenon
  <2>2. Typed(u)
    BY <1>2, <1>5, <2>1, Zenon DEF Steady, Typed, SameClients, SameMembers
  <2>3. Ghosts(u)
    BY <1>2, <1>5, Zenon
       DEF Steady, Ghosts, Haunting, persistence_effective, SameClients, SameMembers
  <2> QED BY <2>2, <2>3, Zenon DEF Steady
<1>7. Separate => Live(u)
  BY <1>2, <1>5 DEF Live, SameClients, SameMembers
<1>8. Stored(db') /\ Holds(w, db')
  BY <1>1, <1>2, SaveStores, Zenon
<1>9. Durable(u, db')
  BY <1>5, <1>8, Zenon DEF Holds, Durable, Haunting, SameMembers
<1> QED BY <1>1, <1>6, <1>7, <1>8, <1>9, StepInv, Zenon

\* Age()
LEMMA AgeInv ==
    ASSUME Inv, NEW a \in Accounts, Age(a)
    PROVE  Inv'
<1> DEFINE w == World
           u == [w EXCEPT !.entry[a].old = TRUE]
           e == [w.entry[a] EXCEPT !.old = TRUE]
           r == [db[a] EXCEPT !.old = db[a].alloc]
<1>1. Become(u) /\ db' = [db EXCEPT ![a] = r]
  BY Zenon DEF Age
<1>2. Steady(w) /\ (Separate => Live(w)) /\ Stored(db) /\ Durable(w, db)
  BY Zenon DEF Inv
<1> HIDE DEF w
<1>3. w.entry \in [Accounts -> Entry] /\ w.entry[a] \in Entry /\ db[a] \in Entry
  BY <1>2, Zenon DEF Steady, Typed, Stored
<1>4. /\ DOMAIN u = WorldFields /\ SameClients(w, u) /\ SameMembers(w, u)
      /\ u.dirty = w.dirty /\ u.entry = [w.entry EXCEPT ![a] = e]
  BY <1>2, Zenon DEF Steady, Typed, WorldFields, SameClients, SameMembers
<1>5. /\ e \in Entry /\ e.alloc = w.entry[a].alloc /\ e.ghost = w.entry[a].ghost
      /\ e.sessions = w.entry[a].sessions /\ e.preference = w.entry[a].preference
      /\ e.nick = w.entry[a].nick
  BY <1>3, Zenon DEF Entry
<1>6. /\ r \in Entry /\ r.alloc = db[a].alloc /\ r.ghost = db[a].ghost
      /\ r.sessions = db[a].sessions /\ r.saved = db[a].saved /\ r.nick = db[a].nick
  <2>1. db[a].alloc \in BOOLEAN
    BY <1>3, Zenon DEF Entry
  <2> QED BY <1>3, <2>1, Zenon DEF Entry
<1> HIDE DEF u, e, r
<1>7. OneEntry(w, u, a) /\ u.entry[a] = e
  BY <1>3, <1>4, <1>5, Zenon DEF OneEntry
<1>8. GhostFits(w, u, a)
  BY <1>5, <1>7, Zenon DEF GhostFits
<1>9. Live(w) => ListFits(w, u, a)
  BY <1>5, <1>7, Zenon DEF Live, ListFits
<1>10. Keeps(w, u)
  BY <1>2, <1>7, <1>8, <1>9, EntryKeeps DEF Keeps
<1>11. Stored(db')
  BY <1>1, <1>2, <1>6 DEF Stored
<1>12. \A b \in Accounts : /\ db'[b].alloc = db[b].alloc /\ db'[b].saved = db[b].saved
                           /\ db'[b].nick = db[b].nick
  BY <1>1, <1>2, <1>6, Zenon DEF Stored
<1>13. Durable(u, db)
  BY <1>2, <1>10, Zenon DEF Keeps, Calm
<1>14. Durable(u, db')
  BY <1>12, <1>13, Zenon DEF Durable
<1> QED BY <1>1, <1>2, <1>10, <1>11, <1>14, StepInv, Zenon DEF Keeps, Calm

\* ghost_cleanup_event
LEMMA CleanupInv ==
    ASSUME Inv, ghost_cleanup_event
    PROVE  Inv'
<1> DEFINE w == World
           list == {a \in Accounts : entry[a].alloc}
           k(a) == CleanupEntry(w, a)
           entry2 == [a \in Accounts |-> IF a \in list THEN k(a).entry[a] ELSE w.entry[a]]
           hash2 == {x \in w.hash : \A a \in list : x \in k(a).hash}
           in2 == [ch \in Chans |-> {x \in w.in[ch] : \A a \in list : x \in k(a).in[ch]}]
           shadow2 == [ch \in Chans |->
                          {x \in w.shadow[ch] : \A a \in list : x \in k(a).shadow[ch]}]
           dirty2 == w.dirty \/ \E a \in list : k(a).dirty
           u == [w EXCEPT !.entry = entry2, !.hash = hash2, !.in = in2, !.shadow = shadow2,
                          !.dirty = dirty2]
<1>1. Become(u) /\ db' = db
  BY Zenon DEF ghost_cleanup_event
<1>2. Steady(w)
  BY Zenon DEF Inv
<1>3. list = {a \in Accounts : w.entry[a].alloc}
  BY WorldIs, Zenon
<1> HIDE DEF w, list, k
<1>4. ASSUME NEW a \in list
      PROVE  \/ k(a) = w
             \/ /\ k(a).entry[a] \in Entry /\ ~k(a).entry[a].alloc /\ k(a).hash = w.hash \ {a}
                /\ k(a).shadow = w.shadow /\ \A ch \in Chans : k(a).in[ch] = w.in[ch] \ {a}
  BY <1>2, <1>3, CleanupFrees DEF k
<1>5. /\ DOMAIN u = WorldFields /\ u.conn = w.conn /\ u.name = w.name
      /\ u.account = w.account /\ u.session = w.session /\ u.restore = w.restore
      /\ u.seen = w.seen /\ u.entry = entry2 /\ u.hash = hash2 /\ u.in = in2
      /\ u.shadow = shadow2 /\ u.dirty = dirty2
  <2> HIDE DEF entry2, hash2, in2, shadow2, dirty2
  <2> QED BY <1>2, Zenon DEF Steady, Typed, WorldFields
<1> HIDE DEF u
<1>6. w.entry \in [Accounts -> Entry]
  BY <1>2, Zenon DEF Steady, Typed
<1>7. ASSUME NEW a \in Accounts
      PROVE  /\ u.entry[a] \in Entry
             /\ \/ u.entry[a] = w.entry[a]
                \/ ~u.entry[a].alloc /\ a \notin u.hash /\ \A ch \in Chans : a \notin u.in[ch]
  <2>1. CASE a \notin list
    BY <1>5, <1>6, <2>1, Zenon
  <2>2. CASE a \in list /\ k(a) = w
    BY <1>5, <1>6, <2>2, Zenon
  <2>3. CASE a \in list /\ k(a) # w
    <3>1. /\ k(a).entry[a] \in Entry /\ ~k(a).entry[a].alloc
          /\ k(a).hash = w.hash \ {a} /\ \A ch \in Chans : k(a).in[ch] = w.in[ch] \ {a}
      BY <1>4, <2>3, Zenon
    <3>2. u.entry[a] = k(a).entry[a]
      BY <1>5, <2>3, Zenon
    <3>3. a \notin u.hash /\ \A ch \in Chans : a \notin u.in[ch]
      BY <1>5, <2>3, <3>1
    <3> QED BY <3>1, <3>2, <3>3, Zenon
  <2> QED BY <2>1, <2>2, <2>3, Zenon
<1>8. /\ u.hash \subseteq w.hash
      /\ \A ch \in Chans : /\ u.in[ch] \subseteq w.in[ch] /\ u.shadow[ch] \subseteq w.shadow[ch]
                           /\ u.shadow[ch] \subseteq u.in[ch]
  <2>1. u.hash \subseteq w.hash
    BY <1>5, Zenon
  <2>2. \A ch \in Chans : u.in[ch] \subseteq w.in[ch] /\ u.shadow[ch] \subseteq w.shadow[ch]
    BY <1>5
  <2>3. ASSUME NEW ch \in Chans, NEW c \in u.shadow[ch] PROVE c \in u.in[ch]
    <3>1. c \in w.shadow[ch] /\ c \in Conns /\ c \in w.in[ch]
      BY <1>2, <2>2, <2>3, Zenon DEF Steady, Typed
    <3>2. ASSUME NEW a \in list PROVE c \in k(a).in[ch]
      <4>1. c # a
        BY <1>3, <3>1, NamesAssumption, Zenon
      <4> QED BY <1>4, <3>1, <4>1
    <3> QED BY <1>5, <3>1, <3>2, Zenon
  <2> QED BY <2>1, <2>2, <2>3, Zenon
<1>9. u.dirty \in BOOLEAN /\ (w.dirty => u.dirty)
  BY <1>5, Zenon
<1>10. /\ u.entry \in [Accounts -> Entry] /\ u.in \in [Chans -> SUBSET Nicks]
       /\ u.shadow \in [Chans -> SUBSET Conns]
  <2>1. /\ u.entry = [a \in Accounts |-> u.entry[a]] /\ u.in = [ch \in Chans |-> u.in[ch]]
        /\ u.shadow = [ch \in Chans |-> u.shadow[ch]]
    BY <1>5, Zenon
  <2>2. \A ch \in Chans : u.in[ch] \in SUBSET Nicks /\ u.shadow[ch] \in SUBSET Conns
    BY <1>2, <1>8, Zenon DEF Steady, Typed
  <2> QED BY <1>7, <2>1, <2>2, Zenon
<1> HIDE DEF entry2, hash2, in2, shadow2, dirty2
<1>11. Typed(u)
  <2>1. u.hash \in SUBSET Nicks
    BY <1>2, <1>8, Zenon DEF Steady, Typed
  <2> QED BY <1>2, <1>5, <1>8, <1>9, <1>10, <2>1, Zenon DEF Steady, Typed
<1>12. Ghosts(u)
  BY <1>2, <1>7, <1>8 DEF Steady, Ghosts, Haunting, persistence_effective
<1>13. \A d : Durable(w, d) => Durable(u, d)
  BY <1>7, <1>8, <1>9 DEF Durable, Haunting
<1>14. Live(w) => Live(u)
  BY <1>5, <1>7, <1>8 DEF Live
<1>15. Keeps(w, u)
  BY <1>11, <1>12, <1>13, <1>14, Zenon DEF Keeps, Calm, Steady
<1> QED BY <1>1, <1>15, KeepsInv, Zenon DEF w

\* Restart, Crash and CrashWhileSaving()
LEMMA RestartInv ==
    ASSUME Inv, Restart \/ Crash \/ \E written \in SUBSET Accounts : CrashWhileSaving(written)
    PROVE  Inv'
<1>1. Stored(db')
  <2>1. CASE Restart
    BY <2>1, SaveStores, Zenon DEF Restart, Inv
  <2>2. CASE Crash
    BY <2>2, Zenon DEF Crash, Inv
  <2>3. CASE \E written \in SUBSET Accounts : CrashWhileSaving(written)
    <3>1. PICK z \in SUBSET Accounts : CrashWhileSaving(z)
      BY <2>3, Zenon
    <3>2. db' = [a \in Accounts |-> IF a \in z THEN DBRecord(World, a) ELSE EmptyEntry]
      BY <3>1, Zenon DEF CrashWhileSaving
    <3>3. \A a \in Accounts : /\ DBRecord(World, a) \in Entry
                              /\ DBRecord(World, a).ghost = FALSE
                              /\ DBRecord(World, a).sessions = <<>>
      BY RecordStored, Zenon DEF Inv
    <3> QED BY <3>2, <3>3, NewEntryType, Zenon DEF Stored
  <2> QED BY <2>1, <2>2, <2>3, Zenon
<1>2. Become(persist_load_db(db'))
  BY Zenon DEF Restart, Crash, CrashWhileSaving
<1> DEFINE u == persist_load_db(db')
<1>3. Steady(u) /\ Live(u) /\ Durable(u, db') /\ Become(u)
  BY <1>1, <1>2, LoadSteady, Zenon
<1> HIDE DEF u
<1> QED BY <1>1, <1>3, StepInv, Zenon

\* The server starts without clients and without ghosts.
LEMMA InitInv == ASSUME Init PROVE Inv
<1> DEFINE w == World
<1>1. /\ DOMAIN w = WorldFields
      /\ w.conn = [c \in Conns |-> "off"] /\ w.name = [c \in Conns |-> None]
      /\ w.account = [c \in Conns |-> None] /\ w.session = [c \in Conns |-> FALSE]
      /\ w.restore = [c \in Conns |-> None] /\ w.hash = {}
      /\ w.in = [ch \in Chans |-> {}] /\ w.shadow = [ch \in Chans |-> {}]
      /\ w.seen = [ch \in Chans |-> {}] /\ w.entry = [a \in Accounts |-> EmptyEntry]
      /\ w.dirty = FALSE /\ db = [a \in Accounts |-> EmptyEntry]
  BY WorldIs, Zenon DEF Init
<1> HIDE DEF w
<1>2. Typed(w)
  <2>1. w.session \in [Conns -> BOOLEAN] /\ w.dirty \in BOOLEAN
    BY <1>1, Zenon
  <2>2. /\ w.conn \in [Conns -> {"off", "unreg", "user"}]
        /\ w.name \in [Conns -> Nicks \cup {None}]
        /\ w.account \in [Conns -> Accounts \cup {None}]
        /\ w.restore \in [Conns -> Accounts \cup {None}]
        /\ w.hash \in SUBSET Nicks /\ w.in \in [Chans -> SUBSET Nicks]
        /\ w.shadow \in [Chans -> SUBSET Conns]
        /\ \A ch \in Chans : w.shadow[ch] \subseteq w.in[ch]
        /\ w.seen \in [Chans -> SUBSET (Nicks \cup {None})]
        /\ w.entry \in [Accounts -> Entry]
    BY <1>1, NewEntryType
  <2> QED BY <1>1, <2>1, <2>2, Zenon DEF Typed
<1>3. Stored(db)
  BY <1>1, NewEntryType, Zenon DEF Stored
<1>4. Ghosts(w) /\ Durable(w, db)
  BY <1>1, NewEntryType, Zenon DEF Ghosts, Durable, Haunting
<1>5. Live(w)
  BY <1>1, NewEntryType DEF Live
<1> QED BY <1>2, <1>3, <1>4, <1>5, Zenon DEF Inv, Steady, w

\* Every step of the server keeps the invariant.
LEMMA NextInv == Inv /\ [Next]_vars => Inv'
<1> SUFFICES ASSUME Inv, [Next]_vars PROVE Inv'
  BY Zenon
<1>1. CASE UNCHANGED vars
  BY <1>1, Zenon DEF Inv, World, vars
<1>2. ASSUME NEW c \in Conns, NEW n \in Nicks, Connect(c, n) \/ Nick(c, n) PROVE Inv'
  BY <1>2, ConnectInv, NickInv, Zenon
<1>3. ASSUME NEW c \in Conns, NEW a \in Accounts, Login(c, a) \/ LoginRegistered(c, a)
      PROVE  Inv'
  BY <1>3, LoginInv, Zenon
<1>4. ASSUME NEW c \in Conns, Logout(c) \/ Welcome(c) \/ Quit(c) PROVE Inv'
  BY <1>4, LogoutInv, WelcomeInv, QuitInv
<1>5. ASSUME NEW c \in Conns, NEW ch \in Chans, Join(c, ch) \/ Part(c, ch) PROVE Inv'
  BY <1>5, JoinPartInv
<1>6. ASSUME NEW c \in Conns, NEW pref \in {"default", "on", "off"}, Set(c, pref) PROVE Inv'
  BY <1>6, SetInv, Zenon
<1>7. ASSUME NEW x \in Nicks, NEW ch \in Chans, KickByLocal(x, ch) \/ KickByRemote(x, ch)
      PROVE  Inv'
  BY <1>7, KickInv, Zenon
<1>8. ASSUME NEW a \in Accounts, Erase(a) \/ Age(a) PROVE Inv'
  BY <1>8, EraseInv, AgeInv, Zenon
<1>9. CASE ghost_cleanup_event \/ persist_save_event
  BY <1>9, CleanupInv, SaveInv, Zenon
<1>10. CASE Restart \/ Crash \/ \E written \in SUBSET Accounts : CrashWhileSaving(written)
  BY <1>10, RestartInv, Zenon
<1> QED BY <1>1, <1>2, <1>3, <1>4, <1>5, <1>6, <1>7, <1>8, <1>9, <1>10, Zenon DEF Next

\* What the invariant says about the variables.
LEMMA InvGives ==
    /\ Inv => TypeOK /\ GhostDurable
    /\ Inv /\ Separate => SessionsListLive /\ ShadowsAreSessions /\ NoFreedClients
<1> SUFFICES ASSUME Inv
             PROVE  /\ TypeOK /\ GhostDurable
                    /\ Separate => SessionsListLive /\ ShadowsAreSessions /\ NoFreedClients
  BY Zenon
<1>1. Typed(World) /\ Ghosts(World) /\ Stored(db) /\ Durable(World, db)
  BY Zenon DEF Inv, Steady
<1>2. TypeOK
  <2>1. \A ch \in Chans : shadow[ch] \subseteq in[ch] \cap Conns
    BY <1>1, WorldIs, Zenon DEF Typed
  <2>2. \A a \in Accounts : entry[a] \in Entry /\ db[a] \in Entry
    BY <1>1, WorldIs, Zenon DEF Typed, Stored
  <2> QED BY <1>1, <2>1, <2>2, WorldIs, Zenon DEF Typed, TypeOK
<1>3. GhostDurable
  BY <1>1, WorldIs, Zenon DEF Durable, Haunting, GhostDurable
<1>4. ASSUME Separate PROVE SessionsListLive /\ ShadowsAreSessions /\ NoFreedClients
  <2>1. Live(World)
    BY <1>4, Zenon DEF Inv
  <2>2. SessionsListLive
    BY <2>1, WorldIs DEF Live, Distinct, SessionsListLive
  <2>3. ShadowsAreSessions
    BY <2>1, WorldIs, Zenon DEF Live, ShadowsAreSessions
  <2>4. NoFreedClients
    BY <1>1, <2>1, WorldIs, Zenon DEF Live, Ghosts, Haunting, NoFreedClients
  <2> QED BY <2>2, <2>3, <2>4, Zenon
<1> QED BY <1>2, <1>3, <1>4, Zenon

\* Restart brings every unexpired ghost back.
LEMMA RestartWakes == Inv /\ [Next]_vars => [Restart => \A a \in Accounts :
         entry[a].alloc /\ entry[a].ghost /\ ~entry[a].old =>
            \A ch \in Chans : a \in in'[ch] <=> a \in in[ch]]_vars
<1> SUFFICES ASSUME Inv, Restart, NEW a \in Accounts,
                    entry[a].alloc, entry[a].ghost, ~entry[a].old, NEW ch \in Chans
             PROVE  a \in in'[ch] <=> a \in in[ch]
  BY Zenon
<1> DEFINE w == World
           d == persist_save_db(w)
           cs == ChannelsOf(w, a)
<1>1. /\ Steady(w) /\ Haunting(w, a) /\ ~w.entry[a].old /\ w.in = in
      /\ in' = persist_load_db(d).in
  BY WorldIs, Zenon DEF Inv, Restart, Become, Haunting
<1> HIDE DEF w
<1>2. Stored(d) /\ d[a] = DBRecord(w, a)
  BY <1>1, SaveStores, Zenon DEF persist_save_db
<1>3. ch \in cs <=> a \in w.in[ch]
  BY Zenon DEF ChannelsOf
<1> HIDE DEF d, cs
<1>4. a \in in'[ch] <=> a \in Woken(d) /\ ch \in d[a].saved
  <2>1. persist_load_db(d).in = [k \in Chans |-> {b \in Woken(d) : k \in d[b].saved}]
    BY <1>2, LoadFields, Zenon
  <2> QED BY <1>1, <2>1, Zenon
<1>5. CASE cs = {}
  <2>1. d[a].saved = {}
    BY <1>1, <1>2, <1>5, RecordStored, Zenon DEF cs
  <2> QED BY <1>1, <1>3, <1>4, <1>5, <2>1, Zenon
<1>6. CASE cs # {}
  <2>1. /\ d[a].alloc /\ d[a].saved = cs /\ d[a].nick = w.entry[a].nick
        /\ d[a].preference = w.entry[a].preference /\ d[a].old = w.entry[a].old
    <3> DEFINE r == DBRecord(w, a)
    <3>1. ChannelsOf(w, a) # {} =>
             /\ r.alloc /\ r.saved = ChannelsOf(w, a) /\ r.nick = w.entry[a].nick
             /\ r.preference = w.entry[a].preference /\ r.old = w.entry[a].old
      BY <1>1, RecordStored, Zenon
    <3> HIDE DEF r
    <3>2. d[a] = r
      BY <1>2, Zenon DEF r
    <3> QED BY <1>6, <3>1, <3>2, Zenon DEF cs
  <2>2. w.entry[a].nick # None /\ persistence_effective(w, a) /\ w.entry[a].alloc
    BY <1>1, Zenon DEF Steady, Ghosts, Haunting
  <2>3. ColdWorld(d).entry = d
    BY Zenon DEF ColdWorld
  <2>4. persistence_effective(ColdWorld(d), a)
    BY <2>1, <2>2, <2>3, Zenon DEF persistence_effective
  <2>5. a \in Woken(d)
    BY <1>1, <1>6, <2>1, <2>2, <2>4, Zenon DEF Woken
  <2> QED BY <1>1, <1>3, <1>4, <2>1, <2>5
<1> QED BY <1>5, <1>6, Zenon

\* The invariant holds throughout.
THEOREM PersistenceInvariant == Spec => []Inv
  BY InitInv, NextInv, PTL DEF Spec

-----------------------------------------------------------------------------
(* The theorems *)

\* The fields of clients, channels, entries and database records stay in range.
THEOREM PersistenceTypes == Spec => []TypeOK
  BY PersistenceInvariant, InvGives, PTL

\* Unless a save is pending, the file holds every ghost with its nick and each
\* channel it is in, whatever happens, crashes while saving included.
THEOREM GhostsAreDurable == Spec => []GhostDurable
  BY PersistenceInvariant, InvGives, PTL

\* A restart puts every unexpired ghost back into exactly its channels.
THEOREM GhostsSurviveRestart == Spec => GhostSurvivesRestart
  BY PersistenceInvariant, RestartWakes, PTL DEF Spec, GhostSurvivesRestart

\* Session lists name each attached session once, and only those.
THEOREM SessionListsStayLive == ASSUME Separate PROVE Spec => []SessionsListLive
<1>1. Inv => SessionsListLive
  BY InvGives, Zenon
<1> QED BY <1>1, PersistenceInvariant, PTL

\* Only sessions are hidden from NAMES.
THEOREM ShadowsStaySessions == ASSUME Separate PROVE Spec => []ShadowsAreSessions
<1>1. Inv => ShadowsAreSessions
  BY InvGives, Zenon
<1> QED BY <1>1, PersistenceInvariant, PTL

\* No freed client stays in a channel or in the nick hash table.
THEOREM FreedClientsAreGone == ASSUME Separate PROVE Spec => []NoFreedClients
<1>1. Inv => NoFreedClients
  BY InvGives, Zenon
<1> QED BY <1>1, PersistenceInvariant, PTL
=============================================================================
