---------------------------- MODULE Persistence ----------------------------
(***************************************************************************)
(* Account persistence on one server (src/modules/persistence.c): ghosts   *)
(* that keep an account's channel memberships while it is offline, extra   *)
(* sessions that share one IRC presence, and the database that carries     *)
(* both across a restart.                                                  *)
(*                                                                         *)
(* A connection c goes from "off" through "unreg" (handshake) to "user".   *)
(* The guest nick of c is c itself and the nick of account a is a, so the  *)
(* set of nicks is Conns \cup Accounts.  The ghost of account a is a       *)
(* client, written a, that can be a channel member and hold a nick.        *)
(*                                                                         *)
(* Every handler is one step of the single-threaded event loop.  A handler *)
(* calls several helpers that each change some of the state, so helpers    *)
(* are functions from a World (a record of all in-memory state) to a       *)
(* World, and an action ends with Become(w).                               *)
(*                                                                         *)
(* A freed PersistEntry keeps its contents until the block is reused for   *)
(* the next entry of the account, and a Client struct is reused by the     *)
(* next connection, so a pointer that outlives its target is visible here  *)
(* as a pointer to something else.  Member modes, umodes, hosts and away   *)
(* texts are data nobody below depends on and are left out.                *)
(***************************************************************************)
EXTENDS Integers, Sequences, FiniteSets

CONSTANTS
    Conns,                 \* Client structs of local connections
    Accounts,              \* account names
    Chans,                 \* channels
    Watched,               \* channels with an observer who never leaves
    PERSIST_MAX_SESSIONS,  \* session limit per account
    persist_default_on,    \* set by persistence::default
    Inputs,                \* which of AllInputs the environment exercises
    None                   \* no connection, no account, no nick

\* parallel: an account logs in while a client of it is neither its canonical
\* nor an attached session; squat: a stranger takes an account's name as nick;
\* the others are commands, events and messages.
AllInputs == {"parallel", "squat", "identify", "logout", "on", "off", "default",
              "nick", "kick", "remotekick", "erase", "expire", "save", "restart", "crash"}

ASSUME WatchedAssumption == Watched \subseteq Chans
ASSUME InputsAssumption == Inputs \subseteq AllInputs
ASSUME SessionsAssumption == PERSIST_MAX_SESSIONS \in Nat
ASSUME NamesAssumption == None \notin Conns \cup Accounts /\ Conns \cap Accounts = {}

Nicks == Conns \cup Accounts

VARIABLES
    conn,     \* conn[c]: "off", "unreg" or "user"
    name,     \* name[c]: client->name
    account,  \* account[c]: client->user->account
    session,  \* session[c]: session_md
    restore,  \* restore[c]: restore_md, the account whose entry it points to
    hash,     \* clients in the nick hash table
    in,       \* in[ch]: members of ch, shadows included
    shadow,   \* shadow[ch]: members with MEMB_FLAG_SHADOW
    seen,     \* seen[ch]: nicks an observer has been told are in ch
    entry,    \* entry[a]: the PersistEntry of a
    dirty,    \* persist_db_dirty
    db        \* db[a]: the record of a in the database file

vars == <<conn, name, account, session, restore, hash, in, shadow, seen, entry,
          dirty, db>>

Entry == [alloc : BOOLEAN, nick : Nicks \cup {None}, saved : SUBSET Chans,
          ghost : BOOLEAN, canonical : Conns \cup {None}, sessions : Seq(Conns),
          preference : {"default", "on", "off"}, old : BOOLEAN]

\* A zeroed entry: preference DEFAULT, disconnect_time now.
EmptyEntry == [alloc |-> FALSE, nick |-> None, saved |-> {}, ghost |-> FALSE,
               canonical |-> None, sessions |-> <<>>, preference |-> "default",
               old |-> FALSE]

NewEntry == [EmptyEntry EXCEPT !.alloc = TRUE]

World == [conn |-> conn, name |-> name, account |-> account, session |-> session,
          restore |-> restore, hash |-> hash, in |-> in, shadow |-> shadow,
          seen |-> seen, entry |-> entry, dirty |-> dirty]

Become(w) ==
    /\ conn' = w.conn /\ name' = w.name /\ account' = w.account
    /\ session' = w.session /\ restore' = w.restore /\ hash' = w.hash
    /\ in' = w.in /\ shadow' = w.shadow /\ seen' = w.seen
    /\ entry' = w.entry /\ dirty' = w.dirty

-----------------------------------------------------------------------------
(* Lookups.                                                                *)

NameOf(w, x) == IF x \in Accounts THEN w.entry[x].nick ELSE w.name[x]

\* The connections of a list of sessions.
Listed(l) == {l[i] : i \in DOMAIN l}

\* find_client
NickInUse(w, n) == \E x \in w.hash : NameOf(w, x) = n

\* find_channel: a channel exists while it has members.
ChannelExists(w, ch) == ch \in Watched \/ w.in[ch] # {}

ChannelsOf(w, x) == {ch \in Chans : x \in w.in[ch]}

\* e->canonical && !IsDead(e->canonical) && IsUser(e->canonical)
CanonicalLive(w, a) ==
    w.entry[a].canonical # None /\ w.conn[w.entry[a].canonical] = "user"

persistence_effective(w, a) ==
    LET pref == IF w.entry[a].alloc THEN w.entry[a].preference ELSE "default"
    IN  pref = "on" \/ (pref = "default" /\ persist_default_on)

-----------------------------------------------------------------------------
(* Helpers that change the in-memory state.                                *)

get_or_create_entry(w, a) ==
    IF w.entry[a].alloc THEN w ELSE [w EXCEPT !.entry[a] = NewEntry]

free_entry(w, a) == [w EXCEPT !.entry[a].alloc = FALSE]

MarkDirty(w) == [w EXCEPT !.dirty = TRUE]

\* remove_user_from_channel_withmb for every membership of x; sends nothing.
StripChannels(w, x) ==
    [w EXCEPT !.in = [ch \in Chans |-> @[ch] \ {x}],
              !.shadow = [ch \in Chans |-> @[ch] \ {x}]]

\* add_user_to_channel for every channel of cs; sends nothing.
AddSilently(w, x, cs) ==
    [w EXCEPT !.in = [ch \in Chans |-> IF ch \in cs THEN @[ch] \cup {x} ELSE @[ch]]]

save_client_to_entry(w, c, a) ==
    [w EXCEPT !.entry[a].nick = w.name[c], !.entry[a].saved = ChannelsOf(w, c),
              !.entry[a].old = FALSE]

do_create_ghost(w, a) ==
    IF w.entry[a].nick = None \/ w.entry[a].saved = {}
    THEN w
    ELSE AddSilently([w EXCEPT !.entry[a].ghost = TRUE, !.hash = @ \cup {a}],
                     a, w.entry[a].saved)

\* Variant with a plausible bug: the ghost stays in the nick hash table.
GhostStaysHashed(w, a) ==
    IF ~w.entry[a].ghost THEN w ELSE StripChannels([w EXCEPT !.entry[a].ghost = FALSE], a)

destroy_ghost(w, a) ==
    IF ~w.entry[a].ghost
    THEN w
    ELSE StripChannels([w EXCEPT !.entry[a].ghost = FALSE, !.hash = @ \ {a}], a)

\* Variant with a plausible bug: joins are not mirrored.
JoinNotMirrored(w, c, ch) == w

\* persist_local_join: the sessions of the joining client's account follow it.
persist_local_join(w, c, ch) ==
    LET a == w.account[c]
        followers == {s \in Listed(w.entry[a].sessions) : s \notin w.in[ch]}
    IN  IF w.session[c] \/ a = None \/ ~w.entry[a].alloc
        THEN w
        ELSE [w EXCEPT !.in[ch] = @ \cup followers, !.shadow[ch] = @ \cup followers]

\* join_channel: add the user, broadcast the JOIN, run HOOKTYPE_LOCAL_JOIN.
join_channel(w, c, ch) ==
    persist_local_join([w EXCEPT !.in[ch] = @ \cup {c}, !.seen[ch] = @ \cup {w.name[c]}],
                       c, ch)

\* join_channel for every channel of cs: a join touches its own channel only.
JoinAll(w, c, cs) ==
    [w EXCEPT
       !.in = [ch \in Chans |-> IF ch \in cs THEN join_channel(w, c, ch).in[ch] ELSE @[ch]],
       !.shadow = [ch \in Chans |-> IF ch \in cs THEN join_channel(w, c, ch).shadow[ch]
                                    ELSE @[ch]],
       !.seen = [ch \in Chans |-> IF ch \in cs THEN join_channel(w, c, ch).seen[ch] ELSE @[ch]]]

\* persist_local_part / persist_local_kick: drop the shadows of x's sessions.
DropShadows(w, x, ch) ==
    LET a == IF x \in Accounts THEN x ELSE w.account[x]
        followers == {s \in Listed(w.entry[a].sessions) : s \in w.shadow[ch]}
    IN  IF a = None \/ ~w.entry[a].alloc
        THEN w
        ELSE [w EXCEPT !.in[ch] = @ \ followers, !.shadow[ch] = @ \ followers]

\* A member leaves a channel and the observer is told (PART or KICK).
LeaveChannel(w, x, ch) ==
    [w EXCEPT !.in[ch] = @ \ {x}, !.shadow[ch] = @ \ {x}, !.seen[ch] = @ \ {NameOf(w, x)}]

\* restore_channels: back into the saved channels that still exist, silently
\* when the client has the saved nick and with a broadcast JOIN otherwise.
restore_channels(w, c, a) ==
    LET back == {ch \in w.entry[a].saved : ChannelExists(w, ch) /\ c \notin w.in[ch]}
        joined == IF w.name[c] = w.entry[a].nick
                  THEN AddSilently(w, c, back)
                  ELSE JoinAll(w, c, back)
    IN  [joined EXCEPT !.restore[c] = None]

add_session(w, c, a) == [w EXCEPT !.entry[a].sessions = <<c>> \o @]

\* remove_session: the first PersistSession of c is unlinked.
remove_session(w, c, a) ==
    LET l == w.entry[a].sessions
        at == {i \in DOMAIN l : l[i] = c}
        k == CHOOSE i \in at : \A j \in at : i <= j
    IN  IF at = {} THEN w
        ELSE [w EXCEPT !.entry[a].sessions =
                 [i \in 1..Len(l) - 1 |-> IF i < k THEN l[i] ELSE l[i + 1]]]

\* setup_session: list the session and shadow every channel of the canonical.
setup_session(w, c, a) ==
    LET cs == {ch \in ChannelsOf(w, w.entry[a].canonical) : c \notin w.in[ch]}
    IN  IF ~CanonicalLive(w, a)
        THEN w
        ELSE [AddSilently(add_session(w, c, a), c, cs) EXCEPT
                !.shadow = [ch \in Chans |-> IF ch \in cs THEN @[ch] \cup {c} ELSE @[ch]]]

\* Variant with a plausible bug: the shadow flags survive the promotion.
PromoteKeepsShadows(w, a) ==
    LET s == Head(w.entry[a].sessions)
        promoted == [w EXCEPT !.entry[a].sessions = Tail(@), !.hash = @ \cup {s},
                              !.session[s] = FALSE]
    IN  [restore_channels(promoted, s, a) EXCEPT !.entry[a].canonical = s]

\* promote_session: the newest session becomes the canonical.
promote_session(w, a) ==
    LET s == Head(w.entry[a].sessions)
        promoted == [w EXCEPT !.entry[a].sessions = Tail(@), !.hash = @ \cup {s},
                              !.session[s] = FALSE,
                              !.shadow = [ch \in Chans |-> @[ch] \ {s}]]
    IN  [restore_channels(promoted, s, a) EXCEPT !.entry[a].canonical = s]

-----------------------------------------------------------------------------
(* Hooks.                                                                  *)

\* Variant with a plausible bug: the session is not taken off the list.
SessionStaysListed(w, c) == [StripChannels(w, c) EXCEPT !.name[c] = None]

\* persist_local_quit, the part for a session.
SessionQuit(w, c) ==
    LET a == w.restore[c]
        detached == IF a = None THEN w ELSE remove_session(w, c, a)
    IN  [StripChannels(detached, c) EXCEPT !.name[c] = None]

\* Variants with a plausible bug: the canonical pointer is not cleared; the
\* database is not marked dirty.
HandOverKeepsCanonical(w, c, a) ==
    LET kept == [save_client_to_entry(destroy_ghost(w, a), c, a) EXCEPT !.hash = @ \ {c}]
        next == IF kept.entry[a].sessions # <<>>
                THEN promote_session(kept, a)
                ELSE do_create_ghost(kept, a)
    IN  MarkDirty([StripChannels(next, c) EXCEPT !.name[c] = None])

HandOverNotDirty(w, c, a) ==
    LET clear == destroy_ghost([w EXCEPT !.entry[a].canonical = None], a)
        kept == [save_client_to_entry(clear, c, a) EXCEPT !.hash = @ \ {c}]
        next == IF kept.entry[a].sessions # <<>>
                THEN promote_session(kept, a)
                ELSE do_create_ghost(kept, a)
    IN  [StripChannels(next, c) EXCEPT !.name[c] = None]

\* persist_local_quit, the part that hands the presence of c over to a
\* session or to a ghost.
HandOver(w, c, a) ==
    LET clear == destroy_ghost([w EXCEPT !.entry[a].canonical = None], a)
        kept == [save_client_to_entry(clear, c, a) EXCEPT !.hash = @ \ {c}]
        next == IF kept.entry[a].sessions # <<>>
                THEN promote_session(kept, a)
                ELSE do_create_ghost(kept, a)
    IN  MarkDirty([StripChannels(next, c) EXCEPT !.name[c] = None])

persist_local_quit(w, c) ==
    LET a == w.account[c]
        have == get_or_create_entry(w, a)
    IN  CASE w.session[c] -> SessionQuit(w, c)
          [] ~w.session[c] /\ a = None -> w
          [] ~w.session[c] /\ a # None /\ ~persistence_effective(w, a) ->
               IF w.entry[a].alloc /\ w.entry[a].canonical = c
               THEN [w EXCEPT !.entry[a].canonical = None]
               ELSE w
          [] OTHER ->
               IF have.entry[a].canonical \in {None, c} THEN HandOver(have, c, a) ELSE have

\* Variant with a plausible bug: the QUIT is broadcast before the hook runs.
QuitBeforeHook(w, c) ==
    LET told == [ch \in Chans |-> IF c \in w.in[ch] THEN w.seen[ch] \ {w.name[c]} ELSE w.seen[ch]]
        v == IF w.conn[c] = "user" THEN persist_local_quit(w, c) ELSE w
    IN  [StripChannels(v, c) EXCEPT
            !.seen = told, !.hash = @ \ {c}, !.conn[c] = "off", !.name[c] = None,
            !.account[c] = None, !.session[c] = FALSE, !.restore[c] = None]

\* exit_client for a local connection: the quit hook runs first, then whatever
\* channels are left see a QUIT and the client is freed.
exit_client(w, c) ==
    LET v == IF w.conn[c] = "user" THEN persist_local_quit(w, c) ELSE w
        told == [ch \in Chans |-> IF c \in v.in[ch] THEN v.seen[ch] \ {v.name[c]} ELSE v.seen[ch]]
    IN  [StripChannels(v, c) EXCEPT
            !.seen = told, !.hash = @ \ {c}, !.conn[c] = "off", !.name[c] = None,
            !.account[c] = None, !.session[c] = FALSE, !.restore[c] = None]

\* persist_account_login, first part: the ghost is dissolved, its channels kept.
ReclaimGhost(w, a) ==
    IF w.entry[a].alloc /\ w.entry[a].ghost
    THEN destroy_ghost([w EXCEPT !.entry[a].saved = ChannelsOf(w, a)], a)
    ELSE w

\* persist_account_login, second part: before registration the client gets the
\* account's name as nick if that nick is free.
EnforceNick(w, c, a) ==
    IF w.conn[c] = "unreg" /\ w.name[c] # a /\ ~NickInUse(w, a)
    THEN [w EXCEPT !.name[c] = a, !.hash = @ \cup {c}]
    ELSE w

\* Variant with a plausible bug: the session keeps its slot in the hash table.
AttachKeepsHash(w, c, a) ==
    LET alone == [w EXCEPT !.entry[a].canonical = None]
        queued == MarkDirty([alone EXCEPT !.restore[c] = a])
    IN  IF CanonicalLive(w, a)
        THEN IF Len(w.entry[a].sessions) >= PERSIST_MAX_SESSIONS
             THEN exit_client(w, c)
             ELSE [w EXCEPT !.name[c] = a, !.session[c] = TRUE, !.restore[c] = a]
        ELSE IF ~persistence_effective(w, a) THEN alone
             ELSE IF w.conn[c] = "user"
                  THEN [restore_channels(queued, c, a) EXCEPT !.entry[a].canonical = c]
                  ELSE queued

\* persist_account_login, last part: attach to a live canonical, or become one.
AttachOrRestore(w, c, a) ==
    LET alone == [w EXCEPT !.entry[a].canonical = None]
        queued == MarkDirty([alone EXCEPT !.restore[c] = a])
    IN  CASE CanonicalLive(w, a) /\ Len(w.entry[a].sessions) >= PERSIST_MAX_SESSIONS ->
               exit_client(w, c)
          [] CanonicalLive(w, a) /\ Len(w.entry[a].sessions) < PERSIST_MAX_SESSIONS ->
               [w EXCEPT !.hash = @ \ {c}, !.name[c] = a, !.session[c] = TRUE,
                         !.restore[c] = a]
          [] ~CanonicalLive(w, a) /\ ~persistence_effective(w, a) -> alone
          [] OTHER ->
               IF w.conn[c] = "user"
               THEN [restore_channels(queued, c, a) EXCEPT !.entry[a].canonical = c]
               ELSE queued

persist_account_login(w, c, a) ==
    LET named == EnforceNick(ReclaimGhost(w, a), c, a)
    IN  IF named.entry[a].alloc THEN AttachOrRestore(named, c, a) ELSE named

\* persist_welcome after numeric 376.
persist_welcome(w, c) ==
    LET a == w.restore[c]
    IN  CASE a = None -> w
          [] a # None /\ w.session[c] -> setup_session(w, c, a)
          [] OTHER -> [restore_channels(w, c, a) EXCEPT !.entry[a].canonical = c]

persist_local_nickchange(w, c, n) ==
    LET a == w.account[c]
        group == Listed(w.entry[a].sessions)
    IN  IF a = None \/ ~w.entry[a].alloc \/ w.entry[a].canonical # c
        THEN w
        ELSE MarkDirty([w EXCEPT !.entry[a].nick = n,
                !.name = [d \in Conns |-> IF d \in group THEN n ELSE @[d]]])

-----------------------------------------------------------------------------
(* Initial state and database.                                             *)

\* The account's record in the file; absent records read as EmptyEntry.
\* persist_save_db: the channels of the ghost, else of the live canonical, else
\* the saved ones; an entry without channels and preference is skipped.
DBRecord(w, a) ==
    LET e == w.entry[a]
        chans == IF e.ghost THEN ChannelsOf(w, a)
                 ELSE IF CanonicalLive(w, a) THEN ChannelsOf(w, e.canonical)
                 ELSE e.saved
    IN  IF e.alloc /\ (chans # {} \/ e.preference # "default")
        THEN [NewEntry EXCEPT !.nick = e.nick, !.saved = chans,
                              !.preference = e.preference, !.old = e.old]
        ELSE EmptyEntry

persist_save_db(w) == [a \in Accounts |-> DBRecord(w, a)]

\* A server without clients.
ColdWorld(entries) ==
    [conn |-> [c \in Conns |-> "off"], name |-> [c \in Conns |-> None],
     account |-> [c \in Conns |-> None], session |-> [c \in Conns |-> FALSE],
     restore |-> [c \in Conns |-> None], hash |-> {},
     in |-> [ch \in Chans |-> {}], shadow |-> [ch \in Chans |-> {}],
     seen |-> [ch \in Chans |-> {}], entry |-> entries, dirty |-> FALSE]

\* do_create_ghost for every account of as, and an observer that joins afterwards
\* and learns the members from NAMES.  A ghost touches only what is its own.
WakeAll(w, as) ==
    LET woken(a) == do_create_ghost(w, a)
        in2 == [ch \in Chans |-> w.in[ch] \cup UNION {woken(a).in[ch] : a \in as}]
    IN  [w EXCEPT !.entry = [a \in Accounts |-> IF a \in as THEN woken(a).entry[a] ELSE @[a]],
                  !.hash = @ \cup UNION {woken(a).hash : a \in as},
                  !.in = in2,
                  !.seen = [ch \in Chans |-> {NameOf(w, x) : x \in in2[ch]}]]

\* Variant with a plausible bug: ghosts only for entries with an explicit ON.
LoadIfPreferred(file) ==
    WakeAll(ColdWorld(file),
            {a \in Accounts : /\ file[a].alloc /\ file[a].saved # {} /\ ~file[a].old
                              /\ file[a].preference = "on"})

\* persist_load_db: a ghost for every fresh, effective entry with channels.
persist_load_db(file) ==
    WakeAll(ColdWorld(file),
            {a \in Accounts : /\ file[a].alloc /\ file[a].saved # {} /\ ~file[a].old
                              /\ persistence_effective(ColdWorld(file), a)})

Init ==
    /\ db = [a \in Accounts |-> EmptyEntry]
    /\ conn = [c \in Conns |-> "off"] /\ name = [c \in Conns |-> None]
    /\ account = [c \in Conns |-> None] /\ session = [c \in Conns |-> FALSE]
    /\ restore = [c \in Conns |-> None] /\ hash = {}
    /\ in = [ch \in Chans |-> {}] /\ shadow = [ch \in Chans |-> {}]
    /\ seen = [ch \in Chans |-> {}] /\ entry = db /\ dirty = FALSE

-----------------------------------------------------------------------------
(* Actions.                                                                *)

\* A connection with its first NICK.
Connect(c, n) ==
    /\ conn[c] = "off"
    /\ n = c \/ (n \in Accounts /\ "squat" \in Inputs)
    /\ ~NickInUse(World, n)
    /\ Become([World EXCEPT !.conn[c] = "unreg", !.name[c] = n, !.hash = @ \cup {c}])
    /\ UNCHANGED db

\* Every online client of a is the canonical or an attached session.
Settled(a) ==
    \A d \in Conns : account[d] = a =>
        d = entry[a].canonical \/ d \in Listed(entry[a].sessions)

\* user_account_login during the handshake (SASL).
Login(c, a) ==
    /\ conn[c] = "unreg" /\ account[c] = None
    /\ "parallel" \in Inputs \/ Settled(a)
    /\ Become(persist_account_login([World EXCEPT !.account[c] = a], c, a))
    /\ UNCHANGED db

\* user_account_login of a registered user (IDENTIFY, or SASL after registration).
LoginRegistered(c, a) ==
    /\ "identify" \in Inputs
    /\ conn[c] = "user" /\ account[c] = None
    /\ "parallel" \in Inputs \/ Settled(a)
    /\ Become(persist_account_login([World EXCEPT !.account[c] = a], c, a))
    /\ UNCHANGED db

\* LOGOUT: the account is cleared; persistence returns early on the hook.
Logout(c) ==
    /\ "logout" \in Inputs
    /\ conn[c] = "user" /\ account[c] # None
    /\ Become([World EXCEPT !.account[c] = None])
    /\ UNCHANGED db

\* welcome_user: registration completes.
Welcome(c) ==
    /\ conn[c] = "unreg"
    /\ Become(persist_welcome([World EXCEPT !.conn[c] = "user"], c))
    /\ UNCHANGED db

\* session_*_override: whom a command of c is executed for.
Actor(c) ==
    IF ~session[c] THEN c
    ELSE IF restore[c] # None /\ CanonicalLive(World, restore[c])
         THEN entry[restore[c]].canonical
         ELSE None

Join(c, ch) ==
    /\ conn[c] = "user" /\ Actor(c) # None
    /\ Actor(c) \notin in[ch]
    /\ Become(join_channel(World, Actor(c), ch))
    /\ UNCHANGED db

Part(c, ch) ==
    /\ conn[c] = "user" /\ Actor(c) # None
    /\ Actor(c) \in in[ch]
    /\ Become(LeaveChannel(IF session[Actor(c)] THEN World ELSE DropShadows(World, Actor(c), ch),
                           Actor(c), ch))
    /\ UNCHANGED db

\* kick_user by a local user: HOOKTYPE_LOCAL_KICK runs, then the victim leaves.
KickByLocal(x, ch) ==
    /\ "kick" \in Inputs
    /\ x \in in[ch] \cap hash
    /\ Become(LeaveChannel(DropShadows(World, x, ch), x, ch))
    /\ UNCHANGED db

\* kick_user by a remote user: only HOOKTYPE_REMOTE_KICK runs.
KickByRemote(x, ch) ==
    /\ "remotekick" \in Inputs
    /\ x \in in[ch] \cap hash
    /\ Become(LeaveChannel(World, x, ch))
    /\ UNCHANGED db

\* NICK; session_nick_override drops it for sessions.
Nick(c, n) ==
    /\ "nick" \in Inputs
    /\ conn[c] # "off" /\ ~session[c]
    /\ n = c \/ (n \in Accounts /\ (n = account[c] \/ "squat" \in Inputs))
    /\ ~NickInUse(World, n)
    /\ LET hooked == IF conn[c] = "user" THEN persist_local_nickchange(World, c, n) ELSE World
           told == [ch \in Chans |-> IF c \in in[ch] THEN (seen[ch] \ {name[c]}) \cup {n} ELSE seen[ch]]
       IN  Become([hooked EXCEPT !.name[c] = n, !.hash = @ \cup {c}, !.seen = told])
    /\ UNCHANGED db

Quit(c) ==
    /\ conn[c] # "off"
    /\ Become(exit_client(World, c))
    /\ UNCHANGED db

\* PERSISTENCE SET.
Set(c, pref) ==
    /\ conn[c] = "user" /\ account[c] # None
    /\ pref \in Inputs
    /\ LET a == account[c]
           chosen == [get_or_create_entry(World, a) EXCEPT !.entry[a].preference = pref]
       IN  Become(MarkDirty(IF persistence_effective(chosen, a)
                            THEN chosen ELSE destroy_ghost(chosen, a)))
    /\ UNCHANGED db

\* PERSISTENCE ERASE by an operator, or persistence.erase over RPC.
Erase(a) ==
    /\ "erase" \in Inputs
    /\ entry[a].alloc
    /\ LET erased == [free_entry(destroy_ghost(World, a), a) EXCEPT !.dirty = FALSE]
       IN  Become(erased) /\ db' = persist_save_db(erased)

\* persist_timeout passes for the entry of a (and for its older copy on disk).
Age(a) ==
    /\ "expire" \in Inputs
    /\ entry[a].alloc /\ ~entry[a].old
    /\ Become([World EXCEPT !.entry[a].old = TRUE])
    /\ db' = [db EXCEPT ![a].old = db[a].alloc]

\* Variant with a plausible bug: the event only frees entries without a ghost.
CleanupSkipsGhosts(w, a) ==
    LET e == w.entry[a]
    IN  IF (e.canonical # None /\ w.conn[e.canonical] # "off") \/ ~e.old \/ e.ghost
        THEN w
        ELSE free_entry(w, a)

\* ghost_cleanup_event, the body of its loop.
CleanupEntry(w, a) ==
    LET e == w.entry[a]
    IN  IF (e.canonical # None /\ w.conn[e.canonical] # "off") \/ ~e.old
        THEN w
        ELSE [free_entry(destroy_ghost(w, a), a) EXCEPT !.dirty = @ \/ e.ghost]

\* ghost_cleanup_event: the loop over persist_list.  What it does for an entry
\* concerns that entry and its ghost only.
ghost_cleanup_event ==
    LET list == {a \in Accounts : entry[a].alloc}
        cleaned(a) == CleanupEntry(World, a)
    IN  /\ Become([World EXCEPT
           !.entry = [a \in Accounts |-> IF a \in list THEN cleaned(a).entry[a] ELSE @[a]],
           !.hash = {x \in @ : \A a \in list : x \in cleaned(a).hash},
           !.in = [ch \in Chans |-> {x \in @[ch] : \A a \in list : x \in cleaned(a).in[ch]}],
           !.shadow = [ch \in Chans |->
                          {x \in @[ch] : \A a \in list : x \in cleaned(a).shadow[ch]}],
           !.dirty = @ \/ \E a \in list : cleaned(a).dirty])
        /\ UNCHANGED db

persist_save_event ==
    /\ "save" \in Inputs
    /\ dirty
    /\ Become([World EXCEPT !.dirty = FALSE])
    /\ db' = persist_save_db(World)

\* DIE or RESTART: MOD_UNLOAD saves, the next MOD_LOAD loads.
Restart ==
    /\ "restart" \in Inputs
    /\ db' = persist_save_db(World)
    /\ Become(persist_load_db(db'))

\* The process dies between two saves.
Crash ==
    /\ "crash" \in Inputs
    /\ Become(persist_load_db(db))
    /\ UNCHANGED db

\* The process dies inside persist_save_db, which writes the final file in
\* place: only the entries written so far can be read back.
CrashWhileSaving(written) ==
    /\ "crash" \in Inputs
    /\ dirty
    /\ db' = [a \in Accounts |-> IF a \in written THEN DBRecord(World, a) ELSE EmptyEntry]
    /\ Become(persist_load_db(db'))

Next ==
    \/ \E c \in Conns :
         \/ \E n \in Nicks : Connect(c, n)
         \/ \E a \in Accounts : Login(c, a)
         \/ \E a \in Accounts : LoginRegistered(c, a)
         \/ Logout(c)
         \/ Welcome(c)
         \/ \E ch \in Chans : Join(c, ch)
         \/ \E ch \in Chans : Part(c, ch)
         \/ \E n \in Nicks : Nick(c, n)
         \/ Quit(c)
         \/ \E pref \in {"default", "on", "off"} : Set(c, pref)
    \/ \E x \in Nicks, ch \in Chans : KickByLocal(x, ch)
    \/ \E x \in Nicks, ch \in Chans : KickByRemote(x, ch)
    \/ \E a \in Accounts : Erase(a)
    \/ \E a \in Accounts : Age(a)
    \/ ghost_cleanup_event
    \/ persist_save_event
    \/ Restart
    \/ Crash
    \/ \E written \in SUBSET Accounts : CrashWhileSaving(written)

Spec == Init /\ [][Next]_vars

\* Time passes and the cleanup timer keeps firing.
FairSpec ==
    Spec /\ (\A a \in Accounts : WF_vars(Age(a))) /\ WF_vars(ghost_cleanup_event)

-----------------------------------------------------------------------------
(* Properties.                                                             *)

\* All fields are in range, a database record is an entry that can be read
\* back, and only members that are local connections carry MEMB_FLAG_SHADOW.
TypeOK ==
    /\ conn \in [Conns -> {"off", "unreg", "user"}]
    /\ name \in [Conns -> Nicks \cup {None}]
    /\ account \in [Conns -> Accounts \cup {None}]
    /\ session \in [Conns -> BOOLEAN]
    /\ restore \in [Conns -> Accounts \cup {None}]
    /\ hash \subseteq Nicks
    /\ in \in [Chans -> SUBSET Nicks]
    /\ \A ch \in Chans : shadow[ch] \subseteq in[ch] \cap Conns
    /\ seen \in [Chans -> SUBSET (Nicks \cup {None})]
    /\ \A a \in Accounts : entry[a] \in Entry /\ db[a] \in Entry
    /\ dirty \in BOOLEAN

\* No two clients are filed under the same nick: renaming at login, promoting a
\* session and creating a ghost never give a nick to a second holder.
NickHashUnique == \A x, y \in hash : NameOf(World, x) = NameOf(World, y) => x = y

\* The session list of an entry names each attached session once, and only
\* registered clients that are marked as sessions of that entry: hand-over,
\* detaching and entry removal leave no stale PersistSession behind.
SessionsListLive ==
    \A a \in Accounts : LET l == entry[a].sessions IN
        entry[a].alloc =>
        /\ \A i, j \in DOMAIN l : l[i] = l[j] => i = j
        /\ \A s \in Listed(l) : conn[s] = "user" /\ session[s] /\ restore[s] = a

\* A shadow member is always a session. NAMES hides shadows, so a promoted
\* client whose MEMB_FLAG_SHADOW stayed set would be hidden from everyone.
ShadowsAreSessions == \A ch \in Chans : \A c \in shadow[ch] : session[c]

\* An attached session is a shadow member of exactly the channels its canonical
\* is in ("when canonical joins/parts/gets-kicked, we mirror the
\* channel-membership change onto each attached session's shadow Member").
ShadowsMirrorCanonical ==
    \A a \in Accounts : \A s \in Listed(entry[a].sessions) :
        entry[a].alloc /\ CanonicalLive(World, a) =>
        \A ch \in Chans : /\ s \in in[ch] <=> entry[a].canonical \in in[ch]
                          /\ s \in in[ch] <=> s \in shadow[ch]

\* An account is present once: never with a ghost and a live canonical at the
\* same time, and its canonical is a registered client of that account that is
\* not itself a session, since commands of sessions are executed in its name.
SinglePresence ==
    \A a \in Accounts :
        LET k == entry[a].canonical
        IN  entry[a].alloc =>
                /\ entry[a].ghost => ~CanonicalLive(World, a)
                /\ k # None => conn[k] = "user" /\ account[k] = a /\ ~session[k]

\* When the canonical of a persistent account leaves, observers see nothing: no
\* QUIT reaches a channel, and NAMES lists the same nicks before and after, now
\* those of the promoted session or of the ghost ("users with persistence ON
\* remain present in channels after disconnection").  A session that was named
\* after the account while the canonical had another nick is left out.
HandOverUnseen ==
    [][\A a \in Accounts :
         LET k == entry[a].canonical
         IN  /\ entry[a].alloc /\ k # None /\ persistence_effective(World, a)
             /\ \A s \in Listed(entry[a].sessions) : name[s] = name[k]
             /\ Quit(k)
             => /\ seen' = seen
                /\ \A ch \in Chans :
                      {NameOf(World, x) : x \in in[ch] \ shadow[ch]}' =
                      {NameOf(World, x) : x \in in[ch] \ shadow[ch]}]_vars

\* Members and nick holders are never freed clients: every path that frees a
\* connection or a ghost first takes it out of channels and the hash table.
NoFreedClients ==
    /\ \A c \in Conns : conn[c] = "off" => c \notin hash /\ \A ch \in Chans : c \notin in[ch]
    /\ \A a \in Accounts : ~(entry[a].alloc /\ entry[a].ghost) =>
                             a \notin hash /\ \A ch \in Chans : a \notin in[ch]

\* "State is saved to unrealdb so ghost memberships survive restarts": a restart
\* brings every unexpired ghost back into the channels it was in.
GhostSurvivesRestart ==
    [][Restart => \A a \in Accounts :
         entry[a].alloc /\ entry[a].ghost /\ ~entry[a].old =>
            \A ch \in Chans : a \in in'[ch] <=> a \in in[ch]]_vars

\* Unless a save is pending (persist_db_dirty), the file holds the nick of every
\* ghost and each channel it is in, so a crash loses no membership of a ghost.
GhostDurable ==
    \A a \in Accounts, ch \in Chans :
        entry[a].alloc /\ entry[a].ghost /\ a \in in[ch] /\ ~dirty =>
            db[a].alloc /\ ch \in db[a].saved /\ db[a].nick = entry[a].nick

\* ghost_cleanup_event frees no entry that sessions are attached to ("Skip
\* entries with a live canonical or active sessions").
CleanupSparesSessions ==
    [][ghost_cleanup_event => \A a \in Accounts :
         entry[a].alloc /\ entry[a].sessions # <<>> => entry'[a].alloc]_vars

\* "An inactivity timeout (default 7 days) removes stale ghosts": no ghost stays
\* for ever.
GhostsExpire ==
    \A a \in Accounts :
        entry[a].alloc /\ entry[a].ghost ~> ~(entry[a].alloc /\ entry[a].ghost)
=============================================================================
