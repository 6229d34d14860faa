------------------------------- MODULE Whowas -------------------------------
(***************************************************************************)
(* The nick history of one server (src/whowas.c): a ring of               *)
(* NICKNAMEHISTORYLENGTH records, indexed by a hash of the nick, with a    *)
(* per-client list of the records whose `online` pointer still refers to   *)
(* that client.  /KILL and the nick-chasing commands follow those pointers *)
(* (get_history), and a Client struct is recycled after the user has quit, *)
(* so a record that outlives its client must have been cut loose first.    *)
(*                                                                         *)
(* Record contents are abstracted to the nick, the logoff time and the     *)
(* `online` pointer.  The per-client list is only ever walked as a whole,  *)
(* so it is a set; a hash bucket is searched front to back, so it is a     *)
(* sequence.                                                               *)
(***************************************************************************)
EXTENDS Naturals, Sequences, FiniteSets

CONSTANTS
    Clients,                \* Client structs (recycled after a quit)
    Remote,                 \* those that are users of other servers
    Nicks,                  \* nick names
    Buckets,                \* hash buckets (WHOWAS_HASH_TABLE_SIZE of them)
    HashOf,                 \* hash_whowas_name
    NICKNAMEHISTORYLENGTH,  \* ring size
    KILLCHASETIMELIMIT,     \* how far back get_history looks
    MaxTime,                \* bound: the clock stops here
    NoClient, NoNick

ASSUME HistoryLengthAssumption == NICKNAMEHISTORYLENGTH \in Nat \ {0}
ASSUME ChaseAssumption == KILLCHASETIMELIMIT \in Nat
ASSUME HashAssumption == HashOf \in [Nicks -> Buckets]
ASSUME NullAssumption == NoClient \notin Clients /\ NoNick \notin Nicks

VARIABLES
    lastnick,     \* lastnick[c]: when c took its nick
    name,         \* name[c]: the nick of client c, NoNick when c is not in use
    WHOWAS,       \* the ring
    WHOWASHASH,   \* bucket lists of ring slots, newest first
    whowas_next,  \* next slot to overwrite
    whowas,       \* whowas[c]: client->user->whowas, slots whose online is c
    now           \* TStime()

vars == <<lastnick, name, WHOWAS, WHOWASHASH, whowas_next, whowas, now>>

Slots == 0 .. NICKNAMEHISTORYLENGTH - 1

\* hashv = -1 marks an unused record; a used one has the nick it was filed under.
Record == [used : BOOLEAN, name : Nicks \cup {NoNick},
           logon : Nat, logoff : Nat, online : Clients \cup {NoClient}]

EmptyRecord == [used |-> FALSE, name |-> NoNick, logon |-> 0, logoff |-> 0,
                online |-> NoClient]

Online(c) == name[c] # NoNick

NickFree(n) == \A c \in Clients : name[c] # n

-----------------------------------------------------------------------------

\* Variant with a plausible bug: the record stays on the list of its client.
ClistKept(e) == whowas

\* free_whowas_entry: unlink the record about to be overwritten from the list
\* of the client it points to and from its hash bucket.
free_whowas_clist(e) ==
    [c \in Clients |-> IF WHOWAS[e].used /\ WHOWAS[e].online = c
                       THEN whowas[c] \ {e}
                       ELSE whowas[c]]

\* del_whowas_from_list: the record is unlinked from where it is.
del_whowas_from_list(list, e) ==
    LET i == CHOOSE j \in DOMAIN list : list[j] = e
    IN  [j \in 1 .. Len(list) - 1 |-> IF j < i THEN list[j] ELSE list[j + 1]]

free_whowas_hash(e) ==
    [b \in Buckets |-> IF WHOWAS[e].used /\ HashOf[WHOWAS[e].name] = b
                       THEN del_whowas_from_list(WHOWASHASH[b], e)
                       ELSE WHOWASHASH[b]]

\* create_whowas_entry: the record of a client that leaves its current nick.
\* logon is client->lastnick as it is when the function runs.
create_whowas_entry(c, logon, online) ==
    [used |-> TRUE, name |-> name[c], logon |-> logon, logoff |-> now,
     online |-> online]

\* add_whowas_to_list: the newest record goes to the front of its bucket.
add_whowas_to_list(buckets, b, e) == [buckets EXCEPT ![b] = <<e>> \o @]

\* whowas_next++, wrapping at the end of the ring.
Advance(i) == IF i + 1 = NICKNAMEHISTORYLENGTH THEN 0 ELSE i + 1

\* add_history, without its effect on the per-client lists.
FileRecord(c, logon, online) ==
    LET e == whowas_next
    IN  /\ WHOWAS' = [WHOWAS EXCEPT ![e] = create_whowas_entry(c, logon, online)]
        /\ WHOWASHASH' = add_whowas_to_list(free_whowas_hash(e), HashOf[name[c]], e)
        /\ whowas_next' = Advance(e)

\* get_history: the first record in the bucket that has this nick and is not
\* too old; its online pointer is the answer (NoClient when that user is gone).
Matches(n, s) ==
    /\ WHOWAS[s].name = n
    /\ WHOWAS[s].logoff + KILLCHASETIMELIMIT >= now

First(hits) == CHOOSE i \in hits : \A j \in hits : i <= j

\* Variant with a plausible bug: the first record of the bucket is taken.
FirstInBucket(n) ==
    LET list == WHOWASHASH[HashOf[n]]
        hits == {i \in DOMAIN list : WHOWAS[list[i]].logoff + KILLCHASETIMELIMIT >= now}
    IN  IF hits = {} THEN NoClient ELSE WHOWAS[list[First(hits)]].online

get_history(n) ==
    LET list == WHOWASHASH[HashOf[n]]
        hits == {i \in DOMAIN list : Matches(n, list[i])}
    IN  IF hits = {} THEN NoClient ELSE WHOWAS[list[First(hits)]].online

-----------------------------------------------------------------------------

Init ==
    /\ lastnick = [c \in Clients |-> 0]
    /\ name = [c \in Clients |-> NoNick]
    /\ WHOWAS = [s \in Slots |-> EmptyRecord]
    /\ WHOWASHASH = [b \in Buckets |-> <<>>]
    /\ whowas_next = 0
    /\ whowas = [c \in Clients |-> {}]
    /\ now = 0

\* A Client struct is taken from the pool and registers with a free nick.
Connect(c, n) ==
    /\ ~Online(c)
    /\ NickFree(n)
    /\ name' = [name EXCEPT ![c] = n]
    /\ lastnick' = [lastnick EXCEPT ![c] = now]
    /\ UNCHANGED <<WHOWAS, WHOWASHASH, whowas_next, whowas, now>>

\* A nick change files the old nick with add_history(client, 1, ...).
ChangeNick(c, n, logon, ts) ==
    /\ Online(c)
    /\ NickFree(n)
    /\ FileRecord(c, logon, c)
    /\ whowas' = [free_whowas_clist(whowas_next) EXCEPT ![c] = @ \cup {whowas_next}]
    /\ name' = [name EXCEPT ![c] = n]
    /\ lastnick' = [lastnick EXCEPT ![c] = ts]
    /\ UNCHANGED now

\* cmd_nick_local (and SVSNICK): lastnick is set after add_history.
LocalNickChange(c, n) ==
    /\ c \notin Remote
    /\ ChangeNick(c, n, lastnick[c], now)

\* cmd_nick_remote: lastnick takes the TS of the message before add_history.
RemoteNickChange(c, n, ts) ==
    /\ c \in Remote
    /\ ChangeNick(c, n, ts, ts)

\* A quit that forgets off_history.
QuitKeepsPointers(c) ==
    /\ Online(c)
    /\ FileRecord(c, lastnick[c], NoClient)
    /\ whowas' = free_whowas_clist(whowas_next)
    /\ name' = [name EXCEPT ![c] = NoNick]
    /\ UNCHANGED <<lastnick, now>>

\* remove_client_from_list: add_history(client, 0, ...) and then off_history,
\* which clears the online pointer of every record on the client's list.
Quit(c) ==
    /\ Online(c)
    /\ LET e == whowas_next
           lists == free_whowas_clist(e)
           ring == [WHOWAS EXCEPT ![e] = create_whowas_entry(c, lastnick[c], NoClient)]
       IN  /\ WHOWAS' = [s \in Slots |-> IF s \in lists[c]
                                         THEN [ring[s] EXCEPT !.online = NoClient]
                                         ELSE ring[s]]
           /\ WHOWASHASH' = add_whowas_to_list(free_whowas_hash(e), HashOf[name[c]], e)
           /\ whowas_next' = Advance(e)
           /\ whowas' = [lists EXCEPT ![c] = {}]
    /\ name' = [name EXCEPT ![c] = NoNick]
    /\ UNCHANGED <<lastnick, now>>

\* The clock advances.
Tick ==
    /\ now < MaxTime
    /\ now' = now + 1
    /\ UNCHANGED <<lastnick, name, WHOWAS, WHOWASHASH, whowas_next, whowas>>

Next ==
    \/ \E c \in Clients, n \in Nicks : Connect(c, n)
    \/ \E c \in Clients, n \in Nicks : LocalNickChange(c, n)
    \/ \E c \in Clients, n \in Nicks : \E ts \in 0 .. now : RemoteNickChange(c, n, ts)
    \/ \E c \in Clients : Quit(c)
    \/ Tick

Spec == Init /\ [][Next]_vars

-----------------------------------------------------------------------------

\* Every variable has its type; the ring index stays inside the array.
TypeOK ==
    /\ lastnick \in [Clients -> Nat]
    /\ name \in [Clients -> Nicks \cup {NoNick}]
    /\ WHOWAS \in [Slots -> Record]
    /\ \A b \in Buckets : \A i \in DOMAIN WHOWASHASH[b] : WHOWASHASH[b][i] \in Slots
    /\ whowas_next \in Slots
    /\ whowas \in [Clients -> SUBSET Slots]
    /\ now \in Nat

\* A record's online pointer and the per-client lists are two sides of one
\* relation: off_history and free_whowas_entry walk one to clear the other.
ListsMatchPointers ==
    /\ \A c \in Clients : whowas[c] = {s \in Slots : WHOWAS[s].online = c}
    /\ \A s \in Slots : WHOWAS[s].online # NoClient => WHOWAS[s].used

\* No record points at a client that has left: get_history never hands /KILL
\* a recycled Client struct.
NoStalePointers ==
    \A s \in Slots : WHOWAS[s].online # NoClient => Online(WHOWAS[s].online)

\* How many records have been filed since the one in slot s, if next is the slot
\* to be filled now.
AgeAt(next, s) ==
    IF s < next THEN next - 1 - s ELSE next - 1 - s + NICKNAMEHISTORYLENGTH

Age(s) == AgeAt(whowas_next, s)

\* Chasing a nick ends at the user who gave that nick up last: when
\* get_history answers with a client, no other record of the nick is newer.
ChaseFindsLastHolder ==
    \A n \in Nicks : get_history(n) # NoClient =>
        \E s \in Slots :
            /\ WHOWAS[s].used /\ WHOWAS[s].name = n
            /\ WHOWAS[s].online = get_history(n)
            /\ \A t \in Slots : WHOWAS[t].used /\ WHOWAS[t].name = n => Age(s) <= Age(t)

=============================================================================
