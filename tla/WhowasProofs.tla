---------------------------- MODULE WhowasProofs ----------------------------
(***************************************************************************)
(* For every ring size, every set of clients and every hash function: no   *)
(* history record points at a client that has left, and chasing a nick     *)
(* ends at the user who gave it up last.  NoStalePointers is not inductive *)
(* by itself, because a quit clears exactly the records on the client's    *)
(* list; it needs ListsMatchPointers.  ChaseFindsLastHolder needs that a   *)
(* bucket list holds all records of its bucket, the newest first, and that *)
(* records are filed in the order of time.                                 *)
(***************************************************************************)
EXTENDS Whowas, TLAPS, WellFoundedInduction

\* The types the argument uses; the bucket lists play no part in it.
PointerTypes ==
    /\ name \in [Clients -> Nicks \cup {NoNick}]
    /\ WHOWAS \in [Slots -> Record]
    /\ whowas_next \in Slots
    /\ whowas \in [Clients -> SUBSET Slots]
    /\ lastnick \in [Clients -> Nat]
    /\ now \in Nat

IInv == PointerTypes /\ ListsMatchPointers /\ NoStalePointers

\* The ring index wraps to zero and never leaves the ring.
LEMMA AdvanceInRing == ASSUME NEW i \in Slots PROVE Advance(i) \in Slots
  BY HistoryLengthAssumption DEF Advance, Slots

\* A record of a client that is online is a record.
LEMMA RecordType ==
    ASSUME IInv, NEW c \in Clients, NEW t \in Nat,
           NEW o \in Clients \cup {NoClient}
    PROVE  create_whowas_entry(c, t, o) \in Record
  BY DEF IInv, PointerTypes, create_whowas_entry, Record

\* The empty ring satisfies the invariant.
LEMMA InitIInv == Init => IInv
<1> SUFFICES ASSUME Init PROVE IInv
  OBVIOUS
<1>1. PointerTypes
  BY HistoryLengthAssumption DEF Init, PointerTypes, Slots, Record, EmptyRecord
<1>2. ListsMatchPointers
  BY NullAssumption DEF Init, ListsMatchPointers, EmptyRecord
<1>3. NoStalePointers
  BY DEF Init, NoStalePointers, EmptyRecord
<1> QED BY <1>1, <1>2, <1>3 DEF IInv

\* A new client has no records, so connecting disturbs nothing.
LEMMA ConnectIInv ==
    ASSUME IInv, NEW c \in Clients, NEW n \in Nicks, Connect(c, n)
    PROVE  IInv'
<1>1. PointerTypes'
  BY DEF IInv, PointerTypes, Connect, Slots
<1>2. ListsMatchPointers'
  BY DEF IInv, ListsMatchPointers, Connect, Slots
<1>3. NoStalePointers'
  BY NullAssumption DEF IInv, PointerTypes, NoStalePointers, Connect, Online, Slots, Record
<1> QED BY <1>1, <1>2, <1>3 DEF IInv

\* A nick change overwrites one record: its old owner loses it, c gains it.
LEMMA ChangeNickIInv ==
    ASSUME IInv, NEW c \in Clients, NEW n \in Nicks,
           NEW logon \in Nat, NEW ts \in Nat, ChangeNick(c, n, logon, ts)
    PROVE  IInv'
<1> DEFINE e == whowas_next
           r == create_whowas_entry(c, logon, c)
<1>0. /\ e \in Slots
      /\ r \in Record
      /\ WHOWAS' = [WHOWAS EXCEPT ![e] = r]
      /\ whowas_next' = Advance(e)
      /\ name' = [name EXCEPT ![c] = n]
      /\ whowas' = [free_whowas_clist(e) EXCEPT ![c] = @ \cup {e}]
      /\ lastnick' = [lastnick EXCEPT ![c] = ts]
      /\ now' = now
  BY RecordType DEF IInv, PointerTypes, ChangeNick, FileRecord
<1>a. r.used = TRUE /\ r.online = c
  BY DEF create_whowas_entry
<1> HIDE DEF r
<1>b. free_whowas_clist(e) \in [Clients -> SUBSET Slots]
  BY <1>0 DEF IInv, PointerTypes, free_whowas_clist
<1>c. \A d \in Clients : free_whowas_clist(e)[d] = whowas[d] \ {e}
  BY <1>0, NullAssumption DEF IInv, PointerTypes, ListsMatchPointers, free_whowas_clist
<1>1. PointerTypes'
  <2>1. whowas' \in [Clients -> SUBSET Slots]
    BY <1>0, <1>b
  <2>2. WHOWAS' \in [Slots -> Record]
    BY <1>0 DEF IInv, PointerTypes
  <2>3. name' \in [Clients -> Nicks \cup {NoNick}]
    BY <1>0 DEF IInv, PointerTypes
  <2> QED BY <1>0, <2>1, <2>2, <2>3, AdvanceInRing DEF IInv, PointerTypes, Slots
<1>u. \A s \in Slots : WHOWAS'[s].online # NoClient => WHOWAS'[s].used
  BY <1>0, <1>a DEF IInv, PointerTypes, ListsMatchPointers
<1>2. ListsMatchPointers'
  <2> SUFFICES ASSUME NEW d \in Clients
               PROVE  whowas'[d] = {s \in Slots : WHOWAS'[s].online = d}
    BY <1>u DEF ListsMatchPointers, Slots
  <2>1. whowas'[d] = IF d = c THEN (whowas[d] \ {e}) \cup {e} ELSE whowas[d] \ {e}
    BY <1>0, <1>b, <1>c, Zenon
  <2>2. whowas[d] = {s \in Slots : WHOWAS[s].online = d}
    BY DEF IInv, ListsMatchPointers
  <2>3. \A s \in Slots : WHOWAS'[s] = IF s = e THEN r ELSE WHOWAS[s]
    BY <1>0 DEF IInv, PointerTypes
  <2> QED BY <2>1, <2>2, <2>3, <1>0, <1>a
<1>3. NoStalePointers'
  BY <1>0, <1>a, NullAssumption
  DEF IInv, PointerTypes, NoStalePointers, Online, Slots, Record
<1> QED BY <1>1, <1>2, <1>3 DEF IInv

\* A quit files a last record without a pointer and clears all the others.
LEMMA QuitIInv ==
    ASSUME IInv, NEW c \in Clients, Quit(c)
    PROVE  IInv'
<1> DEFINE e == whowas_next
           r == create_whowas_entry(c, lastnick[c], NoClient)
           lists == free_whowas_clist(e)
           ring == [WHOWAS EXCEPT ![e] = r]
<1>0. /\ e \in Slots
      /\ r \in Record
      /\ WHOWAS' = [s \in Slots |-> IF s \in lists[c]
                                    THEN [ring[s] EXCEPT !.online = NoClient]
                                    ELSE ring[s]]
      /\ whowas_next' = Advance(e)
      /\ name' = [name EXCEPT ![c] = NoNick]
      /\ whowas' = [lists EXCEPT ![c] = {}]
      /\ lastnick' = lastnick
      /\ now' = now
  BY RecordType DEF IInv, PointerTypes, Quit
<1>a. r.online = NoClient
  BY DEF create_whowas_entry
<1>b. lists \in [Clients -> SUBSET Slots]
  BY <1>0 DEF IInv, PointerTypes, free_whowas_clist
<1>c. \A d \in Clients : lists[d] = whowas[d] \ {e}
  BY <1>0, NullAssumption DEF IInv, PointerTypes, ListsMatchPointers, free_whowas_clist
<1>d. \A d \in Clients : \A s \in Slots :
         s \in whowas[d] <=> (WHOWAS[s].online = d)
  BY DEF IInv, ListsMatchPointers
<1> HIDE DEF r, lists
<1>e. \A s \in Slots : ring[s] = IF s = e THEN r ELSE WHOWAS[s]
  BY <1>0 DEF IInv, PointerTypes
<1>f. ring \in [Slots -> Record]
  BY <1>0 DEF IInv, PointerTypes
<1> HIDE DEF ring
<1>g. \A s \in Slots : WHOWAS'[s] = IF s \in lists[c]
                                    THEN [ring[s] EXCEPT !.online = NoClient]
                                    ELSE ring[s]
  BY <1>0
<1>h. \A s \in Slots :
         /\ WHOWAS'[s].used = ring[s].used
         /\ WHOWAS'[s].online = IF s \in lists[c] THEN NoClient ELSE ring[s].online
         /\ WHOWAS'[s] \in Record
  BY <1>g, <1>f, ZenonT(90) DEF Record
<1>1. PointerTypes'
  <2>1. whowas' \in [Clients -> SUBSET Slots]
    BY <1>0, <1>b
  <2>2. WHOWAS' \in [Slots -> Record]
    BY <1>0, <1>h, Zenon
  <2>3. name' \in [Clients -> Nicks \cup {NoNick}]
    BY <1>0 DEF IInv, PointerTypes
  <2> QED BY <1>0, <2>1, <2>2, <2>3, AdvanceInRing, Zenon DEF IInv, PointerTypes, Slots
<1>u. \A s \in Slots : WHOWAS'[s].online # NoClient => WHOWAS'[s].used
  BY <1>h, <1>e, <1>a DEF IInv, ListsMatchPointers
<1>2. ListsMatchPointers'
  <2> SUFFICES ASSUME NEW d \in Clients
               PROVE  whowas'[d] = {s \in Slots : WHOWAS'[s].online = d}
    BY <1>u DEF ListsMatchPointers, Slots
  <2>1. whowas'[d] = IF d = c THEN {} ELSE lists[d]
    BY <1>0, <1>b
  <2>2. \A s \in Slots : s \in whowas'[d] <=> (WHOWAS'[s].online = d)
    <3> SUFFICES ASSUME NEW s \in Slots
                 PROVE  s \in whowas'[d] <=> (WHOWAS'[s].online = d)
      OBVIOUS
    <3>1. s = e => WHOWAS'[s].online = NoClient /\ s \notin whowas'[d]
      BY <2>1, <1>h, <1>e, <1>a, <1>c
    <3>2. s # e => WHOWAS'[s].used = WHOWAS[s].used
      BY <1>h, <1>e
    <3>3. s # e => WHOWAS'[s].online = IF s \in whowas[c] THEN NoClient ELSE WHOWAS[s].online
      BY <1>h, <1>e, <1>c
    <3>4. s # e => (s \in whowas'[d] <=> d # c /\ s \in whowas[d])
      BY <2>1, <1>c
    <3> QED BY <3>1, <3>2, <3>3, <3>4, <1>d, NullAssumption
  <2>3. whowas'[d] \subseteq Slots
    BY <1>0, <1>b
  <2> QED BY <2>2, <2>3
<1>3. NoStalePointers'
  <2> SUFFICES ASSUME NEW s \in Slots, WHOWAS'[s].online # NoClient
               PROVE  name'[WHOWAS'[s].online] # NoNick
    BY DEF NoStalePointers, Online, Slots
  <2>1. s \notin lists[c] /\ s # e /\ WHOWAS'[s].online = WHOWAS[s].online
    BY <1>h, <1>e, <1>a
  <2>2. WHOWAS[s].online \in Clients /\ name[WHOWAS[s].online] # NoNick
    BY <2>1 DEF IInv, PointerTypes, NoStalePointers, Online, Record
  <2>3. WHOWAS[s].online # c
    BY <2>1, <1>c, <1>d
  <2> QED BY <2>1, <2>2, <2>3, <1>0 DEF IInv, PointerTypes
<1> QED BY <1>1, <1>2, <1>3 DEF IInv

\* Every step keeps the invariant.
LEMMA NextIInv == IInv /\ [Next]_vars => IInv'
<1> SUFFICES ASSUME IInv, [Next]_vars PROVE IInv'
  OBVIOUS
<1>1. CASE \E c \in Clients, n \in Nicks : Connect(c, n)
  BY <1>1, ConnectIInv
<1>2. CASE \E c \in Clients, n \in Nicks : LocalNickChange(c, n)
  BY <1>2, ChangeNickIInv DEF LocalNickChange, IInv, PointerTypes
<1>6. CASE \E c \in Clients, n \in Nicks : \E ts \in 0 .. now : RemoteNickChange(c, n, ts)
  BY <1>6, ChangeNickIInv DEF RemoteNickChange, IInv, PointerTypes
<1>3. CASE \E c \in Clients : Quit(c)
  BY <1>3, QuitIInv
<1>4. CASE Tick
  BY <1>4 DEF Tick, IInv, PointerTypes, ListsMatchPointers, NoStalePointers, Online, Slots
<1>5. CASE UNCHANGED vars
  BY <1>5 DEF vars, IInv, PointerTypes, ListsMatchPointers, NoStalePointers, Online, Slots
<1> QED BY <1>1, <1>2, <1>3, <1>4, <1>5, <1>6 DEF Next

\* add_history and off_history never leave a record pointing at a client that
\* has quit, whatever the ring size and the order of connects, renames, quits.
THEOREM HistoryPointersLive == Spec => []NoStalePointers
<1>1. IInv => NoStalePointers
  BY DEF IInv
<1> QED BY <1>1, InitIInv, NextIInv, PTL DEF Spec

\* The per-client lists are exactly the inverse of the online pointers.
THEOREM HistoryListsExact == Spec => []ListsMatchPointers
<1>1. IInv => ListsMatchPointers
  BY DEF IInv
<1> QED BY <1>1, InitIInv, NextIInv, PTL DEF Spec

-----------------------------------------------------------------------------
(* The bucket lists *)

\* What the argument about the bucket lists needs to know of the types.
ListTypes ==
    /\ name \in [Clients -> Nicks \cup {NoNick}]
    /\ \A s \in Slots : /\ WHOWAS[s].used \in BOOLEAN
                        /\ WHOWAS[s].used => WHOWAS[s].name \in Nicks
                        /\ WHOWAS[s].logoff \in Nat
    /\ WHOWASHASH \in [Buckets -> Seq(Slots)]
    /\ whowas_next \in Slots
    /\ now \in Nat

\* A list is complete and sound for bucket b.
HoldsBucket(q, b) ==
    /\ \A i \in DOMAIN q : WHOWAS[q[i]].used /\ HashOf[WHOWAS[q[i]].name] = b
    /\ \A s \in Slots : WHOWAS[s].used /\ HashOf[WHOWAS[s].name] = b =>
                            \E i \in DOMAIN q : q[i] = s

\* The newest record is first.
NewestFirst(q, next) ==
    \A i, j \in DOMAIN q : i < j => AgeAt(next, q[i]) < AgeAt(next, q[j])

\* Records are filed in the order of time.
FiledInTime ==
    /\ \A s \in Slots : WHOWAS[s].used => WHOWAS[s].logoff <= now
    /\ \A s, t \in Slots : WHOWAS[s].used /\ WHOWAS[t].used /\ Age(s) < Age(t) =>
                               WHOWAS[t].logoff <= WHOWAS[s].logoff

LInv == /\ ListTypes
        /\ FiledInTime
        /\ \A b \in Buckets : HoldsBucket(WHOWASHASH[b], b) /\ NewestFirst(WHOWASHASH[b], whowas_next)

\* What add_history does to the records and bucket lists, for either caller.
Files(c) ==
    LET e == whowas_next
    IN  /\ \A s \in Slots \ {e} : /\ WHOWAS'[s].used = WHOWAS[s].used
                                  /\ WHOWAS'[s].name = WHOWAS[s].name
                                  /\ WHOWAS'[s].logoff = WHOWAS[s].logoff
        /\ WHOWAS'[e].used = TRUE /\ WHOWAS'[e].name = name[c] /\ WHOWAS'[e].logoff = now
        /\ WHOWASHASH' = add_whowas_to_list(free_whowas_hash(e), HashOf[name[c]], e)
        /\ whowas_next' = Advance(e)
        /\ name' \in [Clients -> Nicks \cup {NoNick}]
        /\ now' = now

\* A set of positions has a first one.
LEMMA FirstExists ==
    ASSUME NEW S \in SUBSET Nat, S # {}
    PROVE  First(S) \in S /\ \A j \in S : First(S) <= j
<1> DEFINE R == {p \in Nat \X Nat : p[1] < p[2]}
<1>1. IsWellFoundedOn(R, Nat)
  BY NatLessThanWellFounded DEF OpToRel
<1> HIDE DEF R
<1>2. \E x \in S : \A y \in S : ~(<<y, x>> \in R)
  BY <1>1, WFMin, Zenon
<1>3. \A x, y \in Nat : y < x => <<y, x>> \in R
  BY DEF R
<1>4. PICK x \in S : \A y \in S : ~(<<y, x>> \in R)
  BY <1>2
<1>5. ASSUME NEW y \in S PROVE x <= y
  <2>1. x \in Nat /\ y \in Nat
    OBVIOUS
  <2>2. ~(y < x)
    BY <2>1, <1>3, <1>4, Zenon
  <2> QED BY <2>1, <2>2
<1> QED BY <1>5, Zenon DEF First

\* The age of a slot is a number of records.
LEMMA AgeType ==
    ASSUME NEW e \in Slots, NEW s \in Slots PROVE AgeAt(e, s) \in Nat
  BY HistoryLengthAssumption DEF AgeAt, Slots

\* Filing a record makes all others one older, and the slot of the oldest is used.
LEMMA AgesGrow ==
    ASSUME NEW e \in Slots, NEW s \in Slots
    PROVE  AgeAt(Advance(e), s) = IF s = e THEN 0 ELSE AgeAt(e, s) + 1
<1>1. /\ NICKNAMEHISTORYLENGTH \in Nat /\ NICKNAMEHISTORYLENGTH > 0
      /\ e \in 0 .. NICKNAMEHISTORYLENGTH - 1 /\ s \in 0 .. NICKNAMEHISTORYLENGTH - 1
  BY HistoryLengthAssumption DEF Slots
<1>2. CASE e + 1 = NICKNAMEHISTORYLENGTH
  BY <1>1, <1>2 DEF AgeAt, Advance
<1>3. CASE e + 1 # NICKNAMEHISTORYLENGTH
  BY <1>1, <1>3 DEF AgeAt, Advance
<1> QED BY <1>2, <1>3

\* Leaving out position i keeps the order of the others.
LEMMA PositionsKeepOrder ==
    ASSUME NEW L \in Nat, NEW i \in 1 .. L, NEW j \in 1 .. L - 1, NEW k \in 1 .. L - 1, j < k
    PROVE  LET at(m) == IF m < i THEN m ELSE m + 1
           IN  at(j) \in 1 .. L /\ at(k) \in 1 .. L /\ at(j) < at(k)
  OBVIOUS

\* Unlinking a slot from a list leaves the others, in their order.
LEMMA UnlinkKeepsOrder ==
    ASSUME NEW q \in Seq(Slots), NEW e \in Slots, NewestFirst(q, e),
           \E i \in DOMAIN q : q[i] = e
    PROVE  LET f == del_whowas_from_list(q, e)
           IN  /\ f \in Seq(Slots)
               /\ \A s \in Slots : (\E i \in DOMAIN f : f[i] = s) <=>
                                       s # e /\ \E i \in DOMAIN q : q[i] = s
               /\ NewestFirst(f, e)
<1> DEFINE i == CHOOSE j \in DOMAIN q : q[j] = e
           f == [j \in 1 .. Len(q) - 1 |-> IF j < i THEN q[j] ELSE q[j + 1]]
<1>1. i \in 1 .. Len(q) /\ q[i] = e
  OBVIOUS
<1>2. del_whowas_from_list(q, e) = f
  BY DEF del_whowas_from_list
<1> HIDE DEF i
<1>3. f \in Seq(Slots) /\ DOMAIN f = 1 .. Len(q) - 1 /\ Len(f) = Len(q) - 1
  <2>1. \A j \in 1 .. Len(q) - 1 : f[j] \in Slots
    BY <1>1
  <2>2. Len(q) - 1 \in Nat
    BY <1>1
  <2> QED BY <2>1, <2>2
<1>4. \A j \in 1 .. Len(q) - 1 : f[j] = IF j < i THEN q[j] ELSE q[j + 1]
  OBVIOUS
<1>5. \A j \in DOMAIN q : j # i => q[j] # e
  <2> SUFFICES ASSUME NEW j \in DOMAIN q, j # i, q[j] = e PROVE FALSE
    OBVIOUS
  <2>1. j < i \/ i < j
    BY <1>1
  <2>2. AgeAt(e, q[j]) < AgeAt(e, q[i]) \/ AgeAt(e, q[i]) < AgeAt(e, q[j])
    BY <2>1, <1>1 DEF NewestFirst
  <2>3. AgeAt(e, e) \in Nat
    BY AgeType
  <2> QED BY <2>2, <2>3, <1>1
<1> HIDE DEF f
<1>6. ASSUME NEW s \in Slots, NEW j \in DOMAIN f, f[j] = s
      PROVE  s # e /\ \E k \in DOMAIN q : q[k] = s
  <2>1. j \in 1 .. Len(q) - 1
    BY <1>3
  <2>2. CASE j < i
    <3>1. j \in DOMAIN q /\ q[j] = s /\ j # i
      BY <1>6, <2>1, <2>2, <1>1, <1>4
    <3> QED BY <3>1, <1>5
  <2>3. CASE ~(j < i)
    <3>1. j + 1 \in DOMAIN q /\ q[j + 1] = s /\ j + 1 # i
      BY <1>6, <2>1, <2>3, <1>1, <1>4
    <3> QED BY <3>1, <1>5
  <2> QED BY <2>2, <2>3
<1>7. ASSUME NEW s \in Slots, s # e, NEW k \in DOMAIN q, q[k] = s
      PROVE  \E j \in DOMAIN f : f[j] = s
  <2>1. k # i /\ k \in 1 .. Len(q)
    BY <1>7, <1>1
  <2>2. CASE k < i
    <3>1. k \in DOMAIN f /\ f[k] = s
      BY <2>1, <2>2, <1>1, <1>3, <1>4, <1>7
    <3> QED BY <3>1
  <2>3. CASE k > i
    <3>0. k - 1 \in 1 .. Len(q) - 1 /\ ~(k - 1 < i)
      BY <2>1, <2>3, <1>1
    <3>1. k - 1 \in DOMAIN f /\ f[k - 1] = q[(k - 1) + 1]
      BY <3>0, <1>3, <1>4
    <3>2. (k - 1) + 1 = k
      BY <2>1
    <3> QED BY <3>1, <3>2, <1>7
  <2> QED BY <2>1, <2>2, <2>3, <1>1
<1>8. NewestFirst(f, e)
  <2> SUFFICES ASSUME NEW j \in DOMAIN f, NEW k \in DOMAIN f, j < k
               PROVE  AgeAt(e, f[j]) < AgeAt(e, f[k])
    BY DEF NewestFirst
  <2> DEFINE at(m) == IF m < i THEN m ELSE m + 1
  <2>0. j \in 1 .. Len(q) - 1 /\ k \in 1 .. Len(q) - 1 /\ Len(q) \in Nat
    BY <1>3
  <2>1. at(j) \in 1 .. Len(q) /\ at(k) \in 1 .. Len(q) /\ at(j) < at(k)
    BY <2>0, <1>1, PositionsKeepOrder
  <2>3. at(j) \in DOMAIN q /\ at(k) \in DOMAIN q
    BY <2>1
  <2>2. f[j] = q[at(j)] /\ f[k] = q[at(k)]
    BY <2>0, <1>4
  <2> QED BY <2>1, <2>2, <2>3, Zenon DEF NewestFirst
<1> QED BY <1>2, <1>3, <1>6, <1>7, <1>8

\* What the invariant says of one bucket.
LEMMA BucketList ==
    ASSUME LInv, NEW b \in Buckets
    PROVE  /\ WHOWASHASH[b] \in Seq(Slots)
           /\ HoldsBucket(WHOWASHASH[b], b) /\ NewestFirst(WHOWASHASH[b], whowas_next)
  BY DEF LInv, ListTypes

\* The bucket lists without the slot that is about to be overwritten.
LEMMA FreedLists ==
    ASSUME LInv, NEW b \in Buckets
    PROVE  LET f == free_whowas_hash(whowas_next)[b]
           IN  /\ f \in Seq(Slots)
               /\ \A s \in Slots : (\E i \in DOMAIN f : f[i] = s) <=>
                      s # whowas_next /\ WHOWAS[s].used /\ HashOf[WHOWAS[s].name] = b
               /\ NewestFirst(f, whowas_next)
<1> DEFINE e == whowas_next
           q == WHOWASHASH[b]
           f == free_whowas_hash(e)[b]
<1>1. e \in Slots /\ q \in Seq(Slots) /\ HoldsBucket(q, b) /\ NewestFirst(q, e)
  BY DEF LInv, ListTypes
<1>3. \A s \in Slots : (\E i \in DOMAIN q : q[i] = s) <=>
                           WHOWAS[s].used /\ HashOf[WHOWAS[s].name] = b
  BY <1>1 DEF HoldsBucket
<1>4. f = IF WHOWAS[e].used /\ HashOf[WHOWAS[e].name] = b
          THEN del_whowas_from_list(q, e) ELSE q
  BY DEF free_whowas_hash
<1>5. CASE WHOWAS[e].used /\ HashOf[WHOWAS[e].name] = b
  <2>1. \E i \in DOMAIN q : q[i] = e
    BY <1>1, <1>3, <1>5
  <2>2. f = del_whowas_from_list(q, e)
    BY <1>4, <1>5
  <2> HIDE DEF q, f
  <2>3. /\ f \in Seq(Slots)
        /\ \A s \in Slots : (\E i \in DOMAIN f : f[i] = s) <=>
                                s # e /\ \E i \in DOMAIN q : q[i] = s
        /\ NewestFirst(f, whowas_next)
    BY <1>1, <2>1, <2>2, UnlinkKeepsOrder
  <2> QED BY <1>3, <2>3, Zenon DEF f
<1>6. CASE ~(WHOWAS[e].used /\ HashOf[WHOWAS[e].name] = b)
  BY <1>1, <1>3, <1>4, <1>6
<1> QED BY <1>5, <1>6

\* Filing a record keeps the lists complete and in order.
LEMMA FilesLInv ==
    ASSUME LInv, NEW c \in Clients, Online(c), Files(c)
    PROVE  LInv'
<1> DEFINE e == whowas_next
           n == whowas_next'
           h == HashOf[name[c]]
           f == free_whowas_hash(e)
<1>1. /\ e \in Slots /\ name[c] \in Nicks /\ h \in Buckets
      /\ now \in Nat
  BY HashAssumption DEF LInv, ListTypes, Online
<1>2. /\ whowas_next' \in Slots
      /\ \A s \in Slots : AgeAt(e, s) \in Nat
      /\ \A s \in Slots : AgeAt(n, s) = IF s = e THEN 0 ELSE AgeAt(e, s) + 1
  <2>1. n = Advance(e)
    BY DEF Files
  <2> QED BY <1>1, <2>1, AgeType, AgesGrow, AdvanceInRing
<1>3. /\ \A s \in Slots \ {e} : /\ WHOWAS'[s].used = WHOWAS[s].used
                                /\ WHOWAS'[s].name = WHOWAS[s].name
                                /\ WHOWAS'[s].logoff = WHOWAS[s].logoff
      /\ WHOWAS'[e].used = TRUE /\ WHOWAS'[e].name = name[c] /\ WHOWAS'[e].logoff = now
      /\ now' = now
  BY DEF Files
<1>4. f \in [Buckets -> Seq(Slots)]
  BY FreedLists DEF free_whowas_hash
<1>5. WHOWASHASH' = [f EXCEPT ![h] = <<e>> \o @]
  BY DEF Files, add_whowas_to_list
<1> HIDE DEF f
<1>6. WHOWASHASH' \in [Buckets -> Seq(Slots)]
  BY <1>1, <1>4, <1>5
<1>7. ListTypes'
  <2>1. \A s \in Slots : /\ WHOWAS[s].used \in BOOLEAN
                         /\ WHOWAS[s].used => WHOWAS[s].name \in Nicks
                         /\ WHOWAS[s].logoff \in Nat
    BY DEF LInv, ListTypes
  <2>2. \A s \in Slots : /\ WHOWAS'[s].used \in BOOLEAN
                         /\ WHOWAS'[s].used => WHOWAS'[s].name \in Nicks
                         /\ WHOWAS'[s].logoff \in Nat
    BY <2>1, <1>1, <1>3, Zenon
  <2>3. name' \in [Clients -> Nicks \cup {NoNick}] /\ now' \in Nat
    BY <1>1 DEF Files
  <2> QED BY <1>2, <1>6, <2>2, <2>3, Zenon DEF ListTypes, Slots
<1>8. FiledInTime'
  <2>1. \A s \in Slots : WHOWAS[s].logoff \in Nat /\ (WHOWAS[s].used => WHOWAS[s].logoff <= now)
    BY DEF LInv, ListTypes, FiledInTime
  <2>2. \A s \in Slots : WHOWAS'[s].used => WHOWAS'[s].logoff <= now'
    BY <1>1, <1>3, <2>1
  <2>3. ASSUME NEW s \in Slots, NEW t \in Slots,
               WHOWAS'[s].used, WHOWAS'[t].used, AgeAt(n, s) < AgeAt(n, t)
        PROVE  WHOWAS'[t].logoff <= WHOWAS'[s].logoff
    <3>1. t # e
      BY <2>3, <1>2, <1>1
    <3>2. CASE s = e
      BY <3>1, <3>2, <1>3, <2>1, <2>3
    <3>3. CASE s # e
      <4>1. AgeAt(e, s) < AgeAt(e, t)
        BY <3>1, <3>3, <1>2, <2>3
      <4> QED BY <3>1, <3>3, <4>1, <1>3, <2>3 DEF LInv, FiledInTime, Age
    <3> QED BY <3>2, <3>3
  <2> QED BY <2>2, <2>3, Zenon DEF FiledInTime, Age, AgeAt, Slots
<1>9. ASSUME NEW b \in Buckets
      PROVE  HoldsBucket(WHOWASHASH[b], b)' /\ NewestFirst(WHOWASHASH[b], whowas_next)'
  <2> DEFINE p == f[b]
             q == WHOWASHASH'[b]
  <2>1. /\ p \in Seq(Slots)
        /\ \A s \in Slots : (\E i \in DOMAIN p : p[i] = s) <=>
               s # e /\ WHOWAS[s].used /\ HashOf[WHOWAS[s].name] = b
        /\ NewestFirst(p, e)
    BY FreedLists DEF f
  <2>2. q = IF b = h THEN <<e>> \o p ELSE p
    BY <1>1, <1>4, <1>5
  <2> HIDE DEF p, q
  <2>3. \A i \in DOMAIN p : p[i] \in Slots /\ p[i] # e
    BY <2>1
  <2>4. \A i, j \in DOMAIN p : i < j => AgeAt(n, p[i]) < AgeAt(n, p[j])
    <3> SUFFICES ASSUME NEW i \in DOMAIN p, NEW j \in DOMAIN p, i < j
                 PROVE  AgeAt(n, p[i]) < AgeAt(n, p[j])
      OBVIOUS
    <3>1. AgeAt(e, p[i]) < AgeAt(e, p[j])
      BY <2>1 DEF NewestFirst
    <3>2. /\ AgeAt(n, p[i]) = AgeAt(e, p[i]) + 1 /\ AgeAt(n, p[j]) = AgeAt(e, p[j]) + 1
          /\ AgeAt(e, p[i]) \in Nat /\ AgeAt(e, p[j]) \in Nat
      BY <2>3, <1>2
    <3> QED BY <3>1, <3>2
  <2>5. \A s \in Slots : WHOWAS'[s].used /\ HashOf[WHOWAS'[s].name] = b <=>
            \/ s = e /\ b = h
            \/ s # e /\ WHOWAS[s].used /\ HashOf[WHOWAS[s].name] = b
    BY <1>3
  <2>6. /\ \A i \in DOMAIN q : q[i] \in Slots
        /\ \A s \in Slots : (\E i \in DOMAIN q : q[i] = s) <=>
               WHOWAS'[s].used /\ HashOf[WHOWAS'[s].name] = b
        /\ \A i, j \in DOMAIN q : i < j => AgeAt(n, q[i]) < AgeAt(n, q[j])
    <3>1. CASE b # h
      BY <2>1, <2>2, <2>3, <2>4, <2>5, <3>1
    <3>2. CASE b = h
      <4>1. /\ q = <<e>> \o p /\ DOMAIN q = 1 .. Len(p) + 1 /\ Len(p) \in Nat
            /\ DOMAIN p = 1 .. Len(p)
            /\ q[1] = e /\ \A i \in 1 .. Len(p) : q[i + 1] = p[i]
        BY <2>1, <2>2, <3>2, <1>1
      <4>2. \A i \in DOMAIN q : i = 1 \/ (i - 1 \in DOMAIN p /\ q[i] = p[i - 1])
        <5> SUFFICES ASSUME NEW i \in DOMAIN q, i # 1
                     PROVE  i - 1 \in DOMAIN p /\ q[i] = p[i - 1]
          OBVIOUS
        <5>1. i - 1 \in 1 .. Len(p) /\ (i - 1) + 1 = i
          BY <4>1
        <5> QED BY <5>1, <4>1
      <4>3. \A i \in DOMAIN q : q[i] \in Slots
        BY <4>1, <4>2, <2>3, <1>1
      <4>4. \A s \in Slots : (\E i \in DOMAIN q : q[i] = s) <=>
                s = e \/ \E i \in DOMAIN p : p[i] = s
        <5>1. \A i \in DOMAIN p : i + 1 \in DOMAIN q /\ q[i + 1] = p[i]
          BY <4>1
        <5>2. 1 \in DOMAIN q
          BY <4>1
        <5>3. q[1] = e
          BY <4>1, Zenon
        <5>4. ASSUME NEW i \in DOMAIN q
              PROVE  q[i] = e \/ \E j \in DOMAIN p : p[j] = q[i]
          BY <4>2, <5>3
        <5> QED BY <5>1, <5>2, <5>3, <5>4, Zenon
      <4>5. \A i, j \in DOMAIN q : i < j => AgeAt(n, q[i]) < AgeAt(n, q[j])
        <5> SUFFICES ASSUME NEW i \in DOMAIN q, NEW j \in DOMAIN q, i < j
                     PROVE  AgeAt(n, q[i]) < AgeAt(n, q[j])
          OBVIOUS
        <5>1. j - 1 \in DOMAIN p /\ q[j] = p[j - 1]
          BY <4>1, <4>2
        <5>2. CASE i = 1
          <6>1. AgeAt(n, q[i]) = 0
            <7>1. q[i] = e
              BY <5>2, <4>1
            <7> QED BY <7>1, <1>1, <1>2
          <6>2. p[j - 1] \in Slots \ {e}
            BY <5>1, <2>3
          <6>3. AgeAt(e, p[j - 1]) \in Nat /\ AgeAt(n, p[j - 1]) = AgeAt(e, p[j - 1]) + 1
            BY <6>2, <1>2
          <6> QED BY <5>1, <6>1, <6>3
        <5>3. CASE i # 1
          <6>1. i - 1 \in DOMAIN p /\ q[i] = p[i - 1] /\ i - 1 < j - 1
            BY <5>3, <4>1, <4>2
          <6> QED BY <6>1, <5>1, <2>4
        <5> QED BY <5>2, <5>3
      <4>6. \A s \in Slots : (\E i \in DOMAIN q : q[i] = s) <=>
                WHOWAS'[s].used /\ HashOf[WHOWAS'[s].name] = b
        BY <4>4, <2>1, <2>5, <3>2
      <4> QED BY <4>3, <4>5, <4>6
    <3> QED BY <3>1, <3>2
  <2> QED BY <2>6, Zenon DEF HoldsBucket, NewestFirst, AgeAt, q, Slots
<1> QED BY <1>7, <1>8, <1>9 DEF LInv

\* The empty ring.
LEMMA InitLInv == Init => LInv
<1> SUFFICES ASSUME Init PROVE LInv
  OBVIOUS
<1>1. ListTypes
  <2>1. \A s \in Slots : WHOWAS[s].used = FALSE /\ WHOWAS[s].logoff \in Nat
    BY DEF Init, EmptyRecord
  <2>2. WHOWASHASH \in [Buckets -> Seq(Slots)]
    BY DEF Init
  <2>3. whowas_next \in Slots /\ now \in Nat
    BY HistoryLengthAssumption DEF Init, Slots
  <2>4. name \in [Clients -> Nicks \cup {NoNick}]
    BY DEF Init
  <2> QED BY <2>1, <2>2, <2>3, <2>4, Zenon DEF ListTypes
<1>2. FiledInTime
  BY DEF Init, FiledInTime, EmptyRecord
<1>3. \A b \in Buckets : HoldsBucket(WHOWASHASH[b], b) /\ NewestFirst(WHOWASHASH[b], whowas_next)
  BY DEF Init, HoldsBucket, NewestFirst, EmptyRecord
<1> QED BY <1>1, <1>2, <1>3 DEF LInv

\* The positions in its bucket at which a nick is found.
Hits(n) == {i \in DOMAIN WHOWASHASH[HashOf[n]] : Matches(n, WHOWASHASH[HashOf[n]][i])}

\* An answer is that of the first hit.
LEMMA AnswerIsFirstHit ==
    ASSUME NEW n, get_history(n) # NoClient
    PROVE  /\ Hits(n) # {}
           /\ get_history(n) = WHOWAS[WHOWASHASH[HashOf[n]][First(Hits(n))]].online
  BY Zenon DEF get_history, Hits

\* With complete lists in order, the first hit is the newest record of the nick.
LEMMA FirstHitIsNewest == LInv => ChaseFindsLastHolder
<1> SUFFICES ASSUME LInv, NEW n \in Nicks, get_history(n) # NoClient
             PROVE  \E s \in Slots :
                        /\ WHOWAS[s].used /\ WHOWAS[s].name = n
                        /\ WHOWAS[s].online = get_history(n)
                        /\ \A t \in Slots : WHOWAS[t].used /\ WHOWAS[t].name = n =>
                                               Age(s) <= Age(t)
  BY DEF ChaseFindsLastHolder
<1> DEFINE b == HashOf[n]
           q == WHOWASHASH[b]
           hits == Hits(n)
           f == First(hits)
<1>1. b \in Buckets /\ q \in Seq(Slots) /\ HoldsBucket(q, b) /\ NewestFirst(q, whowas_next)
  BY HashAssumption, BucketList
<1>2. hits # {} /\ get_history(n) = WHOWAS[q[f]].online
  BY AnswerIsFirstHit
<1>h. hits = {i \in DOMAIN q : Matches(n, q[i])}
  BY DEF Hits
<1>3. hits \in SUBSET Nat
  BY <1>1, <1>h
<1> HIDE DEF b, q, hits
<1>4. f \in hits /\ \A j \in hits : f <= j
  BY <1>2, <1>3, FirstExists
<1> HIDE DEF f
<1>5. /\ f \in DOMAIN q /\ q[f] \in Slots /\ WHOWAS[q[f]].used /\ WHOWAS[q[f]].name = n
      /\ WHOWAS[q[f]].logoff + KILLCHASETIMELIMIT >= now
  BY <1>1, <1>4, <1>h DEF Matches, HoldsBucket
<1>6. ASSUME NEW t \in Slots, WHOWAS[t].used, WHOWAS[t].name = n
      PROVE  Age(q[f]) <= Age(t)
  <2>1. PICK j \in DOMAIN q : q[j] = t
    BY <1>1, <1>6 DEF HoldsBucket, b
  <2>2. Age(t) \in Nat /\ Age(q[f]) \in Nat
    BY <1>5, AgeType DEF LInv, ListTypes, Age
  <2>3. f \in Nat /\ j \in Nat
    BY <1>5, <1>1
  <2>4. CASE f < j
    <3>1. Age(q[f]) < Age(q[j])
      BY <1>1, <1>5, <2>4 DEF NewestFirst, Age
    <3> QED BY <3>1, <2>1, <2>2
  <2>5. CASE j < f
    <3>1. Age(t) < Age(q[f])
      BY <1>1, <1>5, <2>1, <2>5 DEF NewestFirst, Age
    <3>2. WHOWAS[q[f]].logoff <= WHOWAS[t].logoff
      BY <3>1, <1>5, <1>6 DEF LInv, FiledInTime
    <3>3. WHOWAS[t].logoff \in Nat /\ WHOWAS[q[f]].logoff \in Nat
      BY <1>5 DEF LInv, ListTypes
    <3>4. WHOWAS[t].logoff + KILLCHASETIMELIMIT >= now
      BY <3>2, <3>3, <1>5, ChaseAssumption DEF LInv, ListTypes
    <3>5. j \in hits
      BY <3>4, <2>1, <1>6, <1>h DEF Matches
    <3> QED BY <3>5, <1>4, <2>3, <2>5
  <2>6. CASE j = f
    BY <2>1, <2>2, <2>6
  <2> QED BY <2>3, <2>4, <2>5, <2>6
<1> QED BY <1>2, <1>5, <1>6

\* A nick change files one record.
LEMMA ChangeNickFiles ==
    ASSUME IInv, NEW c \in Clients, NEW n \in Nicks,
           NEW logon \in Nat, NEW ts \in Nat, ChangeNick(c, n, logon, ts)
    PROVE  Files(c)
<1> DEFINE e == whowas_next
           r == create_whowas_entry(c, logon, c)
<1>1. WHOWAS' = [WHOWAS EXCEPT ![e] = r] /\ e \in Slots /\ WHOWAS \in [Slots -> Record]
  BY DEF IInv, PointerTypes, ChangeNick, FileRecord
<1>2. r.used = TRUE /\ r.name = name[c] /\ r.logoff = now
  BY DEF create_whowas_entry
<1> HIDE DEF r
<1>3. \A s \in Slots : WHOWAS'[s] = IF s = e THEN r ELSE WHOWAS[s]
  BY <1>1
<1>4. name' \in [Clients -> Nicks \cup {NoNick}]
  BY DEF IInv, PointerTypes, ChangeNick
<1> QED BY <1>1, <1>2, <1>3, <1>4 DEF Files, ChangeNick, FileRecord

\* A quit files one record, and changes nothing but the pointers of the others.
LEMMA QuitFiles ==
    ASSUME IInv, NEW c \in Clients, Quit(c)
    PROVE  Files(c)
<1> DEFINE e == whowas_next
           r == create_whowas_entry(c, lastnick[c], NoClient)
           lists == free_whowas_clist(e)
           ring == [WHOWAS EXCEPT ![e] = r]
<1>1. /\ WHOWAS' = [s \in Slots |-> IF s \in lists[c]
                                    THEN [ring[s] EXCEPT !.online = NoClient]
                                    ELSE ring[s]]
      /\ e \in Slots /\ r \in Record /\ WHOWAS \in [Slots -> Record]
  BY RecordType DEF IInv, PointerTypes, Quit
<1>2. r.used = TRUE /\ r.name = name[c] /\ r.logoff = now
  BY DEF create_whowas_entry
<1> HIDE DEF r, lists
<1>3. ring \in [Slots -> Record] /\ \A s \in Slots : ring[s] = IF s = e THEN r ELSE WHOWAS[s]
  BY <1>1
<1> HIDE DEF ring
<1>4. \A s \in Slots : WHOWAS'[s] = IF s \in lists[c]
                                    THEN [ring[s] EXCEPT !.online = NoClient]
                                    ELSE ring[s]
  BY <1>1
<1>5. \A s \in Slots : /\ WHOWAS'[s].used = ring[s].used
                       /\ WHOWAS'[s].name = ring[s].name
                       /\ WHOWAS'[s].logoff = ring[s].logoff
  BY <1>3, <1>4, ZenonT(90) DEF Record
<1>6. name' \in [Clients -> Nicks \cup {NoNick}]
  BY DEF IInv, PointerTypes, Quit
<1> QED BY <1>1, <1>2, <1>3, <1>5, <1>6 DEF Files, Quit

\* Connecting and the clock leave the lists alone.
LEMMA IdleLInv ==
    ASSUME LInv, name' \in [Clients -> Nicks \cup {NoNick}], now' \in Nat, now <= now',
           UNCHANGED <<WHOWAS, WHOWASHASH, whowas_next>>
    PROVE  LInv'
<1>1. ListTypes'
  BY DEF LInv, ListTypes, Slots
<1>2. FiledInTime'
  <2>1. \A s \in Slots : WHOWAS[s].used => WHOWAS[s].logoff <= now'
    BY DEF LInv, FiledInTime, ListTypes
  <2> QED BY <2>1, Zenon DEF LInv, FiledInTime, Age, AgeAt, Slots
<1>3. \A b \in Buckets : (HoldsBucket(WHOWASHASH[b], b) /\ NewestFirst(WHOWASHASH[b], whowas_next))'
  <2> SUFFICES ASSUME NEW b \in Buckets
               PROVE  (HoldsBucket(WHOWASHASH[b], b) /\ NewestFirst(WHOWASHASH[b], whowas_next))'
    OBVIOUS
  <2>1. HoldsBucket(WHOWASHASH[b], b) /\ NewestFirst(WHOWASHASH[b], whowas_next)
    BY DEF LInv
  <2>2. HoldsBucket(WHOWASHASH[b], b)'
    BY <2>1 DEF HoldsBucket, Slots
  <2>3. NewestFirst(WHOWASHASH[b], whowas_next)'
    BY <2>1 DEF NewestFirst, AgeAt
  <2> QED BY <2>2, <2>3
<1> QED BY <1>1, <1>2, <1>3, Zenon DEF LInv

\* Every step keeps the lists complete and in order.
LEMMA NextLInv == IInv /\ LInv /\ [Next]_vars => LInv'
<1> SUFFICES ASSUME IInv, LInv, [Next]_vars PROVE LInv'
  OBVIOUS
<1>0. name \in [Clients -> Nicks \cup {NoNick}] /\ now \in Nat /\ lastnick \in [Clients -> Nat]
  BY DEF IInv, PointerTypes
<1>1. CASE \E c \in Clients, n \in Nicks : Connect(c, n)
  BY <1>0, <1>1, IdleLInv DEF Connect
<1>2. CASE \E c \in Clients, n \in Nicks : LocalNickChange(c, n)
  <2>1. PICK c \in Clients, n \in Nicks : ChangeNick(c, n, lastnick[c], now)
    BY <1>2 DEF LocalNickChange
  <2>2. Files(c) /\ Online(c)
    <3>1. lastnick[c] \in Nat
      BY <1>0
    <3> QED BY <1>0, <3>1, <2>1, ChangeNickFiles, Zenon DEF ChangeNick
  <2> QED BY <2>2, FilesLInv
<1>3. CASE \E c \in Clients, n \in Nicks : \E ts \in 0 .. now : RemoteNickChange(c, n, ts)
  <2>1. PICK c \in Clients, n \in Nicks, ts \in 0 .. now : ChangeNick(c, n, ts, ts)
    BY <1>3 DEF RemoteNickChange
  <2>2. Files(c) /\ Online(c)
    <3>1. ts \in Nat
      BY <1>0
    <3> QED BY <3>1, <2>1, ChangeNickFiles, Zenon DEF ChangeNick
  <2> QED BY <2>2, FilesLInv
<1>4. CASE \E c \in Clients : Quit(c)
  <2>1. PICK c \in Clients : Quit(c)
    BY <1>4
  <2>2. Files(c) /\ Online(c)
    BY <2>1, QuitFiles, Zenon DEF Quit
  <2> QED BY <2>2, FilesLInv
<1>5. CASE Tick
  BY <1>0, <1>5, IdleLInv DEF Tick
<1>6. CASE UNCHANGED vars
  BY <1>0, <1>6, IdleLInv DEF vars
<1> QED BY <1>1, <1>2, <1>3, <1>4, <1>5, <1>6 DEF Next

\* get_history never passes over a newer record of a nick: KILL and the other
\* commands that chase a nick reach the user who gave it up last, whatever the
\* ring size and however nicks share buckets and records are overwritten.
THEOREM ChaseIsExact == Spec => []ChaseFindsLastHolder
<1>1. Init => IInv /\ LInv
  BY InitIInv, InitLInv
<1>2. IInv /\ LInv /\ [Next]_vars => (IInv /\ LInv)'
  BY NextIInv, NextLInv
<1> QED BY <1>1, <1>2, FirstHitIsNewest, PTL DEF Spec

=============================================================================
