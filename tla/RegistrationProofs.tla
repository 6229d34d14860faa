------------------------- MODULE RegistrationProofs -------------------------
(***************************************************************************)
(* The prefix counts are exact for any number of clients, prefix lengths   *)
(* and prefixes: first in ConnThrottle, whose environment is free, then in *)
(* Registration, which is shown to implement it for any connections,       *)
(* prefixes, limits and configurations.                                    *)
(*                                                                         *)
(* A bucket is compared with the numbers of clients by category; an empty  *)
(* bucket and none are the same thing to it.  Counting, uncounting and a   *)
(* change of category each move one client from one of these numbers to    *)
(* another.                                                                *)
(*                                                                         *)
(* The operations of Registration work on a larger record than those of    *)
(* ConnThrottle.  Two records are the same to ConnThrottle when they agree *)
(* in its four fields, and its operations respect that.  A try to register *)
(* then has one of few outcomes, and a second try in the same step, as     *)
(* after SASL, has one of the outcomes of a single one.                    *)
(*                                                                         *)
(* The count of the class is another matter, of which ConnThrottle knows   *)
(* nothing: each operation is shown to change it by as much as it changes  *)
(* the membership of its connection, and such changes add up.              *)
(***************************************************************************)
EXTENDS Registration, FiniteSetTheorems, TLAPS

Categories == [Clients -> Kinds \cup {"none"}]

Worlds == [status : [Clients -> {"gone", "unknown", "user"}],
           known : [Clients -> BOOLEAN],
           category : Categories,
           bucket : [Tiers -> [Nets -> [Kinds -> Int] \cup {None}]]]

CTType ==
    /\ CTWorld \in Worlds
    /\ excepted \in SUBSET Clients
    /\ skipped \in BOOLEAN

In(cat) == {c \in Clients : cat[c] # "none"}

\* The clients of prefix n that are counted as k, and how many they are.
Of(cat, t, n, k) == {c \in Clients : NetOf[t][c] = n /\ cat[c] = k}

Numbers(cat, t, n) == [k \in Kinds |-> Cardinality(Of(cat, t, n, k))]

\* The bucket for these numbers.
AsBucket(f) == IF f = Zero THEN None ELSE f

Exact(w) == \A t \in Tiers, n \in Nets :
                w.bucket[t][n] = AsBucket(Numbers(w.category, t, n))

Keeps(w, u) == u \in Worlds /\ (Exact(w) => Exact(u))

IInv == CTType /\ (~skipped => Exact(CTWorld))

-----------------------------------------------------------------------------
(* Counting *)

\* Only finitely many clients are counted.
LEMMA OfFinite ==
    ASSUME NEW cat, NEW t, NEW n, NEW k
    PROVE  /\ IsFiniteSet(Of(cat, t, n, k))
           /\ Cardinality(Of(cat, t, n, k)) \in Nat
           /\ Cardinality(Of(cat, t, n, k)) = 0 <=> Of(cat, t, n, k) = {}
<1>1. Of(cat, t, n, k) \in SUBSET Clients
  BY DEF Of
<1>2. IsFiniteSet(Of(cat, t, n, k))
  BY <1>1, CTAssumption, FS_Subset
<1> QED BY <1>2, FS_CardinalityType, FS_EmptySet

\* The numbers are natural numbers, so a bucket of them is not None.
LEMMA NumbersType ==
    ASSUME NEW cat, NEW t, NEW n
    PROVE  Numbers(cat, t, n) \in [Kinds -> Nat]
  BY OfFinite DEF Numbers

\* What ct_check() adds up for a prefix is the bucket for its numbers.
LEMMA TallyIsBucket ==
    ASSUME NEW cat \in Categories, NEW t \in Tiers, NEW n \in Nets
    PROVE  Tally(In(cat), cat, t, n) = AsBucket(Numbers(cat, t, n))
<1> DEFINE here == {c \in In(cat) : NetOf[t][c] = n}
<1>1. \A k \in Kinds : {c \in here : cat[c] = k} = Of(cat, t, n, k)
  BY DEF In, Of, Kinds
<1>2. Tally(In(cat), cat, t, n) = IF here = {} THEN None ELSE Numbers(cat, t, n)
  <2>1. [k \in Kinds |-> Cardinality({c \in here : cat[c] = k})] = Numbers(cat, t, n)
    BY <1>1, Zenon DEF Numbers
  <2> QED BY <2>1, Zenon DEF Tally
<1>3. here = {} <=> \A k \in Kinds : Of(cat, t, n, k) = {}
  <2>1. \A c \in Clients : cat[c] # "none" <=> cat[c] \in Kinds
    BY DEF Categories, Kinds
  <2>2. ASSUME NEW c \in here PROVE c \in Of(cat, t, n, cat[c]) /\ cat[c] \in Kinds
    BY <2>1 DEF In, Of
  <2>3. ASSUME NEW k \in Kinds, NEW c \in Of(cat, t, n, k) PROVE c \in here
    BY <2>1 DEF In, Of
  <2> HIDE DEF here
  <2> QED BY <2>2, <2>3
<1>4. Numbers(cat, t, n) = Zero <=> \A k \in Kinds : Of(cat, t, n, k) = {}
  <2>1. Numbers(cat, t, n) = Zero
            <=> \A k \in Kinds : Cardinality(Of(cat, t, n, k)) = 0
    BY DEF Numbers, Zero
  <2> QED BY <2>1, OfFinite
<1> QED BY <1>2, <1>3, <1>4, Zenon DEF AsBucket

\* One client changes its category: the number of its old one falls and that of
\* its new one rises, in its own prefix; all others stay.
LEMMA OneMoves ==
    ASSUME NEW cat \in Categories, NEW new \in Categories, NEW c \in Clients,
           new = [cat EXCEPT ![c] = new[c]], new[c] # cat[c],
           NEW t \in Tiers, NEW n \in Nets, NEW k \in Kinds
    PROVE  Numbers(new, t, n)[k] =
               IF NetOf[t][c] # n THEN Numbers(cat, t, n)[k]
               ELSE IF k = new[c] THEN Numbers(cat, t, n)[k] + 1
               ELSE IF k = cat[c] THEN Numbers(cat, t, n)[k] - 1
               ELSE Numbers(cat, t, n)[k]
<1> DEFINE S == Of(cat, t, n, k)
           T == Of(new, t, n, k)
<1>1. Numbers(new, t, n)[k] = Cardinality(T)
      /\ Numbers(cat, t, n)[k] = Cardinality(S)
  BY DEF Numbers
<1>2. IsFiniteSet(S)
  BY OfFinite
<1>3. CASE NetOf[t][c] # n
  <2>1. T = S
    BY <1>3 DEF Of, Categories
  <2> QED BY <2>1, <1>1, <1>3
<1>4. CASE NetOf[t][c] = n /\ k = new[c]
  <2>1. T = S \cup {c} /\ c \notin S
    BY <1>4 DEF Of, Categories
  <2> HIDE DEF S, T
  <2>2. Cardinality(T) = Cardinality(S) + 1
    BY <2>1, <1>2, FS_AddElement, Zenon
  <2> QED BY <2>2, <1>1, <1>4
<1>5. CASE NetOf[t][c] = n /\ k # new[c] /\ k = cat[c]
  <2>1. T = S \ {c} /\ c \in S
    BY <1>5 DEF Of, Categories
  <2> HIDE DEF S, T
  <2>2. Cardinality(T) = Cardinality(S) - 1
    BY <2>1, <1>2, FS_RemoveElement, Zenon
  <2> QED BY <2>2, <1>1, <1>5
<1>6. CASE NetOf[t][c] = n /\ k # new[c] /\ k # cat[c]
  <2>1. T = S
    BY <1>6 DEF Of, Categories
  <2> QED BY <2>1, <1>1, <1>6
<1> QED BY <1>3, <1>4, <1>5, <1>6
-----------------------------------------------------------------------------
(* The operations keep the counts exact *)

Buckets == [Kinds -> Int] \cup {None}

\* The operations on a bucket give a bucket.
LEMMA BucketTypes ==
    ASSUME NEW b \in Buckets, NEW k \in Kinds, NEW l \in Kinds
    PROVE  /\ Increment(b, k) \in Buckets
           /\ Decrement(b, k) \in Buckets
           /\ Transfer(b, k, l) \in Buckets
<1>1. Increment(b, k) \in Buckets
  BY DEF Increment, Zero, Buckets
<1>2. Decrement(b, k) \in Buckets
  BY DEF Decrement, Buckets
<1>3. Transfer(b, k, l) \in Buckets
  BY DEF Transfer, Buckets
<1> QED BY <1>1, <1>2, <1>3

\* A world with another category for c and other buckets is a world.
LEMMA WorldTypes ==
    ASSUME NEW w \in Worlds, NEW cat \in Categories,
           NEW b \in [Tiers -> [Nets -> Buckets]]
    PROVE  [w EXCEPT !.category = cat, !.bucket = b] \in Worlds
  BY Zenon DEF Worlds, Buckets

\* The bucket of a prefix follows its numbers when one client moves.
LEMMA BucketMoves ==
    ASSUME NEW f \in [Kinds -> Nat], NEW g \in [Kinds -> Nat],
           NEW old \in Kinds \cup {"none"}, NEW v \in Kinds \cup {"none"}, old # v,
           \A k \in Kinds : g[k] = IF k = v THEN f[k] + 1
                                   ELSE IF k = old THEN f[k] - 1 ELSE f[k]
    PROVE  AsBucket(g) = IF old = "none" THEN Increment(AsBucket(f), v)
                         ELSE IF v = "none" THEN Decrement(AsBucket(f), old)
                         ELSE Transfer(AsBucket(f), old, v)
<1>0. f # None /\ g # None /\ "none" \notin Kinds
  BY CTAssumption DEF Kinds
<1>1. CASE old = "none"
  <2>1. v \in Kinds
    BY <1>1
  <2>2. g = [f EXCEPT ![v] = f[v] + 1]
    BY <1>0, <1>1, <2>1
  <2>3. g[v] # 0
    BY <2>1
  <2>4. g # Zero
    BY <2>1, <2>3 DEF Zero
  <2>5. CASE f = Zero
    BY <2>1, <2>2, <2>4, <2>5, <1>1 DEF AsBucket, Increment, Zero
  <2>6. CASE f # Zero
    BY <1>0, <1>1, <2>2, <2>4, <2>6 DEF AsBucket, Increment
  <2> QED BY <2>5, <2>6
<1>2. CASE old # "none" /\ v = "none"
  <2>1. old \in Kinds
    BY <1>2
  <2>2. g = [f EXCEPT ![old] = f[old] - 1]
    BY <1>0, <1>2, <2>1
  <2>3. f[old] # 0
    <3>1. g[old] \in Nat /\ f[old] \in Nat /\ g[old] = f[old] - 1
      BY <1>0, <1>2, <2>1
    <3> QED BY <3>1
  <2>4. f # Zero
    BY <2>1, <2>3 DEF Zero
  <2> QED BY <1>0, <1>2, <2>2, <2>4 DEF AsBucket, Decrement
<1>3. CASE old # "none" /\ v # "none"
  <2>1. old \in Kinds /\ v \in Kinds
    BY <1>3
  <2>2. g = [[f EXCEPT ![old] = f[old] - 1] EXCEPT ![v] = f[v] + 1]
    BY <2>1
  <2>3. f[old] # 0 /\ g[v] # 0
    <3>1. /\ g[old] \in Nat /\ f[old] \in Nat /\ g[old] = f[old] - 1
          /\ f[v] \in Nat /\ g[v] = f[v] + 1
      BY <2>1
    <3> QED BY <3>1
  <2>4. f # Zero /\ g # Zero
    BY <2>1, <2>3 DEF Zero
  <2> QED BY <1>0, <1>3, <2>1, <2>2, <2>4, Zenon DEF AsBucket, Transfer
<1> QED BY <1>1, <1>2, <1>3

\* The buckets b follow when client c changes its category from old to v.
Follows(w, c, old, v, b) ==
    \A t \in Tiers, n \in Nets :
        b[t][n] = IF n # NetOf[t][c] THEN w.bucket[t][n]
                  ELSE IF old = "none" THEN Increment(w.bucket[t][n], v)
                  ELSE IF v = "none" THEN Decrement(w.bucket[t][n], old)
                  ELSE Transfer(w.bucket[t][n], old, v)

\* One client changes its category from old to v, and its buckets with it.
LEMMA MoveKeeps ==
    ASSUME NEW w \in Worlds, NEW c \in Clients, NEW v \in Kinds \cup {"none"},
           NEW old \in Kinds \cup {"none"}, old = w.category[c], old # v,
           NEW b \in [Tiers -> [Nets -> Buckets]],
           Follows(w, c, old, v, b)
    PROVE  Keeps(w, [w EXCEPT !.category = [w.category EXCEPT ![c] = v], !.bucket = b])
<1> DEFINE cat == [w.category EXCEPT ![c] = v]
           u == [w EXCEPT !.category = cat, !.bucket = b]
           F(t, n) == Numbers(w.category, t, n)
           G(t, n) == Numbers(cat, t, n)
<1>1. w.category \in Categories /\ cat \in Categories
  BY DEF Worlds, Categories
<1>2. u \in Worlds
  BY <1>1, WorldTypes, Zenon
<1>3. u.category = cat /\ u.bucket = b
  BY DEF Worlds
<1>4. ASSUME Exact(w), NEW t \in Tiers, NEW n \in Nets
      PROVE  b[t][n] = AsBucket(G(t, n))
  <2>1. w.bucket[t][n] = AsBucket(F(t, n))
    BY <1>4 DEF Exact
  <2>2. F(t, n) \in [Kinds -> Nat] /\ G(t, n) \in [Kinds -> Nat]
    BY NumbersType
  <2>3. \A k \in Kinds :
            G(t, n)[k] = IF NetOf[t][c] # n THEN F(t, n)[k]
                         ELSE IF k = v THEN F(t, n)[k] + 1
                         ELSE IF k = old THEN F(t, n)[k] - 1
                         ELSE F(t, n)[k]
    <3> DEFINE was == w.category
    <3>1. /\ was \in Categories /\ cat \in Categories
          /\ old = was[c] /\ v = cat[c] /\ cat = [was EXCEPT ![c] = cat[c]]
      BY <1>1 DEF Categories
    <3> HIDE DEF was, cat
    <3>2. cat[c] # was[c]
      BY <3>1
    <3>3. ASSUME NEW k \in Kinds
          PROVE  Numbers(cat, t, n)[k] =
                     IF NetOf[t][c] # n THEN Numbers(was, t, n)[k]
                     ELSE IF k = cat[c] THEN Numbers(was, t, n)[k] + 1
                     ELSE IF k = was[c] THEN Numbers(was, t, n)[k] - 1
                     ELSE Numbers(was, t, n)[k]
      BY <3>1, <3>2, OneMoves
    <3> QED BY <3>1, <3>3 DEF was
  <2> HIDE DEF F, G, cat
  <2>4. CASE n # NetOf[t][c]
    <3>1. G(t, n) = F(t, n)
      BY <2>2, <2>3, <2>4
    <3> QED BY <2>1, <2>4, <3>1 DEF Follows
  <2>5. CASE n = NetOf[t][c]
    <3>1. \A k \in Kinds : G(t, n)[k] = IF k = v THEN F(t, n)[k] + 1
                                     ELSE IF k = old THEN F(t, n)[k] - 1
                                     ELSE F(t, n)[k]
      BY <2>3, <2>5
    <3>2. AsBucket(G(t, n)) = IF old = "none" THEN Increment(AsBucket(F(t, n)), v)
                              ELSE IF v = "none" THEN Decrement(AsBucket(F(t, n)), old)
                              ELSE Transfer(AsBucket(F(t, n)), old, v)
      BY <2>2, <3>1, BucketMoves, ZenonT(90)
    <3> QED BY <2>1, <2>5, <3>2 DEF Follows
  <2> QED BY <2>4, <2>5
<1>5. Exact(w) => Exact(u)
  BY <1>3, <1>4 DEF Exact
<1> QED BY <1>2, <1>5 DEF Keeps

\* ct_classify() gives a category that is counted.
LEMMA ClassifyType ==
    ASSUME NEW w \in Worlds, NEW c \in Clients
    PROVE  ct_classify(w, c) \in Kinds
  BY DEF ct_classify, Kinds

\* ct_bucket_bump_client() on a client that is not counted.
LEMMA BumpKeeps ==
    ASSUME NEW w \in Worlds, NEW c \in Clients, NEW k \in Kinds, w.category[c] = "none"
    PROVE  Keeps(w, ct_bucket_bump_client(w, c, k))
<1> DEFINE b == [t \in Tiers |-> [w.bucket[t] EXCEPT ![NetOf[t][c]] = Increment(@, k)]]
           old == w.category[c]
<1>1. w.bucket \in [Tiers -> [Nets -> Buckets]]
  BY DEF Worlds, Buckets
<1>2. \A t \in Tiers : Increment(w.bucket[t][NetOf[t][c]], k) \in Buckets
  BY <1>1, BucketTypes, CTAssumption
<1>3. /\ b \in [Tiers -> [Nets -> Buckets]]
      /\ \A t \in Tiers, n \in Nets :
             b[t][n] = IF n # NetOf[t][c] THEN w.bucket[t][n]
                       ELSE Increment(w.bucket[t][n], k)
  BY <1>1, <1>2, CTAssumption
<1>4. old \in Kinds \cup {"none"} /\ old = "none" /\ old # k
  BY DEF Kinds
<1>5. old = w.category[c]
  OBVIOUS
<1> HIDE DEF b, old
<1>6. Follows(w, c, old, k, b)
  BY <1>3, <1>4, SMTT(60) DEF Follows
<1>7. Keeps(w, [w EXCEPT !.category = [w.category EXCEPT ![c] = k], !.bucket = b])
  BY <1>3, <1>4, <1>5, <1>6, MoveKeeps, Zenon
<1> QED BY <1>7 DEF ct_bucket_bump_client, b

\* ct_quit()
LEMMA QuitKeeps ==
    ASSUME NEW w \in Worlds, NEW c \in Clients
    PROVE  Keeps(w, ct_quit(w, c))
<1> DEFINE old == w.category[c]
           b == [t \in Tiers |-> [w.bucket[t] EXCEPT ![NetOf[t][c]] = Decrement(@, old)]]
<1>1. CASE old = "none"
  BY <1>1 DEF ct_quit, Keeps
<1>2. CASE old # "none"
  <2>1. w.bucket \in [Tiers -> [Nets -> Buckets]] /\ old \in Kinds
    BY <1>2 DEF Worlds, Buckets, Categories
  <2>2. \A t \in Tiers : Decrement(w.bucket[t][NetOf[t][c]], old) \in Buckets
    BY <2>1, BucketTypes, CTAssumption
  <2>3. /\ b \in [Tiers -> [Nets -> Buckets]]
        /\ \A t \in Tiers, n \in Nets :
               b[t][n] = IF n # NetOf[t][c] THEN w.bucket[t][n]
                         ELSE Decrement(w.bucket[t][n], old)
    BY <2>1, <2>2, CTAssumption
  <2> DEFINE v == "none"
  <2>4. v \in Kinds \cup {"none"} /\ v = "none" /\ old # v /\ old = w.category[c]
    BY <1>2
  <2> HIDE DEF b, v, old
  <2>5. Follows(w, c, old, v, b)
    BY <1>2, <2>3, <2>4, SMTT(60) DEF Follows
  <2>6. Keeps(w, [w EXCEPT !.category = [w.category EXCEPT ![c] = v], !.bucket = b])
    BY <2>1, <2>3, <2>4, <2>5, MoveKeeps, Zenon
  <2> QED BY <1>2, <2>6 DEF ct_quit, ct_bucket_unbump_client, b, v, old
<1> QED BY <1>1, <1>2

\* ct_known_user_cache_change()
LEMMA ChangeKeeps ==
    ASSUME NEW w \in Worlds, NEW c \in Clients
    PROVE  Keeps(w, ct_known_user_cache_change(w, c))
<1> DEFINE old == w.category[c]
           new == ct_classify(w, c)
           b == [t \in Tiers |-> [w.bucket[t] EXCEPT ![NetOf[t][c]] = Transfer(@, old, new)]]
<1>1. CASE old \in {"none", new}
  BY <1>1 DEF ct_known_user_cache_change, Keeps
<1>2. CASE old \notin {"none", new}
  <2>1. w.bucket \in [Tiers -> [Nets -> Buckets]] /\ old \in Kinds
    BY <1>2 DEF Worlds, Buckets, Categories
  <2>2. new \in Kinds
    BY ClassifyType
  <2> HIDE DEF new
  <2>3. \A t \in Tiers : Transfer(w.bucket[t][NetOf[t][c]], old, new) \in Buckets
    BY <2>1, <2>2, BucketTypes, CTAssumption
  <2>4. /\ b \in [Tiers -> [Nets -> Buckets]]
        /\ \A t \in Tiers, n \in Nets :
               b[t][n] = IF n # NetOf[t][c] THEN w.bucket[t][n]
                         ELSE Transfer(w.bucket[t][n], old, new)
    BY <2>1, <2>3, CTAssumption
  <2>5. new # "none" /\ old # new /\ old = w.category[c]
    BY <1>2, <2>2 DEF Kinds
  <2> HIDE DEF b, old
  <2>6. Follows(w, c, old, new, b)
    BY <1>2, <2>4, <2>5, SMTT(60) DEF Follows
  <2>7. Keeps(w, [w EXCEPT !.category = [w.category EXCEPT ![c] = new], !.bucket = b])
    BY <2>1, <2>2, <2>4, <2>5, <2>6, MoveKeeps, Zenon
  <2> QED BY <1>2, <2>7 DEF ct_known_user_cache_change, b, new, old
<1> QED BY <1>1, <1>2

\* Nothing but categories and buckets matters to the counts.
LEMMA OthersKeep ==
    ASSUME NEW w \in Worlds, NEW u \in Worlds, NEW x, Keeps(x, w),
           u.category = w.category, u.bucket = w.bucket
    PROVE  Keeps(x, u)
  BY DEF Keeps, Exact

\* ct_allow_client() and ct_remote_connect_buckets()
LEMMA AllowKeeps ==
    ASSUME NEW w \in Worlds, NEW c \in Clients
    PROVE  Keeps(w, ct_allow_client(w, c)) /\ Keeps(w, ct_remote_connect_buckets(w, c))
<1>1. Keeps(w, ct_allow_client(w, c))
  BY BumpKeeps, ClassifyType DEF ct_allow_client, Keeps
<1> QED BY <1>1 DEF ct_remote_connect_buckets, Keeps

\* update_known_user_cache()
LEMMA KnownKeeps ==
    ASSUME NEW w \in Worlds, NEW c \in Clients, NEW k \in BOOLEAN
    PROVE  Keeps(w, update_known_user_cache(w, c, k))
<1> DEFINE u == [w EXCEPT !.known[c] = k]
<1>1. u \in Worlds /\ u.category = w.category /\ u.bucket = w.bucket
  BY Zenon DEF Worlds
<1>2. Keeps(w, w)
  BY DEF Keeps
<1>3. Keeps(w, u)
  BY <1>1, <1>2, OthersKeep, Zenon
<1> HIDE DEF u
<1>4. Keeps(u, ct_known_user_cache_change(u, c))
  BY <1>1, ChangeKeeps
<1> QED BY <1>2, <1>3, <1>4 DEF update_known_user_cache, Keeps, u

\* A client that is gone, as exit_client() leaves it.
LEMMA GoneKeeps ==
    ASSUME NEW w \in Worlds, NEW c \in Clients
    PROVE  Keeps(w, Gone(w, c))
<1> DEFINE q == ct_quit(w, c)
           u == [q EXCEPT !.status[c] = "gone", !.known[c] = FALSE]
<1>1. Keeps(w, q) /\ q \in Worlds
  BY QuitKeeps DEF Keeps
<1> HIDE DEF q
<1>2. u \in Worlds /\ u.category = q.category /\ u.bucket = q.bucket
  BY <1>1, Zenon DEF Worlds
<1> HIDE DEF u
<1>3. Keeps(w, u)
  BY <1>1, <1>2, OthersKeep
<1> QED BY <1>3 DEF Gone, u, q

\* ct_buckets_rebuild(): exact again, unless a counted client is passed over.
LEMMA RebuildKeeps ==
    ASSUME NEW w \in Worlds
    PROVE  /\ ct_buckets_rebuild(w) \in Worlds
           /\ (\A c \in Clients : ~Overlooked(w, c)) => Exact(ct_buckets_rebuild(w))
<1> DEFINE cat == [c \in Clients |-> IF c \in Rebuilt(w) THEN ct_classify(w, c)
                                     ELSE w.category[c]]
           b == [t \in Tiers |-> [n \in Nets |-> Tally(Rebuilt(w), cat, t, n)]]
           u == [w EXCEPT !.category = cat, !.bucket = b]
<1>1. u = ct_buckets_rebuild(w)
  BY DEF ct_buckets_rebuild
<1>2. cat \in Categories
  BY ClassifyType DEF Categories, Worlds
<1>3. \A t \in Tiers, n \in Nets : Tally(Rebuilt(w), cat, t, n) \in Buckets
  <2> SUFFICES ASSUME NEW t \in Tiers, NEW n \in Nets
               PROVE  Tally(Rebuilt(w), cat, t, n) \in Buckets
    OBVIOUS
  <2> HIDE DEF cat
  <2> DEFINE here == {c \in Rebuilt(w) : NetOf[t][c] = n}
  <2>1. \A k : Cardinality({c \in here : cat[c] = k}) \in Nat
    <3> SUFFICES ASSUME NEW k PROVE Cardinality({c \in here : cat[c] = k}) \in Nat
      BY SMTT(60)
    <3>1. {c \in here : cat[c] = k} \in SUBSET Clients
      BY DEF Rebuilt
    <3> QED BY <3>1, CTAssumption, FS_Subset, FS_CardinalityType
  <2> DEFINE f == [k \in Kinds |-> Cardinality({c \in here : cat[c] = k})]
  <2>2. Tally(Rebuilt(w), cat, t, n) = IF here = {} THEN None ELSE f
    BY Zenon DEF Tally
  <2>3. f \in [Kinds -> Int]
    <3> DEFINE g(k) == Cardinality({c \in here : cat[c] = k})
    <3>1. \A k \in Kinds : g(k) \in Int
      BY <2>1
    <3> HIDE DEF g
    <3>2. [k \in Kinds |-> g(k)] \in [Kinds -> Int]
      BY <3>1
    <3> QED BY <3>2, Zenon DEF g
  <2> HIDE DEF here, f
  <2> QED BY <2>2, <2>3 DEF Buckets
<1>4. b \in [Tiers -> [Nets -> Buckets]]
  BY <1>3, SMTT(60)
<1>5. u \in Worlds /\ u.category = cat /\ u.bucket = b
  <2> HIDE DEF cat, b
  <2> QED BY <1>2, <1>4, WorldTypes, Zenon DEF Worlds
<1>6. ASSUME \A c \in Clients : ~Overlooked(w, c) PROVE Exact(u)
  <2>1. Rebuilt(w) = In(cat)
    <3>1. \A c \in Rebuilt(w) : c \in Clients /\ cat[c] \in Kinds
      BY ClassifyType DEF Rebuilt
    <3>2. \A c \in Clients : c \notin Rebuilt(w) => cat[c] = "none"
      BY <1>6, SMTT(60) DEF Overlooked
    <3> HIDE DEF cat
    <3> QED BY <3>1, <3>2 DEF In, Kinds
  <2>2. \A t \in Tiers, n \in Nets : b[t][n] = Tally(In(cat), cat, t, n)
    BY <2>1, Zenon
  <2> HIDE DEF cat, b, u
  <2> QED BY <1>2, <1>5, <2>2, TallyIsBucket DEF Exact
<1> QED BY <1>1, <1>5, <1>6

-----------------------------------------------------------------------------
(* The invariant *)

\* A step to a world that keeps the counts keeps the invariant.
LEMMA BecomeIInv ==
    ASSUME IInv, NEW u, Keeps(CTWorld, u), CTBecome(u),
           UNCHANGED <<excepted, enforcing, skipped>>
    PROVE  IInv'
<1>1. u \in Worlds /\ (Exact(CTWorld) => Exact(u))
  BY DEF Keeps
<1>2. CTWorld' = u
  BY <1>1 DEF CTBecome, CTWorld, Worlds
<1>3. CTType'
  BY <1>1, <1>2 DEF IInv, CTType
<1>4. (~skipped => Exact(CTWorld))'
  BY <1>1, <1>2 DEF IInv, Exact
<1> QED BY <1>3, <1>4 DEF IInv

\* The empty server satisfies the invariant.
LEMMA InitIInv == CTInit => IInv
<1> SUFFICES ASSUME CTInit PROVE IInv
  OBVIOUS
<1>1. CTWorld \in Worlds
  BY DEF CTInit, CTWorld, Worlds, Categories
<1>2. CTType
  BY <1>1, Zenon DEF CTInit, CTType
<1>3. ASSUME NEW t \in Tiers, NEW n \in Nets
      PROVE  CTWorld.bucket[t][n] = AsBucket(Numbers(CTWorld.category, t, n))
  <2>1. \A k \in Kinds : Of(category, t, n, k) = {}
    BY DEF CTInit, Of, Kinds
  <2>2. Numbers(category, t, n) = Zero
    BY <2>1, FS_EmptySet DEF Numbers, Zero
  <2> QED BY <2>2 DEF CTInit, CTWorld, AsBucket
<1> QED BY <1>2, <1>3 DEF IInv, Exact

\* Every step keeps the invariant.
LEMMA NextIInv == IInv /\ [CTNext]_ctvars => IInv'
<1> SUFFICES ASSUME IInv, [CTNext]_ctvars PROVE IInv'
  OBVIOUS
<1>0. CTWorld \in Worlds /\ Keeps(CTWorld, CTWorld)
  BY DEF IInv, CTType, Keeps
<1>1. ASSUME NEW c \in Clients, CTConnect(c) PROVE IInv'
  <2> DEFINE u == [CTWorld EXCEPT !.status[c] = "unknown"]
  <2>1. u \in Worlds /\ u.category = CTWorld.category /\ u.bucket = CTWorld.bucket
    BY <1>0 DEF Worlds
  <2>2. Keeps(CTWorld, u)
    BY <1>0, <2>1, OthersKeep, Zenon
  <2> HIDE DEF u
  <2> QED BY <1>1, <2>2, BecomeIInv DEF CTConnect, u
<1>2. ASSUME NEW c \in Clients, NEW k \in BOOLEAN, NEW to \in {"user", "unknown", "gone"},
             CTRegister(c, k, to)
      PROVE  IInv'
  <2> DEFINE w == update_known_user_cache(CTWorld, c, k)
             u == ct_allow_client(w, c)
             v == IF to = "gone" THEN Gone(u, c) ELSE [u EXCEPT !.status[c] = to]
  <2>1. w \in Worlds /\ Keeps(CTWorld, w)
    BY <1>0, KnownKeeps DEF Keeps
  <2> HIDE DEF w
  <2>2. u \in Worlds /\ Keeps(w, u)
    BY <2>1, AllowKeeps DEF Keeps
  <2> HIDE DEF u
  <2>3. Keeps(u, v)
    <3>1. CASE to = "gone"
      BY <2>2, <3>1, GoneKeeps
    <3>2. CASE to # "gone"
      <4>1. v \in Worlds /\ v.category = u.category /\ v.bucket = u.bucket
        BY <2>2, <3>2 DEF Worlds
      <4>2. Keeps(u, u)
        BY <2>2 DEF Keeps
      <4> QED BY <2>2, <4>1, <4>2, OthersKeep, Zenon
    <3> QED BY <3>1, <3>2
  <2> HIDE DEF v
  <2>4. Keeps(CTWorld, v)
    BY <2>1, <2>2, <2>3 DEF Keeps
  <2> QED BY <1>2, <2>4, BecomeIInv DEF CTRegister, w, u, v
<1>3. ASSUME NEW c \in Clients, NEW k \in BOOLEAN, CTRemoteConnect(c, k) PROVE IInv'
  <2> DEFINE w == [CTWorld EXCEPT !.status[c] = "user", !.known[c] = k]
             u == ct_remote_connect_buckets(w, c)
  <2>1. w \in Worlds /\ w.category = CTWorld.category /\ w.bucket = CTWorld.bucket
    BY <1>0, Zenon DEF Worlds
  <2>2. Keeps(CTWorld, w)
    BY <1>0, <2>1, OthersKeep, Zenon
  <2> HIDE DEF w
  <2>3. Keeps(CTWorld, u)
    BY <2>1, <2>2, AllowKeeps DEF Keeps
  <2> HIDE DEF u
  <2> QED BY <1>3, <2>3, BecomeIInv DEF CTRemoteConnect, w, u
<1>4. ASSUME NEW c \in Clients, CTQuit(c) PROVE IInv'
  BY <1>0, <1>4, GoneKeeps, BecomeIInv DEF CTQuit
<1>5. ASSUME NEW c \in Clients, NEW k \in BOOLEAN, CTKnown(c, k) PROVE IInv'
  BY <1>0, <1>5, KnownKeeps, BecomeIInv DEF CTKnown
<1>6. ASSUME NEW c \in Clients, CTExcept(c) PROVE IInv'
  BY <1>6 DEF CTExcept, IInv, CTType, CTWorld, Exact
<1>7. ASSUME NEW e \in BOOLEAN, CTEnforce(e) PROVE IInv'
  BY <1>7 DEF CTEnforce, IInv, CTType, CTWorld, Exact
<1>8. ASSUME CTRehash PROVE IInv'
  <2> DEFINE u == ct_buckets_rebuild(CTWorld)
  <2>1. /\ u \in Worlds
        /\ (\A c \in Clients : ~Overlooked(CTWorld, c)) => Exact(u)
    BY <1>0, RebuildKeeps
  <2>2. CTWorld' = u
    <3> HIDE DEF u
    <3>1. CTBecome(u)
      BY <1>8 DEF CTRehash, u
    <3> QED BY <2>1, <3>1 DEF CTBecome, CTWorld, Worlds
  <2>3. skipped' = (skipped \/ \E c \in Clients : Overlooked(CTWorld, c))
    BY <1>8 DEF CTRehash
  <2> HIDE DEF u
  <2>4. CTType'
    BY <1>8, <2>1, <2>2, <2>3 DEF IInv, CTType, CTRehash
  <2>5. (~skipped => Exact(CTWorld))'
    BY <2>1, <2>2, <2>3, Zenon DEF Exact
  <2> QED BY <2>4, <2>5 DEF IInv
<1>9. CASE UNCHANGED ctvars
  BY <1>9 DEF ctvars, IInv, CTType, CTWorld, Exact
<1> QED BY <1>1, <1>2, <1>3, <1>4, <1>5, <1>6, <1>7, <1>8, <1>9 DEF CTNext

\* What the invariant says of the buckets is the self-check of the module.
LEMMA InvExact == IInv => BucketsExact
<1> SUFFICES ASSUME IInv, ~skipped, NEW t \in Tiers, NEW n \in Nets
             PROVE  bucket[t][n] = Tally(Counted, category, t, n)
  BY DEF BucketsExact
<1>1. category \in Categories /\ CTWorld.category = category /\ CTWorld.bucket = bucket
  BY DEF IInv, CTType, CTWorld, Worlds
<1>2. bucket[t][n] = AsBucket(Numbers(category, t, n))
  BY <1>1 DEF IInv, Exact
<1>3. Counted = In(category)
  BY DEF Counted, In
<1> QED BY <1>1, <1>2, <1>3, TallyIsBucket

\* The prefix counts of connthrottle.c are exact at all times, for any clients and
\* prefixes, and for every order of registrations, holds, logins, exits and
\* rehashes in which no rehash meets a counted connection that is still held.
THEOREM BucketsStayExact == CTSpec => []BucketsExact
  BY InitIInv, NextIInv, InvExact, PTL DEF CTSpec

-----------------------------------------------------------------------------
(* Registration implements ConnThrottle *)

\* The fields of ConnThrottle are there.
Fields(w) == {"status", "known", "category", "bucket"} \subseteq DOMAIN w

\* To ConnThrottle, w and p are the same.
Same(w, p) ==
    /\ Fields(w) /\ Fields(p)
    /\ w.status = p.status /\ w.known = p.known
    /\ w.category = p.category /\ w.bucket = p.bucket

\* What one try makes of p: CTRegister.
Result(p, c, k, to) ==
    LET u == ct_allow_client(update_known_user_cache(p, c, k), c)
    IN  IF to = "gone" THEN Gone(u, c) ELSE [u EXCEPT !.status[c] = to]

\* A try to register c, for which the account k is known, may make q of p.
Outcome(p, c, k, q) ==
    \/ Same(q, p)
    \/ Same(q, Gone(p, c))
    \/ \E to \in {"gone", "unknown", "user"} :
           /\ Rejected(update_known_user_cache(p, c, k), c) => to = "gone"
           /\ Same(q, Result(p, c, k, to))

-----------------------------------------------------------------------------
(* The operations of ConnThrottle depend on its four fields only *)

\* A record is the same as itself to ConnThrottle.
LEMMA SameReflexive == ASSUME NEW w, Fields(w) PROVE Same(w, w)
  BY Zenon DEF Same

\* ct_classify() reads only what ConnThrottle has.
LEMMA ClassifySame ==
    ASSUME NEW w, NEW p, Same(w, p), NEW c
    PROVE  ct_classify(w, c) = ct_classify(p, c)
  BY Zenon DEF Same, ct_classify

\* So does ct_quit(), and it changes no more than that.
LEMMA QuitSame ==
    ASSUME NEW w, NEW p, Same(w, p), NEW c
    PROVE  Same(ct_quit(w, c), ct_quit(p, c))
  BY Zenon DEF Same, Fields, ct_quit, ct_bucket_unbump_client

\* The end of a connection respects it too,
LEMMA GoneSame ==
    ASSUME NEW w, NEW p, Same(w, p), NEW c
    PROVE  Same(Gone(w, c), Gone(p, c))
<1> DEFINE q == ct_quit(w, c)
           r == ct_quit(p, c)
<1>1. Same(q, r)
  BY QuitSame, Zenon
<1> HIDE DEF q, r
<1>2. Same([q EXCEPT !.status[c] = "gone", !.known[c] = FALSE],
           [r EXCEPT !.status[c] = "gone", !.known[c] = FALSE])
  BY <1>1, Zenon DEF Same, Fields
<1> QED BY <1>2, Zenon DEF Gone, q, r

\* as does moving a client to another counter,
LEMMA ChangeSame ==
    ASSUME NEW w, NEW p, Same(w, p), NEW c
    PROVE  Same(ct_known_user_cache_change(w, c), ct_known_user_cache_change(p, c))
  BY ClassifySame DEF Same, Fields, ct_known_user_cache_change

\* the change of its standing that may lead to that,
LEMMA KnownSame ==
    ASSUME NEW w, NEW p, Same(w, p), NEW c, NEW k
    PROVE  Same(update_known_user_cache(w, c, k), update_known_user_cache(p, c, k))
<1> DEFINE x == [w EXCEPT !.known[c] = k]
           y == [p EXCEPT !.known[c] = k]
<1>1. Same(x, y)
  BY Zenon DEF Same, Fields
<1> HIDE DEF x, y
<1>2. Same(ct_known_user_cache_change(x, c), ct_known_user_cache_change(y, c))
  BY <1>1, ChangeSame, Zenon
<1>3. w.known[c] = p.known[c]
  BY Zenon DEF Same
<1> QED BY <1>2, <1>3, Zenon DEF update_known_user_cache, x, y

\* counting it when it registers,
LEMMA AllowSame ==
    ASSUME NEW w, NEW p, Same(w, p), NEW c
    PROVE  Same(ct_allow_client(w, c), ct_allow_client(p, c))
  BY ClassifySame, SMTT(60) DEF Same, Fields, ct_allow_client, ct_bucket_bump_client

\* and the decision to refuse it.
LEMMA RejectedSame ==
    ASSUME NEW w, NEW p, Same(w, p), NEW c
    PROVE  Rejected(w, c) <=> Rejected(p, c)
  BY ClassifySame, AllowSame DEF Same, Rejected

\* Being the same is transitive.
LEMMA SameTransitive ==
    ASSUME NEW x, NEW y, NEW z, Same(x, y), Same(y, z) PROVE Same(x, z)
  BY Zenon DEF Same

\* So one whole try makes the same of the same,
LEMMA ResultSame ==
    ASSUME NEW w, NEW p, Same(w, p), NEW c, NEW k, NEW to
    PROVE  Same(Result(w, c, k, to), Result(p, c, k, to))
<1> DEFINE u == ct_allow_client(update_known_user_cache(w, c, k), c)
           v == ct_allow_client(update_known_user_cache(p, c, k), c)
<1>1. Same(u, v)
  BY KnownSame, AllowSame, Zenon
<1> HIDE DEF u, v
<1>2. Same(Gone(u, c), Gone(v, c))
  BY <1>1, GoneSame, Zenon
<1>3. Same([u EXCEPT !.status[c] = to], [v EXCEPT !.status[c] = to])
  BY <1>1, Zenon DEF Same, Fields
<1> QED BY <1>2, <1>3, Zenon DEF Result, u, v

\* and has the same outcomes.
LEMMA OutcomeSame ==
    ASSUME NEW w, NEW p, Same(w, p), NEW c, NEW k, NEW q, Outcome(w, c, k, q)
    PROVE  Outcome(p, c, k, q)
<1>1. CASE Same(q, w)
  BY <1>1, SameTransitive, Zenon DEF Outcome
<1>2. CASE Same(q, Gone(w, c))
  BY <1>2, GoneSame, SameTransitive, Zenon DEF Outcome
<1>3. ASSUME NEW to \in {"gone", "unknown", "user"},
             Rejected(update_known_user_cache(w, c, k), c) => to = "gone",
             Same(q, Result(w, c, k, to))
      PROVE  Outcome(p, c, k, q)
  <2>1. Rejected(update_known_user_cache(p, c, k), c) => to = "gone"
    BY <1>3, KnownSame, RejectedSame, SMTT(60)
  <2>2. Same(q, Result(p, c, k, to))
    BY <1>3, ResultSame, SameTransitive, Zenon
  <2> QED BY <2>1, <2>2, Zenon DEF Outcome
<1> QED BY <1>1, <1>2, <1>3, Zenon DEF Outcome

-----------------------------------------------------------------------------
(* Two tries come to one *)

\* update_known_user_cache() leaves the client with the standing it was given.
LEMMA KnownSets ==
    ASSUME NEW p \in Worlds, NEW c \in Clients, NEW k \in BOOLEAN
    PROVE  /\ update_known_user_cache(p, c, k) \in Worlds
           /\ update_known_user_cache(p, c, k).known[c] = k
           /\ update_known_user_cache(p, c, k).status = p.status
<1>1. update_known_user_cache(p, c, k) \in Worlds
  BY KnownKeeps, Zenon DEF Keeps
<1>2. /\ update_known_user_cache(p, c, k).known[c] = k
      /\ update_known_user_cache(p, c, k).status = p.status
  BY Zenon DEF update_known_user_cache, ct_known_user_cache_change, Worlds
<1> QED BY <1>1, <1>2, Zenon

\* After ct_allow_client() an IPv6 client is counted.
LEMMA AllowCounts ==
    ASSUME NEW p \in Worlds, NEW c \in Clients
    PROVE  /\ ct_allow_client(p, c) \in Worlds
           /\ ct_allow_client(p, c).known = p.known
           /\ ct_allow_client(p, c).status = p.status
           /\ c \in IPv6 => ct_allow_client(p, c).category[c] # "none"
<1>1. ct_allow_client(p, c) \in Worlds
  BY AllowKeeps, Zenon DEF Keeps
<1>2. ct_classify(p, c) # "none"
  BY Zenon DEF ct_classify
<1>3. /\ ct_allow_client(p, c).known = p.known
      /\ ct_allow_client(p, c).status = p.status
      /\ c \in IPv6 => ct_allow_client(p, c).category[c] # "none"
  BY <1>2, Zenon DEF ct_allow_client, ct_bucket_bump_client, Worlds, Categories
<1> QED BY <1>1, <1>3, Zenon

\* An outcome is a proper state of ConnThrottle.
LEMMA OutcomeWorld ==
    ASSUME NEW p \in Worlds, NEW c \in Clients, NEW k \in BOOLEAN,
           NEW q, Outcome(p, c, k, q)
    PROVE  \E r \in Worlds : Same(q, r)
<1> DEFINE a == ct_allow_client(update_known_user_cache(p, c, k), c)
<1>1. a \in Worlds
  BY KnownSets, AllowCounts, Zenon
<1>2. Gone(p, c) \in Worlds /\ Gone(a, c) \in Worlds
  BY <1>1, GoneKeeps, Zenon DEF Keeps
<1>3. \A to \in {"gone", "unknown", "user"} : Result(p, c, k, to) \in Worlds
  <2>1. \A to : Result(p, c, k, to) = IF to = "gone" THEN Gone(a, c)
                                      ELSE [a EXCEPT !.status[c] = to]
    BY Zenon DEF Result
  <2> HIDE DEF a
  <2>2. \A to \in {"unknown", "user"} : [a EXCEPT !.status[c] = to] \in Worlds
    BY <1>1, Zenon DEF Worlds
  <2> QED BY <2>1, <2>2, <1>2, Zenon
<1> QED BY <1>2, <1>3, Zenon DEF Outcome

\* register_user() run twice in one step, as after SASL when the first try held the
\* connection, comes to no more than one run: the second finds the client counted.
LEMMA TwoTries ==
    ASSUME NEW p \in Worlds, NEW c \in Clients, NEW k \in BOOLEAN,
           p.status[c] = "unknown",
           NEW q, Outcome(p, c, k, q), q.status[c] = "unknown",
           NEW r, Outcome(q, c, k, r)
    PROVE  Outcome(p, c, k, r)
<1> DEFINE b == update_known_user_cache(p, c, k)
           a == ct_allow_client(b, c)
<1>1. /\ b \in Worlds /\ b.known[c] = k /\ b.status = p.status
      /\ a \in Worlds /\ a.known[c] = k /\ a.status = p.status
      /\ c \in IPv6 => a.category[c] # "none"
  BY KnownSets, AllowCounts
<1>2. Result(p, c, k, "gone") = Gone(a, c)
      /\ \A to : to # "gone" => Result(p, c, k, to) = [a EXCEPT !.status[c] = to]
  BY Zenon DEF Result
<1>3. \A x \in Worlds : Fields(x)
  BY Zenon DEF Worlds, Fields
<1>4. \A x \in Worlds : Gone(x, c).status[c] = "gone"
  BY QuitKeeps, ZenonT(90) DEF Keeps, Gone, Worlds
<1>5. /\ update_known_user_cache(a, c, k) = a
      /\ ct_allow_client(a, c) = a /\ ~Rejected(a, c)
  <2> HIDE DEF a
  <2> QED BY <1>1, Zenon DEF update_known_user_cache, ct_allow_client, Rejected
<1>6. /\ Result(a, c, k, "gone") = Gone(a, c)
      /\ \A to : to # "gone" => Result(a, c, k, to) = [a EXCEPT !.status[c] = to]
  BY <1>5, Zenon DEF Result
<1> HIDE DEF a, b
<1>7. Same([a EXCEPT !.status[c] = "unknown"], a)
  BY <1>1, <1>3 DEF Same, Worlds, Fields
<1>8. CASE Same(q, p)
  BY <1>8, OutcomeSame, Zenon
<1>9. CASE ~Same(q, p)
  <2>1. ~Same(q, Gone(p, c))
    BY <1>4, Zenon DEF Same
  <2>2. PICK to \in {"gone", "unknown", "user"} :
           (Rejected(b, c) => to = "gone") /\ Same(q, Result(p, c, k, to))
    BY <1>9, <2>1, Zenon DEF Outcome, b
  <2>3. to = "unknown"
    <3>1. to # "gone"
      BY <2>2, <1>1, <1>2, <1>4 DEF Same
    <3>2. to # "user"
      <4>1. [a EXCEPT !.status[c] = "user"].status[c] = "user"
        BY <1>1, Zenon DEF Worlds
      <4> QED BY <4>1, <2>2, <1>2, Zenon DEF Same
    <3> QED BY <3>1, <3>2, Zenon
  <2>4. Same(q, a) /\ ~Rejected(b, c)
    BY <2>2, <2>3, <1>2, <1>7, SameTransitive, Zenon
  <2>5. Outcome(a, c, k, r)
    BY <2>4, OutcomeSame, Zenon
  <2>6. CASE Same(r, a)
    <3>1. Same(a, Result(p, c, k, "unknown"))
      BY <1>7, <1>2, Zenon DEF Same
    <3> QED BY <3>1, <2>6, <2>4, SameTransitive, Zenon DEF Outcome, b
  <2>7. CASE Same(r, Gone(a, c))
    BY <2>7, <1>2, Zenon DEF Outcome
  <2>8. ASSUME NEW x \in {"gone", "unknown", "user"}, Same(r, Result(a, c, k, x))
        PROVE  Outcome(p, c, k, r)
    <3>1. Result(a, c, k, x) = Result(p, c, k, x)
      BY <1>2, <1>6, Zenon
    <3> QED BY <3>1, <2>8, <2>4, Zenon DEF Outcome, b
  <2> QED BY <2>5, <2>6, <2>7, <2>8, Zenon DEF Outcome
<1> QED BY <1>8, <1>9, Zenon

-----------------------------------------------------------------------------
(* The operations of Registration *)

HsFields == {"todo", "cap", "sent", "complete", "agent", "type", "stepup", "bl",
             "tagged", "authmsg", "account", "class", "last"}

\* The fields are there, and requests are about connections that exist.
Shape(w) ==
    /\ DOMAIN w = {"status", "known", "category", "bucket", "hs", "asked",
                   "clients", "leaked"}
    /\ DOMAIN w.status = Clients /\ DOMAIN w.hs = Local /\ DOMAIN w.asked = Local
    /\ \A c \in Local : /\ DOMAIN w.hs[c] = HsFields
                        /\ w.hs[c].account \in BOOLEAN
                        /\ w.asked[c] \in Int
                        /\ w.asked[c] > 0 => w.status[c] # "gone"

\* Only the fields of ConnThrottle differ, and not the status.
Beside(u, w) ==
    /\ DOMAIN u = DOMAIN w /\ u.status = w.status
    /\ u.hs = w.hs /\ u.asked = w.asked

\* The counts have no part in the shape of the state.
LEMMA BesideShape == ASSUME NEW w, NEW u, Shape(w), Beside(u, w) PROVE Shape(u)
  BY Zenon DEF Shape, Beside

\* A change of standing touches the counts only,
LEMMA KnownBeside ==
    ASSUME NEW w, Shape(w), NEW c, NEW k
    PROVE  Beside(update_known_user_cache(w, c, k), w)
  BY Zenon DEF Shape, Beside, update_known_user_cache, ct_known_user_cache_change

\* and so does ct_allow_client().
LEMMA AllowBeside ==
    ASSUME NEW w, Shape(w), NEW c
    PROVE  Beside(ct_allow_client(w, c), w)
  BY Zenon DEF Shape, Beside, ct_allow_client, ct_bucket_bump_client

\* exit_client() is the end of a connection as ConnThrottle has it.
LEMMA ExitShape ==
    ASSUME NEW w, NEW p, Shape(w), Same(w, p), NEW c \in Local
    PROVE  /\ Shape(exit_client(w, c)) /\ exit_client(w, c).status[c] = "gone"
           /\ Same(exit_client(w, c), Gone(p, c))
<1> DEFINE q == ct_quit(w, c)
           g == Gone(w, c)
           e == exit_client(w, c)
<1>0. c \in Clients
  BY Zenon DEF Clients
<1>1. Beside(q, w)
  BY Zenon DEF Shape, Beside, ct_quit, ct_bucket_unbump_client
<1>2. /\ DOMAIN g = DOMAIN w /\ g.hs = w.hs /\ g.asked = w.asked
      /\ g.status = [w.status EXCEPT ![c] = "gone"]
  <2> HIDE DEF q
  <2>1. g = [q EXCEPT !.status[c] = "gone", !.known[c] = FALSE]
    BY Zenon DEF Gone, q
  <2> HIDE DEF g
  <2> QED BY <2>1, <1>1, Zenon DEF Beside, Shape
<1>3. Same(g, Gone(p, c))
  BY GoneSame, Zenon
<1> HIDE DEF q, g
<1>4. /\ DOMAIN e = DOMAIN g /\ e.status = g.status /\ e.known = g.known
      /\ e.category = g.category /\ e.bucket = g.bucket
      /\ e.hs = [g.hs EXCEPT ![c] = Fresh] /\ e.asked = [g.asked EXCEPT ![c] = 0]
  BY <1>2, Zenon DEF exit_client, g, Shape
<1> HIDE DEF e
<1>5. DOMAIN Fresh = HsFields /\ Fresh.account \in BOOLEAN
  BY Zenon DEF Fresh, HsFields
<1>6. Shape(e) /\ e.status[c] = "gone"
  BY <1>0, <1>2, <1>4, <1>5 DEF Shape
<1>7. Same(e, Gone(p, c))
  BY <1>3, <1>4, Zenon DEF Same, Fields
<1> QED BY <1>6, <1>7, Zenon DEF e

\* A change of the handshake of c, of its requests and of the class.
Inside(u, w, c) ==
    /\ DOMAIN u = DOMAIN w /\ u.status = w.status /\ u.known = w.known
    /\ u.category = w.category /\ u.bucket = w.bucket
    /\ DOMAIN u.hs = Local /\ DOMAIN u.asked = Local
    /\ \A d \in Local \ {c} : u.hs[d] = w.hs[d] /\ u.asked[d] = w.asked[d]
    /\ DOMAIN u.hs[c] = HsFields /\ u.hs[c].account = w.hs[c].account
    /\ u.asked[c] \in Int /\ (u.asked[c] > 0 => u.status[c] # "gone")

\* The handshake of a connection is nothing to ConnThrottle.
LEMMA InsideShape ==
    ASSUME NEW w, NEW u, NEW c \in Local, Shape(w), Inside(u, w, c)
    PROVE  Shape(u) /\ Same(u, w)
  BY Zenon DEF Shape, Inside, Same, Fields

\* Two changes of the handshake of c are one.
LEMMA InsideTransitive ==
    ASSUME NEW x, NEW y, NEW z, NEW c \in Local, Inside(x, y, c), Inside(y, z, c)
    PROVE  Inside(x, z, c)
  BY Zenon DEF Inside

\* AllowClient() counts the client by the account it has then.
LEMMA AllowedShape ==
    ASSUME NEW w, NEW p, Shape(w), Same(w, p), NEW c \in Local
    PROVE  LET k == w.hs[c].account
               u == ct_allow_client(StandingOf(w, c), c)
           IN  /\ Shape(u) /\ Shape(Allowed(w, c))
               /\ Same(u, ct_allow_client(update_known_user_cache(p, c, k), c))
               /\ Same(StandingOf(w, c), update_known_user_cache(p, c, k))
               /\ Inside(Allowed(w, c), u, c)
               /\ u.status = w.status /\ u.hs = w.hs
<1> DEFINE k == w.hs[c].account
           b == StandingOf(w, c)
           u == ct_allow_client(b, c)
<1>1. Beside(b, w) /\ Same(b, update_known_user_cache(p, c, k))
  BY KnownBeside, KnownSame, Zenon DEF StandingOf
<1> HIDE DEF b
<1>2. Shape(b)
  BY <1>1, BesideShape, Zenon
<1>3. Beside(u, b) /\ Same(u, ct_allow_client(update_known_user_cache(p, c, k), c))
  BY <1>1, <1>2, AllowBeside, AllowSame, Zenon
<1>4. Shape(u) /\ u.status = w.status /\ u.hs = w.hs
  BY <1>1, <1>2, <1>3, BesideShape, Zenon DEF Beside
<1> HIDE DEF u
<1>5. Allowed(w, c) = [u EXCEPT !.clients = @ + 1, !.hs[c].class = TRUE,
                                !.leaked = @ \/ w.hs[c].class]
  BY Zenon DEF Allowed, u, b
<1>6. Inside(Allowed(w, c), u, c)
  BY <1>4, <1>5 DEF Shape, Inside, HsFields
<1>7. Shape(Allowed(w, c))
  BY <1>4, <1>6, InsideShape, ZenonT(60)
<1> QED BY <1>1, <1>3, <1>4, <1>6, <1>7, Zenon DEF u, b

\* r comes out of a try to register c in w, which is the same as p.
Tried(r, w, c, p) ==
    /\ Shape(r)
    /\ Outcome(p, c, w.hs[c].account, r)
    /\ r.status[c] = "unknown" => r.hs[c].account = w.hs[c].account

\* A connection that stays in its handshake, in its class or not.
LEMMA KeptTried ==
    ASSUME NEW w, NEW p \in Worlds, Shape(w), Same(w, p), NEW c \in Local,
           w.status[c] = "unknown", ~Rejected(StandingOf(w, c), c),
           NEW r, Inside(r, Allowed(w, c), c)
    PROVE  Tried(r, w, c, p)
<1> DEFINE k == w.hs[c].account
           u == ct_allow_client(StandingOf(w, c), c)
           b == update_known_user_cache(p, c, k)
           a == ct_allow_client(b, c)
<1>0. c \in Clients /\ k \in BOOLEAN
  BY Zenon DEF Clients, Shape
<1>1. /\ Shape(u) /\ Shape(Allowed(w, c)) /\ Same(u, a) /\ Same(StandingOf(w, c), b)
      /\ Inside(Allowed(w, c), u, c) /\ u.status = w.status /\ u.hs = w.hs
  BY AllowedShape, ZenonT(90)
<1>2. Inside(r, u, c)
  BY <1>1, InsideTransitive, ZenonT(60)
<1>3. Shape(r) /\ Same(r, u)
  BY <1>1, <1>2, InsideShape, SMTT(60)
<1>4. a \in Worlds /\ a.status = p.status
  BY <1>0, KnownSets, AllowCounts
<1>5. ~Rejected(b, c)
  BY <1>1, RejectedSame, Zenon
<1>6. Same(a, Result(p, c, k, "unknown"))
  <2>1. Result(p, c, k, "unknown") = [a EXCEPT !.status[c] = "unknown"]
    BY Zenon DEF Result
  <2> HIDE DEF a
  <2>2. Same(a, [a EXCEPT !.status[c] = "unknown"])
    BY <1>0, <1>4, SMTT(60) DEF Same, Worlds, Fields
  <2> QED BY <2>1, <2>2, Zenon
<1>7. Same(r, Result(p, c, k, "unknown"))
  BY <1>1, <1>3, <1>6, SameTransitive, SMTT(60)
<1>8. Outcome(p, c, k, r)
  BY <1>5, <1>7, SMTT(60) DEF Outcome
<1>9. r.hs[c].account = k
  BY <1>1, <1>2, Zenon DEF Inside
<1> QED BY <1>3, <1>8, <1>9, SMTT(60) DEF Tried

\* A connection that becomes a user.
LEMMA UserTried ==
    ASSUME NEW w, NEW p \in Worlds, Shape(w), Same(w, p), NEW c \in Local,
           ~Rejected(StandingOf(w, c), c)
    PROVE  Tried([Allowed(w, c) EXCEPT !.status[c] = "user"], w, c, p)
<1> DEFINE k == w.hs[c].account
           u == ct_allow_client(StandingOf(w, c), c)
           b == update_known_user_cache(p, c, k)
           a == ct_allow_client(b, c)
           x == Allowed(w, c)
           r == [x EXCEPT !.status[c] = "user"]
<1>0. c \in Clients
  BY Zenon DEF Clients
<1>1. /\ Shape(u) /\ Shape(x) /\ Same(u, a) /\ Same(StandingOf(w, c), b)
      /\ Inside(x, u, c)
  BY AllowedShape, ZenonT(90)
<1>2. Same(x, a)
  BY <1>1, InsideShape, SameTransitive, Zenon
<1>3. ~Rejected(b, c)
  BY <1>1, RejectedSame, SMTT(60)
<1> HIDE DEF x
<1>4. Shape(r) /\ r.status[c] = "user"
  BY <1>0, <1>1 DEF Shape
<1>5. Same(r, Result(p, c, k, "user"))
  <2>1. Result(p, c, k, "user") = [a EXCEPT !.status[c] = "user"]
    BY Zenon DEF Result
  <2> HIDE DEF a
  <2>2. Same(r, [a EXCEPT !.status[c] = "user"])
    BY <1>2, Zenon DEF Same, Fields
  <2> QED BY <2>1, <2>2, Zenon
<1>6. Outcome(p, c, k, r)
  BY <1>3, <1>5, SMTT(60) DEF Outcome
<1> QED BY <1>4, <1>6, Zenon DEF Tried, x

\* A connection that is closed, before it is counted or after.
LEMMA ClosedTried ==
    ASSUME NEW w, NEW p \in Worlds, Shape(w), Same(w, p), NEW c \in Local
    PROVE  /\ Tried(exit_client(w, c), w, c, p)
           /\ Tried(exit_client(ct_allow_client(StandingOf(w, c), c), c), w, c, p)
           /\ Tried(exit_client(Allowed(w, c), c), w, c, p)
<1> DEFINE k == w.hs[c].account
           u == ct_allow_client(StandingOf(w, c), c)
           a == ct_allow_client(update_known_user_cache(p, c, k), c)
<1>1. Shape(u) /\ Shape(Allowed(w, c)) /\ Same(u, a) /\ Inside(Allowed(w, c), u, c)
  BY AllowedShape, ZenonT(90)
<1>2. Same(Allowed(w, c), a)
  BY <1>1, InsideShape, SameTransitive, Zenon
<1>3. Result(p, c, k, "gone") = Gone(a, c)
  BY Zenon DEF Result
<1>4. ASSUME NEW x, Shape(x), Same(x, a) PROVE Tried(exit_client(x, c), w, c, p)
  <2>1. /\ Shape(exit_client(x, c)) /\ exit_client(x, c).status[c] = "gone"
        /\ Same(exit_client(x, c), Result(p, c, k, "gone"))
    BY <1>3, <1>4, ExitShape, SMTT(60)
  <2>2. Outcome(p, c, k, exit_client(x, c))
    BY <2>1, SMTT(60) DEF Outcome
  <2> QED BY <2>1, <2>2, ZenonT(60) DEF Tried
<1>5. Tried(exit_client(w, c), w, c, p)
  <2>1. /\ Shape(exit_client(w, c)) /\ exit_client(w, c).status[c] = "gone"
        /\ Same(exit_client(w, c), Gone(p, c))
    BY ExitShape, SMTT(60)
  <2>2. Outcome(p, c, k, exit_client(w, c))
    BY <2>1, SMTT(60) DEF Outcome
  <2> QED BY <2>1, <2>2, Zenon DEF Tried
<1> QED BY <1>1, <1>2, <1>4, <1>5, Zenon

\* A change of the handshake only.
LEMMA InsideTried ==
    ASSUME NEW w, NEW p, Shape(w), Same(w, p), NEW c \in Local, NEW r, Inside(r, w, c)
    PROVE  Tried(r, w, c, p)
<1>1. Shape(r) /\ Same(r, p)
  BY InsideShape, SameTransitive, SMTT(60)
<1> QED BY <1>1, SMTT(60) DEF Tried, Outcome, Inside

\* register_user(), for each verdict.
LEMMA RegisterTried ==
    ASSUME NEW w, NEW p \in Worlds, Shape(w), Same(w, p), NEW c \in Local,
           w.status[c] = "unknown", NEW v
    PROVE  Tried(register_user(w, c, v), w, c, p)
<1> DEFINE a == Allowed(w, c)
           r == register_user(w, c, v)
           full == Rejected(StandingOf(w, c), c) \/ w.clients + 1 > MaxClients
           shunned == [w EXCEPT !.hs[c].last = "held"]
           blocked == [a EXCEPT !.hs[c].last = "held",
                                !.hs[c].tagged = @ \/ v = "softblock"]
<1>1. Tried(shunned, w, c, p)
  <2>1. Inside(shunned, w, c)
    BY SMTT(60) DEF Shape, Inside, HsFields
  <2> QED BY <2>1, InsideTried, Zenon
<1>2. /\ Tried(exit_client(w, c), w, c, p)
      /\ Tried(exit_client(ct_allow_client(StandingOf(w, c), c), c), w, c, p)
      /\ Tried(exit_client(a, c), w, c, p)
  BY ClosedTried, Zenon
<1>3. Shape(a)
  BY AllowedShape, ZenonT(90)
<1> HIDE DEF a
<1>4. /\ Inside(Hold(a, c), a, c) /\ Inside(Tag(a, c), a, c) /\ Inside(blocked, a, c)
      /\ \A x : Shape(x) => Inside(Hold(x, c), x, c)
  BY <1>3 DEF Shape, Inside, HsFields, Hold, Tag
<1>5. Inside(Hold(Tag(a, c), c), a, c)
  BY <1>3, <1>4, InsideShape, InsideTransitive, SMTT(60)
<1>6. ASSUME ~full
      PROVE  /\ Tried(Hold(a, c), w, c, p) /\ Tried(Hold(Tag(a, c), c), w, c, p)
             /\ Tried(blocked, w, c, p)
             /\ Tried([a EXCEPT !.status[c] = "user"], w, c, p)
  <2>1. ~Rejected(StandingOf(w, c), c)
    BY <1>6, SMTT(60)
  <2>2. \A x : Inside(x, a, c) => Tried(x, w, c, p)
    BY <2>1, KeptTried, Zenon DEF a
  <2>3. Tried([a EXCEPT !.status[c] = "user"], w, c, p)
    BY <2>1, UserTried, Zenon DEF a
  <2> QED BY <2>2, <2>3, <1>4, <1>5, SMTT(60)
<1>7. r \in {shunned, exit_client(w, c)}
      \/ (full /\ r = exit_client(ct_allow_client(StandingOf(w, c), c), c))
      \/ r = exit_client(a, c)
      \/ (~full /\ r \in {Hold(a, c), Hold(Tag(a, c), c), blocked,
                          [a EXCEPT !.status[c] = "user"]})
  <2> DEFINE s == v = "shun"
             f == v = "refuse"
             n == v = "ban"
             o == v = "softban" /\ ~w.hs[c].account
             l == v = "block" \/ (v = "softblock" /\ ~w.hs[c].account)
             t == a.hs[c].tagged /\ ~w.hs[c].account
  <2>1. r = IF s THEN shunned ELSE IF f THEN exit_client(w, c)
            ELSE IF full THEN exit_client(ct_allow_client(StandingOf(w, c), c), c)
            ELSE IF n THEN exit_client(a, c)
            ELSE IF o THEN Hold(Tag(a, c), c)
            ELSE IF l THEN blocked
            ELSE IF t THEN Hold(a, c) ELSE [a EXCEPT !.status[c] = "user"]
    BY Zenon DEF register_user, a
  <2> HIDE DEF s, f, n, o, l, t, r, full, shunned, blocked
  <2> QED BY <2>1, Zenon
<1> HIDE DEF r, full, shunned, blocked
<1>8. Tried(r, w, c, p)
  BY <1>1, <1>2, <1>6, <1>7, SMTT(60)
<1> QED BY <1>8, Zenon DEF r

\* Every way of trying, also when it is too early.
LEMMA TryTried ==
    ASSUME NEW w, NEW p \in Worlds, Shape(w), Same(w, p), NEW c \in Local,
           w.status[c] = "unknown", NEW r \in Try(w, c)
    PROVE  Tried(r, w, c, p)
<1> DEFINE u == [w EXCEPT !.hs[c].last = "none"]
           x == [u EXCEPT !.hs[c].bl = "pending"]
<1>1. Inside(u, w, c)
  BY Zenon DEF Shape, Inside, HsFields
<1>3. r = w \/ r = x \/ \E v \in Verdicts : r = register_user(u, c, v)
  BY SMTT(60) DEF Try
<1> HIDE DEF u
<1>2. Shape(u) /\ Same(u, p) /\ u.status[c] = "unknown"
      /\ u.hs[c].account = w.hs[c].account
  BY <1>1, InsideShape, SameTransitive, SMTT(60) DEF Inside
<1>4. Inside(w, w, c)
  BY Zenon DEF Shape, Inside
<1>5. Inside(x, u, c)
  BY <1>2, Zenon DEF Shape, Inside, HsFields
<1>6. Tried(w, w, c, p) /\ Tried(x, u, c, p)
  BY <1>2, <1>4, <1>5, InsideTried, SMTT(60)
<1>7. \A v : Tried(register_user(u, c, v), u, c, p)
  BY <1>2, RegisterTried, Zenon
<1> HIDE DEF x
<1> QED BY <1>2, <1>3, <1>6, <1>7, Zenon DEF Tried

\* A user is not registered again.
LEMMA TryUser ==
    ASSUME NEW w, Shape(w), NEW c \in Local, w.status[c] = "user", NEW r \in Try(w, c)
    PROVE  Inside(r, w, c)
<1> DEFINE u == [w EXCEPT !.hs[c].last = "none"]
           x == [u EXCEPT !.hs[c].bl = "pending"]
<1>1. Inside(u, w, c)
  BY SMTT(60) DEF Shape, Inside, HsFields
<1>2. \A v : register_user(u, c, v) = u
  BY <1>1, Zenon DEF register_user, Inside
<1>3. r = w \/ r = x \/ r = u
  BY <1>2, Zenon DEF Try
<1>4. Shape(u)
  BY <1>1, InsideShape, SMTT(60)
<1> HIDE DEF u
<1>5. Inside(w, w, c)
  BY Zenon DEF Shape, Inside
<1>6. Inside(x, u, c)
  BY <1>4, Zenon DEF Shape, Inside, HsFields
<1> QED BY <1>1, <1>3, <1>5, <1>6, InsideTransitive, SMTT(60)

-----------------------------------------------------------------------------
(* The steps *)

\* The next state is w.
Landed(w) ==
    /\ CTBecome(w)
    /\ hs' = w.hs /\ asked' = w.asked /\ clients' = w.clients /\ leaked' = w.leaked
    /\ UNCHANGED <<excepted, enforcing, skipped>>

RInv == IInv /\ Shape(World) /\ enforcing \in BOOLEAN

\* To ConnThrottle, w comes from the present state by a step for connection c.
Moves(w, c) ==
    \/ Same(w, CTWorld)
    \/ status[c] # "gone" /\ Same(w, Gone(CTWorld, c))
    \/ status[c] = "gone" /\ Same(w, [CTWorld EXCEPT !.status[c] = "unknown"])
    \/ /\ status[c] # "gone"
       /\ \E k \in BOOLEAN : Same(w, update_known_user_cache(CTWorld, c, k))
    \/ /\ status[c] = "unknown"
       /\ \E k \in BOOLEAN : Outcome(CTWorld, c, k, w)

\* The next state is any record that is the same to ConnThrottle.
LEMMA LandedSame ==
    ASSUME NEW w, NEW u, Landed(w), Same(w, u)
    PROVE  CTBecome(u) /\ UNCHANGED <<excepted, enforcing, skipped>>
  BY Zenon DEF Landed, Same, CTBecome

\* A step that moves in one of these ways is a step of ConnThrottle, or none.
LEMMA MovesStep ==
    ASSUME NEW w, NEW c \in Local, Landed(w), Moves(w, c)
    PROVE  [CTNext]_ctvars
<1>0. c \in Clients
  BY Zenon DEF Clients
<1>1. CASE Same(w, CTWorld)
  <2>1. CTBecome(CTWorld) /\ UNCHANGED <<excepted, enforcing, skipped>>
    BY <1>1, LandedSame, Zenon
  <2> QED BY <2>1, Zenon DEF CTBecome, CTWorld, ctvars
<1>2. CASE status[c] # "gone" /\ Same(w, Gone(CTWorld, c))
  <2>1. CTQuit(c)
    BY <1>2, LandedSame, Zenon DEF CTQuit
  <2> QED BY <1>0, <2>1, Zenon DEF CTNext
<1>3. CASE status[c] = "gone" /\ Same(w, [CTWorld EXCEPT !.status[c] = "unknown"])
  <2>1. CTConnect(c)
    BY <1>3, LandedSame, Zenon DEF CTConnect
  <2> QED BY <1>0, <2>1, Zenon DEF CTNext
<1>4. ASSUME status[c] # "gone", NEW k \in BOOLEAN,
             Same(w, update_known_user_cache(CTWorld, c, k))
      PROVE  CTNext
  <2>1. CTKnown(c, k)
    BY <1>4, LandedSame, Zenon DEF CTKnown
  <2> QED BY <1>0, <2>1, SMTT(60) DEF CTNext
<1>5. ASSUME status[c] = "unknown", NEW k \in BOOLEAN,
             NEW to \in {"gone", "unknown", "user"},
             Rejected(update_known_user_cache(CTWorld, c, k), c) => to = "gone",
             Same(w, Result(CTWorld, c, k, to))
      PROVE  CTNext
  <2>1. CTBecome(Result(CTWorld, c, k, to)) /\ UNCHANGED <<excepted, enforcing, skipped>>
    BY <1>5, LandedSame, Zenon
  <2>2. CTRegister(c, k, to)
    BY <1>5, <2>1, ZenonT(90) DEF CTRegister, Result
  <2> QED BY <1>0, <2>2, Zenon DEF CTNext
<1> QED BY <1>1, <1>2, <1>3, <1>4, <1>5, SMTT(60) DEF Moves, Outcome

\* It keeps the invariant as well.
LEMMA LandedInv ==
    ASSUME RInv, NEW w, NEW c \in Local, Landed(w), Shape(w), Moves(w, c)
    PROVE  RInv' /\ [CTNext]_ctvars
<1>1. [CTNext]_ctvars
  BY MovesStep, Zenon
<1>2. IInv'
  BY <1>1, NextIInv, SMTT(60) DEF RInv
<1>3. Shape(World)'
  BY Zenon DEF Shape, World, Landed, CTBecome
<1>4. (enforcing \in BOOLEAN)'
  BY SMTT(60) DEF RInv, Landed
<1> QED BY <1>1, <1>2, <1>3, <1>4, SMTT(60) DEF RInv

\* RInv holds and the state is a record that ConnThrottle knows.
LEMMA WorldFacts ==
    ASSUME RInv
    PROVE  /\ CTWorld \in Worlds /\ Shape(World) /\ Same(World, CTWorld)
           /\ World.status = status /\ World.hs = hs /\ World.asked = asked
           /\ CTWorld.status = status
<1>1. CTWorld \in Worlds /\ Shape(World)
  BY Zenon DEF RInv, IInv, CTType
<1>2. Same(World, CTWorld)
  BY Zenon DEF World, CTWorld, Same, Fields
<1>3. World.status = status /\ World.hs = hs /\ World.asked = asked
  BY Zenon DEF World
<1>4. CTWorld.status = status
  BY Zenon DEF CTWorld
<1> QED BY <1>1, <1>2, <1>3, <1>4, Zenon

\* The steps after which only the handshake of a connection differs.
LEMMA InsideStep ==
    ASSUME RInv, NEW c \in Local, NEW w, Inside(w, World, c)
    PROVE  Shape(w) /\ Moves(w, c) /\ Same(w, CTWorld)
<1>1. Shape(w) /\ Same(w, CTWorld)
  BY WorldFacts, InsideShape, SameTransitive, Zenon
<1> QED BY <1>1, Zenon DEF Moves

\* The steps that try to register a connection.
LEMMA TryStep ==
    ASSUME RInv, NEW c \in Local, status[c] = "unknown",
           NEW w, Inside(w, World, c), NEW r \in Try(w, c)
    PROVE  Shape(r) /\ Moves(r, c)
<1>1. Shape(w) /\ Same(w, CTWorld)
  BY InsideStep, SMTT(60)
<1>2. w.status[c] = "unknown" /\ w.hs[c].account \in BOOLEAN
  BY <1>1, WorldFacts, SMTT(60) DEF Same, Shape
<1>3. Tried(r, w, c, CTWorld)
  BY <1>1, <1>2, WorldFacts, TryTried, SMTT(60)
<1> QED BY <1>2, <1>3, Zenon DEF Tried, Moves

\* The steps that close a connection.
LEMMA ExitStep ==
    ASSUME RInv, NEW c \in Local, status[c] # "gone", NEW w, Inside(w, World, c)
    PROVE  Shape(exit_client(w, c)) /\ Moves(exit_client(w, c), c)
<1>1. Shape(w) /\ Same(w, CTWorld)
  BY InsideStep, Zenon
<1> QED BY <1>1, ExitShape, Zenon DEF Moves

\* The steps that log a connection in or out, and may change its handshake.
LEMMA StandingStep ==
    ASSUME RInv, NEW c \in Local, status[c] # "gone", NEW w, Shape(w),
           Same(w, CTWorld)
    PROVE  Shape(StandingOf(w, c)) /\ Moves(StandingOf(w, c), c)
<1>1. w.hs[c].account \in BOOLEAN
  BY SMTT(60) DEF Shape
<1>2. Beside(StandingOf(w, c), w)
      /\ Same(StandingOf(w, c), update_known_user_cache(CTWorld, c, w.hs[c].account))
  BY KnownBeside, KnownSame, Zenon DEF StandingOf
<1> QED BY <1>1, <1>2, BesideShape, SMTT(60) DEF Moves

\* A note that nobody tries does not matter.
LEMMA SilentStep ==
    ASSUME NEW r, NEW c \in Local, Shape(r), Moves(r, c)
    PROVE  Shape(Silent(r, c)) /\ Moves(Silent(r, c), c)
<1> DEFINE x == [r EXCEPT !.hs[c].last = "silent"]
<1>1. Inside(x, r, c)
  BY Zenon DEF Shape, Inside, HsFields
<1>2. Shape(x) /\ Same(x, r)
  BY <1>1, InsideShape, Zenon
<1> HIDE DEF x
<1>3. Moves(x, c)
  BY <1>2, SameTransitive, Zenon DEF Moves, Outcome
<1>4. Silent(r, c) = x \/ Silent(r, c) = r
  BY Zenon DEF Silent, x
<1> QED BY <1>2, <1>3, <1>4, SMTT(60)

\* NICK, USER, PONG, CAP and the answers of the blocklist.
LEMMA HandshakeStep ==
    ASSUME RInv, NEW c \in Local,
           Nick(c) \/ User(c) \/ Nospoof(c) \/ CapStart(c) \/ CapEnd(c) \/ cbl_allow(c)
    PROVE  RInv' /\ [CTNext]_ctvars
<1>0. status[c] = "unknown"
  BY Zenon DEF Nick, User, Nospoof, CapStart, CapEnd, cbl_allow, InHandshake
<1>1. /\ \A t : Inside([World EXCEPT !.hs[c].todo = t], World, c)
      /\ \A b : Inside([World EXCEPT !.hs[c].cap = b], World, c)
      /\ \A b : Inside([World EXCEPT !.hs[c].bl = b], World, c)
  BY WorldFacts DEF Shape, Inside, HsFields
<1>2. PICK u : Inside(u, World, c) /\ (Become({u}) \/ Become(Try(u, c)))
  <2>1. CASE Nick(c)
    BY <2>1, <1>1, Zenon DEF Nick
  <2>2. CASE User(c)
    BY <2>2, <1>1, Zenon DEF User
  <2>3. CASE Nospoof(c)
    BY <2>3, <1>1, Zenon DEF Nospoof
  <2>4. CASE CapStart(c)
    BY <2>4, <1>1, Zenon DEF CapStart
  <2>5. CASE CapEnd(c)
    BY <2>5, <1>1, ZenonT(60) DEF CapEnd
  <2>6. CASE cbl_allow(c)
    BY <2>6, <1>1, SMTT(60) DEF cbl_allow
  <2> QED BY <2>1, <2>2, <2>3, <2>4, <2>5, <2>6, Zenon
<1>3. PICK w \in {u} \cup Try(u, c) : Landed(w)
  BY <1>2, Zenon DEF Become, Landed
<1>4. Shape(w) /\ Moves(w, c)
  BY <1>0, <1>2, InsideStep, TryStep, SMTT(60)
<1> QED BY <1>3, <1>4, LandedInv, SMTT(60)

\* Requests to services, their challenges, and what the blocklist holds against c.
LEMMA RequestStep ==
    ASSUME RInv, NEW c \in Local,
           Authenticate(c) \/ Auth(c) \/ SaslContinue(c) \/ CblAction(c)
    PROVE  RInv' /\ [CTNext]_ctvars
<1>0. asked[c] \in Int /\ (asked[c] > 0 => status[c] # "gone")
  BY WorldFacts, Zenon DEF Shape
<1>1. PICK w : Inside(w, World, c) /\ Landed(w)
  <2>1. CASE Authenticate(c)
    <3> DEFINE x == [World EXCEPT !.hs[c].sent = TRUE, !.asked[c] = @ + 1]
    <3>1. status[c] = "unknown" /\ Landed(x)
      BY <2>1, Zenon DEF Authenticate, InHandshake, Become, Landed
    <3>2. Inside(x, World, c)
      BY <3>1, WorldFacts DEF Shape, Inside, HsFields
    <3> QED BY <3>1, <3>2, SMTT(60)
  <2>2. CASE Auth(c)
    <3> DEFINE x == [World EXCEPT !.hs[c].authmsg = TRUE, !.asked[c] = @ + 1]
    <3>1. status[c] = "unknown" /\ Landed(x)
      BY <2>2, Zenon DEF Auth, InHandshake, Become, Landed
    <3>2. Inside(x, World, c)
      BY <3>1, WorldFacts DEF Shape, Inside, HsFields
    <3> QED BY <3>1, <3>2, Zenon
  <2>3. CASE SaslContinue(c)
    <3> DEFINE x == [World EXCEPT !.hs[c].agent = TRUE, !.hs[c].authmsg = FALSE,
                                  !.asked[c] = IF hs[c].authmsg THEN @ ELSE @ - 1]
    <3>1. status[c] # "gone" /\ Landed(x)
      BY <2>3, <1>0, ZenonT(90) DEF SaslContinue, Become, Landed
    <3>2. Inside(x, World, c)
      BY <3>1, WorldFacts DEF Shape, Inside, HsFields
    <3> QED BY <3>1, <3>2, Zenon
  <2>4. CASE CblAction(c)
    <3> DEFINE x == [World EXCEPT !.hs[c].bl = "shunned"]
    <3>1. Landed(x) \/ Landed(Tag(World, c))
      BY <2>4, ZenonT(90) DEF CblAction, Become, Landed
    <3>2. Inside(x, World, c) /\ Inside(Tag(World, c), World, c)
      BY WorldFacts, Zenon DEF Shape, Inside, HsFields, Tag
    <3> QED BY <3>1, <3>2, SMTT(60)
  <2> QED BY <2>1, <2>2, <2>3, <2>4, SMTT(60)
<1> QED BY <1>1, InsideStep, LandedInv, SMTT(60)

\* The end of an exchange with services, after which there may be two tries.
LEMMA SaslDoneStep ==
    ASSUME RInv, NEW c \in Local, NEW success \in BOOLEAN, SaslDone(c, success)
    PROVE  RInv' /\ [CTNext]_ctvars
<1> DEFINE w == [World EXCEPT !.asked[c] = @ - 1,
                              !.hs[c].agent = FALSE, !.hs[c].sent = FALSE,
                              !.hs[c].complete = @ \/ success]
           first == IF success /\ hs[c].tagged /\ hs[c].account THEN Try(w, c) ELSE {w}
           k == World.hs[c].account
<1>1. asked[c] \in Int /\ asked[c] > 0 /\ status[c] # "gone"
  <2>1. asked[c] > 0
    BY ZenonT(60) DEF SaslDone
  <2> HIDE DEF w, first, k
  <2> QED BY <2>1, WorldFacts, Zenon DEF Shape
<1>2. Inside(w, World, c)
  <2> HIDE DEF first, k
  <2>0. Shape(World) /\ asked = World.asked /\ status = World.status
    BY WorldFacts, Zenon
  <2>1. /\ DOMAIN w = DOMAIN World /\ w.status = World.status /\ w.known = World.known
        /\ w.category = World.category /\ w.bucket = World.bucket
    BY <2>0, SMTT(60) DEF Shape
  <2>2. w.asked = [World.asked EXCEPT ![c] = @ - 1]
    BY <2>0, SMTT(60) DEF Shape
  <2>3. w.hs = [World.hs EXCEPT ![c].agent = FALSE, ![c].sent = FALSE,
                                ![c].complete = @ \/ success]
    BY <2>0, SMTT(60) DEF Shape
  <2> HIDE DEF w
  <2>4. /\ DOMAIN w.hs = Local /\ \A d \in Local \ {c} : w.hs[d] = World.hs[d]
        /\ DOMAIN w.hs[c] = HsFields /\ w.hs[c].account = World.hs[c].account
    BY <2>0, <2>3, SMTT(60) DEF Shape, HsFields
  <2>5. /\ DOMAIN w.asked = Local /\ \A d \in Local \ {c} : w.asked[d] = World.asked[d]
        /\ w.asked[c] \in Int
    BY <1>1, <2>0, <2>2, SMTT(60) DEF Shape
  <2> QED BY <1>1, <2>0, <2>1, <2>4, <2>5, Zenon DEF Inside
<1>3. PICK r \in first :
          \E q \in (IF r.status[c] = "unknown" THEN Try(r, c) ELSE {r}) : Landed(q)
  BY DEF SaslDone, Become, Landed
<1>4. PICK q \in (IF r.status[c] = "unknown" THEN Try(r, c) ELSE {r}) : Landed(q)
  BY <1>3, Zenon
<1>5. r = w \/ r \in Try(w, c)
  BY <1>3, Zenon
<1> HIDE DEF w, first
<1>6. Shape(w) /\ Same(w, CTWorld) /\ w.hs[c].account = k /\ w.status = status
  <2>1. Shape(w) /\ Same(w, CTWorld)
    BY <1>2, InsideStep, Zenon
  <2>2. World.status = status
    BY WorldFacts, Zenon
  <2> QED BY <1>2, <2>1, <2>2, Zenon DEF Inside
<1>7. k \in BOOLEAN /\ c \in Clients /\ CTWorld.status = status
  BY WorldFacts, SMTT(60) DEF Shape, Clients
<1>8. CASE status[c] = "unknown"
  <2>1. Tried(w, w, c, CTWorld)
    <3>1. Inside(w, w, c)
      BY <1>6, SMTT(60) DEF Shape, Inside
    <3> QED BY <3>1, <1>6, InsideTried, SMTT(60)
  <2>2. Tried(r, w, c, CTWorld)
    BY <2>1, <1>5, <1>6, <1>8, WorldFacts, TryTried, SMTT(60)
  <2>3. Shape(r) /\ Outcome(CTWorld, c, k, r)
        /\ (r.status[c] = "unknown" => r.hs[c].account = k)
    BY <2>2, <1>6, Zenon DEF Tried
  <2>4. CASE r.status[c] # "unknown"
    <3>1. q = r
      BY <2>4, <1>4, Zenon
    <3> QED BY <3>1, <2>3, <1>4, <1>7, <1>8, LandedInv, ZenonT(90) DEF Moves
  <2>5. CASE r.status[c] = "unknown"
    <3>1. q \in Try(r, c)
      BY <2>5, <1>4, ZenonT(60)
    <3>2. PICK p \in Worlds : Same(r, p)
      BY <2>3, <1>7, OutcomeWorld, WorldFacts
    <3>3. Tried(q, r, c, p)
      BY <3>1, <3>2, <2>3, <2>5, TryTried, SMTT(60)
    <3>4. Shape(q) /\ Outcome(p, c, k, q)
      BY <3>3, <2>3, <2>5, SMTT(60) DEF Tried
    <3>5. Outcome(r, c, k, q)
      BY <3>2, <3>4, OutcomeSame, SMTT(60) DEF Same
    <3>6. Outcome(CTWorld, c, k, q)
      BY <2>3, <2>5, <3>5, <1>7, <1>8, WorldFacts, TwoTries, SMTT(60)
    <3> QED BY <3>4, <3>6, <1>4, <1>7, <1>8, LandedInv, ZenonT(90) DEF Moves
  <2> QED BY <2>4, <2>5, SMTT(60)
<1>9. CASE status[c] # "unknown"
  <2>1. status[c] = "user"
    BY <1>1, <1>7, <1>9, WorldFacts, SMTT(60) DEF Worlds
  <2>2. Inside(r, World, c)
    <3>1. r \in Try(w, c) => Inside(r, w, c)
      BY <2>1, <1>6, TryUser, SMTT(60)
    <3> QED BY <3>1, <1>2, <1>5, InsideTransitive, SMTT(60)
  <2>3. r.status[c] # "unknown"
    BY <2>2, <1>9, WorldFacts, SMTT(60) DEF Inside
  <2>4. q = r
    BY <2>3, <1>4, SMTT(60)
  <2> QED BY <2>2, <2>4, <1>4, InsideStep, LandedInv, SMTT(60)
<1> QED BY <1>8, <1>9, Zenon

\* A login or logout of an account, by services or by the user.
LEMMA LoginStep ==
    ASSUME RInv, NEW c \in Local, Svslogin(c) \/ Account(c)
    PROVE  RInv' /\ [CTNext]_ctvars
<1> DEFINE x(b) == [World EXCEPT !.hs[c].account = b]
<1>1. status[c] # "gone" /\ hs[c].account \in BOOLEAN
  BY WorldFacts, Zenon DEF Shape, Svslogin, Account
<1>2. PICK b \in BOOLEAN : Landed(StandingOf(x(b), c))
  <2>1. CASE Svslogin(c)
    BY <2>1, Zenon DEF Svslogin, Become, Landed
  <2>2. CASE Account(c)
    <3>1. x(~hs[c].account) = [World EXCEPT !.hs[c].account = ~@]
      BY WorldFacts, Zenon
    <3> QED BY <2>2, <3>1, ZenonT(90) DEF Account, Become, Landed
  <2> QED BY <2>1, <2>2, Zenon
<1>3. Shape(x(b)) /\ Same(x(b), CTWorld)
  BY <1>2, WorldFacts, Zenon DEF Shape, Same, Fields, HsFields
<1> HIDE DEF x
<1> QED BY <1>1, <1>2, <1>3, StandingStep, LandedInv, SMTT(60)

\* What the own account module answers: a change of the handshake, a login, or
\* the end of the connection.
LEMMA OwnOutcome ==
    ASSUME RInv, NEW c \in Local, status[c] # "gone", NEW w, Inside(w, World, c),
           NEW r \in OwnReplies(w, c) \cup Anonymous(w, c) \cup {LoggedIn(w, c), Dropped(w, c)}
    PROVE  Shape(r) /\ Moves(r, c)
<1>0. Shape(w) /\ Same(w, CTWorld)
  BY InsideStep, SMTT(60)
<1>1. w.asked[c] \in Int /\ w.status[c] # "gone"
  BY <1>0, WorldFacts, SMTT(60) DEF Shape, Same
<1> DEFINE out == [w EXCEPT !.hs[c].account = FALSE, !.hs[c].complete = TRUE,
                            !.hs[c].type = FALSE]
           in == [w EXCEPT !.hs[c].account = TRUE, !.hs[c].complete = TRUE,
                           !.hs[c].type = FALSE, !.hs[c].stepup = FALSE]
<1>2. /\ Shape(in) /\ Same(in, CTWorld)
      /\ Shape(out) /\ Same(out, CTWorld)
  <2>1. Same(in, CTWorld) /\ Same(out, CTWorld)
    BY <1>0, Zenon DEF Same, Fields
  <2>2. /\ DOMAIN in = DOMAIN w /\ in.status = w.status /\ in.asked = w.asked
        /\ DOMAIN in.hs = Local /\ \A d \in Local \ {c} : in.hs[d] = w.hs[d]
        /\ DOMAIN in.hs[c] = HsFields /\ in.hs[c].account = TRUE
    BY <1>0 DEF Shape, HsFields
  <2>3. /\ DOMAIN out = DOMAIN w /\ out.status = w.status /\ out.asked = w.asked
        /\ DOMAIN out.hs = Local /\ \A d \in Local \ {c} : out.hs[d] = w.hs[d]
        /\ DOMAIN out.hs[c] = HsFields /\ out.hs[c].account = FALSE
    BY <1>0 DEF Shape, HsFields
  <2> HIDE DEF in, out
  <2> QED BY <2>1, <2>2, <2>3, <1>0, ZenonT(90) DEF Shape
<1>3. r = LoggedIn(w, c) => r = StandingOf(in, c)
  BY Zenon DEF LoggedIn
<1>4. r \in Anonymous(w, c) => r = StandingOf(out, c)
  BY Zenon DEF Anonymous
<1> HIDE DEF in, out
<1>5. CASE r = StandingOf(in, c) \/ r = StandingOf(out, c)
  BY <1>2, <1>5, StandingStep, SMTT(60)
<1>6. CASE r = exit_client(w, c)
  BY <1>6, ExitStep, Zenon
<1>7. CASE r # LoggedIn(w, c) /\ r # exit_client(w, c) /\ r \notin Anonymous(w, c)
  <2> DEFINE x1 == [w EXCEPT !.hs[c].type = TRUE]
             x2 == [w EXCEPT !.asked[c] = @ + 1, !.hs[c].type = w.hs[c].stepup]
             x3 == [w EXCEPT !.hs[c].sent = FALSE, !.hs[c].type = FALSE]
             x4 == [w EXCEPT !.hs[c].stepup = TRUE]
             x5 == [w EXCEPT !.hs[c].stepup = TRUE, !.hs[c].type = FALSE]
  <2>1. r \in {x1, Dropped(w, c), w, x2, x3, x4, x5}
    BY <1>7, SMTT(60) DEF OwnReplies
  <2>2. Inside(x1, w, c) /\ Inside(x2, w, c)
    BY <1>0, <1>1, SMTT(60) DEF Shape, Inside, HsFields
  <2>3. Inside(x3, w, c) /\ Inside(x4, w, c)
    BY <1>0, <1>1, SMTT(60) DEF Shape, Inside, HsFields
  <2>4. Inside(x5, w, c) /\ Inside(Dropped(w, c), w, c) /\ Inside(w, w, c)
    BY <1>0, <1>1, SMTT(60) DEF Shape, Inside, HsFields, Dropped
  <2> HIDE DEF x1, x2, x3, x4, x5
  <2>5. Inside(r, w, c)
    BY <2>1, <2>2, <2>3, <2>4, SMTT(60)
  <2> QED BY <2>5, InsideTransitive, InsideStep, SMTT(60)
<1> QED BY <1>3, <1>4, <1>5, <1>6, <1>7, SMTT(60)

\* AUTHENTICATE, AUTH and the answer of an OAuth provider, by the own module.
LEMMA OwnStep ==
    ASSUME RInv, NEW c \in Local, OwnAuthenticate(c) \/ OwnAuth(c) \/ Userinfo(c)
    PROVE  RInv' /\ [CTNext]_ctvars
<1>0. asked[c] \in Int /\ status[c] # "gone"
  BY WorldFacts, Zenon DEF Shape, OwnAuthenticate, OwnAuth, Userinfo, InHandshake
<1> DEFINE R(w) == OwnReplies(w, c) \cup Anonymous(w, c) \cup {LoggedIn(w, c), Dropped(w, c)}
           x == [World EXCEPT !.hs[c].sent = TRUE]
           y == [World EXCEPT !.hs[c].authmsg = TRUE, !.hs[c].type = TRUE]
           z == [World EXCEPT !.asked[c] = @ - 1]
           s == [z EXCEPT !.hs[c].stepup = TRUE, !.hs[c].type = FALSE]
<1>1. Inside(x, World, c) /\ Inside(y, World, c) /\ Inside(z, World, c)
  BY <1>0, WorldFacts, SMTT(60) DEF Shape, Inside, HsFields
<1>2. Inside(s, World, c)
  BY <1>0, WorldFacts DEF Shape, Inside, HsFields
<1>3. OwnAuthenticate(c) => \E r \in R(x) : Landed(Silent(r, c))
  BY ZenonT(90) DEF OwnAuthenticate, Become, Landed
<1>4. OwnAuth(c) => \E r \in R(y) : Landed(Silent(r, c))
  BY Zenon DEF OwnAuth, Become, Landed
<1>5. Userinfo(c) => \E r \in R(z) \cup {s} : Landed(Silent(r, c))
  <2>1. z \in R(z)
    BY Zenon DEF OwnReplies
  <2> QED BY <2>1 DEF Userinfo, Become, Landed
<1> HIDE DEF x, y, z, s
<1>6. PICK r \in R(x) \cup R(y) \cup R(z) \cup {s} : Landed(Silent(r, c))
  BY <1>3, <1>4, <1>5, ZenonT(60)
<1>7. Shape(r) /\ Moves(r, c)
  <2>1. CASE r = s
    BY <2>1, <1>2, InsideStep, SMTT(60)
  <2>2. CASE r \in R(x) \cup R(y) \cup R(z)
    BY <2>2, <1>0, <1>1, OwnOutcome, ZenonT(90)
  <2> QED BY <2>1, <2>2, <1>6, SMTT(60)
<1> QED BY <1>6, <1>7, SilentStep, LandedInv, SMTT(60)

\* A connection arrives, times out or is closed, or its exchange times out.
LEMMA TimerStep ==
    ASSUME RInv, NEW c \in Local,
           Connect(c) \/ SaslTimeout(c) \/ HandshakeTimeout(c) \/ Quit(c)
    PROVE  RInv' /\ [CTNext]_ctvars
<1>0. c \in Clients /\ asked[c] \in Int
  BY WorldFacts, Zenon DEF Shape, Clients
<1>1. CASE Connect(c)
  <2> DEFINE x == [World EXCEPT !.status[c] = "unknown"]
  <2>1. status[c] = "gone" /\ Landed(x)
    BY <1>1, ZenonT(90) DEF Connect, Become, Landed
  <2>2. Shape(x)
    BY <1>0, WorldFacts DEF Shape
  <2>3. Same(x, [CTWorld EXCEPT !.status[c] = "unknown"])
    BY WorldFacts, Zenon DEF Same, Fields
  <2>4. Moves(x, c)
    BY <2>1, <2>3, Zenon DEF Moves
  <2> QED BY <2>1, <2>2, <2>4, LandedInv
<1>2. CASE SaslTimeout(c)
  <2> DEFINE x(n) == [World EXCEPT !.hs[c].sent = FALSE, !.asked[c] = n]
  <2>1. PICK n \in {0, asked[c]} : Landed(Silent(x(n), c))
    BY <1>2, ZenonT(90) DEF SaslTimeout, Become, Landed
  <2>2. status[c] # "gone"
    BY <1>2, ZenonT(90) DEF SaslTimeout, InHandshake
  <2>3. Inside(x(n), World, c)
    BY <1>0, <2>1, <2>2, WorldFacts, SMTT(60) DEF Shape, Inside, HsFields
  <2> HIDE DEF x
  <2> QED BY <2>1, <2>3, InsideStep, SilentStep, LandedInv
<1>3. CASE HandshakeTimeout(c) \/ Quit(c)
  <2>1. status[c] # "gone" /\ Landed(exit_client(World, c))
    BY <1>3, SMTT(60) DEF HandshakeTimeout, Quit, InHandshake, Become, Landed
  <2>2. Inside(World, World, c)
    BY WorldFacts, Zenon DEF Shape, Inside
  <2> QED BY <2>1, <2>2, ExitStep, LandedInv, SMTT(60)
<1> QED BY <1>1, <1>2, <1>3, SMTT(60)

\* The blocklist is asked about all connections at once.
LEMMA BundleStep ==
    ASSUME RInv, Bundle
    PROVE  RInv' /\ [CTNext]_ctvars
<1> DEFINE P == {c \in Local : InHandshake(c) /\ hs[c].bl = "pending"}
           g == [c \in Local |-> [hs[c] EXCEPT !.bl = IF c \in P THEN "sent" ELSE @]]
           x == [World EXCEPT !.hs = g]
<1>1. PICK c \in Local : TRUE
  BY Zenon DEF Bundle
<1>2. Landed(x)
  BY ZenonT(90) DEF Bundle, Become, Landed
<1>3. \A d \in Local : DOMAIN g[d] = HsFields /\ g[d].account = hs[d].account
  BY WorldFacts, Zenon DEF Shape, HsFields
<1>4. DOMAIN g = Local
  BY Zenon
<1> HIDE DEF g
<1>5. Shape(x) /\ Same(x, World)
  BY <1>3, <1>4, WorldFacts DEF Shape, Same, Fields
<1>6. Moves(x, c)
  BY <1>5, WorldFacts, SameTransitive, Zenon DEF Moves
<1> QED BY <1>1, <1>2, <1>5, <1>6, LandedInv, SMTT(60)

\* What happens elsewhere leaves the connections of this server alone.
LEMMA ThrottleStep ==
    ASSUME RInv, ThrottleOnly
    PROVE  RInv' /\ [CTNext]_ctvars
<1>0. CTWorld \in Worlds /\ CTWorld.status = status
  BY WorldFacts, Zenon
<1>1. CTNext
  <2>1. \A c \in Remote : c \in Clients /\ known[c] \in BOOLEAN
    BY <1>0, Zenon DEF Clients, Worlds, CTWorld
  <2>2. enforcing \in BOOLEAN
    BY Zenon DEF RInv
  <2>3. \A c \in Excusable : c \in Clients
    BY RegistrationAssumption, Zenon
  <2>4. CASE \E c \in Remote : CTKnown(c, ~known[c])
    <3>1. \A c \in Remote : (~known[c]) \in BOOLEAN
      BY <2>1, Zenon
    <3> QED BY <2>4, <2>1, <3>1, Zenon DEF CTNext
  <2>5. CASE CTEnforce(~enforcing)
    <3>1. (~enforcing) \in BOOLEAN
      BY <2>2, Zenon
    <3> QED BY <2>5, <3>1, ZenonT(90) DEF CTNext
  <2>6. CASE \E c \in Remote, k \in BOOLEAN : CTRemoteConnect(c, k)
    BY <2>6, <2>1, Zenon DEF CTNext
  <2>7. CASE (\E c \in Remote : CTQuit(c)) \/ (\E c \in Excusable : CTExcept(c)) \/ CTRehash
    BY <2>7, <2>1, <2>3, SMTT(60) DEF CTNext
  <2> QED BY <2>4, <2>5, <2>6, <2>7, SMTT(60) DEF ThrottleOnly
<1>2. IInv' /\ DOMAIN status' = Clients
  <2>1. IInv'
    BY <1>1, NextIInv, SMTT(60) DEF RInv
  <2> QED BY <2>1, Zenon DEF IInv, CTType, CTWorld, Worlds
<1>3. \A d \in Local : status'[d] = status[d]
  <2>1. \A c \in Remote, d \in Local : c # d /\ c \in Clients /\ d \in Clients
    BY CTAssumption, SMTT(60) DEF Clients
  <2>2. ASSUME NEW c \in Remote, NEW k \in BOOLEAN, CTRemoteConnect(c, k)
        PROVE  status' = [status EXCEPT ![c] = "user"]
    BY <2>2, <1>0, ZenonT(90) DEF CTRemoteConnect, CTBecome, ct_remote_connect_buckets,
                      ct_allow_client, ct_bucket_bump_client, CTWorld
  <2>3. ASSUME NEW c \in Remote, CTKnown(c, ~known[c]) PROVE status' = status
    BY <2>3, <1>0, ZenonT(90) DEF CTKnown, CTBecome, update_known_user_cache,
                      ct_known_user_cache_change, CTWorld
  <2>4. ASSUME NEW c \in Remote, CTQuit(c) PROVE status' = [status EXCEPT ![c] = "gone"]
    <3> DEFINE q == ct_quit(CTWorld, c)
    <3>1. q.status = status /\ DOMAIN q = DOMAIN CTWorld
      BY Zenon DEF ct_quit, ct_bucket_unbump_client, CTWorld
    <3>2. Gone(CTWorld, c) = [q EXCEPT !.status[c] = "gone", !.known[c] = FALSE]
      BY Zenon DEF Gone
    <3> HIDE DEF q
    <3>3. Gone(CTWorld, c).status = [status EXCEPT ![c] = "gone"]
      BY <3>1, <3>2, Zenon DEF CTWorld
    <3> QED BY <3>3, <2>4, Zenon DEF CTQuit, CTBecome
  <2>5. ASSUME (\E c \in Excusable : CTExcept(c)) \/ CTEnforce(~enforcing) \/ CTRehash
        PROVE  status' = status
    BY <2>5, Zenon DEF CTExcept, CTEnforce, CTRehash, CTBecome, ct_buckets_rebuild, CTWorld
  <2> QED BY <2>1, <2>2, <2>3, <2>4, <2>5, <1>0, SMTT(60) DEF ThrottleOnly, Worlds
<1>4. Shape(World)'
  BY <1>2, <1>3, WorldFacts, ZenonT(90) DEF Shape, World, ThrottleOnly
<1>5. enforcing' \in BOOLEAN
  BY ZenonT(90) DEF RInv, ThrottleOnly, CTRemoteConnect, CTKnown, CTQuit, CTExcept, CTEnforce,
                    CTRehash
<1> QED BY <1>1, <1>2, <1>4, <1>5, SMTT(60) DEF RInv

\* Every step keeps the invariant and is a step of ConnThrottle, or none.
LEMMA NextRInv ==
    ASSUME RInv, [Next]_vars
    PROVE  RInv' /\ [CTNext]_ctvars
<1>1. CASE UNCHANGED vars
  <2>1. UNCHANGED ctvars /\ UNCHANGED World /\ enforcing' = enforcing
    BY <1>1, Zenon DEF vars, ctvars, World
  <2>2. IInv'
    BY <2>1, NextIInv, SMTT(60) DEF RInv
  <2>3. Shape(World)'
    BY <2>1, Zenon DEF RInv, Shape
  <2> QED BY <2>1, <2>2, <2>3, SMTT(60) DEF RInv
<1>2. CASE Bundle \/ ThrottleOnly
  BY <1>2, BundleStep, ThrottleStep, SMTT(60)
<1>3. ASSUME NEW c \in Local,
             \/ Connect(c) \/ Nick(c) \/ User(c) \/ Nospoof(c) \/ CapStart(c) \/ CapEnd(c)
             \/ Authenticate(c) \/ Auth(c) \/ Svslogin(c) \/ SaslContinue(c)
             \/ \E success \in BOOLEAN : SaslDone(c, success)
             \/ OwnAuthenticate(c) \/ OwnAuth(c) \/ Userinfo(c)
             \/ cbl_allow(c) \/ CblAction(c)
             \/ SaslTimeout(c) \/ HandshakeTimeout(c) \/ Quit(c) \/ Account(c)
      PROVE  RInv' /\ [CTNext]_ctvars
  <2>1. CASE Nick(c) \/ User(c) \/ Nospoof(c) \/ CapStart(c) \/ CapEnd(c) \/ cbl_allow(c)
    BY <2>1, HandshakeStep, Zenon
  <2>2. CASE Authenticate(c) \/ Auth(c) \/ SaslContinue(c) \/ CblAction(c)
    BY <2>2, RequestStep, Zenon
  <2>3. CASE \E success \in BOOLEAN : SaslDone(c, success)
    BY <2>3, SaslDoneStep, Zenon
  <2>4. CASE Svslogin(c) \/ Account(c)
    BY <2>4, LoginStep, Zenon
  <2>5. CASE OwnAuthenticate(c) \/ OwnAuth(c) \/ Userinfo(c)
    BY <2>5, OwnStep
  <2>6. CASE Connect(c) \/ SaslTimeout(c) \/ HandshakeTimeout(c) \/ Quit(c)
    BY <2>6, TimerStep
  <2> QED BY <1>3, <2>1, <2>2, <2>3, <2>4, <2>5, <2>6, SMTT(60)
<1> QED BY <1>1, <1>2, <1>3 DEF Next

\* At the start nothing is connected, asked or counted.
LEMMA InitRInv == Init => CTInit /\ RInv
<1> SUFFICES ASSUME Init PROVE CTInit /\ RInv
  BY Zenon
<1>1. CTInit
  BY Zenon DEF Init
<1>2. IInv /\ enforcing \in BOOLEAN
  BY <1>1, InitIInv, SMTT(60) DEF CTInit
<1>3. Shape(World)
  <2>1. DOMAIN Fresh = HsFields /\ Fresh.account \in BOOLEAN
    BY Zenon DEF Fresh, HsFields
  <2>2. status = [c \in Clients |-> "gone"]
    BY <1>1, Zenon DEF CTInit
  <2>3. hs = [c \in Local |-> Fresh] /\ asked = [c \in Local |-> 0]
    BY Zenon DEF Init
  <2>4. \A c \in Local : hs[c] = Fresh /\ asked[c] = 0
    BY <2>3, Zenon
  <2>5. DOMAIN status = Clients /\ DOMAIN hs = Local /\ DOMAIN asked = Local
    BY <2>2, <2>3, SMTT(60)
  <2>6. /\ World.status = status /\ World.hs = hs /\ World.asked = asked
        /\ DOMAIN World = {"status", "known", "category", "bucket", "hs", "asked",
                           "clients", "leaked"}
    BY SMTT(60) DEF World
  <2>7. \A c \in Local : /\ DOMAIN hs[c] = HsFields /\ hs[c].account \in BOOLEAN
                         /\ asked[c] \in Int /\ (asked[c] > 0 => status[c] # "gone")
    BY <2>1, <2>4
  <2> QED BY <2>5, <2>6, <2>7, SMTT(60) DEF Shape
<1> QED BY <1>1, <1>2, <1>3, Zenon DEF RInv

\* Registration implements ConnThrottle: whatever a connection goes through on its
\* way to being a user (the retries after CAP END, SASL, the blocklist and the
\* cookie; exits from within AllowClient; a class held over from an earlier try), a
\* step is one of ConnThrottle or leaves the prefix counts alone.
THEOREM RegistrationImplements == Spec => ImplementsConnThrottle
  BY InitRInv, NextRInv, PTL DEF Spec, ImplementsConnThrottle, CTSpec

\* So the prefix counts are exact in the server with its full handshake too.
THEOREM CountsStayExact == Spec => []BucketsExact
  BY RegistrationImplements, BucketsStayExact, PTL DEF ImplementsConnThrottle

-----------------------------------------------------------------------------
(* The count of the class: what a step does to it is balanced by what it does   *)
(* to the class of one connection.                                             *)

One(b) == IF b THEN 1 ELSE 0

\* The fields that the count of the class is about.
Sized(w) ==
    /\ DOMAIN w = {"status", "known", "category", "bucket", "hs", "asked",
                   "clients", "leaked"}
    /\ DOMAIN w.hs = Local
    /\ \A d \in Local : DOMAIN w.hs[d] = HsFields /\ w.hs[d].class \in BOOLEAN
    /\ w.clients \in Int /\ w.leaked \in BOOLEAN

\* From w to u, the count has changed by as much as the class of c has.
Balanced(u, w, c) ==
    /\ Sized(u)
    /\ \A d \in Local \ {c} : u.hs[d].class = w.hs[d].class
    /\ w.leaked => u.leaked
    /\ ~u.leaked => u.clients - One(u.hs[c].class) = w.clients - One(w.hs[c].class)

\* The members of the class.
Members(w) == {d \in Local : w.hs[d].class}

ClassInv == Sized(World) /\ (~leaked => clients = Cardinality(Members(World)))

\* Nothing that concerns the class has changed.
Quiet(u, w) ==
    /\ DOMAIN u = DOMAIN w /\ DOMAIN u.hs = Local
    /\ \A d \in Local : DOMAIN u.hs[d] = HsFields /\ u.hs[d].class = w.hs[d].class
    /\ u.clients = w.clients /\ u.leaked = w.leaked

\* A change of one connection keeps the world in shape.
LEMMA SizedBy ==
    ASSUME NEW w, NEW u, NEW c \in Local, Sized(w), DOMAIN u = DOMAIN w,
           DOMAIN u.hs = Local, \A d \in Local \ {c} : u.hs[d] = w.hs[d],
           DOMAIN u.hs[c] = HsFields, u.hs[c].class \in BOOLEAN,
           u.clients \in Int, u.leaked \in BOOLEAN
    PROVE  Sized(u)
<1>1. ASSUME NEW d \in Local
      PROVE  DOMAIN u.hs[d] = HsFields /\ u.hs[d].class \in BOOLEAN
  <2>1. CASE d = c BY <2>1, Zenon
  <2>2. CASE d # c
    <3>1. u.hs[d] = w.hs[d] BY <2>2, Zenon
    <3> QED BY <3>1, Zenon DEF Sized
  <2> QED BY <2>1, <2>2, Zenon
<1> QED BY <1>1, Zenon DEF Sized

\* What leaves the class alone is balanced.
LEMMA QuietBalanced ==
    ASSUME NEW w, NEW u, NEW c \in Local, Sized(w), Quiet(u, w)
    PROVE  Balanced(u, w, c)
  BY Zenon DEF Sized, Quiet, Balanced

\* Balanced changes add up.
LEMMA BalancedTransitive ==
    ASSUME NEW x, NEW y, NEW z, NEW c \in Local, Balanced(x, y, c), Balanced(y, z, c)
    PROVE  Balanced(x, z, c)
  BY Zenon DEF Balanced

\* A balanced change of one connection keeps the count exact.
LEMMA BalancedCounts ==
    ASSUME NEW w, NEW u, NEW c \in Local, Sized(w), Balanced(u, w, c),
           ~u.leaked, w.clients = Cardinality(Members(w))
    PROVE  u.clients = Cardinality(Members(u))
<1>1. IsFiniteSet(Members(w)) /\ Cardinality(Members(w)) \in Int
  <2>1. IsFiniteSet(Local)
    BY CTAssumption, FS_Subset, Zenon DEF Clients
  <2>2. IsFiniteSet(Members(w))
    BY <2>1, FS_Subset, Zenon DEF Members
  <2> QED BY <2>2, FS_CardinalityType
<1>2. \A d \in Local \ {c} : d \in Members(u) <=> d \in Members(w)
  BY Zenon DEF Members, Balanced
<1>3. /\ c \in Members(u) <=> u.hs[c].class
      /\ c \in Members(w) <=> w.hs[c].class
      /\ Members(u) \subseteq Local /\ Members(w) \subseteq Local
  BY Zenon DEF Members
<1>4. /\ u.clients \in Int /\ w.clients \in Int
      /\ u.clients - One(u.hs[c].class) = w.clients - One(w.hs[c].class)
  BY Zenon DEF Balanced, Sized
<1>5. CASE u.hs[c].class <=> w.hs[c].class
  <2>1. Members(u) = Members(w)
    BY <1>2, <1>3, <1>5
  <2>2. One(u.hs[c].class) = One(w.hs[c].class) /\ One(w.hs[c].class) \in Int
    BY <1>5 DEF One
  <2> QED BY <2>1, <2>2, <1>4
<1>6. CASE u.hs[c].class /\ ~w.hs[c].class
  <2>1. Members(u) = Members(w) \cup {c} /\ c \notin Members(w)
    BY <1>2, <1>3, <1>6, Zenon
  <2>2. Cardinality(Members(u)) = Cardinality(Members(w)) + 1
    BY <1>1, <2>1, FS_AddElement, Zenon
  <2>3. u.clients - 1 = w.clients - 0
    BY <1>4, <1>6, ZenonT(60) DEF One
  <2> QED BY <2>2, <2>3, <1>1, <1>4
<1>7. CASE ~u.hs[c].class /\ w.hs[c].class
  <2>1. Members(u) = Members(w) \ {c} /\ c \in Members(w)
    BY <1>2, <1>3, <1>7, Zenon
  <2>2. Cardinality(Members(u)) = Cardinality(Members(w)) - 1
    BY <1>1, <2>1, FS_RemoveElement, Zenon
  <2>3. u.clients - 0 = w.clients - 1
    BY <1>4, <1>7, Zenon DEF One
  <2> QED BY <2>2, <2>3, <1>1, <1>4
<1> QED BY <1>5, <1>6, <1>7

\* ConnThrottle does not know of classes.
LEMMA ThrottleQuiet ==
    ASSUME NEW w, Sized(w), NEW c, NEW k
    PROVE  /\ Quiet(update_known_user_cache(w, c, k), w)
           /\ Quiet(ct_allow_client(w, c), w)
<1>1. Quiet(update_known_user_cache(w, c, k), w)
  BY Zenon DEF Sized, Quiet, update_known_user_cache, ct_known_user_cache_change
<1>2. Quiet(ct_allow_client(w, c), w)
  BY Zenon DEF Sized, Quiet, ct_allow_client, ct_bucket_bump_client
<1> QED BY <1>1, <1>2, Zenon

\* exit_client() takes a connection out of its class, if it is in one.
LEMMA ExitBalanced ==
    ASSUME NEW w, Sized(w), NEW c \in Local
    PROVE  Balanced(exit_client(w, c), w, c)
<1> DEFINE q == ct_quit(w, c)
           g == Gone(w, c)
           e == exit_client(w, c)
<1>1. DOMAIN q = DOMAIN w /\ q.hs = w.hs /\ q.clients = w.clients /\ q.leaked = w.leaked
  BY Zenon DEF Sized, ct_quit, ct_bucket_unbump_client
<1>2. DOMAIN g = DOMAIN w /\ g.hs = w.hs /\ g.clients = w.clients /\ g.leaked = w.leaked
  <2> HIDE DEF q
  <2>1. g = [q EXCEPT !.status[c] = "gone", !.known[c] = FALSE]
    BY Zenon DEF Gone, q
  <2> HIDE DEF g
  <2> QED BY <2>1, <1>1, Zenon DEF Sized
<1> HIDE DEF q, g
<1>3. /\ DOMAIN e = DOMAIN g /\ e.hs = [g.hs EXCEPT ![c] = Fresh] /\ e.leaked = g.leaked
      /\ e.clients = IF w.hs[c].class THEN g.clients - 1 ELSE g.clients
  BY <1>2, Zenon DEF exit_client, g, Sized
<1> HIDE DEF e
<1>4. DOMAIN Fresh = HsFields /\ Fresh.class = FALSE
  BY ZenonT(60) DEF Fresh, HsFields
<1>5. e.hs[c].class = FALSE /\ DOMAIN e.hs[c] = HsFields
      /\ \A d \in Local \ {c} : e.hs[d] = w.hs[d]
  BY <1>2, <1>3, <1>4 DEF Sized
<1>6. Sized(e)
  <2>1. DOMAIN e = DOMAIN w /\ DOMAIN e.hs = Local
    BY <1>2, <1>3, ZenonT(60) DEF Sized
  <2>2. e.clients \in Int
    BY <1>2, <1>3 DEF Sized
  <2>3. e.leaked \in BOOLEAN /\ e.hs[c].class \in BOOLEAN
    BY <1>2, <1>3, <1>5, ZenonT(60) DEF Sized
  <2> QED BY <2>1, <2>2, <2>3, <1>5, SizedBy, ZenonT(60)
<1>7. e.clients - One(FALSE) = w.clients - One(w.hs[c].class)
  BY <1>2, <1>3 DEF Sized, One
<1>8. Balanced(e, w, c)
  BY <1>2, <1>3, <1>5, <1>6, <1>7, ZenonT(60) DEF Balanced
<1> QED BY <1>8, Zenon DEF e

\* A connection that is let in is counted; if it had been in the class before, a
\* place is lost.
LEMMA AllowedBalanced ==
    ASSUME NEW w, Sized(w), NEW c \in Local
    PROVE  /\ Balanced(Allowed(w, c), w, c) /\ Allowed(w, c).hs[c].class = TRUE
           /\ Balanced(ct_allow_client(StandingOf(w, c), c), w, c)
<1> DEFINE s == StandingOf(w, c)
           u == ct_allow_client(s, c)
           a == Allowed(w, c)
<1>1. Quiet(s, w)
  BY ThrottleQuiet, Zenon DEF StandingOf
<1>2. Sized(s)
  BY <1>1, Zenon DEF Quiet, Sized
<1> HIDE DEF s
<1>3. Quiet(u, s)
  BY <1>2, ThrottleQuiet, Zenon
<1>4. Quiet(u, w) /\ Sized(u)
  BY <1>1, <1>2, <1>3, Zenon DEF Quiet, Sized
<1>5. a = [u EXCEPT !.clients = @ + 1, !.hs[c].class = TRUE, !.leaked = @ \/ w.hs[c].class]
  BY Zenon DEF Allowed, s
<1> HIDE DEF u, a
<1>6. /\ DOMAIN a = DOMAIN u /\ a.clients = u.clients + 1
      /\ a.hs = [u.hs EXCEPT ![c].class = TRUE]
      /\ a.leaked = (u.leaked \/ w.hs[c].class)
  BY <1>4, <1>5, Zenon DEF Sized
<1>7. /\ DOMAIN a.hs = Local /\ a.hs[c].class = TRUE /\ DOMAIN a.hs[c] = HsFields
      /\ \A d \in Local \ {c} : a.hs[d] = u.hs[d]
  BY <1>4, <1>6 DEF Sized, HsFields
<1>8. a.leaked = (w.leaked \/ w.hs[c].class) /\ a.clients = w.clients + 1
      /\ \A d \in Local : u.hs[d].class = w.hs[d].class
  BY <1>4, <1>6, Zenon DEF Quiet
<1>9. Sized(a)
  <2>1. a.clients \in Int
    BY <1>4, <1>6 DEF Sized
  <2>2. a.leaked \in BOOLEAN /\ a.hs[c].class \in BOOLEAN
    BY <1>4, <1>6, <1>7, Zenon DEF Sized
  <2>3. DOMAIN a = DOMAIN u /\ DOMAIN a.hs[c] = HsFields
    BY <1>6, <1>7, ZenonT(60)
  <2> QED BY <2>1, <2>2, <2>3, <1>4, <1>7, SizedBy, ZenonT(60)
<1>10. ~a.leaked => a.clients - One(TRUE) = w.clients - One(w.hs[c].class)
  BY <1>8 DEF Sized, One
<1>11. Balanced(a, w, c)
  BY <1>7, <1>8, <1>9, <1>10, Zenon DEF Balanced
<1>12. Balanced(u, w, c)
  BY <1>4, QuietBalanced, Zenon
<1> QED BY <1>7, <1>11, <1>12, Zenon DEF a, u, s

\* Hold() takes a connection that has been let in out of the class again.
LEMMA HoldBalanced ==
    ASSUME NEW w, Sized(w), NEW c \in Local, w.hs[c].class = TRUE
    PROVE  Balanced(Hold(w, c), w, c)
<1> DEFINE h == Hold(w, c)
<1>1. /\ DOMAIN h = DOMAIN w /\ h.clients = w.clients - 1 /\ h.leaked = w.leaked
      /\ h.hs = [w.hs EXCEPT ![c].class = FALSE, ![c].last = "held"]
  BY Zenon DEF Hold, Sized
<1> HIDE DEF h
<1>2. /\ DOMAIN h.hs = Local /\ h.hs[c].class = FALSE /\ DOMAIN h.hs[c] = HsFields
      /\ \A d \in Local \ {c} : h.hs[d] = w.hs[d]
  BY <1>1 DEF Sized, HsFields
<1>3. h.clients \in Int
  BY <1>1 DEF Sized
<1>4. h.leaked \in BOOLEAN /\ h.hs[c].class \in BOOLEAN
  BY <1>1, <1>2, Zenon DEF Sized
<1>5. Sized(h)
  <2>1. DOMAIN h = DOMAIN w
    BY <1>1, Zenon
  <2> QED BY <2>1, <1>2, <1>3, <1>4, SizedBy, Zenon
<1>6. h.clients - One(FALSE) = w.clients - One(TRUE)
  BY <1>1 DEF Sized, One
<1>7. Balanced(h, w, c)
  BY <1>1, <1>2, <1>5, <1>6, Zenon DEF Balanced
<1> QED BY <1>7, Zenon DEF h

\* Everything register_user() does to the class is balanced.
LEMMA RegisterBalanced ==
    ASSUME NEW w, Sized(w), NEW c \in Local, NEW v
    PROVE  Balanced(register_user(w, c, v), w, c)
<1> DEFINE a == Allowed(w, c)
           b == ct_allow_client(StandingOf(w, c), c)
           t == Tag(a, c)
           r == register_user(w, c, v)
           k == [w EXCEPT !.hs[c].last = "held"]
           m == [a EXCEPT !.hs[c].last = "held", !.hs[c].tagged = @ \/ v = "softblock"]
           n == [a EXCEPT !.status[c] = "user"]
<1>1. r \in {w, k, exit_client(w, c), exit_client(b, c), exit_client(a, c), Hold(t, c),
             m, Hold(a, c), n}
  BY Zenon DEF register_user
<1>2. Balanced(a, w, c) /\ a.hs[c].class = TRUE /\ Balanced(b, w, c)
  BY AllowedBalanced, Zenon
<1>3. Sized(a) /\ Sized(b)
  BY <1>2, Zenon DEF Balanced
<1> HIDE DEF a, b, r
<1>4. Quiet(k, w) /\ Quiet(w, w)
  BY Zenon DEF Quiet, Sized, HsFields
<1>5. Quiet(m, a)
  BY <1>3 DEF Quiet, Sized, HsFields
<1>6. Quiet(n, a)
  BY <1>3, Zenon DEF Quiet, Sized, HsFields
<1>7. Quiet(t, a)
  BY <1>3 DEF Quiet, Sized, HsFields, Tag
<1>8. Sized(t) /\ t.hs[c].class = TRUE
  BY <1>2, <1>3, <1>7, Zenon DEF Quiet, Sized
<1> HIDE DEF k, m, n, t
<1>9. Balanced(k, w, c) /\ Balanced(w, w, c)
  BY <1>4, QuietBalanced, Zenon
<1>10. Balanced(m, a, c) /\ Balanced(n, a, c) /\ Balanced(t, a, c)
  BY <1>3, <1>5, <1>6, <1>7, QuietBalanced, Zenon
<1>11. Balanced(exit_client(w, c), w, c)
  BY ExitBalanced, Zenon
<1>12. Balanced(exit_client(b, c), b, c) /\ Balanced(exit_client(a, c), a, c)
  BY <1>3, ExitBalanced, Zenon
<1>13. Balanced(Hold(a, c), a, c) /\ Balanced(Hold(t, c), t, c)
  BY <1>2, <1>3, <1>8, HoldBalanced, ZenonT(60)
<1>14. Balanced(m, w, c) /\ Balanced(n, w, c) /\ Balanced(t, w, c)
  BY <1>2, <1>10, BalancedTransitive
<1>15. Balanced(exit_client(b, c), w, c) /\ Balanced(exit_client(a, c), w, c)
  BY <1>2, <1>12, BalancedTransitive, Zenon
<1>16. Balanced(Hold(a, c), w, c) /\ Balanced(Hold(t, c), w, c)
  BY <1>2, <1>13, <1>14, BalancedTransitive
<1>17. Balanced(r, w, c)
  BY <1>1, <1>9, <1>11, <1>14, <1>15, <1>16, ZenonT(60)
<1> QED BY <1>17, Zenon DEF r

\* So is a try.
LEMMA TryBalanced ==
    ASSUME NEW w, Sized(w), NEW c \in Local, NEW r \in Try(w, c)
    PROVE  Balanced(r, w, c)
<1> DEFINE u == [w EXCEPT !.hs[c].last = "none"]
           x == [u EXCEPT !.hs[c].bl = "pending"]
<1>1. r = w \/ r = x \/ \E v \in Verdicts : r = register_user(u, c, v)
  BY SMTT(60) DEF Try
<1>2. Quiet(u, w) /\ Quiet(w, w)
  BY Zenon DEF Quiet, Sized, HsFields
<1>3. Sized(u)
  BY <1>2, Zenon DEF Quiet, Sized
<1> HIDE DEF u
<1>4. Quiet(x, u)
  BY <1>3 DEF Quiet, Sized, HsFields
<1> HIDE DEF x
<1>5. Balanced(u, w, c) /\ Balanced(w, w, c) /\ Balanced(x, u, c)
  BY <1>2, <1>3, <1>4, QuietBalanced
<1>6. \A v : Balanced(register_user(u, c, v), u, c)
  BY <1>3, RegisterBalanced, Zenon
<1> QED BY <1>1, <1>5, <1>6, BalancedTransitive

-----------------------------------------------------------------------------
(* The count of the class, step by step *)

\* What the state is to the class.
LEMMA WorldSized ==
    ASSUME ClassInv
    PROVE  /\ Sized(World) /\ Quiet(World, World) /\ World.hs = hs
           /\ World.clients = clients /\ World.leaked = leaked
  BY Zenon DEF ClassInv, World, Quiet, Sized

\* A balanced step keeps the count exact.
LEMMA BalancedStep ==
    ASSUME ClassInv, NEW c \in Local, NEW w, Balanced(w, World, c), Landed(w)
    PROVE  ClassInv'
<1>1. hs' = w.hs /\ clients' = w.clients /\ leaked' = w.leaked
  BY Zenon DEF Landed
<1>2. Sized(w)
  BY Zenon DEF Balanced
<1>3. Sized(World)'
  BY <1>1, <1>2, Zenon DEF Sized, World
<1>4. Members(World)' = Members(w)
  BY <1>1, Zenon DEF Members, World
<1>5. ~leaked' => clients' = Cardinality(Members(w))
  <2>1. SUFFICES ASSUME ~w.leaked PROVE w.clients = Cardinality(Members(w))
    BY <1>1, Zenon
  <2>2. ~World.leaked
    BY <2>1, Zenon DEF Balanced
  <2>3. World.clients = Cardinality(Members(World))
    BY <2>2, WorldSized, Zenon DEF ClassInv
  <2> QED BY <2>1, <2>3, WorldSized, BalancedCounts, Zenon
<1> QED BY <1>3, <1>4, <1>5, Zenon DEF ClassInv

\* A step that leaves the class alone keeps the count exact.
LEMMA QuietStep ==
    ASSUME ClassInv, NEW c \in Local, NEW w, Quiet(w, World), Landed(w)
    PROVE  ClassInv'
  BY WorldSized, QuietBalanced, BalancedStep, Zenon

\* A balanced change after one that leaves the class alone.
LEMMA BalancedAfter ==
    ASSUME ClassInv, NEW c \in Local, NEW w, Quiet(w, World)
    PROVE  /\ Sized(w) /\ Balanced(w, World, c)
           /\ \A r : Balanced(r, w, c) => Balanced(r, World, c)
<1>1. Balanced(w, World, c)
  BY WorldSized, QuietBalanced, Zenon
<1> QED BY <1>1, BalancedTransitive, Zenon DEF Balanced

\* NICK, USER, PONG, CAP and the answers of the blocklist.
LEMMA HandshakeCount ==
    ASSUME ClassInv, NEW c \in Local,
           Nick(c) \/ User(c) \/ Nospoof(c) \/ CapStart(c) \/ CapEnd(c) \/ cbl_allow(c)
    PROVE  ClassInv'
<1>1. /\ \A t : Quiet([World EXCEPT !.hs[c].todo = t], World)
      /\ \A b : Quiet([World EXCEPT !.hs[c].cap = b], World)
      /\ \A b : Quiet([World EXCEPT !.hs[c].bl = b], World)
  BY WorldSized DEF Sized, Quiet, HsFields
<1>2. PICK u : Quiet(u, World) /\ (Become({u}) \/ Become(Try(u, c)))
  <2>1. CASE Nick(c)
    BY <2>1, <1>1, Zenon DEF Nick
  <2>2. CASE User(c)
    BY <2>2, <1>1, Zenon DEF User
  <2>3. CASE Nospoof(c)
    BY <2>3, <1>1, Zenon DEF Nospoof
  <2>4. CASE CapStart(c)
    BY <2>4, <1>1, Zenon DEF CapStart
  <2>5. CASE CapEnd(c)
    BY <2>5, <1>1, Zenon DEF CapEnd
  <2>6. CASE cbl_allow(c)
    BY <2>6, <1>1, SMTT(60) DEF cbl_allow
  <2> QED BY <2>1, <2>2, <2>3, <2>4, <2>5, <2>6, Zenon
<1>3. PICK w \in {u} \cup Try(u, c) : Landed(w)
  BY <1>2, Zenon DEF Become, Landed
<1>4. Balanced(w, World, c)
  <2>1. Sized(u) /\ Balanced(u, World, c)
    BY <1>2, BalancedAfter, Zenon
  <2>2. CASE w \in Try(u, c)
    BY <2>1, <2>2, TryBalanced, BalancedTransitive, Zenon
  <2> QED BY <2>1, <2>2, Zenon
<1> QED BY <1>3, <1>4, BalancedStep, Zenon

\* Requests to services, their challenges, what the blocklist holds against c, a
\* new connection, and logins: nothing of these is about the class.
LEMMA RequestCount ==
    ASSUME ClassInv, NEW c \in Local,
           \/ Authenticate(c) \/ Auth(c) \/ SaslContinue(c) \/ CblAction(c)
           \/ Connect(c) \/ Svslogin(c) \/ Account(c) \/ SaslTimeout(c)
    PROVE  ClassInv'
<1>1. PICK w : Quiet(w, World) /\ Landed(w)
  <2>1. CASE Authenticate(c)
    <3> DEFINE x == [World EXCEPT !.hs[c].sent = TRUE, !.asked[c] = @ + 1]
    <3>1. Landed(x)
      BY <2>1, Zenon DEF Authenticate, Become, Landed
    <3>2. Quiet(x, World)
      BY WorldSized DEF Sized, Quiet, HsFields
    <3> QED BY <3>1, <3>2, Zenon
  <2>2. CASE Auth(c)
    <3> DEFINE x == [World EXCEPT !.hs[c].authmsg = TRUE, !.asked[c] = @ + 1]
    <3>1. Landed(x)
      BY <2>2, Zenon DEF Auth, Become, Landed
    <3>2. Quiet(x, World)
      BY WorldSized DEF Sized, Quiet, HsFields
    <3> QED BY <3>1, <3>2, Zenon
  <2>3. CASE SaslContinue(c)
    <3> DEFINE x == [World EXCEPT !.hs[c].agent = TRUE, !.hs[c].authmsg = FALSE,
                                  !.asked[c] = IF hs[c].authmsg THEN @ ELSE @ - 1]
    <3>1. Landed(x)
      BY <2>3, ZenonT(90) DEF SaslContinue, Become, Landed
    <3>2. Quiet(x, World)
      BY WorldSized DEF Sized, Quiet, HsFields
    <3> QED BY <3>1, <3>2, Zenon
  <2>4. CASE CblAction(c)
    <3> DEFINE x == [World EXCEPT !.hs[c].bl = "shunned"]
    <3>1. Landed(x) \/ Landed(Tag(World, c))
      BY <2>4, ZenonT(90) DEF CblAction, Become, Landed
    <3>2. Quiet(x, World) /\ Quiet(Tag(World, c), World)
      BY WorldSized DEF Sized, Quiet, HsFields, Tag
    <3> QED BY <3>1, <3>2, Zenon
  <2>5. CASE Connect(c)
    <3> DEFINE x == [World EXCEPT !.status[c] = "unknown"]
    <3>1. Landed(x)
      BY <2>5, ZenonT(90) DEF Connect, Become, Landed
    <3>2. Quiet(x, World)
      BY WorldSized, Zenon DEF Sized, Quiet
    <3> QED BY <3>1, <3>2, Zenon
  <2>6. CASE Svslogin(c) \/ Account(c)
    <3> DEFINE x(b) == [World EXCEPT !.hs[c].account = b]
    <3>1. PICK b : Landed(StandingOf(x(b), c))
      <4>1. x(~hs[c].account) = [World EXCEPT !.hs[c].account = ~@]
        BY WorldSized, Zenon
      <4>2. CASE Svslogin(c)
        BY <4>2, Zenon DEF Svslogin, Become, Landed
      <4>3. CASE Account(c)
        <5>1. Landed(StandingOf([World EXCEPT !.hs[c].account = ~@], c))
          BY <4>3, Zenon DEF Account, Become, Landed
        <5> HIDE DEF x
        <5> QED BY <4>1, <5>1, Zenon
      <4> QED BY <2>6, <4>2, <4>3, Zenon
    <3>2. Quiet(x(b), World)
      BY WorldSized, Zenon DEF Sized, Quiet, HsFields
    <3> HIDE DEF x
    <3>3. Sized(x(b))
      BY <3>2, WorldSized, BalancedAfter, Zenon
    <3>4. Quiet(StandingOf(x(b), c), x(b))
      BY <3>3, ThrottleQuiet, Zenon DEF StandingOf
    <3>5. Quiet(StandingOf(x(b), c), World)
      BY <3>2, <3>4, Zenon DEF Quiet
    <3> QED BY <3>1, <3>5, Zenon
  <2>7. CASE SaslTimeout(c)
    <3> DEFINE x(n) == [World EXCEPT !.hs[c].sent = FALSE, !.asked[c] = n]
               y(n) == [x(n) EXCEPT !.hs[c].last = "silent"]
    <3>1. PICK n : Landed(Silent(x(n), c))
      BY <2>7, ZenonT(90) DEF SaslTimeout, Become, Landed
    <3>2. Quiet(x(n), World)
      BY WorldSized, Zenon DEF Sized, Quiet, HsFields
    <3>3. Quiet(y(n), World)
      BY WorldSized DEF Sized, Quiet, HsFields
    <3>4. Silent(x(n), c) = x(n) \/ Silent(x(n), c) = y(n)
      BY Zenon DEF Silent
    <3> QED BY <3>1, <3>2, <3>3, <3>4, Zenon
  <2> QED BY <2>1, <2>2, <2>3, <2>4, <2>5, <2>6, <2>7, ZenonT(60)
<1> QED BY <1>1, QuietStep, Zenon

\* The end of an exchange with services, with its two tries.
LEMMA SaslDoneCount ==
    ASSUME ClassInv, NEW c \in Local, NEW success \in BOOLEAN, SaslDone(c, success)
    PROVE  ClassInv'
<1> DEFINE w == [World EXCEPT !.asked[c] = @ - 1,
                              !.hs[c].agent = FALSE, !.hs[c].sent = FALSE,
                              !.hs[c].complete = @ \/ success]
           first == IF success /\ hs[c].tagged /\ hs[c].account THEN Try(w, c) ELSE {w}
<1>1. Quiet(w, World)
  BY WorldSized DEF Sized, Quiet, HsFields
<1>2. PICK r \in first :
          \E q \in (IF r.status[c] = "unknown" THEN Try(r, c) ELSE {r}) : Landed(q)
  BY DEF SaslDone, Become, Landed
<1>3. PICK q \in (IF r.status[c] = "unknown" THEN Try(r, c) ELSE {r}) : Landed(q)
  BY <1>2
<1>4. (r = w \/ r \in Try(w, c)) /\ (q = r \/ q \in Try(r, c))
  BY <1>2, <1>3, Zenon
<1> HIDE DEF w, first
<1>5. Sized(w) /\ Balanced(w, World, c)
  BY <1>1, BalancedAfter, Zenon
<1>6. Balanced(r, World, c)
  <2>1. CASE r \in Try(w, c)
    BY <2>1, <1>5, TryBalanced, BalancedTransitive
  <2> QED BY <2>1, <1>4, <1>5, ZenonT(60)
<1>7. Sized(r)
  BY <1>6, Zenon DEF Balanced
<1>8. Balanced(q, World, c)
  <2>1. CASE q \in Try(r, c)
    BY <2>1, <1>6, <1>7, TryBalanced, BalancedTransitive
  <2> QED BY <2>1, <1>4, <1>6, ZenonT(60)
<1> QED BY <1>3, <1>8, BalancedStep, Zenon

\* What the own account module answers.
LEMMA OwnBalanced ==
    ASSUME NEW w, Sized(w), NEW c \in Local,
           NEW r \in OwnReplies(w, c) \cup Anonymous(w, c) \cup {LoggedIn(w, c), Dropped(w, c)}
    PROVE  Balanced(r, w, c)
<1> DEFINE out == [w EXCEPT !.hs[c].account = FALSE, !.hs[c].complete = TRUE,
                            !.hs[c].type = FALSE]
           in == [w EXCEPT !.hs[c].account = TRUE, !.hs[c].complete = TRUE,
                           !.hs[c].type = FALSE, !.hs[c].stepup = FALSE]
<1>1. Quiet(in, w) /\ Quiet(out, w)
  BY DEF Sized, Quiet, HsFields
<1>2. r = LoggedIn(w, c) => r = StandingOf(in, c)
  BY Zenon DEF LoggedIn
<1>3. r \in Anonymous(w, c) => r = StandingOf(out, c)
  BY Zenon DEF Anonymous
<1> HIDE DEF in, out
<1>4. CASE r = StandingOf(in, c) \/ r = StandingOf(out, c)
  <2>1. Sized(in) /\ Sized(out)
    BY <1>1, QuietBalanced, Zenon DEF Balanced
  <2>2. Quiet(StandingOf(in, c), in) /\ Quiet(StandingOf(out, c), out)
    BY <2>1, ThrottleQuiet, ZenonT(60) DEF StandingOf
  <2>3. Quiet(StandingOf(in, c), w) /\ Quiet(StandingOf(out, c), w)
    BY <1>1, <2>2, Zenon DEF Quiet
  <2> QED BY <1>4, <2>3, QuietBalanced, Zenon
<1>5. CASE r = exit_client(w, c)
  BY <1>5, ExitBalanced, Zenon
<1>6. CASE r # LoggedIn(w, c) /\ r # exit_client(w, c) /\ r \notin Anonymous(w, c)
  <2> DEFINE x1 == [w EXCEPT !.hs[c].type = TRUE]
             x2 == [w EXCEPT !.asked[c] = @ + 1, !.hs[c].type = w.hs[c].stepup]
             x3 == [w EXCEPT !.hs[c].sent = FALSE, !.hs[c].type = FALSE]
             x4 == [w EXCEPT !.hs[c].stepup = TRUE]
             x5 == [w EXCEPT !.hs[c].stepup = TRUE, !.hs[c].type = FALSE]
  <2>1. r \in {x1, Dropped(w, c), w, x2, x3, x4, x5}
    BY <1>6, SMTT(60) DEF OwnReplies
  <2>2. Quiet(x1, w) /\ Quiet(x2, w)
    BY DEF Sized, Quiet, HsFields
  <2>3. Quiet(x3, w) /\ Quiet(x4, w)
    BY DEF Sized, Quiet, HsFields
  <2>4. Quiet(x5, w) /\ Quiet(Dropped(w, c), w) /\ Quiet(w, w)
    BY DEF Sized, Quiet, HsFields, Dropped
  <2> HIDE DEF x1, x2, x3, x4, x5
  <2>5. Quiet(r, w)
    BY <2>1, <2>2, <2>3, <2>4, Zenon
  <2> QED BY <2>5, QuietBalanced, Zenon
<1> QED BY <1>2, <1>3, <1>4, <1>5, <1>6, ZenonT(60)

\* AUTHENTICATE, AUTH and the answer of an OAuth provider, by the own module.
LEMMA OwnCount ==
    ASSUME ClassInv, NEW c \in Local, OwnAuthenticate(c) \/ OwnAuth(c) \/ Userinfo(c)
    PROVE  ClassInv'
<1> DEFINE R(w) == OwnReplies(w, c) \cup Anonymous(w, c) \cup {LoggedIn(w, c), Dropped(w, c)}
           x == [World EXCEPT !.hs[c].sent = TRUE]
           y == [World EXCEPT !.hs[c].authmsg = TRUE, !.hs[c].type = TRUE]
           z == [World EXCEPT !.asked[c] = @ - 1]
           s == [z EXCEPT !.hs[c].stepup = TRUE, !.hs[c].type = FALSE]
<1>1. Quiet(x, World) /\ Quiet(y, World) /\ Quiet(z, World)
  BY WorldSized DEF Sized, Quiet, HsFields
<1>2. Quiet(s, World)
  BY WorldSized DEF Sized, Quiet, HsFields
<1>3. OwnAuthenticate(c) => \E r \in R(x) : Landed(Silent(r, c))
  BY ZenonT(90) DEF OwnAuthenticate, Become, Landed
<1>4. OwnAuth(c) => \E r \in R(y) : Landed(Silent(r, c))
  BY DEF OwnAuth, Become, Landed
<1>5. Userinfo(c) => \E r \in R(z) \cup {s} : Landed(Silent(r, c))
  <2>1. z \in R(z)
    BY DEF OwnReplies
  <2> QED BY <2>1 DEF Userinfo, Become, Landed
<1> HIDE DEF x, y, z, s
<1>6. PICK r \in R(x) \cup R(y) \cup R(z) \cup {s} : Landed(Silent(r, c))
  BY <1>3, <1>4, <1>5
<1>7. Balanced(r, World, c)
  <2>1. \A w : Quiet(w, World) => Sized(w) /\ Balanced(w, World, c)
    BY BalancedAfter, Zenon
  <2>2. ASSUME NEW w, Quiet(w, World), r \in R(w) PROVE Balanced(r, World, c)
    BY <2>1, <2>2, OwnBalanced, BalancedTransitive, Zenon
  <2> HIDE DEF R
  <2> QED BY <1>1, <1>2, <1>6, <2>1, <2>2, Zenon
<1> DEFINE t == [r EXCEPT !.hs[c].last = "silent"]
<1>8. Silent(r, c) = t \/ Silent(r, c) = r
  BY Zenon DEF Silent
<1>9. Sized(r)
  BY <1>7, Zenon DEF Balanced
<1>10. Quiet(t, r)
  BY <1>9, Zenon DEF Sized, Quiet, HsFields
<1> HIDE DEF t, R
<1>11. Balanced(t, World, c)
  BY <1>7, <1>9, <1>10, QuietBalanced, BalancedTransitive
<1> QED BY <1>6, <1>7, <1>8, <1>11, BalancedStep, ZenonT(60)

\* A connection is closed.
LEMMA ExitCount ==
    ASSUME ClassInv, NEW c \in Local, HandshakeTimeout(c) \/ Quit(c)
    PROVE  ClassInv'
<1>1. Landed(exit_client(World, c))
  BY SMTT(60) DEF HandshakeTimeout, Quit, Become, Landed
<1> QED BY <1>1, WorldSized, ExitBalanced, BalancedStep, ZenonT(60)

\* The blocklist is asked about all connections at once.
LEMMA BundleCount ==
    ASSUME ClassInv, Bundle
    PROVE  ClassInv'
<1> DEFINE P == {c \in Local : InHandshake(c) /\ hs[c].bl = "pending"}
           g == [c \in Local |-> [hs[c] EXCEPT !.bl = IF c \in P THEN "sent" ELSE @]]
           x == [World EXCEPT !.hs = g]
<1>1. PICK c \in Local : TRUE
  BY DEF Bundle
<1>2. Landed(x)
  BY ZenonT(90) DEF Bundle, Become, Landed
<1>3. \A d \in Local : DOMAIN g[d] = HsFields /\ g[d].class = hs[d].class
  BY WorldSized, Zenon DEF Sized, HsFields
<1>4. DOMAIN g = Local
  OBVIOUS
<1> HIDE DEF g
<1>5. Quiet(x, World)
  BY <1>3, <1>4, WorldSized DEF Sized, Quiet
<1> QED BY <1>1, <1>2, <1>5, QuietStep, Zenon

\* Every step keeps the count of the class exact.
LEMMA NextClassInv ==
    ASSUME ClassInv, [Next]_vars
    PROVE  ClassInv'
<1>1. CASE UNCHANGED vars \/ ThrottleOnly
  <2>1. hs' = hs /\ clients' = clients /\ leaked' = leaked
    BY <1>1, Zenon DEF vars, ThrottleOnly
  <2>2. Members(World)' = Members(World)
    BY <2>1, Zenon DEF Members, World
  <2>3. Sized(World)'
    BY <2>1, WorldSized, Zenon DEF Sized, World
  <2> QED BY <2>1, <2>2, <2>3, Zenon DEF ClassInv
<1>2. CASE Bundle
  BY <1>2, BundleCount, Zenon
<1>3. ASSUME NEW c \in Local,
             \/ Connect(c) \/ Nick(c) \/ User(c) \/ Nospoof(c) \/ CapStart(c) \/ CapEnd(c)
             \/ Authenticate(c) \/ Auth(c) \/ Svslogin(c) \/ SaslContinue(c)
             \/ \E success \in BOOLEAN : SaslDone(c, success)
             \/ OwnAuthenticate(c) \/ OwnAuth(c) \/ Userinfo(c)
             \/ cbl_allow(c) \/ CblAction(c)
             \/ SaslTimeout(c) \/ HandshakeTimeout(c) \/ Quit(c) \/ Account(c)
      PROVE  ClassInv'
  BY <1>3, HandshakeCount, RequestCount, SaslDoneCount, OwnCount, ExitCount, ZenonT(60)
<1> QED BY <1>1, <1>2, <1>3 DEF Next

\* At the start no connection is in the class.
LEMMA InitClassInv == Init => ClassInv
<1> SUFFICES ASSUME Init PROVE ClassInv
  BY Zenon
<1>1. hs = [c \in Local |-> Fresh] /\ clients = 0 /\ leaked = FALSE
  BY Zenon DEF Init
<1>2. DOMAIN Fresh = HsFields /\ Fresh.class = FALSE
  BY Zenon DEF Fresh, HsFields
<1>3. Members(World) = {}
  BY <1>1, <1>2, Zenon DEF Members, World
<1>4. Cardinality(Members(World)) = 0
  BY <1>3, FS_EmptySet, Zenon
<1>5. Sized(World)
  <2>1. /\ World.hs = hs /\ World.clients = 0 /\ World.leaked = FALSE
        /\ DOMAIN World = {"status", "known", "category", "bucket", "hs", "asked",
                           "clients", "leaked"}
    BY <1>1, Zenon DEF World
  <2>2. DOMAIN hs = Local /\ \A d \in Local : hs[d] = Fresh
    BY <1>1, Zenon
  <2>3. World.clients \in Int
    BY <2>1
  <2> QED BY <1>2, <2>1, <2>2, <2>3, Zenon DEF Sized
<1> QED BY <1>1, <1>4, <1>5 DEF ClassInv

\* The count of the class is exact for every set of connections and every limit,
\* whatever was held, tried twice or closed half way, until AllowClient() lets in a
\* second time a connection that had kept its class.
THEOREM ClassCountStaysExact == Spec => []ClassCountExact
<1>1. ClassInv => ClassCountExact
  BY Zenon DEF ClassInv, ClassCountExact, Members, World
<1> QED BY <1>1, InitClassInv, NextClassInv, PTL DEF Spec
=============================================================================
