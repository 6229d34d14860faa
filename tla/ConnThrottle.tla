---------------------------- MODULE ConnThrottle ----------------------------
(***************************************************************************)
(* The per-prefix user counts of modules/connthrottle.c.  For each of the  *)
(* three IPv6 prefix lengths a bucket counts the known, the excepted and   *)
(* the unknown users of a prefix, and a new unknown user is refused when   *)
(* there are too many.  What a client was counted as is kept with the      *)
(* client (CT_CATEGORY), because the security groups and exceptions the    *)
(* category came from may have changed by the time it leaves.              *)
(*                                                                         *)
(* Here the rest of the server is an environment in which connections      *)
(* register, are held, leave or change their standing in any order; module *)
(* Registration is that environment in detail.                             *)
(***************************************************************************)
EXTENDS Integers, FiniteSets

CONSTANTS
    Local, Remote,  \* connections of this server, users of the others
    IPv6,           \* those with an IPv6 address
    ULines,         \* remote services
    Tiers,          \* the prefix lengths: /56, /48 and /32
    Nets, NetOf,    \* prefixes, and the one NetOf[t][c] of each client
    Limit,          \* Limit[t]: ipv6-unknown-users-limit, 0 when off
    None            \* no bucket

Clients == Local \cup Remote
Kinds == {"known", "excepted", "unknown"}

ASSUME CTAssumption ==
    /\ IsFiniteSet(Clients) /\ Local \cap Remote = {}
    /\ ULines \subseteq Remote
    /\ NetOf \in [Tiers -> [Clients -> Nets]]
    /\ Limit \in [Tiers -> Nat]
    /\ None \notin [Kinds -> Int]

VARIABLES
    status,     \* status[c]: "gone", "unknown" (in the handshake) or "user"
    known,      \* known[c]: known_user_cached
    excepted,   \* clients in the except group or with a maxperip exception
    category,   \* category[c]: CT_CATEGORY, "none" when not counted
    bucket,     \* bucket[t][n]: the counters of a prefix, or None
    enforcing,  \* neither THROTTLE OFF nor still gathering reputation
    skipped     \* history: a rebuild passed over a counted connection

ctvars == <<status, known, excepted, category, bucket, enforcing, skipped>>

CTWorld == [status |-> status, known |-> known, category |-> category,
            bucket |-> bucket]

-----------------------------------------------------------------------------
(* The operations, on a record with at least the fields of CTWorld *)

Zero == [k \in Kinds |-> 0]

\* ct_classify()
ct_classify(w, c) ==
    IF w.known[c] THEN "known" ELSE IF c \in excepted THEN "excepted" ELSE "unknown"

\* ct_bucket_increment(), in a bucket made if need be.
Increment(b, k) == IF b = None THEN [Zero EXCEPT ![k] = 1]
                   ELSE [b EXCEPT ![k] = @ + 1]

\* ct_bucket_decrement(); an empty bucket is freed, a missing one logged.
Decrement(b, k) ==
    IF b = None THEN None
    ELSE LET d == [b EXCEPT ![k] = @ - 1] IN IF d = Zero THEN None ELSE d

\* Both, on the same bucket.
Transfer(b, k, l) == IF b = None THEN None
                     ELSE [[b EXCEPT ![k] = @ - 1] EXCEPT ![l] = @ + 1]

ct_bucket_bump_client(w, c, k) ==
    [w EXCEPT !.category[c] = k,
              !.bucket = [t \in Tiers |->
                  [w.bucket[t] EXCEPT ![NetOf[t][c]] = Increment(@, k)]]]

ct_bucket_unbump_client(w, c) ==
    [w EXCEPT !.category[c] = "none",
              !.bucket = [t \in Tiers |->
                  [w.bucket[t] EXCEPT ![NetOf[t][c]] =
                      Decrement(@, w.category[c])]]]

\* ct_allow_client() up to the limits: counted once, whatever happens next.
ct_allow_client(w, c) ==
    IF c \notin IPv6 \/ w.category[c] # "none" THEN w
    ELSE ct_bucket_bump_client(w, c, ct_classify(w, c))

\* Its reject: the first time, and when the client's own count is one too many.
Rejected(w, c) ==
    /\ c \in IPv6 /\ w.category[c] = "none"
    /\ ct_classify(w, c) = "unknown" /\ enforcing
    /\ \E t \in Tiers :
           /\ Limit[t] # 0
           /\ ct_allow_client(w, c).bucket[t][NetOf[t][c]]["unknown"] > Limit[t]

\* ct_remote_connect_buckets()
ct_remote_connect_buckets(w, c) == IF c \in ULines THEN w ELSE ct_allow_client(w, c)

\* ct_quit()
ct_quit(w, c) == IF w.category[c] = "none" THEN w ELSE ct_bucket_unbump_client(w, c)

\* Variant with a plausible bug: the client keeps the category it came with.
ct_known_user_cache_change_keep(w, c) ==
    LET old == w.category[c]
        new == ct_classify(w, c)
    IN  IF old \in {"none", new} THEN w
        ELSE [w EXCEPT !.bucket = [t \in Tiers |->
                           [w.bucket[t] EXCEPT ![NetOf[t][c]] =
                               Transfer(@, old, new)]]]

\* ct_known_user_cache_change()
ct_known_user_cache_change(w, c) ==
    LET old == w.category[c]
        new == ct_classify(w, c)
    IN  IF old \in {"none", new} THEN w
        ELSE [w EXCEPT !.category[c] = new,
                       !.bucket = [t \in Tiers |->
                           [w.bucket[t] EXCEPT ![NetOf[t][c]] =
                               Transfer(@, old, new)]]]

\* update_known_user_cache(): k is what the known-users group says now.
update_known_user_cache(w, c, k) ==
    IF w.known[c] = k THEN w
    ELSE ct_known_user_cache_change([w EXCEPT !.known[c] = k], c)

\* The counters of prefix n when the clients of S are counted as cat says.
Tally(S, cat, t, n) ==
    LET here == {c \in S : NetOf[t][c] = n}
    IN  IF here = {} THEN None
        ELSE [k \in Kinds |-> Cardinality({c \in here : cat[c] = k})]

\* ct_buckets_rebuild(): registered users only, the others keep their category.
Rebuilt(w) == {c \in Clients : w.status[c] = "user" /\ c \in IPv6 \ ULines}

ct_buckets_rebuild(w) ==
    LET cat == [c \in Clients |-> IF c \in Rebuilt(w) THEN ct_classify(w, c)
                                  ELSE w.category[c]]
    IN  [w EXCEPT !.category = cat,
                  !.bucket = [t \in Tiers |-> [n \in Nets |->
                                 Tally(Rebuilt(w), cat, t, n)]]]

\* A connection that is counted and that a rebuild would pass over.
Overlooked(w, c) == w.category[c] # "none" /\ c \notin Rebuilt(w)

-----------------------------------------------------------------------------
(* The environment *)

CTBecome(w) == /\ status' = w.status /\ known' = w.known
               /\ category' = w.category /\ bucket' = w.bucket

CTInit ==
    /\ status = [c \in Clients |-> "gone"]
    /\ known = [c \in Clients |-> FALSE]
    /\ excepted \in SUBSET Clients
    /\ category = [c \in Clients |-> "none"]
    /\ bucket = [t \in Tiers |-> [n \in Nets |-> None]]
    /\ enforcing \in BOOLEAN /\ skipped = FALSE

Gone(w, c) == [ct_quit(w, c) EXCEPT !.status[c] = "gone", !.known[c] = FALSE]

\* A connection arrives; its moddata is zero.
CTConnect(c) ==
    /\ c \in Local /\ status[c] = "gone"
    /\ CTBecome([CTWorld EXCEPT !.status[c] = "unknown"])
    /\ UNCHANGED <<excepted, enforcing, skipped>>

\* One run of register_user(): AllowClient(), and then the connection becomes
\* a user, is held, or is closed.  One that is rejected is always closed.
CTRegister(c, k, to) ==
    LET w == update_known_user_cache(CTWorld, c, k)
        u == ct_allow_client(w, c)
    IN  /\ c \in Local /\ status[c] = "unknown"
        /\ Rejected(w, c) => to = "gone"
        /\ CTBecome(IF to = "gone" THEN Gone(u, c) ELSE [u EXCEPT !.status[c] = to])
        /\ UNCHANGED <<excepted, enforcing, skipped>>

\* HOOKTYPE_REMOTE_CONNECT
CTRemoteConnect(c, k) ==
    /\ c \in Remote /\ status[c] = "gone"
    /\ CTBecome(ct_remote_connect_buckets(
                    [CTWorld EXCEPT !.status[c] = "user", !.known[c] = k], c))
    /\ UNCHANGED <<excepted, enforcing, skipped>>

\* HOOKTYPE_LOCAL_QUIT, HOOKTYPE_UNKUSER_QUIT and HOOKTYPE_REMOTE_QUIT
CTQuit(c) ==
    /\ status[c] # "gone"
    /\ CTBecome(Gone(CTWorld, c))
    /\ UNCHANGED <<excepted, enforcing, skipped>>

\* A login, a logout, a change of reputation, or the timer of hash.c.
CTKnown(c, k) ==
    /\ status[c] # "gone"
    /\ CTBecome(update_known_user_cache(CTWorld, c, k))
    /\ UNCHANGED <<excepted, enforcing, skipped>>

\* An exception is added or removed, or the client moves in or out of the group.
CTExcept(c) ==
    /\ excepted' = IF c \in excepted THEN excepted \ {c} ELSE excepted \cup {c}
    /\ UNCHANGED <<status, known, category, bucket, enforcing, skipped>>

\* THROTTLE ON, OFF and RESET, and the end of reputation gathering.
CTEnforce(b) ==
    /\ enforcing' = b
    /\ UNCHANGED <<status, known, category, bucket, excepted, skipped>>

\* REHASH: the tables are freed and rebuilt when the module is loaded again.
CTRehash ==
    /\ CTBecome(ct_buckets_rebuild(CTWorld))
    /\ skipped' = (skipped \/ \E c \in Clients : Overlooked(CTWorld, c))
    /\ UNCHANGED <<excepted, enforcing>>

CTNext ==
    \/ \E c \in Clients :
        \/ \E k \in BOOLEAN : CTKnown(c, k) \/ CTRemoteConnect(c, k)
        \/ CTConnect(c)
        \/ CTQuit(c)
        \/ CTExcept(c)
        \/ \E k \in BOOLEAN, to \in {"user", "unknown", "gone"} : CTRegister(c, k, to)
    \/ \E b \in BOOLEAN : CTEnforce(b)
    \/ CTRehash

CTSpec == CTInit /\ [][CTNext]_ctvars

-----------------------------------------------------------------------------
(* Properties *)

Counted == {c \in Clients : category[c] # "none"}

\* The self-check of connthrottle.c (ct_check): every counter is the number of
\* clients of that prefix counted that way, every counted client has a bucket at
\* each length, and there are no others.  It holds as long as no rebuild met a
\* connection that had been counted and then held short of registration.
BucketsExact ==
    ~skipped => \A t \in Tiers, n \in Nets :
                    bucket[t][n] = Tally(Counted, category, t, n)
=============================================================================
