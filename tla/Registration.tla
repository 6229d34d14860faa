---------------------------- MODULE Registration ----------------------------
(***************************************************************************)
(* How a connection becomes a user.  NICK, USER, the ping cookie, CAP END, *)
(* the end of a SASL exchange and the answer of the central blocklist each *)
(* may be the last thing is_handshake_finished() waits for, so each of     *)
(* them has to try register_user().  That function may be stopped half way *)
(* and be called again: a connection is held when an account is required   *)
(* (modules/authprompt.c), until it has logged in.  Meanwhile it has been  *)
(* counted, in its class and in the prefix counts of ConnThrottle.         *)
(*                                                                         *)
(* SASL is answered either by services or by this server's own account     *)
(* module (modules/account-registration.c).  Bans, passwords, spam filters *)
(* and the connection rate are a verdict that is different on every try.   *)
(* Timers may fire at any time after they were set.                        *)
(***************************************************************************)
EXTENDS ConnThrottle

CONSTANTS
    Sasl,        \* the connections with CAP sasl
    Checked,     \* those the central blocklist is asked about
    Excusable,   \* clients whose exception may come and go
    Settings,    \* configurations: own (set::sasl-server is this server), cookie
    MaxClients,  \* class::maxclients
    MaxAsked,    \* bound on the requests services or providers still work on
    MaxChanges   \* bound on the events of the rest of the network

ASSUME RegistrationAssumption == Excusable \subseteq Clients

VARIABLES
    conf,     \* the configuration
    hs,       \* hs[c]: the handshake of a connection
    asked,    \* asked[c]: requests about c to services or an OAuth provider
    clients,  \* class->clients
    leaked,   \* history: AllowClient() let in a connection that was in its class
    changes   \* number of events of the rest of the network

vars == <<ctvars, conf, hs, asked, clients, leaked, changes>>

\* `last` is a history variable: how the connection got past is_handshake_finished
\* without being registered.
Fresh == [todo |-> {"nick", "user"}, cap |-> FALSE,
          sent |-> FALSE, complete |-> FALSE, agent |-> FALSE,
          type |-> FALSE, stepup |-> FALSE, bl |-> "none",
          tagged |-> FALSE, authmsg |-> FALSE, account |-> FALSE,
          class |-> FALSE, last |-> "none"]

World == [status |-> status, known |-> known, category |-> category,
          bucket |-> bucket, hs |-> hs, asked |-> asked, clients |-> clients,
          leaked |-> leaked]

\* The next state is one of the worlds of W.
Become(W) ==
    /\ \E w \in W : /\ CTBecome(w)
                   /\ hs' = w.hs /\ asked' = w.asked
                   /\ clients' = w.clients /\ leaked' = w.leaked
    /\ UNCHANGED <<excepted, enforcing, skipped, conf, changes>>

Verdicts == {"ok", "shun", "refuse", "ban", "softban", "block", "softblock"}

-----------------------------------------------------------------------------
(* The operations *)

\* Variant with a plausible bug: the quit hook is that of registered users only.
exit_client_users(w, c) ==
    [w EXCEPT !.status[c] = "gone", !.known[c] = FALSE,
              !.category[c] = IF w.status[c] = "user" THEN ct_quit(w, c).category[c]
                              ELSE @,
              !.bucket = IF w.status[c] = "user" THEN ct_quit(w, c).bucket ELSE @,
              !.clients = IF w.hs[c].class THEN @ - 1 ELSE @,
              !.hs[c] = Fresh, !.asked[c] = 0]

\* exit_client(): the class, then the quit hooks; then the struct is cleared.
\* What services still answer is for a client that no longer exists.
exit_client(w, c) ==
    [Gone(w, c) EXCEPT !.clients = IF w.hs[c].class THEN @ - 1 ELSE @,
                       !.hs[c] = Fresh, !.asked[c] = 0]

\* update_known_user_cache() with a known-users group of logged in users.
StandingOf(w, c) == update_known_user_cache(w, c, w.hs[c].account)

\* Variant with a plausible bug: the class is forgotten, its count is not.
Hold_count(w, c) == [w EXCEPT !.hs[c].class = FALSE, !.hs[c].last = "held"]

\* The way out of register_user() for a connection that may be let in later.
Hold(w, c) ==
    [w EXCEPT !.clients = @ - 1, !.hs[c].class = FALSE, !.hs[c].last = "held"]

Tag(w, c) == [w EXCEPT !.hs[c].tagged = TRUE]

\* AllowClient() found a block for c: counted by ConnThrottle and by the class.
Allowed(w, c) ==
    LET u == ct_allow_client(StandingOf(w, c), c)
    IN  [u EXCEPT !.clients = @ + 1, !.hs[c].class = TRUE,
                  !.leaked = @ \/ w.hs[c].class]

\* register_user().  "refuse" comes before the hooks of AllowClient() and "ban"
\* after them; a soft ban or soft filter is not for those who have logged in.
register_user(w, c, v) ==
    LET a == Allowed(w, c)
        soft == ~w.hs[c].account
    IN  IF w.status[c] = "user" THEN w
        ELSE IF v = "shun" THEN [w EXCEPT !.hs[c].last = "held"]
        ELSE IF v = "refuse" THEN exit_client(w, c)
        ELSE IF Rejected(StandingOf(w, c), c) \/ w.clients + 1 > MaxClients
        THEN exit_client(ct_allow_client(StandingOf(w, c), c), c)
        ELSE IF v = "ban" THEN exit_client(a, c)
        ELSE IF v = "softban" /\ soft THEN Hold(Tag(a, c), c)
        ELSE IF v = "block" \/ (v = "softblock" /\ soft)
        THEN [a EXCEPT !.hs[c].last = "held", !.hs[c].tagged = @ \/ v = "softblock"]
        ELSE IF a.hs[c].tagged /\ soft THEN Hold(a, c)
        ELSE [a EXCEPT !.status[c] = "user"]

\* is_handshake_finished() without the blocklist, which is asked last.
Complete(h) == h.todo = {} /\ ~h.cap /\ (h.sent => h.complete)

\* `if (is_handshake_finished(client)) register_user(client)`, with any verdict.
\* The blocklist notes that it has to be asked and lets the connection wait.
Try(w, c) ==
    LET h == w.hs[c]
        u == [w EXCEPT !.hs[c].last = "none"]
    IN  IF ~Complete(h) THEN {w}
        ELSE IF c \notin Checked \/ h.bl = "allowed"
        THEN {register_user(u, c, v) : v \in Verdicts}
        ELSE IF h.bl = "none" THEN {[u EXCEPT !.hs[c].bl = "pending"]}
        ELSE {w}

\* A change that may complete the handshake but after which nobody tries.
Silent(w, c) == IF Complete(w.hs[c]) /\ w.status[c] = "unknown"
                THEN [w EXCEPT !.hs[c].last = "silent"] ELSE w

-----------------------------------------------------------------------------
(* Commands of a connection *)

Init ==
    /\ CTInit
    /\ conf \in Settings
    /\ hs = [c \in Local |-> Fresh]
    /\ asked = [c \in Local |-> 0]
    /\ clients = 0 /\ leaked = FALSE /\ changes = 0
    /\ excepted = {} /\ enforcing = TRUE

Connect(c) ==
    /\ status[c] = "gone"
    /\ Become({[World EXCEPT !.status[c] = "unknown"]})

InHandshake(c) == status[c] = "unknown"

\* The first NICK; later ones change the name only.
Nick(c) ==
    /\ InHandshake(c) /\ "nick" \in hs[c].todo
    /\ Become(Try([World EXCEPT !.hs[c].todo =
                      (@ \ {"nick"}) \cup (IF conf.cookie THEN {"pong"} ELSE {})], c))

\* USER, also a second time.
User(c) ==
    /\ InHandshake(c)
    /\ LET w == [World EXCEPT !.hs[c].todo = @ \ {"user"}]
       IN  Become(IF "nick" \in hs[c].todo THEN {w} ELSE Try(w, c))

\* PONG with the right cookie: cmd_nospoof().
Nospoof(c) ==
    /\ InHandshake(c) /\ "pong" \in hs[c].todo
    /\ Become(Try([World EXCEPT !.hs[c].todo = @ \ {"pong"}], c))

\* CAP LS and CAP REQ
CapStart(c) ==
    /\ InHandshake(c) /\ c \in Sasl
    /\ Become({[World EXCEPT !.hs[c].cap = TRUE]})

\* cap_end()
CapEnd(c) ==
    /\ InHandshake(c) /\ c \in Sasl
    /\ Become(Try([World EXCEPT !.hs[c].cap = FALSE], c))

-----------------------------------------------------------------------------
(* SASL by services *)

\* cmd_authenticate(); that of a registered user comes down to Account(c).
Authenticate(c) ==
    /\ ~conf.own /\ c \in Sasl /\ InHandshake(c) /\ asked[c] < MaxAsked
    /\ Become({[World EXCEPT !.hs[c].sent = TRUE, !.asked[c] = @ + 1]})

\* cmd_auth(): the login of a client that does not do SASL.
Auth(c) ==
    /\ ~conf.own /\ InHandshake(c) /\ asked[c] < MaxAsked
    /\ hs[c].tagged /\ ~hs[c].agent /\ ~hs[c].authmsg
    /\ Become({[World EXCEPT !.hs[c].authmsg = TRUE, !.asked[c] = @ + 1]})

\* SVSLOGIN, which comes before the final answer.
Svslogin(c) ==
    /\ ~conf.own /\ asked[c] > 0
    /\ Become({StandingOf([World EXCEPT !.hs[c].account = TRUE], c)})

\* cmd_sasl() with 'C': for AUTH the stored message is sent on.
SaslContinue(c) ==
    /\ ~conf.own /\ asked[c] > 0
    /\ Become({[World EXCEPT !.hs[c].agent = TRUE, !.hs[c].authmsg = FALSE,
                             !.asked[c] = IF hs[c].authmsg THEN @ ELSE @ - 1]})

\* Variant with a plausible bug: the result is passed on and nothing else.
SaslDone_relayed(c, success) ==
    /\ ~conf.own /\ asked[c] > 0
    /\ Become({[World EXCEPT !.asked[c] = @ - 1,
                             !.hs[c].agent = FALSE, !.hs[c].sent = FALSE,
                             !.hs[c].complete = @ \/ success]})

\* cmd_sasl() with 'D': the result hook of authprompt tries first, and if the
\* connection was not let in then, cmd_sasl() tries once more.
SaslDone(c, success) ==
    LET w == [World EXCEPT !.asked[c] = @ - 1,
                           !.hs[c].agent = FALSE, !.hs[c].sent = FALSE,
                           !.hs[c].complete = @ \/ success]
        first == IF success /\ hs[c].tagged /\ hs[c].account THEN Try(w, c) ELSE {w}
    IN  /\ ~conf.own /\ asked[c] > 0
        /\ Become(UNION {IF r.status[c] = "unknown" THEN Try(r, c) ELSE {r} :
                             r \in first})

-----------------------------------------------------------------------------
(* SASL by this server: authenticate_attempt() *)

\* A login through user_account_login(): it is not followed by a try.
LoggedIn(w, c) ==
    StandingOf([w EXCEPT !.hs[c].account = TRUE, !.hs[c].complete = TRUE,
                         !.hs[c].type = FALSE, !.hs[c].stepup = FALSE], c)

Dropped(w, c) == [w EXCEPT !.hs[c].type = FALSE, !.hs[c].stepup = FALSE]

\* What one AUTHENTICATE leads to: a mechanism is chosen; "*"; or its data are
\* an unfinished part, refused (by most of the first factors with the clock of
\* sasl_timeout stopped), accepted, accepted but for the second factor (only
\* some mechanisms then forget the type), fatal (a ban found by the login), or
\* to be checked by an OAuth provider.
OwnReplies(w, c) ==
    LET h == w.hs[c]
    IN  {[w EXCEPT !.hs[c].type = TRUE], Dropped(w, c), w}
        \cup (IF ~h.type THEN {}
              ELSE {LoggedIn(w, c), exit_client(w, c)} \cup
                   (IF w.asked[c] < MaxAsked
                    THEN {[w EXCEPT !.asked[c] = @ + 1, !.hs[c].type = h.stepup]}
                    ELSE {}))
        \cup (IF ~h.type \/ h.stepup THEN {}
              ELSE {[w EXCEPT !.hs[c].sent = FALSE, !.hs[c].type = FALSE],
                    [w EXCEPT !.hs[c].stepup = TRUE],
                    [w EXCEPT !.hs[c].stepup = TRUE, !.hs[c].type = FALSE]})

\* The mechanism ANONYMOUS, not as a second factor: account "0" is no login.
Anonymous(w, c) ==
    IF w.hs[c].stepup THEN {}
    ELSE {StandingOf([w EXCEPT !.hs[c].account = FALSE, !.hs[c].complete = TRUE,
                               !.hs[c].type = FALSE], c)}

OwnAuthenticate(c) ==
    LET w == [World EXCEPT !.hs[c].sent = TRUE]
    IN  /\ conf.own /\ c \in Sasl /\ InHandshake(c)
        /\ Become({Silent(r, c) : r \in OwnReplies(w, c) \cup Anonymous(w, c)})

\* cmd_auth(): PLAIN and the stored message in one go; the message is kept.
OwnAuth(c) ==
    /\ conf.own /\ InHandshake(c)
    /\ hs[c].tagged /\ ~hs[c].agent /\ ~hs[c].authmsg
    /\ LET w == [World EXCEPT !.hs[c].authmsg = TRUE, !.hs[c].type = TRUE]
       IN  Become({Silent(r, c) : r \in OwnReplies(w, c)})

\* oauth_userinfo_callback(): a failure changes nothing, except in a step-up.
Userinfo(c) ==
    LET w == [World EXCEPT !.asked[c] = @ - 1]
    IN  /\ conf.own /\ asked[c] > 0
        /\ Become({Silent(r, c) : r \in
               {w, LoggedIn(w, c), Dropped(w, c),
                [w EXCEPT !.hs[c].stepup = TRUE, !.hs[c].type = FALSE]}})

-----------------------------------------------------------------------------
(* The central blocklist *)

\* centralblocklist_bundle_requests()
Bundle ==
    LET pending == {c \in Local : InHandshake(c) /\ hs[c].bl = "pending"}
    IN  /\ pending # {}
        /\ Become({[World EXCEPT !.hs = [c \in Local |->
                       [hs[c] EXCEPT !.bl = IF c \in pending THEN "sent" ELSE @]]]})

\* cbl_allow(), after an answer, an error, or centralblocklist_timeout_evt().
cbl_allow(c) ==
    /\ InHandshake(c) /\ hs[c].bl = "sent"
    /\ Become(Try([World EXCEPT !.hs[c].bl = "allowed"], c))

\* cbl_handle_response() with an action against the client: a shun, after which
\* nothing lets it in, or a soft one, which leaves it to centralblocklist_timeout_evt().
CblAction(c) ==
    /\ InHandshake(c) /\ hs[c].bl = "sent"
    /\ Become({[World EXCEPT !.hs[c].bl = "shunned"]} \cup
              (IF hs[c].account THEN {} ELSE {Tag(World, c)}))

-----------------------------------------------------------------------------
(* Timers and the rest of the server *)

\* sasl_timeout(): abort_sasl(), after which services may still answer.
SaslTimeout(c) ==
    /\ InHandshake(c) /\ hs[c].sent
    /\ Become({Silent([World EXCEPT !.hs[c].sent = FALSE, !.asked[c] = n], c) :
                   n \in IF conf.own THEN {asked[c]} ELSE {0, asked[c]}})

\* handshake_timeout(): not while the account module has an exchange going.
HandshakeTimeout(c) ==
    /\ InHandshake(c) /\ ~hs[c].type /\ ~hs[c].stepup
    /\ Become({exit_client(World, c)})

\* The connection is closed by its client, by a ban or by a ping timeout.
Quit(c) ==
    /\ status[c] # "gone"
    /\ Become({exit_client(World, c)})

\* IDENTIFY, LOGOUT and SVSLOGIN of a registered user.
Account(c) ==
    /\ status[c] = "user"
    /\ Become({StandingOf([World EXCEPT !.hs[c].account = ~@], c)})

ThrottleOnly ==
    /\ changes < MaxChanges
    /\ \/ \E c \in Remote, k \in BOOLEAN : CTRemoteConnect(c, k)
       \/ \E c \in Remote : CTKnown(c, ~known[c])
       \/ \E c \in Remote : CTQuit(c)
       \/ \E c \in Excusable : CTExcept(c)
       \/ CTEnforce(~enforcing)
       \/ CTRehash
    /\ changes' = changes + 1
    /\ UNCHANGED <<conf, hs, asked, clients, leaked>>

Next ==
    \/ \E c \in Local :
        \/ Connect(c) \/ Nick(c) \/ User(c) \/ Nospoof(c) \/ CapStart(c) \/ CapEnd(c)
        \/ Authenticate(c) \/ Auth(c) \/ Svslogin(c) \/ SaslContinue(c)
        \/ \E success \in BOOLEAN : SaslDone(c, success)
        \/ OwnAuthenticate(c) \/ OwnAuth(c) \/ Userinfo(c)
        \/ cbl_allow(c) \/ CblAction(c)
        \/ SaslTimeout(c) \/ HandshakeTimeout(c) \/ Quit(c) \/ Account(c)
    \/ Bundle
    \/ ThrottleOnly

\* The two events of the blocklist run every second.
Fairness == WF_vars(Bundle) /\ \A c \in Local : WF_vars(cbl_allow(c))

Spec == Init /\ [][Next]_vars /\ Fairness

-----------------------------------------------------------------------------
(* Properties *)

\* class->clients is the number of connections that are in the class, whatever
\* was held, tried again, refused or closed: the decrements of register_user()
\* ("Fix client count bug") and of exit_client() balance the increments of
\* AllowClient().  It holds until AllowClient() lets in, for a second time, a
\* connection that a spam filter had stopped and left in its class.
ClassCountExact ==
    ~leaked => clients = Cardinality({c \in Local : hs[c].class})

Undecided(c) ==
    /\ InHandshake(c) /\ Complete(hs[c])
    /\ hs[c].last = "none" /\ hs[c].bl # "shunned"

\* A connection that has done its part is not forgotten: whichever of NICK, USER,
\* PONG, CAP END, a SASL answer and the blocklist was last, register_user() decides
\* about it, without its having to send anything more.  The exceptions are the
\* ends of SASL that do not call register_user(): sasl_timeout() and the results of
\* the own account module.
HandshakeDecided == \A c \in Local : []<>~Undecided(c)

\* Registration, with all its ways of trying again, uses the prefix counts only in
\* the ways ConnThrottle allows for, so what is proved of them holds here.
ImplementsConnThrottle == CTSpec
=============================================================================
