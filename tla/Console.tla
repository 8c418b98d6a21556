------------------------------ MODULE Console ------------------------------
(***************************************************************************)
(* The HTTP side of the web console around ApplyGrants: how a browser gets *)
(* a session (pairing with the bootstrap secret on loopback, OIDC login on *)
(* a LAN), what a session may request, and how logout, expiry and rotation *)
(* race with requests in flight (auth.rs, oidc/flow.rs, oidc/token.rs,     *)
(* oidc_http.rs, http.rs, job_http.rs, cookies.rs).                        *)
(*                                                                         *)
(* An owner of ApplyGrants is the binding of one session; bindings are     *)
(* digests of random tokens and never recur.  A handler is one step per    *)
(* lock it takes; a CSRF token travels with its cookie.                    *)
(***************************************************************************)
EXTENDS ApplyGrants

CONSTANTS
    Logins,           \* state tokens of OIDC logins
    Peers,            \* addresses of clients
    MaxSessions,      \* limits.max_sessions
    IdleSeconds, AbsoluteSeconds,    \* session lifetimes
    BootstrapSeconds, \* limits.bootstrap_lifetime_seconds
    StateSeconds,     \* limits.oidc_state_seconds
    MaxPairingFailures, FailureWindow

ASSUME ConsoleLimits ==
    /\ {MaxSessions, IdleSeconds, AbsoluteSeconds, BootstrapSeconds,
        StateSeconds, MaxPairingFailures, FailureWindow} \subseteq Nat \ {0}
    /\ None \notin Owners

VARIABLES
    mode,       \* "loopback": pairing; "lan": OIDC
    bootstrap,  \* when the process started, or None: used or expired
    failures,   \* peer -> times of its recent failed pairings
    session,    \* binding -> None or [created, seen]
    used,       \* bindings given out so far
    pending,    \* login -> None or [peer, created, previous]
    callback,   \* callbacks between taking their state and the session
    made,       \* login -> sessions it has established
    revoking,   \* bindings that left the sessions, grants not yet revoked
    revoked     \* bindings whose logout or rotation is complete

access == <<mode, bootstrap, failures, session, used, pending, callback, made,
            revoking, revoked>>
consoleVars == <<vars, access>>

Callback == [login : Logins, previous : Owners \cup {None}]

ConsoleTypeOK ==
    /\ TypeOK
    /\ bootstrap \in Nat \cup {None}
    /\ session \in [Owners -> [created : Nat, seen : Nat] \cup {None}]
    /\ used \subseteq Owners /\ revoking \subseteq used /\ revoked \subseteq used
    /\ pending \in [Logins -> [peer : Peers, created : Nat,
                               previous : Owners \cup {None}] \cup {None}]
    /\ callback \subseteq Callback
    /\ made \in [Logins -> Nat]

ConsoleInit ==
    /\ Init
    /\ mode \in {"loopback", "lan"}
    /\ bootstrap = IF mode = "loopback" THEN now ELSE None
    /\ failures = [p \in Peers |-> <<>>]
    /\ session = [o \in Owners |-> None] /\ used = {}
    /\ pending = [l \in Logins |-> None] /\ callback = {}
    /\ made = [l \in Logins |-> 0]
    /\ revoking = {} /\ revoked = {}

-----------------------------------------------------------------------------
(* AuthStore                                                               *)

\* expire_sessions: what every access to the sessions does first.
Alive(o) ==
    /\ session[o] # None
    /\ now - session[o].seen < IdleSeconds * Second
    /\ now - session[o].created < AbsoluteSeconds * Second
Kept == [o \in Owners |-> IF Alive(o) THEN session[o] ELSE None]

\* authenticate: the session lives and has been seen now.
Seen(o) == session' = [Kept EXCEPT ![o].seen = now]

\* A binding never used before gets a session.
Established(o, sessions) ==
    /\ o \notin used
    /\ used' = used \cup {o}
    /\ session' = [sessions EXCEPT ![o] = [created |-> now, seen |-> now]]

Count(sessions) == Cardinality({o \in Owners : sessions[o] # None})
Recent(p) == SelectSeq(failures[p], LAMBDA t : now - t < FailureWindow * Second)

\* pairing, and pair after the lifetime: the secret is forgotten.
BootstrapExpires ==
    /\ bootstrap # None /\ now - bootstrap >= BootstrapSeconds * Second
    /\ bootstrap' = None
    /\ UNCHANGED <<vars, mode, failures, session, used, pending, callback, made,
                   revoking, revoked>>

\* pair with the right cookie, CSRF token and secret: it is used up.
Pair(p, o) ==
    /\ Count(session) < MaxSessions
    /\ bootstrap # None /\ now - bootstrap < BootstrapSeconds * Second
    /\ Len(Recent(p)) < MaxPairingFailures
    /\ bootstrap' = None
    /\ Established(o, session)
    /\ UNCHANGED <<vars, mode, failures, pending, callback, made,
                   revoking, revoked>>

\* pair with anything else.
PairDenied(p) ==
    /\ Count(session) < MaxSessions
    /\ bootstrap # None /\ now - bootstrap < BootstrapSeconds * Second
    /\ Len(Recent(p)) < MaxPairingFailures
    /\ failures' = [failures EXCEPT ![p] = Append(Recent(p), now)]
    /\ UNCHANGED <<vars, mode, bootstrap, session, used, pending, callback, made,
                   revoking, revoked>>

-----------------------------------------------------------------------------
(* OidcManager and the callback handler                                    *)

Fresh(l) == pending[l] # None /\ now - pending[l].created < StateSeconds * Second
Purged == [l \in Logins |-> IF Fresh(l) THEN pending[l] ELSE None]

\* begin, once the provider was loaded: a new state token, with the session
\* cookie the browser sent, which need not be alive.
BeginLogin(l, p, previous) ==
    /\ mode = "lan"
    /\ pending[l] = None /\ made[l] = 0 /\ \A c \in callback : c.login # l
    /\ Cardinality({k \in Logins : Fresh(k)}) < MaxSessions
    /\ pending' = [Purged EXCEPT ![l] =
                     [peer |-> p, created |-> now, previous |-> previous]]
    /\ UNCHANGED <<vars, mode, bootstrap, failures, session, used, callback, made,
                   revoking, revoked>>

\* Mutant: the state token is looked up and left for a repeated callback.
TakeStateKept(l, p) ==
    /\ Fresh(l)
    /\ pending' = Purged
    /\ callback' = IF pending[l].peer # p THEN callback
                   ELSE callback \cup {[login |-> l, previous |-> pending[l].previous]}
    /\ UNCHANGED <<vars, mode, bootstrap, failures, session, used, made,
                   revoking, revoked>>

\* finish up to the first await: the state token is taken, once; a callback
\* from another address has used it up all the same.
TakeState(l, p) ==
    /\ Fresh(l)
    /\ pending' = [Purged EXCEPT ![l] = None]
    /\ callback' = IF pending[l].peer # p THEN callback
                   ELSE callback \cup {[login |-> l, previous |-> pending[l].previous]}
    /\ UNCHANGED <<vars, mode, bootstrap, failures, session, used, made,
                   revoking, revoked>>

\* Discovery, exchange or the ID token fail: no session.
CallbackFails(c) ==
    /\ c \in callback
    /\ callback' = callback \ {c}
    /\ UNCHANGED <<vars, mode, bootstrap, failures, session, used, pending, made,
                   revoking, revoked>>

\* The provider exchanged the code of login k; validate compares its nonce
\* with that of the state.
NonceMatches(c, k) == k = c.login

\* establish_session: the previous session is the one of the login's begin,
\* else the cookie the callback sent; it ends, and its grants are revoked
\* after the lock on the sessions is released.
EstablishSession(c, k, cookie, o) ==
    LET previous == IF c.previous # None THEN c.previous ELSE cookie
        left == IF previous = None THEN Kept
                ELSE [Kept EXCEPT ![previous] = None]
    IN /\ c \in callback /\ NonceMatches(c, k)
       /\ callback' = callback \ {c}
       /\ Count(left) < MaxSessions
       /\ Established(o, left)
       /\ made' = [made EXCEPT ![c.login] = @ + 1]
       /\ revoking' = IF previous # None /\ Alive(previous)
                      THEN revoking \cup {previous} ELSE revoking
    /\ UNCHANGED <<vars, mode, bootstrap, failures, pending, revoked>>

\* The capacity is exhausted; the previous session is gone all the same.
EstablishRefused(c, cookie) ==
    LET previous == IF c.previous # None THEN c.previous ELSE cookie
        left == IF previous = None THEN Kept
                ELSE [Kept EXCEPT ![previous] = None]
    IN /\ c \in callback
       /\ Count(left) >= MaxSessions
       /\ callback' = callback \ {c}
       /\ session' = left
    /\ UNCHANGED <<vars, mode, bootstrap, failures, used, pending, made,
                   revoking, revoked>>

-----------------------------------------------------------------------------
(* Requests of a session                                                   *)

\* confirm_apply: authenticate_csrf, then confirm is called.
ConfirmRequest(o, r) ==
    /\ Alive(o)
    /\ CallConfirm(o, r)
    /\ Seen(o)
    /\ UNCHANGED <<mode, bootstrap, failures, used, pending, callback, made,
                   revoking, revoked>>

\* admit_apply: authenticate_csrf, then admit_with is called.
ApplyRequest(o) ==
    /\ Alive(o)
    /\ CallAdmit(o)
    /\ Seen(o)
    /\ UNCHANGED <<mode, bootstrap, failures, used, pending, callback, made,
                   revoking, revoked>>

\* logout: the session goes.
Logout(o) ==
    /\ Alive(o)
    /\ session' = [Kept EXCEPT ![o] = None]
    /\ revoking' = revoking \cup {o}
    /\ UNCHANGED <<vars, mode, bootstrap, failures, used, pending, callback, made, revoked>>

\* Mutant: the handler answers without revoking the grants.
RevokeForgotten(o) ==
    /\ o \in revoking
    /\ UNCHANGED vars
    /\ revoking' = revoking \ {o} /\ revoked' = revoked \cup {o}
    /\ UNCHANGED <<mode, bootstrap, failures, session, used, pending, callback,
                   made>>

\* logout and establish_session: then its grants do.
Revoke(o) ==
    /\ o \in revoking
    /\ IF entries[o] = None THEN UNCHANGED vars ELSE RevokeOwner(o)
    /\ revoking' = revoking \ {o} /\ revoked' = revoked \cup {o}
    /\ UNCHANGED <<mode, bootstrap, failures, session, used, pending, callback,
                   made>>

\* A new process: a new secret, no sessions, no logins.
ConsoleRestart ==
    /\ Restart
    /\ bootstrap' = IF mode = "loopback" THEN now ELSE None
    /\ failures' = [p \in Peers |-> <<>>]
    /\ session' = [o \in Owners |-> None]
    /\ pending' = [l \in Logins |-> None]
    /\ callback' = {} /\ revoking' = {}
    /\ UNCHANGED <<mode, used, made, revoked>>

\* What ApplyGrants does without looking at a session.
Background ==
    /\ \/ Tick
       \/ \E r \in Receipts : Drift(r) \/ \E s \in 0..Unix(now) : DryRun(r, s)
       \/ \E c \in calls :
             PrepareRefused(c) \/ \E t \in c.since..now : Prepare(c, t)
       \/ \E c \in preparing : Confirm(c)
       \/ \E a \in admitting : \E t \in a.since..now :
             Admit(a, t) \/ AdmitRefused(a, t) \/ AdmitUnchanged(a, t)
       \/ StartJob \/ ApplyCheckpoint \/ OpenJournal \/ WriteBack \/ EndJob
    /\ UNCHANGED access

ConsoleNext ==
    \/ Background \/ BootstrapExpires \/ ConsoleRestart
    \/ \E p \in Peers : PairDenied(p) \/ \E o \in Owners : Pair(p, o)
    \/ \E l \in Logins, p \in Peers :
          \/ TakeState(l, p)
          \/ \E previous \in used \cup {None} : BeginLogin(l, p, previous)
    \/ \E c \in callback :
          \/ CallbackFails(c)
          \/ \E cookie \in used \cup {None} :
                \/ EstablishRefused(c, cookie)
                \/ \E k \in Logins, o \in Owners : EstablishSession(c, k, cookie, o)
    \/ \E o \in Owners :
          \/ ApplyRequest(o) \/ Logout(o) \/ Revoke(o)
          \/ \E r \in Receipts : ConfirmRequest(o, r)

ConsoleSpec == ConsoleInit /\ [][ConsoleNext]_consoleVars

-----------------------------------------------------------------------------
\* Once a logout or a rotation has revoked the grants of a session, no job is
\* admitted for it: a confirmation in flight may still leave a grant behind,
\* but no request that could present its key authenticates any more.
LogoutIsFinal ==
    \A o \in revoked : entries[o] # None => entries[o].job = None

\* A login establishes at most one session, however often and from wherever
\* its callback is requested while the provider is being asked.
OneSessionPerLogin == \A l \in Logins : made[l] <= 1
============================================================================
