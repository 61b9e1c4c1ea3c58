----------------------------- MODULE WriteGate -----------------------------
(***************************************************************************)
(* What stands between an HTTP request and a write (memra-server): the      *)
(* session middleware, the write token that the L0 tools require            *)
(* (transport/session_open.rs, storage/session_tokens_writer.rs,            *)
(* require_write_token of service.rs) and the admission of writes           *)
(* (transport/admission.rs): a quota per fixed window, then a semaphore.    *)
(*                                                                         *)
(* A session id is a name with some number of "http:" prefixes: the         *)
(* middleware adds one to a header's value, and a client may write one      *)
(* itself, for ':' is a legal character.                                    *)
(***************************************************************************)
EXTENDS Naturals, FiniteSets

CONSTANTS
    Actor, Name, Token,
    Request,     \* tool calls that reach the server, each once
    Wants,       \* [Request -> [tool, actor, header, token]]
    Queue,       \* permits of the semaphore
    PerWindow,   \* writes_per_minute
    Window,      \* the 60 seconds of the rate window
    TTL,         \* lifetimes /session/open grants
    MaxTime,     \* bound on the clock
    Absent       \* no header, no token

Sid == [http : Nat, name : Name]
\* "http-fallback:<actor>-<nanos>", which no client has as a header.
Fallback == [http |-> 0, name |-> Absent]
Want == [tool : {"l0", "plain"}, actor : Actor, header : Sid \cup {Absent},
         token : Token \cup {Absent}]

ASSUME WriteGateAssumption ==
    /\ Queue \in Nat /\ PerWindow \in Nat /\ Window \in Nat \ {0}
    /\ MaxTime \in Nat /\ TTL \subseteq Nat \ {0}
    /\ Wants \in [Request -> Want]
    /\ IsFiniteSet(Request)
    /\ Absent \notin Actor \cup Name \cup Token \cup Sid

VARIABLES
    now,      \* wall and monotonic clock, in seconds
    tokens,   \* the session_tokens table
    start, used, \* RateLimitState
    permits,  \* free permits of the semaphore
    pc, at,   \* where a request is; the time it read for its token's expiry
    granted,  \* [Request -> when it took its quota, or Never]
    barred    \* requests that arrived with a token already revoked or expired

vars == <<now, tokens, start, used, permits, pc, at, granted, barred>>

Never == MaxTime + 1
NoToken == [sid |-> Fallback, actor |-> Absent, expires_at |-> 0, revoked |-> FALSE]
Row == [sid : Sid, actor : Actor, expires_at : Nat, revoked : BOOLEAN]

Refusals == {"missing", "expired", "revoked", "other_actor", "other_session",
             "rate_limited", "queue_full"}

TypeOK ==
    /\ now \in 0..MaxTime
    /\ tokens \in [Token -> Row \cup {NoToken}]
    /\ start \in Nat /\ used \in 0..PerWindow
    /\ permits \in 0..Queue
    /\ pc \in [Request -> {"new", "arrived", "checking", "admitted", "entering",
                           "writing", "done"} \cup Refusals]
    /\ at \in [Request -> Nat]
    /\ granted \in [Request -> 0..Never]
    /\ barred \subseteq Request

Init ==
    /\ now = 0
    /\ tokens = [t \in Token |-> NoToken]
    /\ start = 0 /\ used = 0 /\ permits = Queue
    /\ pc = [r \in Request |-> "new"] /\ at = [r \in Request |-> 0]
    /\ granted = [r \in Request |-> Never]
    /\ barred = {}

Goto(r, where) == pc' = [pc EXCEPT ![r] = where]
gate == <<start, used, permits, granted>>

Tick ==
    /\ now < MaxTime /\ now' = now + 1
    /\ UNCHANGED <<tokens, pc, at, barred, gate>>

----------------------------------------------------------------------------
\* POST /session/open: the row holds the session id of the request's body.
Open(t, a, sid, ttl) ==
    /\ tokens[t] = NoToken
    /\ tokens' = [tokens EXCEPT ![t] =
          [sid |-> sid, actor |-> a, expires_at |-> now + ttl, revoked |-> FALSE]]
    /\ UNCHANGED <<now, pc, at, barred, gate>>

\* session-revoke of the CLI: every token of the session, as it is stored.
Revoke(sid) ==
    /\ \E t \in Token : tokens[t] # NoToken /\ tokens[t].sid = sid /\ ~tokens[t].revoked
    /\ tokens' = [t \in Token |-> IF tokens[t] # NoToken /\ tokens[t].sid = sid
                                  THEN [tokens[t] EXCEPT !.revoked = TRUE] ELSE tokens[t]]
    /\ UNCHANGED <<now, pc, at, barred, gate>>

\* session_middleware
SessionId(header) ==
    IF header = Absent THEN Fallback ELSE [header EXCEPT !.http = @ + 1]

Barred(r) ==
    LET t == Wants[r].token
    IN  /\ t # Absent /\ tokens[t] # NoToken
        /\ tokens[t].revoked \/ tokens[t].expires_at < now

Arrive(r) ==
    /\ pc[r] = "new"
    /\ Goto(r, IF Wants[r].tool = "l0" THEN "arrived" ELSE "admitted")
    /\ barred' = IF Barred(r) THEN barred \cup {r} ELSE barred
    /\ UNCHANGED <<now, tokens, at, gate>>

\* require_write_token: the clock is read before the connection's mutex.
ReadClock(r) ==
    /\ pc[r] = "arrived"
    /\ at' = [at EXCEPT ![r] = now]
    /\ Goto(r, "checking")
    /\ UNCHANGED <<now, tokens, barred, gate>>

\* Faulty variants, one per hazard, stand before the definition they vary.
Verdict_NoRevoked(row, want, time) ==
    IF row = NoToken THEN "missing"
    ELSE IF row.expires_at < time THEN "expired"
    ELSE IF row.actor # want.actor THEN "other_actor"
    ELSE IF row.sid # SessionId(want.header) THEN "other_session"
    ELSE "admitted"

\* The early returns of validate_token, and its caller's session check.
Verdict(row, want, time) ==
    IF row = NoToken THEN "missing"
    ELSE IF row.revoked THEN "revoked"
    ELSE IF row.expires_at < time THEN "expired"
    ELSE IF row.actor # want.actor THEN "other_actor"
    ELSE IF row.sid # SessionId(want.header) THEN "other_session"
    ELSE "admitted"

Check(r) ==
    LET t == Wants[r].token
    IN  /\ pc[r] = "checking"
        /\ Goto(r, IF t = Absent THEN "missing" ELSE Verdict(tokens[t], Wants[r], at[r]))
        /\ UNCHANGED <<now, tokens, at, barred, gate>>

----------------------------------------------------------------------------
\* RateLimitState: the window is reset by the first call past its end.
Fresh == now - start >= Window
Spent == IF Fresh THEN 0 ELSE used

\* The reset leaves window_started_at alone.
TakeQuota_KeepsStart(r) ==
    /\ pc[r] = "admitted" /\ Spent < PerWindow
    /\ used' = Spent + 1
    /\ granted' = [granted EXCEPT ![r] = now]
    /\ Goto(r, "entering")
    /\ UNCHANGED <<now, tokens, start, permits, at, barred>>

\* check_rate_limit
TakeQuota(r) ==
    /\ pc[r] = "admitted" /\ Spent < PerWindow
    /\ start' = IF Fresh THEN now ELSE start
    /\ used' = Spent + 1
    /\ granted' = [granted EXCEPT ![r] = now]
    /\ Goto(r, "entering")
    /\ UNCHANGED <<now, tokens, permits, at, barred>>

NoQuota(r) ==
    /\ pc[r] = "admitted" /\ Spent >= PerWindow
    /\ start' = IF Fresh THEN now ELSE start
    /\ used' = Spent
    /\ Goto(r, "rate_limited")
    /\ UNCHANGED <<now, tokens, permits, at, granted, barred>>

\* try_acquire_owned
TakePermit(r) ==
    /\ pc[r] = "entering" /\ permits > 0
    /\ permits' = permits - 1
    /\ Goto(r, "writing")
    /\ UNCHANGED <<now, tokens, start, used, at, granted, barred>>

NoPermit_GivesOneBack(r) ==
    /\ pc[r] = "entering" /\ permits = 0
    /\ permits' = permits + 1
    /\ Goto(r, "queue_full")
    /\ UNCHANGED <<now, tokens, start, used, at, granted, barred>>

\* No permit to take: the quota is spent all the same.
NoPermit(r) ==
    /\ pc[r] = "entering" /\ permits = 0
    /\ Goto(r, "queue_full")
    /\ UNCHANGED <<now, tokens, at, barred, gate>>

\* The tool runs to its end, well or not, and the permit is dropped.
Finish(r) ==
    /\ pc[r] = "writing"
    /\ permits' = permits + 1
    /\ Goto(r, "done")
    /\ UNCHANGED <<now, tokens, start, used, at, granted, barred>>

Handle(r) ==
    \/ ReadClock(r) \/ Check(r) \/ TakeQuota(r) \/ NoQuota(r)
    \/ TakePermit(r) \/ NoPermit(r) \/ Finish(r)

Next ==
    \/ Tick
    \/ \E t \in Token, a \in Actor, n \in Name, h \in 0..1, ttl \in TTL :
          Open(t, a, [http |-> h, name |-> n], ttl)
    \/ \E n \in Name, h \in 0..1 : Revoke([http |-> h, name |-> n])
    \/ \E r \in Request : Arrive(r) \/ Handle(r)

Spec == Init /\ [][Next]_vars
----------------------------------------------------------------------------
\* An L0 write runs on a token of the caller, for the caller's session, that
\* was neither revoked nor expired when the request came.
L0NeedsLiveToken ==
    \A r \in Request :
        Wants[r].tool = "l0" /\ pc[r] \in {"admitted", "entering", "writing", "done"} =>
            /\ r \notin barred /\ Wants[r].token # Absent
            /\ tokens[Wants[r].token].actor = Wants[r].actor
            /\ tokens[Wants[r].token].sid = SessionId(Wants[r].header)

\* A client of the window's edges gets through at most twice the quota in any
\* stretch as long as a window.
GrantedIn(from, to) == {r \in Request : granted[r] \in from..to}
BurstIsBounded ==
    \A i, j \in 0..MaxTime : j < i + Window => Cardinality(GrantedIn(i, j)) <= 2 * PerWindow

\* Every permit is free or with a request that writes: no refusal, failure or
\* interleaving leaks one or makes one.
PermitsAreCounted ==
    permits + Cardinality({r \in Request : pc[r] = "writing"}) = Queue

\* "Returns Ok(()) if the token is present, valid, non-expired, non-revoked,
\* and binds to the requesting actor": no request that names the session its
\* token was opened for is turned away as of another session.
OwnSessionIsAccepted ==
    \A r \in Request : pc[r] = "other_session" =>
        tokens[Wants[r].token].sid # Wants[r].header
=============================================================================
