---------------------------- MODULE Idempotency ----------------------------
(***************************************************************************)
(* The Idempotency-Key ledger of the HTTP transport                          *)
(* (memra-server/src/transport/idempotency.rs): attempts of a write carry a  *)
(* key; the first one to insert the key's row runs the handler and caches    *)
(* its response, the others replay the cached response or are turned away.  *)
(*                                                                          *)
(* The ledger is a SQLite file that outlives a server and that several       *)
(* servers may open.  Each server has one connection behind a mutex; every   *)
(* SQL statement of begin_request commits on its own, so two servers         *)
(* interleave between them.  An attempt's future may be dropped at the two   *)
(* awaits (the handler, reading its body), and a server may die anywhere.    *)
(***************************************************************************)
EXTENDS Naturals, FiniteSets

CONSTANTS
    Attempt,    \* HTTP requests, each tried once by a client
    Server,     \* processes with the ledger open
    Key, Body,  \* scoped keys (project, actor, raw key) and request hashes
    ServerOf, KeyOf, BodyOf,
    TTL,        \* IDEMPOTENCY_TTL_SECONDS
    MaxTime,    \* bound on the clock
    Nobody      \* no attempt

ASSUME IdempotencyAssumption ==
    /\ TTL \in Nat \ {0} /\ MaxTime \in Nat
    /\ ServerOf \in [Attempt -> Server]
    /\ KeyOf \in [Attempt -> Key] /\ BodyOf \in [Attempt -> Body]
    /\ Nobody \notin Attempt

VARIABLES
    ledger,  \* the rows: `by' inserted it, `response' is the cached one's attempt
    now,     \* wall clock
    mutex,   \* [Server -> holder of the ledger connection]
    pc,      \* where each attempt is
    at,      \* the time an attempt passed to begin_request
    ran,     \* the time its row was inserted
    out,     \* what its handler produced
    fin,     \* the time it stopped running, 0 if it never ran
    answer,  \* what its client was told
    effect   \* attempts whose write took effect

vars == <<ledger, now, mutex, pc, at, ran, out, fin, answer, effect>>

NoRow == [by |-> Nobody, response |-> Nobody, expires_at |-> 0]
Rows  == [by : Attempt, response : Attempt \cup {Nobody}, expires_at : Nat]
\* "ok" a 2xx with the write done; "refused" a 2xx that carries a tool error
\* (WriteQueueFull, WriteRateLimited, an expired write token, a failed write);
\* "failed" a non-2xx; "unreadable" a body that cannot be read to its end;
\* "unsaved" a 2xx that store_response could not record.
Outcomes == {"none", "ok", "refused", "failed", "unreadable", "unsaved"}
Running  == {"running", "caching", "releasing"}
Answers  == [kind : {"none", "fresh", "replay", "busy", "conflict", "error"},
             from : Attempt \cup {Nobody}]

TypeOK ==
    /\ ledger \in [Key -> Rows \cup {NoRow}]
    /\ now \in Nat
    /\ mutex \in [Server -> Attempt \cup {Nobody}]
    /\ pc \in [Attempt -> {"new", "waiting", "looking", "inserting", "orphan",
                           "done", "gone"} \cup Running]
    /\ at \in [Attempt -> Nat] /\ ran \in [Attempt -> Nat] /\ fin \in [Attempt -> Nat]
    /\ out \in [Attempt -> Outcomes]
    /\ answer \in [Attempt -> Answers]
    /\ effect \subseteq Attempt

Init ==
    /\ ledger = [k \in Key |-> NoRow]
    /\ now = 0
    /\ mutex = [s \in Server |-> Nobody]
    /\ pc = [r \in Attempt |-> "new"]
    /\ at = [r \in Attempt |-> 0] /\ ran = [r \in Attempt |-> 0] /\ fin = [r \in Attempt |-> 0]
    /\ out = [r \in Attempt |-> "none"]
    /\ answer = [r \in Attempt |-> [kind |-> "none", from |-> Nobody]]
    /\ effect = {}

Row(r)   == ledger[KeyOf[r]]
Free(s)  == mutex' = [mutex EXCEPT ![s] = Nobody]
Tell(r, kind, from) ==
    /\ answer' = [answer EXCEPT ![r] = [kind |-> kind, from |-> from]]
    /\ pc' = [pc EXCEPT ![r] = "done"]

Tick ==
    /\ now < MaxTime
    /\ now' = now + 1
    /\ UNCHANGED <<ledger, mutex, pc, at, ran, out, fin, answer, effect>>

\* The middleware reads the clock before begin_request takes the mutex.
Arrive(r) ==
    /\ pc[r] = "new"
    /\ pc' = [pc EXCEPT ![r] = "waiting"]
    /\ at' = [at EXCEPT ![r] = now]
    /\ UNCHANGED <<ledger, now, mutex, ran, out, fin, answer, effect>>

\* Faulty variants, one per hazard, stand before the definition they vary.
Expired_Early(row, t) == row.expires_at <= t + 1

\* begin_request: take the mutex and delete every row expired at `at'.
Expired(row, t) == row.expires_at <= t

Sweep(r) ==
    /\ pc[r] = "waiting" /\ mutex[ServerOf[r]] = Nobody
    /\ mutex' = [mutex EXCEPT ![ServerOf[r]] = r]
    /\ ledger' = [k \in Key |-> IF Expired(ledger[k], at[r]) THEN NoRow ELSE ledger[k]]
    /\ pc' = [pc EXCEPT ![r] = "looking"]
    /\ UNCHANGED <<now, at, ran, out, fin, answer, effect>>

\* The hash comparison forgotten.
SameRequest_AnyBody(r, row) == {r, row.by} \subseteq Attempt

\* begin_request: the SELECT and its early returns.
SameRequest(r, row) == BodyOf[row.by] = BodyOf[r]

Lookup(r) ==
    /\ pc[r] = "looking"
    /\ \/ /\ Row(r).by = Nobody
          /\ pc' = [pc EXCEPT ![r] = "inserting"]
          /\ UNCHANGED <<mutex, answer>>
       \/ /\ Row(r).by # Nobody
          /\ Free(ServerOf[r])
          /\ IF ~SameRequest(r, Row(r)) THEN Tell(r, "conflict", Nobody)
             ELSE IF Row(r).response # Nobody THEN Tell(r, "replay", Row(r).response)
             ELSE Tell(r, "busy", Nobody)
    /\ UNCHANGED <<ledger, now, at, ran, out, fin, effect>>

\* INSERT OR REPLACE: the row of the other server is taken over.
Insert_OrReplace(r) ==
    /\ pc[r] = "inserting"
    /\ Free(ServerOf[r])
    /\ ledger' = [ledger EXCEPT ![KeyOf[r]] =
            [by |-> r, response |-> Nobody, expires_at |-> at[r] + TTL]]
    /\ pc' = [pc EXCEPT ![r] = "running"]
    /\ ran' = [ran EXCEPT ![r] = now]
    /\ UNCHANGED <<now, at, out, fin, answer, effect>>

\* The early return keeps the connection.
BeginFails_KeepsMutex(r) ==
    /\ pc[r] \in {"looking", "inserting"}
    /\ Tell(r, "error", Nobody)
    /\ UNCHANGED <<ledger, now, mutex, at, ran, out, fin, effect>>

\* begin_request: the INSERT.  The key is the primary key, so the statement
\* fails when another server inserted the row after this one's SELECT.
Insert(r) ==
    /\ pc[r] = "inserting"
    /\ Free(ServerOf[r])
    /\ \/ /\ Row(r).by = Nobody
          /\ ledger' = [ledger EXCEPT ![KeyOf[r]] =
                [by |-> r, response |-> Nobody, expires_at |-> at[r] + TTL]]
          /\ pc' = [pc EXCEPT ![r] = "running"]
          /\ ran' = [ran EXCEPT ![r] = now]
          /\ UNCHANGED answer
       \/ /\ Row(r).by # Nobody
          /\ Tell(r, "error", Nobody)
          /\ UNCHANGED <<ledger, ran>>
    /\ UNCHANGED <<now, at, out, fin, effect>>

\* A statement of begin_request fails: 500, no row of this attempt.
BeginFails(r) ==
    /\ pc[r] \in {"looking", "inserting"}
    /\ Free(ServerOf[r])
    /\ Tell(r, "error", Nobody)
    /\ UNCHANGED <<ledger, now, at, ran, out, fin, effect>>

\* next.run(request): the handler's outcome, and whether the write happened.
Did(o) == o \in {"ok", "unreadable"}

Handle(r) ==
    /\ pc[r] = "running"
    /\ \E o \in {"ok", "refused", "failed", "unreadable"} :
          /\ out' = [out EXCEPT ![r] = o]
          /\ effect' = IF Did(o) THEN effect \cup {r} ELSE effect
    /\ pc' = [pc EXCEPT ![r] = "caching"]
    /\ UNCHANGED <<ledger, now, mutex, at, ran, fin, answer>>

\* cache_response: read the body (an await), then store a 2xx or release.
Cacheable(o) == o \in {"ok", "refused"}

Answered(r) ==
    /\ Tell(r, IF out[r] = "unreadable" THEN "error" ELSE "fresh", r)
    /\ fin' = [fin EXCEPT ![r] = now]

\* The UPDATE written as an upsert: a response without a request hash.
Store_Upsert(r) ==
    /\ pc[r] = "caching" /\ Cacheable(out[r]) /\ mutex[ServerOf[r]] = Nobody
    /\ ledger' = [ledger EXCEPT ![KeyOf[r]].response = r]
    /\ Answered(r)
    /\ UNCHANGED <<now, mutex, at, ran, out, effect>>

\* store_response: UPDATE by key.  No row to update is an error, as is a
\* failed statement; then the slot is released.
Store(r) ==
    /\ pc[r] = "caching" /\ Cacheable(out[r]) /\ mutex[ServerOf[r]] = Nobody
    /\ \/ /\ Row(r).by # Nobody
          /\ ledger' = [ledger EXCEPT ![KeyOf[r]].response = r]
          /\ Answered(r)
          /\ UNCHANGED out
       \/ /\ out' = [out EXCEPT ![r] = "unsaved"]
          /\ pc' = [pc EXCEPT ![r] = "releasing"]
          /\ UNCHANGED <<ledger, fin, answer>>
    /\ UNCHANGED <<now, mutex, at, ran, effect>>

\* release_failed: DELETE by key.  Its own failure is only logged.
Release(r) ==
    /\ pc[r] \in {"caching", "releasing"} /\ ~Cacheable(out[r])
    /\ mutex[ServerOf[r]] = Nobody
    /\ ledger' \in {ledger, [ledger EXCEPT ![KeyOf[r]] = NoRow]}
    /\ Answered(r)
    /\ UNCHANGED <<now, mutex, at, ran, out, effect>>

\* The client hangs up and the future is dropped at an await.  The tool runs
\* in a task of its own, which goes on.
Drop(r) ==
    /\ pc[r] \in {"running", "caching"}
    /\ pc' = [pc EXCEPT ![r] = IF pc[r] = "running" THEN "orphan" ELSE "gone"]
    /\ fin' = [fin EXCEPT ![r] = now]
    /\ UNCHANGED <<ledger, now, mutex, at, ran, out, answer, effect>>

OrphanEnds(r) ==
    /\ pc[r] = "orphan"
    /\ effect' \in {effect, effect \cup {r}}
    /\ pc' = [pc EXCEPT ![r] = "gone"]
    /\ UNCHANGED <<ledger, now, mutex, at, ran, out, fin, answer>>

\* The server dies with all its requests; the ledger file stays as it is, and
\* the restarted server opens it without touching a row.
Crash(s) ==
    LET dead == {r \in Attempt : ServerOf[r] = s /\ pc[r] \notin {"new", "done", "gone"}}
    IN  /\ dead # {}
        /\ pc' = [r \in Attempt |-> IF r \in dead THEN "gone" ELSE pc[r]]
        /\ fin' = [r \in Attempt |-> IF r \in dead /\ pc[r] \in Running THEN now ELSE fin[r]]
        /\ \E did \in SUBSET {r \in dead : pc[r] \in {"running", "orphan"}} :
              effect' = effect \cup did
        /\ Free(s)
        /\ UNCHANGED <<ledger, now, at, ran, out, answer>>

Work(r) ==
    \/ Sweep(r) \/ Lookup(r) \/ Insert(r) \/ BeginFails(r)
    \/ Handle(r) \/ Store(r) \/ Release(r)

Next ==
    \/ Tick
    \/ \E r \in Attempt : Arrive(r) \/ Work(r) \/ Drop(r) \/ OrphanEnds(r)
    \/ \E s \in Server : Crash(s)

Spec == Init /\ [][Next]_vars

\* A request that has arrived is served: the mutex queue is fair, statements
\* return, handlers end.  Clients, clocks and crashes are not obliged.
FairSpec == Spec /\ \A r \in Attempt : SF_vars(Sweep(r) \/ Store(r) \/ Release(r))
                                    /\ WF_vars(Work(r))

----------------------------------------------------------------------------
Rivals(r) == {s \in Attempt \ {r} : KeyOf[s] = KeyOf[r]}

\* An attempt that held a key for longer than its row lived (`fin' stays 0,
\* and less than TTL, for one that never held it).
Overran(r)  == (IF pc[r] \in Running THEN now ELSE fin[r]) >= at[r] + TTL
KeyOverran(r) == \E s \in Attempt : KeyOf[s] = KeyOf[r] /\ Overran(s)

\* Two servers and any interleaving of begin_request never let two attempts
\* of one key run at once, unless a handler outlived its row's TTL.
Exclusive ==
    \A r \in Attempt : pc[r] \in Running /\ ~KeyOverran(r) =>
        \A s \in Rivals(r) : pc[s] \notin Running

\* A replayed response is one that an attempt with the same key and the same
\* body was given, started less than a TTL before (same exception).
ReplayIsFaithful ==
    \A r \in Attempt : answer[r].kind = "replay" /\ ~KeyOverran(r) =>
        LET s == answer[r].from
        IN  /\ s \in Rivals(r) /\ BodyOf[s] = BodyOf[r]
            /\ out[s] \in {"ok", "refused"}
            /\ answer[s] = [kind |-> "fresh", from |-> s]
            /\ at[r] < at[s] + TTL

\* Retries of a key do the write once, unless its response was lost before
\* it was cached, the retry came a TTL later, or a handler overran.
WritesOnce ==
    \A r \in effect : \A s \in Rivals(r) \cap effect :
        \/ KeyOverran(r)
        \/ ran[r] >= at[s] + TTL \/ ran[s] >= at[r] + TTL
        \/ out[r] \in {"unreadable", "unsaved"} \/ out[s] \in {"unreadable", "unsaved"}

\* A served attempt is answered, unless its client left or its server died.
Served == \A r \in Attempt :
    pc[r] = "waiting" ~> (answer[r].kind # "none" \/ pc[r] \in {"orphan", "gone"})

\* "rather than replaying a cached error": an error answer is never replayed.
ErrorsNotReplayed ==
    \A r \in Attempt : answer[r].kind = "replay" => out[answer[r].from] = "ok"
=============================================================================
