------------------------- MODULE IdempotencyProofs -------------------------
(***************************************************************************)
(* Theorems of Idempotency, for every set of attempts, servers, keys and    *)
(* bodies and every TTL.                                                    *)
(***************************************************************************)
EXTENDS Idempotency, TLAPS

\* An attempt's times are past, and one that has not arrived has none.
Clock ==
    \A r \in Attempt : /\ at[r] <= now /\ fin[r] <= now
                       /\ pc[r] = "new" => fin[r] = 0

\* The attempt at work on a key owns the key's row, which is still empty and
\* not expired: Exclusive alone does not say what keeps a rival's INSERT out.
Holds ==
    \A r \in Attempt : pc[r] \in Running /\ ~KeyOverran(r) =>
        Row(r) = [by |-> r, response |-> Nobody, expires_at |-> at[r] + TTL]

IInv == TypeOK /\ Clock /\ Holds

\* A key that was overrun stays so: an attempt's clock stops with it.
LEMMA OverrunStays ==
    ASSUME TypeOK, Clock,
           now' \in Nat, now <= now',
           NEW r \in Attempt,
           \A s \in Attempt :
              /\ at'[s] = at[s] \/ (pc[s] = "new" /\ at'[s] \in Nat)
              /\ \/ pc'[s] = pc[s] /\ fin'[s] = fin[s]
                 \/ fin'[s] = fin[s] /\ pc[s] \notin Running
                 \/ pc'[s] \in Running
                 \/ fin'[s] = now
           PROVE KeyOverran(r) => KeyOverran(r)'
<1>1. ASSUME NEW s \in Attempt, Overran(s) PROVE Overran(s)'
    <2>1. /\ at[s] \in Nat /\ fin[s] \in Nat /\ now \in Nat /\ TTL \in Nat \ {0}
          /\ at[s] <= now /\ fin[s] <= now
        BY IdempotencyAssumption DEF TypeOK, Clock
    <2>2. pc[s] # "new"
        BY <1>1, <2>1 DEF Overran, Clock, Running
    <2>3. at'[s] = at[s]
        BY <2>2
    <2>4. now >= at[s] + TTL
        BY <1>1, <2>1 DEF Overran
    <2>5. QED
        BY <1>1, <2>1, <2>3, <2>4 DEF Overran
<1>2. QED
    BY <1>1 DEF KeyOverran

\* What one attempt's step must show for Holds: the row of every attempt still
\* at work, on a key that was not overrun before, is untouched.
LEMMA HoldsKept ==
    ASSUME TypeOK, Clock, Holds,
           now' \in Nat, now <= now',
           \A s \in Attempt :
              /\ at'[s] = at[s] \/ (pc[s] = "new" /\ at'[s] \in Nat)
              /\ \/ pc'[s] = pc[s] /\ fin'[s] = fin[s]
                 \/ fin'[s] = fin[s] /\ pc[s] \notin Running
                 \/ pc'[s] \in Running
                 \/ fin'[s] = now,
           \A s \in Attempt : pc'[s] \in Running /\ ~KeyOverran(s) =>
              \/ pc[s] \in Running /\ at'[s] = at[s]
                    /\ ledger'[KeyOf[s]] = ledger[KeyOf[s]]
              \/ ledger'[KeyOf[s]] =
                    [by |-> s, response |-> Nobody, expires_at |-> at'[s] + TTL]
           PROVE Holds'
<1> SUFFICES ASSUME NEW r \in Attempt, (pc[r] \in Running)', ~KeyOverran(r)'
             PROVE  Row(r)' = [by |-> r, response |-> Nobody,
                               expires_at |-> at'[r] + TTL]
    BY DEF Holds
<1>1. ~KeyOverran(r)
    BY OverrunStays
<1>2. pc'[r] \in Running
    OBVIOUS
<1>3. QED
    BY <1>1, <1>2 DEF Holds, Row

----------------------------------------------------------------------------
\* What Holds says of one attempt.
LEMMA Owned ==
    ASSUME IInv, NEW r \in Attempt, pc[r] \in Running, ~KeyOverran(r)
    PROVE  /\ ledger[KeyOf[r]].by = r
           /\ ledger[KeyOf[r]].expires_at = at[r] + TTL
<1>1. Row(r) = [by |-> r, response |-> Nobody, expires_at |-> at[r] + TTL]
    BY DEF IInv, Holds
<1>2. QED
    BY <1>1 DEF Row

LEMMA InitIInv == Init => IInv
BY IdempotencyAssumption DEF Init, IInv, TypeOK, Clock, Holds, NoRow, Answers,
                             Outcomes, Running

LEMMA TickIInv == ASSUME IInv, Tick PROVE IInv'
<1>1. TypeOK' /\ Clock'
    BY DEF IInv, TypeOK, Clock, Tick
<1>2. Holds'
    BY HoldsKept DEF IInv, TypeOK, Tick
<1>3. QED
    BY <1>1, <1>2 DEF IInv

LEMMA ArriveIInv == ASSUME IInv, NEW r \in Attempt, Arrive(r) PROVE IInv'
<1>1. TypeOK' /\ Clock'
    BY DEF IInv, TypeOK, Clock, Arrive
<1>2. Holds'
    BY HoldsKept DEF IInv, TypeOK, Arrive, Running
<1>3. QED
    BY <1>1, <1>2 DEF IInv

LEMMA SweepIInv == ASSUME IInv, NEW r \in Attempt, Sweep(r) PROVE IInv'
<1>1. TypeOK' /\ Clock'
    BY IdempotencyAssumption DEF IInv, TypeOK, Clock, Sweep
<1>2. ASSUME NEW s \in Attempt, pc'[s] \in Running, ~KeyOverran(s)
      PROVE  ledger'[KeyOf[s]] = ledger[KeyOf[s]] /\ pc[s] \in Running
    <2>1. pc[s] \in Running
        BY <1>2 DEF Sweep, Running, IInv, TypeOK
    <2>2. ledger[KeyOf[s]].expires_at = at[s] + TTL
        BY <1>2, <2>1, Owned
    <2>3. ~(now >= at[s] + TTL)
        BY <1>2, <2>1 DEF KeyOverran, Overran
    <2>4. ~Expired(ledger[KeyOf[s]], at[r])
        BY <2>2, <2>3, IdempotencyAssumption DEF Expired, IInv, TypeOK, Clock
    <2>5. QED
        BY <2>1, <2>4, IdempotencyAssumption DEF Sweep
<1>3. Holds'
    BY <1>2, HoldsKept DEF IInv, TypeOK, Sweep, Running
<1>4. QED
    BY <1>1, <1>3 DEF IInv

LEMMA LookupIInv == ASSUME IInv, NEW r \in Attempt, Lookup(r) PROVE IInv'
<1>1. Row(r).response \in Attempt \cup {Nobody}
    BY IdempotencyAssumption DEF IInv, TypeOK, Row, Rows, NoRow
<1>2. TypeOK' /\ Clock'
    <2>1. CASE Row(r).by = Nobody
        BY <2>1 DEF IInv, TypeOK, Clock, Lookup, Running
    <2>2. CASE Row(r).by # Nobody
        <3>1. PICK kind \in {"conflict", "replay", "busy"},
                   from \in Attempt \cup {Nobody} : Tell(r, kind, from)
            BY <1>1, <2>2 DEF Lookup
        <3>2. QED
            BY <2>2, <3>1 DEF IInv, TypeOK, Clock, Lookup, Tell, Free, Answers, Running
    <2>3. QED
        BY <2>1, <2>2
<1>3. Holds'
    BY HoldsKept DEF IInv, TypeOK, Lookup, Tell, Running
<1>4. QED
    BY <1>2, <1>3 DEF IInv

LEMMA InsertIInv == ASSUME IInv, NEW r \in Attempt, Insert(r) PROVE IInv'
<1>1. TypeOK' /\ Clock'
    <2>1. CASE Tell(r, "error", Nobody) /\ UNCHANGED <<ledger, ran>>
        BY <2>1 DEF IInv, TypeOK, Clock, Insert, Tell, Free, Answers, Running
    <2>2. CASE /\ ledger' = [ledger EXCEPT ![KeyOf[r]] =
                    [by |-> r, response |-> Nobody, expires_at |-> at[r] + TTL]]
               /\ pc' = [pc EXCEPT ![r] = "running"]
               /\ ran' = [ran EXCEPT ![r] = now]
               /\ UNCHANGED answer
        <3>1. [by |-> r, response |-> Nobody, expires_at |-> at[r] + TTL] \in Rows
            BY IdempotencyAssumption DEF Rows, IInv, TypeOK
        <3>2. QED
            BY <2>2, <3>1 DEF IInv, TypeOK, Clock, Insert, Free, Running
    <2>3. QED
        BY <2>1, <2>2 DEF Insert
<1>2. ASSUME NEW s \in Attempt, pc'[s] \in Running, ~KeyOverran(s)
      PROVE  \/ pc[s] \in Running /\ ledger'[KeyOf[s]] = ledger[KeyOf[s]]
             \/ ledger'[KeyOf[s]] =
                    [by |-> s, response |-> Nobody, expires_at |-> at[s] + TTL]
    <2>1. CASE s = r
        BY <1>2, <2>1, IdempotencyAssumption
           DEF Insert, Tell, Running, IInv, TypeOK, Row
    <2>2. CASE s # r
        <3>1. pc[s] \in Running
            BY <1>2, <2>2 DEF Insert, Tell, IInv, TypeOK
        <3>2. ledger[KeyOf[s]].by = s
            BY <1>2, <3>1, Owned
        <3>3. s # Nobody
            BY IdempotencyAssumption
        <3>4. ledger'[KeyOf[s]] = ledger[KeyOf[s]]
            BY <3>2, <3>3, IdempotencyAssumption DEF Insert, Row, IInv, TypeOK
        <3>5. QED
            BY <3>1, <3>4
    <2>3. QED
        BY <2>1, <2>2
<1>3. Holds'
    BY <1>2, HoldsKept DEF IInv, TypeOK, Insert, Tell, Running
<1>4. QED
    BY <1>1, <1>3 DEF IInv

LEMMA BeginFailsIInv == ASSUME IInv, NEW r \in Attempt, BeginFails(r) PROVE IInv'
<1>1. TypeOK' /\ Clock'
    BY DEF IInv, TypeOK, Clock, BeginFails, Tell, Free, Answers, Running
<1>2. Holds'
    BY HoldsKept DEF IInv, TypeOK, BeginFails, Tell, Running
<1>3. QED
    BY <1>1, <1>2 DEF IInv

LEMMA HandleIInv == ASSUME IInv, NEW r \in Attempt, Handle(r) PROVE IInv'
<1>1. TypeOK' /\ Clock'
    BY DEF IInv, TypeOK, Clock, Handle, Outcomes, Running
<1>2. Holds'
    BY HoldsKept DEF IInv, TypeOK, Handle, Running
<1>3. QED
    BY <1>1, <1>2 DEF IInv

\* Storing and releasing touch the row of the attempt's own key, which no
\* other attempt is at work on.
LEMMA Alone ==
    ASSUME IInv, NEW r \in Attempt, NEW s \in Attempt, KeyOf[r] = KeyOf[s],
           pc[r] \in Running, pc[s] \in Running, ~KeyOverran(r)
    PROVE  r = s
<1>1. ~KeyOverran(s)
    BY DEF KeyOverran
<1>2. ledger[KeyOf[r]].by = r /\ ledger[KeyOf[s]].by = s
    BY <1>1, Owned
<1>3. QED
    BY <1>2

LEMMA StoreIInv == ASSUME IInv, NEW r \in Attempt, Store(r) PROVE IInv'
<1>1. KeyOf[r] \in Key
    BY IdempotencyAssumption
<1>2. TypeOK' /\ Clock'
    <2>1. CASE out' = out
        <3>1. Row(r).by # Nobody /\ Answered(r)
              /\ ledger' = [ledger EXCEPT ![KeyOf[r]].response = r]
            BY <2>1 DEF Store, Cacheable, IInv, TypeOK
        <3>2. Row(r) \in Rows
            BY <1>1, <3>1 DEF IInv, TypeOK, Row, NoRow
        <3>3. [Row(r) EXCEPT !.response = r] \in Rows
            BY <3>2 DEF Rows
        <3>4. ledger' \in [Key -> Rows \cup {NoRow}]
            BY <1>1, <3>1, <3>3 DEF IInv, TypeOK, Row
        <3>5. QED
            BY <3>1, <3>4
               DEF IInv, TypeOK, Clock, Store, Answered, Tell, Answers, Running
    <2>2. CASE out' # out
        BY <2>2 DEF IInv, TypeOK, Clock, Store, Running, Outcomes
    <2>3. QED
        BY <2>1, <2>2
<1>3. ASSUME NEW s \in Attempt, pc'[s] \in Running, ~KeyOverran(s)
      PROVE  pc[s] \in Running /\ ledger'[KeyOf[s]] = ledger[KeyOf[s]]
    <2>1. pc[s] \in Running
        BY <1>3 DEF Store, Answered, Tell, Running, IInv, TypeOK
    <2>2. CASE s = r
        BY <1>3, <2>1, <2>2 DEF Store, Answered, Tell, Running, IInv, TypeOK
    <2>3. CASE s # r
        <3>1. KeyOf[s] # KeyOf[r]
            BY <1>3, <2>1, <2>3, Alone DEF Store, Running
        <3>2. QED
            BY <2>1, <3>1, IdempotencyAssumption DEF Store, IInv, TypeOK
    <2>4. QED
        BY <2>2, <2>3
<1>4. Holds'
    BY <1>3, HoldsKept DEF IInv, TypeOK, Store, Answered, Tell, Running
<1>5. QED
    BY <1>2, <1>4 DEF IInv

LEMMA ReleaseIInv == ASSUME IInv, NEW r \in Attempt, Release(r) PROVE IInv'
<1>1. TypeOK' /\ Clock'
    BY IdempotencyAssumption
       DEF IInv, TypeOK, Clock, Release, Answered, Tell, Answers, Rows, NoRow,
           Running
<1>2. ASSUME NEW s \in Attempt, pc'[s] \in Running, ~KeyOverran(s)
      PROVE  pc[s] \in Running /\ ledger'[KeyOf[s]] = ledger[KeyOf[s]]
    <2>1. pc[s] \in Running /\ s # r
        BY <1>2 DEF Release, Answered, Tell, Running, IInv, TypeOK
    <2>2. KeyOf[s] # KeyOf[r]
        BY <1>2, <2>1, Alone DEF Release, Running
    <2>3. QED
        BY <2>1, <2>2, IdempotencyAssumption DEF Release, IInv, TypeOK
<1>3. Holds'
    BY <1>2, HoldsKept DEF IInv, TypeOK, Release, Answered, Tell, Running
<1>4. QED
    BY <1>1, <1>3 DEF IInv

LEMMA DropIInv == ASSUME IInv, NEW r \in Attempt, Drop(r) PROVE IInv'
<1>1. TypeOK' /\ Clock'
    BY DEF IInv, TypeOK, Clock, Drop, Running
<1>2. Holds'
    BY HoldsKept DEF IInv, TypeOK, Drop, Running
<1>3. QED
    BY <1>1, <1>2 DEF IInv

LEMMA OrphanEndsIInv ==
    ASSUME IInv, NEW r \in Attempt, OrphanEnds(r) PROVE IInv'
<1>1. TypeOK' /\ Clock'
    BY DEF IInv, TypeOK, Clock, OrphanEnds, Running
<1>2. Holds'
    BY HoldsKept DEF IInv, TypeOK, OrphanEnds, Running
<1>3. QED
    BY <1>1, <1>2 DEF IInv

LEMMA CrashIInv == ASSUME IInv, NEW s \in Server, Crash(s) PROVE IInv'
<1>1. TypeOK' /\ Clock'
    BY DEF IInv, TypeOK, Clock, Crash, Free, Running
<1>2. Holds'
    BY HoldsKept DEF IInv, TypeOK, Crash, Running
<1>3. QED
    BY <1>1, <1>2 DEF IInv

LEMMA Inductive == Spec => []IInv
<1>1. IInv /\ [Next]_vars => IInv'
    <2> SUFFICES ASSUME IInv, [Next]_vars PROVE IInv'
        OBVIOUS
    <2>1. CASE UNCHANGED vars
        BY <2>1 DEF vars, IInv, TypeOK, Clock, Holds, Row, KeyOverran, Overran
    <2>2. CASE Tick
        BY <2>2, TickIInv
    <2>3. ASSUME NEW r \in Attempt, Arrive(r) \/ Work(r) \/ Drop(r) \/ OrphanEnds(r)
          PROVE  IInv'
        BY <2>3, ArriveIInv, SweepIInv, LookupIInv, InsertIInv, BeginFailsIInv,
           HandleIInv, StoreIInv, ReleaseIInv, DropIInv, OrphanEndsIInv DEF Work
    <2>4. ASSUME NEW s \in Server, Crash(s) PROVE IInv'
        BY <2>4, CrashIInv
    <2>5. QED
        BY <2>1, <2>2, <2>3, <2>4 DEF Next
<1>2. QED
    BY <1>1, InitIInv, PTL DEF Spec

----------------------------------------------------------------------------
\* The ledger, the clock and every attempt's record keep their types.
THEOREM TypeCorrect == Spec => []TypeOK
<1>1. IInv => TypeOK
    BY DEF IInv
<1>2. QED
    BY <1>1, Inductive, PTL

\* However many servers share the ledger and wherever they die, two attempts
\* of one key are at work at once only on a key that an attempt overran.
THEOREM AtMostOneAtWork == Spec => []Exclusive
<1>1. IInv => Exclusive
    BY Alone DEF Exclusive, Rivals
<1>2. QED
    BY <1>1, Inductive, PTL
----------------------------------------------------------------------------
\* What a retry is answered and what it repeats.

\* The outcome belongs to the place: a handler that runs has none yet.
Outs ==
    \A r \in Attempt :
        /\ pc[r] \in {"new", "waiting", "looking", "inserting", "running", "orphan"} =>
             out[r] = "none" /\ r \notin effect
        /\ pc[r] = "caching" => out[r] \in {"ok", "refused", "failed", "unreadable"}
        /\ pc[r] = "releasing" => out[r] = "unsaved"
        /\ r \in effect => out[r] \notin {"refused", "failed"}

\* A cached response is that of the attempt which inserted the row, and which
\* has been told the same.
Cached ==
    \A r \in Attempt : Row(r).response # Nobody /\ ~KeyOverran(r) =>
        LET s == Row(r).response
        IN  /\ s \in Attempt /\ Row(r).by = s /\ KeyOf[s] = KeyOf[r]
            /\ Row(r).expires_at = at[s] + TTL
            /\ pc[s] = "done" /\ out[s] \in {"ok", "refused"}
            /\ answer[s] = [kind |-> "fresh", from |-> s]

\* After its sweep an attempt finds no response older than its own clock
\* allows, even one that another server stores before the SELECT.
Looks ==
    \A r \in Attempt : pc[r] = "looking" /\ Row(r).response # Nobody /\ ~KeyOverran(r) =>
        at[r] < Row(r).expires_at

\* ReplayIsFaithful, and that the source has ended.
Replayed ==
    \A r \in Attempt : answer[r].kind = "replay" /\ ~KeyOverran(r) =>
        LET s == answer[r].from
        IN  /\ s \in Rivals(r) /\ BodyOf[s] = BodyOf[r]
            /\ pc[s] = "done" /\ out[s] \in {"ok", "refused"}
            /\ answer[s] = [kind |-> "fresh", from |-> s]
            /\ at[r] < at[s] + TTL

\* Nobody is told anything before arriving.
Told == \A r \in Attempt : pc[r] = "new" => answer[r].kind = "none"

RInv == IInv /\ Outs /\ Told /\ Cached /\ Looks /\ Replayed

\* Attempts that have written or still may, and whose row says so.
Wrote(r) ==
    /\ r \in effect \/ pc[r] \in Running \cup {"orphan"}
    /\ out[r] \in {"none", "ok"}

\* Their row stands until it expires: no rival deletes it before.
Marked ==
    \A r \in Attempt : Wrote(r) /\ ~KeyOverran(r) =>
        \/ Row(r).by = r /\ Row(r).expires_at = at[r] + TTL
        \/ now >= at[r] + TTL

Apart ==
    \A r \in Attempt : \A s \in Rivals(r) :
        Wrote(r) /\ Wrote(s) /\ ~KeyOverran(r) =>
            ran[r] >= at[s] + TTL \/ ran[s] >= at[r] + TTL

WInv == RInv /\ Marked /\ Apart

----------------------------------------------------------------------------
LEMMA NextIInv == ASSUME IInv, [Next]_vars PROVE IInv'
<1>1. CASE UNCHANGED vars
    BY <1>1 DEF vars, IInv, TypeOK, Clock, Holds, Row, KeyOverran, Overran
<1>2. QED
    BY <1>1, TickIInv, ArriveIInv, SweepIInv, LookupIInv, InsertIInv, BeginFailsIInv,
       HandleIInv, StoreIInv, ReleaseIInv, DropIInv, OrphanEndsIInv, CrashIInv
       DEF Next, Work

\* Time goes on, arrival times stay, and an overrun key stays so.
LEMMA TimeGoesOn ==
    ASSUME IInv, [Next]_vars
    PROVE  /\ now' \in Nat /\ now <= now'
           /\ \A r \in Attempt : pc[r] # "new" => at'[r] = at[r] /\ pc'[r] # "new"
           /\ \A r \in Attempt : KeyOverran(r) => KeyOverran(r)'
<1>1. now' \in Nat /\ now <= now'
    <2>1. Tick \/ now' = now
        BY DEF Next, Work, vars, Arrive, Sweep, Lookup, Insert,
               BeginFails, Handle, Store, Release, Drop, OrphanEnds, Crash
    <2>2. now \in Nat
        BY DEF IInv, TypeOK
    <2>3. QED
        BY <2>1, <2>2 DEF Tick
<1>2. ASSUME NEW s \in Attempt
      PROVE  /\ at'[s] = at[s] \/ (pc[s] = "new" /\ at'[s] \in Nat)
             /\ \/ pc'[s] = pc[s] /\ fin'[s] = fin[s]
                \/ fin'[s] = fin[s] /\ pc[s] \notin Running
                \/ pc'[s] \in Running
                \/ fin'[s] = now
             /\ pc[s] # "new" => pc'[s] # "new"
    <2>1. CASE UNCHANGED vars \/ Tick
        BY <2>1 DEF vars, Tick
    <2>2. ASSUME NEW r \in Attempt, Arrive(r) \/ Sweep(r) \/ Lookup(r) \/ BeginFails(r)
          PROVE  <1>2!2
        BY <2>2 DEF Arrive, Sweep, Lookup, BeginFails, Tell, Running, IInv, TypeOK
    <2>3. ASSUME NEW r \in Attempt, Insert(r) \/ Handle(r) \/ Drop(r) \/ OrphanEnds(r)
          PROVE  <1>2!2
        BY <2>3 DEF Insert, Handle, Drop, OrphanEnds, Tell, Running, IInv, TypeOK
    <2>4. ASSUME NEW r \in Attempt, Store(r) \/ Release(r) PROVE <1>2!2
        BY <2>4 DEF Store, Release, Answered, Tell, Running, IInv, TypeOK
    <2>5. ASSUME NEW v \in Server, Crash(v) PROVE <1>2!2
        BY <2>5 DEF Crash, Running, IInv, TypeOK
    <2>6. QED
        BY <2>1, <2>2, <2>3, <2>4, <2>5 DEF Next, Work
<1>3. \A r \in Attempt : KeyOverran(r) => KeyOverran(r)'
    BY <1>1, <1>2, OverrunStays DEF IInv
<1>4. QED
    BY <1>1, <1>2, <1>3

----------------------------------------------------------------------------
LEMMA OutsKept == ASSUME TypeOK, Outs, [Next]_vars PROVE Outs'
<1>1. CASE UNCHANGED vars \/ Tick
    BY <1>1 DEF vars, Tick, Outs
<1>2. ASSUME NEW r \in Attempt, Arrive(r) \/ Sweep(r) \/ Lookup(r) \/ BeginFails(r)
      PROVE  Outs'
    BY <1>2 DEF Arrive, Sweep, Lookup, BeginFails, Tell, Outs, TypeOK
<1>3. ASSUME NEW r \in Attempt, Insert(r) \/ Drop(r) \/ OrphanEnds(r) PROVE Outs'
    BY <1>3 DEF Insert, Drop, OrphanEnds, Tell, Outs, TypeOK
<1>4. ASSUME NEW r \in Attempt, Handle(r) PROVE Outs'
    BY <1>4 DEF Handle, Did, Outs, TypeOK
<1>5. ASSUME NEW r \in Attempt, Store(r) \/ Release(r) PROVE Outs'
    BY <1>5 DEF Store, Release, Answered, Tell, Cacheable, Outs, TypeOK
<1>6. ASSUME NEW s \in Server, Crash(s) PROVE Outs'
    BY <1>6 DEF Crash, Outs, TypeOK
<1>7. QED
    BY <1>1, <1>2, <1>3, <1>4, <1>5, <1>6 DEF Next, Work

\* What an ended attempt has been told and where it came from is settled.
LEMMA DoneIsSettled ==
    ASSUME TypeOK, [Next]_vars, NEW s \in Attempt, pc[s] = "done"
    PROVE  UNCHANGED <<pc[s], at[s], out[s], answer[s]>>
<1>1. CASE UNCHANGED vars \/ Tick
    BY <1>1 DEF vars, Tick
<1>2. ASSUME NEW r \in Attempt, Arrive(r) \/ Sweep(r) \/ Lookup(r) \/ BeginFails(r)
      PROVE  UNCHANGED <<pc[s], at[s], out[s], answer[s]>>
    BY <1>2 DEF Arrive, Sweep, Lookup, BeginFails, Tell, TypeOK
<1>3. ASSUME NEW r \in Attempt, Insert(r) \/ Handle(r) \/ Drop(r) \/ OrphanEnds(r)
      PROVE  UNCHANGED <<pc[s], at[s], out[s], answer[s]>>
    BY <1>3 DEF Insert, Handle, Drop, OrphanEnds, Tell, TypeOK
<1>4. ASSUME NEW r \in Attempt, Store(r) \/ Release(r)
      PROVE  UNCHANGED <<pc[s], at[s], out[s], answer[s]>>
    BY <1>4 DEF Store, Release, Answered, Tell, TypeOK
<1>5. ASSUME NEW v \in Server, Crash(v)
      PROVE  UNCHANGED <<pc[s], at[s], out[s], answer[s]>>
    BY <1>5 DEF Crash, TypeOK
<1>6. QED
    BY <1>1, <1>2, <1>3, <1>4, <1>5 DEF Next, Work

\* What one step may do to the row of a key that no attempt overran: leave
\* it, drop it, insert an empty one where there was none, or store there the
\* response of the attempt that owns it.
LEMMA RowSteps ==
    ASSUME IInv, [Next]_vars, NEW k \in Key
    PROVE  \/ ledger'[k] = ledger[k]
           \/ ledger'[k] = NoRow
           \/ /\ ledger[k].by = Nobody
              /\ \E r \in Attempt : /\ KeyOf[r] = k /\ pc[r] = "inserting"
                                    /\ ledger'[k] = [by |-> r, response |-> Nobody,
                                                     expires_at |-> at[r] + TTL]
           \/ /\ ledger[k] \in Rows
              /\ \E r \in Attempt : /\ KeyOf[r] = k /\ Store(r) /\ out' = out
                                    /\ ledger'[k] = [ledger[k] EXCEPT !.response = r]
<1>1. CASE UNCHANGED ledger
    BY <1>1
<1>2. ASSUME NEW r \in Attempt, Sweep(r)
      PROVE  ledger'[k] \in {ledger[k], NoRow}
    BY <1>2 DEF Sweep
<1>3. ASSUME NEW r \in Attempt, Insert(r)
      PROVE  \/ ledger'[k] = ledger[k]
             \/ /\ ledger[k].by = Nobody /\ KeyOf[r] = k /\ pc[r] = "inserting"
                /\ ledger'[k] = [by |-> r, response |-> Nobody, expires_at |-> at[r] + TTL]
    BY <1>3, IdempotencyAssumption DEF Insert, Row, IInv, TypeOK
<1>4. ASSUME NEW r \in Attempt, Store(r)
      PROVE  \/ ledger'[k] = ledger[k]
             \/ /\ ledger[k] \in Rows /\ KeyOf[r] = k /\ out' = out
                /\ ledger'[k] = [ledger[k] EXCEPT !.response = r]
    <2>1. ledger[k] \in Rows \/ ledger[k].by = Nobody
        BY DEF IInv, TypeOK, NoRow
    <2>2. QED
        BY <1>4, <2>1, IdempotencyAssumption DEF Store, Row, IInv, TypeOK
<1>5. ASSUME NEW r \in Attempt, Release(r)
      PROVE  ledger'[k] \in {ledger[k], NoRow}
    BY <1>5, IdempotencyAssumption DEF Release, IInv, TypeOK
<1>6. \/ UNCHANGED ledger
      \/ \E r \in Attempt : Sweep(r) \/ Insert(r) \/ Store(r) \/ Release(r)
    BY DEF Next, Work, vars, Tick, Arrive, Lookup, BeginFails, Handle, Drop,
           OrphanEnds, Crash
<1>7. QED
    BY <1>1, <1>2, <1>3, <1>4, <1>5, <1>6

----------------------------------------------------------------------------
\* A store that records a response: whose row it is, and what is told.
LEMMA Stores ==
    ASSUME IInv, NEW r \in Attempt, Store(r), out' = out, ~KeyOverran(r)
    PROVE  /\ Row(r).by = r /\ Row(r).expires_at = at[r] + TTL
           /\ out[r] \in {"ok", "refused"} /\ now < at[r] + TTL
           /\ pc'[r] = "done" /\ answer'[r] = [kind |-> "fresh", from |-> r]
<1>1. pc[r] \in Running /\ out[r] \in {"ok", "refused"}
    BY DEF Store, Running, Cacheable
<1>2. Row(r).by = r /\ Row(r).expires_at = at[r] + TTL
    BY <1>1, Owned DEF Row
<1>3. Answered(r)
    BY <1>1 DEF Store, IInv, TypeOK
<1>4. ~Overran(r)
    BY DEF KeyOverran
<1>5. now < at[r] + TTL
    BY <1>1, <1>4, IdempotencyAssumption DEF Overran, IInv, TypeOK
<1>6. QED
    BY <1>1, <1>2, <1>3, <1>5 DEF Answered, Tell, IInv, TypeOK

\* A response found after a step was there before it, or is being stored.
LEMMA WhoStored ==
    ASSUME IInv, [Next]_vars, NEW r \in Attempt, Row(r)'.response # Nobody
    PROVE  \/ Row(r)' = Row(r)
           \/ \E s \in Attempt : /\ KeyOf[s] = KeyOf[r] /\ Store(s) /\ out' = out
                                 /\ Row(r) \in Rows
                                 /\ Row(r)' = [Row(r) EXCEPT !.response = s]
<1> DEFINE k == KeyOf[r]
<1>1. k \in Key /\ Row(r) = ledger[k] /\ Row(r)' = ledger'[k]
    BY IdempotencyAssumption DEF Row
<1>2. ledger'[k].response # Nobody
    BY <1>1
<1>3. ledger'[k] # NoRow
    BY <1>2 DEF NoRow
<1>4. ~ \E s \in Attempt : ledger'[k] = [by |-> s, response |-> Nobody,
                                         expires_at |-> at[s] + TTL]
    <2> HIDE DEF k
    <2>1. \A s, e : [by |-> s, response |-> Nobody, expires_at |-> e].response = Nobody
        OBVIOUS
    <2>2. QED
        BY <1>2, <2>1
<1> HIDE DEF k
<1>5. \/ ledger'[k] = ledger[k]
      \/ /\ ledger[k] \in Rows
         /\ \E s \in Attempt : /\ KeyOf[s] = k /\ Store(s) /\ out' = out
                               /\ ledger'[k] = [ledger[k] EXCEPT !.response = s]
    BY <1>1, <1>3, <1>4, RowSteps
<1>6. QED
    BY <1>1, <1>5 DEF k

LEMMA CachedKept == ASSUME RInv, [Next]_vars PROVE Cached'
<1> SUFFICES ASSUME NEW r \in Attempt, Row(r)'.response # Nobody, ~KeyOverran(r)'
             PROVE  LET s == Row(r)'.response
                    IN  /\ s \in Attempt /\ Row(r)'.by = s /\ KeyOf[s] = KeyOf[r]
                        /\ Row(r)'.expires_at = at'[s] + TTL
                        /\ pc'[s] = "done" /\ out'[s] \in {"ok", "refused"}
                        /\ answer'[s] = [kind |-> "fresh", from |-> s]
    BY DEF Cached
<1>1. ~KeyOverran(r)
    BY TimeGoesOn DEF RInv
<1>2. KeyOf[r] \in Key
    BY IdempotencyAssumption
<1>3. CASE Row(r)' = Row(r)
    <2>1. PICK s \in Attempt : s = Row(r).response
        BY <1>1, <1>3 DEF RInv, Cached
    <2>2. /\ Row(r).by = s /\ KeyOf[s] = KeyOf[r]
          /\ Row(r).expires_at = at[s] + TTL
          /\ pc[s] = "done" /\ out[s] \in {"ok", "refused"}
          /\ answer[s] = [kind |-> "fresh", from |-> s]
        BY <1>1, <1>3, <2>1 DEF RInv, Cached
    <2>3. UNCHANGED <<pc[s], at[s], out[s], answer[s]>>
        BY <2>2, DoneIsSettled DEF RInv, IInv
    <2>4. QED
        BY <1>3, <2>1, <2>2, <2>3
<1>4. ASSUME NEW s \in Attempt, KeyOf[s] = KeyOf[r], Store(s), out' = out,
             Row(r) \in Rows, Row(r)' = [Row(r) EXCEPT !.response = s]
      PROVE  /\ Row(r)'.response = s /\ Row(r)'.by = s
             /\ Row(r)'.expires_at = at'[s] + TTL
             /\ pc'[s] = "done" /\ out'[s] \in {"ok", "refused"}
             /\ answer'[s] = [kind |-> "fresh", from |-> s]
    <2>1. ~KeyOverran(s) /\ Row(s) = Row(r)
        BY <1>1, <1>4 DEF KeyOverran, Row
    <2>2. at'[s] = at[s]
        BY <1>4 DEF Store
    <2>3. QED
        BY <1>4, <2>1, <2>2, Stores DEF Rows, RInv
<1>5. QED
    <2>1. CASE Row(r)' = Row(r)
        BY <1>3, <2>1
    <2>2. ASSUME NEW s \in Attempt, KeyOf[s] = KeyOf[r], Store(s), out' = out,
                 Row(r) \in Rows, Row(r)' = [Row(r) EXCEPT !.response = s]
          PROVE  LET t == Row(r)'.response
                 IN  /\ t \in Attempt /\ Row(r)'.by = t /\ KeyOf[t] = KeyOf[r]
                     /\ Row(r)'.expires_at = at'[t] + TTL
                     /\ pc'[t] = "done" /\ out'[t] \in {"ok", "refused"}
                     /\ answer'[t] = [kind |-> "fresh", from |-> t]
        BY <1>4, <2>2
    <2>3. QED
        BY <2>1, <2>2, WhoStored DEF RInv

LEMMA LooksKept == ASSUME RInv, [Next]_vars PROVE Looks'
<1> SUFFICES ASSUME NEW r \in Attempt, pc'[r] = "looking",
                    Row(r)'.response # Nobody, ~KeyOverran(r)'
             PROVE  at'[r] < Row(r)'.expires_at
    BY DEF Looks
<1>1. ~KeyOverran(r) /\ KeyOf[r] \in Key
    BY TimeGoesOn, IdempotencyAssumption DEF RInv
<1>2. \/ pc[r] = "looking" /\ at'[r] = at[r]
      \/ Sweep(r)
    <2>1. pc[r] = "looking" \/ Sweep(r)
        <3>1. CASE UNCHANGED vars \/ Tick
            BY <3>1 DEF vars, Tick
        <3>2. ASSUME NEW q \in Attempt,
                     Arrive(q) \/ Lookup(q) \/ BeginFails(q) \/ Insert(q) \/ Handle(q)
              PROVE  pc[r] = "looking"
            BY <3>2 DEF Arrive, Lookup, BeginFails, Insert, Handle, Tell, RInv, IInv, TypeOK
        <3>3. ASSUME NEW q \in Attempt, Store(q) \/ Release(q) \/ Drop(q) \/ OrphanEnds(q)
              PROVE  pc[r] = "looking"
            BY <3>3 DEF Store, Release, Drop, OrphanEnds, Answered, Tell, RInv, IInv, TypeOK
        <3>4. ASSUME NEW q \in Attempt, Sweep(q) PROVE pc[r] = "looking" \/ Sweep(r)
            BY <3>4 DEF Sweep, RInv, IInv, TypeOK
        <3>5. ASSUME NEW v \in Server, Crash(v) PROVE pc[r] = "looking"
            BY <3>5 DEF Crash, RInv, IInv, TypeOK
        <3>6. QED
            BY <3>1, <3>2, <3>3, <3>4, <3>5 DEF Next, Work
    <2>2. QED
        BY <2>1, TimeGoesOn DEF RInv
<1>3. CASE Sweep(r)
    <2>1. Row(r)' = Row(r) /\ ~Expired(Row(r), at[r]) /\ at'[r] = at[r]
        BY <1>1, <1>3 DEF Sweep, Row, NoRow
    <2>2. at[r] \in Nat /\ Row(r).expires_at \in Nat
        BY <1>1 DEF RInv, IInv, TypeOK, Row, Rows, NoRow
    <2>3. QED
        BY <2>1, <2>2 DEF Expired
<1>4. CASE pc[r] = "looking" /\ at'[r] = at[r]
    <2>1. CASE Row(r)' = Row(r)
        BY <1>1, <1>4, <2>1 DEF RInv, Looks
    <2>2. ASSUME NEW s \in Attempt, KeyOf[s] = KeyOf[r], Store(s), out' = out,
                 Row(r) \in Rows, Row(r)' = [Row(r) EXCEPT !.response = s]
          PROVE  at'[r] < Row(r)'.expires_at
        <3>1. ~KeyOverran(s) /\ Row(s) = Row(r)
            BY <1>1, <2>2 DEF KeyOverran, Row
        <3>2. Row(r).expires_at = at[s] + TTL /\ now < at[s] + TTL
            BY <2>2, <3>1, Stores DEF RInv
        <3>3. Row(r)'.expires_at = Row(r).expires_at
            BY <2>2 DEF Rows
        <3>4. at[r] <= now /\ at[r] \in Nat /\ at[s] \in Nat /\ now \in Nat /\ TTL \in Nat
            BY IdempotencyAssumption DEF RInv, IInv, Clock, TypeOK
        <3>5. QED
            BY <1>4, <3>2, <3>3, <3>4
    <2>3. QED
        BY <2>1, <2>2, WhoStored DEF RInv
<1>5. QED
    BY <1>2, <1>3, <1>4

LEMMA ReplayedKept == ASSUME RInv, [Next]_vars PROVE Replayed'
<1> SUFFICES ASSUME NEW r \in Attempt, answer'[r].kind = "replay", ~KeyOverran(r)'
             PROVE  LET s == answer'[r].from
                    IN  /\ s \in Rivals(r) /\ BodyOf[s] = BodyOf[r]
                        /\ pc'[s] = "done" /\ out'[s] \in {"ok", "refused"}
                        /\ answer'[s] = [kind |-> "fresh", from |-> s]
                        /\ at'[r] < at'[s] + TTL
    BY DEF Replayed
<1>1. ~KeyOverran(r)
    BY TimeGoesOn DEF RInv
<1>2. ASSUME NEW s \in Attempt, s \in Rivals(r), BodyOf[s] = BodyOf[r],
             pc[s] = "done", out[s] \in {"ok", "refused"},
             answer[s] = [kind |-> "fresh", from |-> s],
             at[r] < at[s] + TTL, pc[r] # "new", answer'[r].from = s
      PROVE  LET t == answer'[r].from
             IN  /\ t \in Rivals(r) /\ BodyOf[t] = BodyOf[r]
                 /\ pc'[t] = "done" /\ out'[t] \in {"ok", "refused"}
                 /\ answer'[t] = [kind |-> "fresh", from |-> t]
                 /\ at'[r] < at'[t] + TTL
    <2>1. UNCHANGED <<pc[s], at[s], out[s], answer[s]>>
        BY <1>2, DoneIsSettled DEF RInv, IInv
    <2>2. at'[r] = at[r]
        BY <1>2, TimeGoesOn DEF RInv
    <2>3. QED
        BY <1>2, <2>1, <2>2
<1>3. CASE answer'[r] = answer[r]
    <2>1. pc[r] # "new"
        BY <1>3 DEF RInv, Told
    <2>2. QED
        BY <1>1, <1>2, <1>3, <2>1 DEF RInv, Replayed, Rivals
<1>4. CASE answer'[r] # answer[r]
    <2>1. Lookup(r) /\ Row(r).response # Nobody
          /\ SameRequest(r, Row(r)) /\ answer'[r].from = Row(r).response
        <3>1. CASE UNCHANGED answer
            BY <1>4, <3>1
        <3>2. ASSUME NEW q \in Attempt,
                     Insert(q) \/ BeginFails(q) \/ Store(q) \/ Release(q)
              PROVE  answer'[r] = answer[r] \/ answer'[r].kind # "replay"
            BY <3>2 DEF Insert, BeginFails, Store, Release, Answered, Tell, RInv,
                        IInv, TypeOK
        <3>3. ASSUME NEW q \in Attempt, Lookup(q)
              PROVE  \/ answer'[r] = answer[r] \/ answer'[r].kind # "replay"
                     \/ /\ q = r /\ Row(r).response # Nobody
                        /\ SameRequest(r, Row(r)) /\ answer'[r].from = Row(r).response
            BY <3>3 DEF Lookup, Tell, RInv, IInv, TypeOK
        <3>4. \/ UNCHANGED answer
              \/ \E q \in Attempt : \/ Insert(q) \/ BeginFails(q) \/ Store(q) \/ Release(q)
                                    \/ Lookup(q)
            BY DEF Next, Work, vars, Tick, Arrive, Sweep, Handle, Drop, OrphanEnds, Crash
        <3>5. QED
            BY <1>4, <3>1, <3>2, <3>3, <3>4
    <2>2. pc[r] = "looking"
        BY <2>1 DEF Lookup
    <2>3. PICK s \in Attempt : s = Row(r).response
        BY <1>1, <2>1 DEF RInv, Cached
    <2>4. /\ Row(r).by = s /\ KeyOf[s] = KeyOf[r] /\ Row(r).expires_at = at[s] + TTL
          /\ pc[s] = "done" /\ out[s] \in {"ok", "refused"}
          /\ answer[s] = [kind |-> "fresh", from |-> s]
        BY <1>1, <2>1, <2>3 DEF RInv, Cached
    <2>5. at[r] < at[s] + TTL
        BY <1>1, <2>1, <2>2, <2>4 DEF RInv, Looks
    <2>6. QED
        BY <1>2, <2>1, <2>2, <2>3, <2>4, <2>5 DEF Rivals, SameRequest
<1>5. QED
    BY <1>3, <1>4

LEMMA ToldKept == ASSUME TypeOK, Told, [Next]_vars PROVE Told'
<1>1. CASE UNCHANGED vars \/ Tick
    BY <1>1 DEF vars, Tick, Told
<1>2. ASSUME NEW r \in Attempt, Arrive(r) \/ Sweep(r) \/ Handle(r) \/ Drop(r) \/ OrphanEnds(r)
      PROVE  Told'
    BY <1>2 DEF Arrive, Sweep, Handle, Drop, OrphanEnds, Told, TypeOK
<1>3. ASSUME NEW r \in Attempt,
             Lookup(r) \/ Insert(r) \/ BeginFails(r) \/ Store(r) \/ Release(r)
      PROVE  Told'
    BY <1>3 DEF Lookup, Insert, BeginFails, Store, Release, Answered, Tell, Told, TypeOK
<1>4. ASSUME NEW s \in Server, Crash(s) PROVE Told'
    BY <1>4 DEF Crash, Told, TypeOK
<1>5. QED
    BY <1>1, <1>2, <1>3, <1>4 DEF Next, Work

LEMMA RInit == ASSUME Init PROVE RInv
<1>1. IInv
    BY InitIInv
<1>2. \A r \in Attempt : Row(r) = NoRow
    BY IdempotencyAssumption DEF Init, Row
<1>3. Cached /\ Looks
    BY <1>2 DEF Cached, Looks, NoRow
<1>4. Outs /\ Told /\ Replayed
    BY DEF Init, Outs, Told, Replayed
<1>5. QED
    BY <1>1, <1>3, <1>4 DEF RInv

LEMMA RNext == ASSUME RInv, [Next]_vars PROVE RInv'
BY NextIInv, OutsKept, ToldKept, CachedKept, LooksKept, ReplayedKept DEF RInv, IInv

LEMMA RInductive == Spec => []RInv
<1>1. Init => RInv
    BY RInit
<1>2. RInv /\ [Next]_vars => RInv'
    BY RNext
<1>3. QED
    BY <1>1, <1>2, PTL DEF Spec

\* A retry is only ever answered with the response that an earlier attempt of
\* the same key and body was given, started less than a TTL before.
THEOREM RepliesAreFaithful == Spec => []ReplayIsFaithful
<1>1. RInv => ReplayIsFaithful
    BY DEF RInv, Replayed, ReplayIsFaithful
<1>2. QED
    BY <1>1, RInductive, PTL

----------------------------------------------------------------------------
\* Who becomes one that may have written: only the attempt that inserts.
LEMMA NewWriters ==
    ASSUME RInv, [Next]_vars, NEW r \in Attempt, Wrote(r)'
    PROVE  \/ Wrote(r) /\ at'[r] = at[r] /\ ran'[r] = ran[r]
           \/ /\ pc[r] = "inserting" /\ Row(r).by = Nobody
              /\ Row(r)' = [by |-> r, response |-> Nobody, expires_at |-> at[r] + TTL]
              /\ at' = at /\ now' = now /\ ran' = [ran EXCEPT ![r] = now]
              /\ \A s \in Attempt \ {r} : Wrote(s)' = Wrote(s)
<1>1. TypeOK /\ Outs /\ KeyOf[r] \in Key
    BY IdempotencyAssumption DEF RInv, IInv
<1>2. CASE UNCHANGED vars \/ Tick
    BY <1>2 DEF vars, Tick, Wrote
<1>3. ASSUME NEW q \in Attempt, Arrive(q) \/ Sweep(q) \/ Lookup(q) \/ BeginFails(q)
      PROVE  Wrote(r) /\ at'[r] = at[r] /\ ran'[r] = ran[r]
    BY <1>1, <1>3 DEF Outs, Arrive, Sweep, Lookup, BeginFails, Tell, Wrote, Running, TypeOK
<1>4. ASSUME NEW q \in Attempt, Handle(q) \/ Drop(q) \/ OrphanEnds(q)
      PROVE  Wrote(r) /\ at'[r] = at[r] /\ ran'[r] = ran[r]
    BY <1>1, <1>4 DEF Handle, Drop, OrphanEnds, Did, Wrote, Running, TypeOK, Outs
<1>5. ASSUME NEW q \in Attempt, Store(q) \/ Release(q)
      PROVE  Wrote(r) /\ at'[r] = at[r] /\ ran'[r] = ran[r]
    BY <1>1, <1>5 DEF Store, Release, Answered, Tell, Wrote, Running, TypeOK
<1>6. ASSUME NEW v \in Server, Crash(v)
      PROVE  Wrote(r) /\ at'[r] = at[r] /\ ran'[r] = ran[r]
    BY <1>1, <1>6 DEF Crash, Wrote, Running, TypeOK
<1>7. ASSUME NEW q \in Attempt, Insert(q), q # r
      PROVE  Wrote(r) /\ at'[r] = at[r] /\ ran'[r] = ran[r]
    BY <1>1, <1>7 DEF Insert, Tell, Wrote, Running, TypeOK
<1>8. CASE Insert(r)
    <2>1. CASE Tell(r, "error", Nobody)
        <3>1. pc'[r] = "done" /\ effect' = effect /\ out' = out
            BY <1>1, <1>8, <2>1 DEF Insert, Tell, TypeOK
        <3>2. r \notin effect
            BY <1>1, <1>8 DEF Outs, Insert
        <3>3. QED
            BY <3>1, <3>2 DEF Wrote, Running
    <2>2. CASE /\ Row(r).by = Nobody
               /\ ledger' = [ledger EXCEPT ![KeyOf[r]] =
                     [by |-> r, response |-> Nobody, expires_at |-> at[r] + TTL]]
               /\ pc' = [pc EXCEPT ![r] = "running"]
               /\ ran' = [ran EXCEPT ![r] = now]
        <3>1. Row(r)' = [by |-> r, response |-> Nobody, expires_at |-> at[r] + TTL]
            BY <1>1, <2>2 DEF Row, TypeOK
        <3>2. \A s \in Attempt \ {r} : Wrote(s)' = Wrote(s)
            BY <1>1, <1>8, <2>2 DEF Insert, Wrote, TypeOK
        <3>3. pc[r] = "inserting" /\ UNCHANGED <<now, at>>
            BY <1>8 DEF Insert
        <3>4. QED
            BY <2>2, <3>1, <3>2, <3>3
    <2>3. QED
        BY <1>8, <2>1, <2>2 DEF Insert
<1>9. QED
    BY <1>2, <1>3, <1>4, <1>5, <1>6, <1>7, <1>8 DEF Next, Work

\* The row of an attempt that may have written goes only when it expires.
LEMMA MarkStays ==
    ASSUME RInv, [Next]_vars, NEW r \in Attempt, ~KeyOverran(r), Wrote(r), Wrote(r)',
           Row(r).by = r, Row(r).expires_at = at[r] + TTL
    PROVE  \/ Row(r)'.by = r /\ Row(r)'.expires_at = at[r] + TTL
           \/ now' >= at[r] + TTL
<1> DEFINE k == KeyOf[r]
<1>1. k \in Key /\ Row(r) = ledger[k] /\ Row(r)' = ledger'[k] /\ r # Nobody
      /\ TypeOK /\ Clock /\ Outs
    BY IdempotencyAssumption DEF Row, RInv, IInv
<1>2. CASE UNCHANGED ledger
    BY <1>1, <1>2
<1>3. ASSUME NEW q \in Attempt, Sweep(q)
      PROVE  \/ ledger'[k] = ledger[k]
             \/ now' >= at[r] + TTL
    <2>1. ledger'[k] = ledger[k] \/ ledger[k].expires_at <= at[q]
        BY <1>1, <1>3 DEF Sweep, Expired
    <2>2. at[q] <= now /\ at[q] \in Nat /\ now \in Nat /\ now' = now
          /\ at[r] \in Nat /\ TTL \in Nat
        BY <1>1, <1>3, IdempotencyAssumption DEF Clock, TypeOK, Sweep
    <2>3. QED
        BY <1>1, <2>1, <2>2
<1>4. ASSUME NEW q \in Attempt, Insert(q) PROVE ledger'[k] = ledger[k]
    BY <1>1, <1>4, IdempotencyAssumption DEF Insert, Row, TypeOK
<1>5. ASSUME NEW q \in Attempt, Store(q)
      PROVE  ledger'[k].by = r /\ ledger'[k].expires_at = at[r] + TTL
    <2>1. ledger[k] \in Rows
        BY <1>1 DEF TypeOK, NoRow
    <2>2. ledger'[k] = ledger[k] \/ ledger'[k] = [ledger[k] EXCEPT !.response = q]
        BY <1>1, <1>5, IdempotencyAssumption DEF Store, TypeOK
    <2>3. QED
        BY <1>1, <2>1, <2>2 DEF Rows
<1>6. ASSUME NEW q \in Attempt, Release(q) PROVE ledger'[k] = ledger[k]
    <2>1. pc[q] \in Running /\ ~Cacheable(out[q]) /\ pc[q] \in {"caching", "releasing"}
        BY <1>6 DEF Release, Running
    <2>2. CASE KeyOf[q] = k
        <3>1. ~KeyOverran(q)
            BY <2>2 DEF KeyOverran
        <3>2. ledger[KeyOf[q]].by = q
            BY <2>1, <3>1, Owned DEF RInv
        <3>3. q = r
            BY <1>1, <2>2, <3>2
        <3>4. out[r] \notin {"none", "ok"}
            BY <1>1, <2>1, <3>3 DEF Outs, Cacheable
        <3>5. QED
            BY <3>4 DEF Wrote
    <2>3. CASE KeyOf[q] # k
        BY <1>1, <1>6, <2>3 DEF Release, TypeOK
    <2>4. QED
        BY <2>2, <2>3
<1>7. QED
    <2>1. \/ UNCHANGED ledger
          \/ \E q \in Attempt : Sweep(q) \/ Insert(q) \/ Store(q) \/ Release(q)
        BY DEF Next, Work, vars, Tick, Arrive, Lookup, BeginFails, Handle, Drop,
               OrphanEnds, Crash
    <2>2. QED
        BY <1>1, <1>2, <1>3, <1>4, <1>5, <1>6, <2>1

LEMMA MarkedKept == ASSUME WInv, [Next]_vars PROVE Marked'
<1> SUFFICES ASSUME NEW r \in Attempt, Wrote(r)', ~KeyOverran(r)'
             PROVE  \/ Row(r)'.by = r /\ Row(r)'.expires_at = at'[r] + TTL
                    \/ now' >= at'[r] + TTL
    BY DEF Marked
<1>1. RInv /\ ~KeyOverran(r)
    BY TimeGoesOn DEF WInv, RInv
<1>2. CASE Wrote(r) /\ at'[r] = at[r]
    <2>1. CASE Row(r).by = r /\ Row(r).expires_at = at[r] + TTL
        BY <1>1, <1>2, <2>1, MarkStays
    <2>2. CASE now >= at[r] + TTL
        <3>1. now' \in Nat /\ now <= now' /\ now \in Nat /\ at[r] \in Nat /\ TTL \in Nat
            BY <1>1, TimeGoesOn, IdempotencyAssumption DEF RInv, IInv, TypeOK
        <3>2. QED
            BY <1>2, <2>2, <3>1
    <2>3. QED
        BY <1>1, <1>2, <2>1, <2>2 DEF WInv, Marked
<1>3. CASE Row(r)' = [by |-> r, response |-> Nobody, expires_at |-> at[r] + TTL]
           /\ at' = at
    BY <1>3
<1>4. QED
    BY <1>1, <1>2, <1>3, NewWriters

LEMMA ApartKept == ASSUME WInv, [Next]_vars PROVE Apart'
<1>1. RInv
    BY DEF WInv
\* Of two attempts that may have written, one inserted after the other's TTL.
<1>2. ASSUME NEW r \in Attempt, NEW s \in Attempt, r # s, KeyOf[s] = KeyOf[r],
             Wrote(s), ~KeyOverran(s), at'[s] = at[s],
             Row(r).by = Nobody, ran' = [ran EXCEPT ![r] = now]
      PROVE  ran'[r] >= at'[s] + TTL
    <2>1. Row(s).by # s
        BY <1>2, IdempotencyAssumption DEF Row
    <2>2. now >= at[s] + TTL
        BY <1>2, <2>1 DEF WInv, Marked
    <2>3. QED
        BY <1>1, <1>2, <2>2 DEF RInv, IInv, TypeOK
<1>3. ASSUME NEW r \in Attempt, NEW s \in Attempt, r # s, KeyOf[s] = KeyOf[r],
             Wrote(r)', Wrote(s)', ~KeyOverran(r)'
      PROVE  ran'[r] >= at'[s] + TTL \/ ran'[s] >= at'[r] + TTL
    <2>1. ~KeyOverran(r) /\ ~KeyOverran(s)
        BY <1>1, <1>3, TimeGoesOn DEF RInv, KeyOverran
    <2>2. CASE /\ Wrote(r) /\ at'[r] = at[r] /\ ran'[r] = ran[r]
               /\ Wrote(s) /\ at'[s] = at[s] /\ ran'[s] = ran[s]
        BY <1>3, <2>1, <2>2 DEF WInv, Apart, Rivals
    <2>3. CASE /\ Row(r).by = Nobody /\ at' = at
               /\ ran' = [ran EXCEPT ![r] = now]
               /\ \A q \in Attempt \ {r} : Wrote(q)' = Wrote(q)
        <3>1. Wrote(s)
            BY <1>3, <2>3
        <3>2. QED
            BY <1>2, <1>3, <2>1, <2>3, <3>1
    <2>4. CASE /\ Row(s).by = Nobody /\ at' = at
               /\ ran' = [ran EXCEPT ![s] = now]
               /\ \A q \in Attempt \ {s} : Wrote(q)' = Wrote(q)
        <3>1. Wrote(r)
            BY <1>3, <2>4
        <3>2. QED
            BY <1>2, <1>3, <2>1, <2>4, <3>1
    <2>5. QED
        BY <1>1, <1>3, <2>2, <2>3, <2>4, NewWriters
<1>4. QED
    BY <1>3 DEF Apart, Rivals

\* Retries of a key do the write once, but for a response lost before it was
\* cached, a retry a TTL later, or a handler that outlived its row.
THEOREM OneWritePerKey == Spec => []WritesOnce
<1>1. Init => WInv
    <2> SUFFICES ASSUME Init PROVE WInv
        OBVIOUS
    <2>1. RInv
        BY RInit
    <2>2. \A r \in Attempt : ~Wrote(r)
        BY DEF Init, Wrote, Running
    <2>3. QED
        BY <2>1, <2>2 DEF WInv, Marked, Apart
<1>2. WInv /\ [Next]_vars => WInv'
    BY RNext, MarkedKept, ApartKept DEF WInv
<1>3. WInv => WritesOnce
    <2> SUFFICES ASSUME WInv, NEW r \in effect, NEW s \in Rivals(r) \cap effect,
                        ~KeyOverran(r),
                        out[r] \notin {"unreadable", "unsaved"},
                        out[s] \notin {"unreadable", "unsaved"}
                 PROVE  ran[r] >= at[s] + TTL \/ ran[s] >= at[r] + TTL
        BY DEF WritesOnce
    <2>1. r \in Attempt /\ s \in Attempt /\ TypeOK /\ Outs
        BY DEF WInv, RInv, IInv, TypeOK, Rivals
    <2>2. out[r] \in {"none", "ok"} /\ out[s] \in {"none", "ok"}
        BY <2>1 DEF TypeOK, Outs, Outcomes
    <2>3. QED
        BY <2>1, <2>2 DEF WInv, Apart, Wrote
<1>4. QED
    BY <1>1, <1>2, <1>3, PTL DEF Spec
=============================================================================
