-------------------------- MODULE WriteGateProofs --------------------------
(***************************************************************************)
(* Theorems of WriteGate, for every set of actors, tokens and requests,     *)
(* whatever they want, and every queue, quota and window.                   *)
(***************************************************************************)
EXTENDS WriteGate, FiniteSetTheorems, TLAPS

\* What keeps a request out whose token was dead when it came: the token is
\* still dead, and dead at the time the request reads.
StaysDead ==
    \A r \in barred :
        LET row == tokens[Wants[r].token]
        IN  /\ pc[r] # "new"
            /\ Wants[r].token \in Token /\ row \in Row
            /\ \/ row.revoked
               \/ /\ row.expires_at < now
                  /\ pc[r] = "checking" => row.expires_at < at[r]

IInv == TypeOK /\ StaysDead /\ L0NeedsLiveToken

LEMMA Types ==
    ASSUME IInv
    PROVE  /\ now \in Nat
           /\ \A r \in Request : /\ Wants[r].tool \in {"l0", "plain"}
                                 /\ Wants[r].actor \in Actor
                                 /\ Wants[r].token \in Token \cup {Absent}
           /\ NoToken \notin Row /\ Absent \notin Token
<1>1. Absent \notin Actor /\ Absent \notin Token /\ NoToken.actor = Absent
    BY WriteGateAssumption DEF NoToken
<1>2. NoToken \notin Row
    BY <1>1 DEF Row
<1>3. QED
    BY <1>1, <1>2, WriteGateAssumption DEF IInv, TypeOK, Want

LEMMA InitIInv == Init => IInv
BY WriteGateAssumption DEF Init, IInv, TypeOK, StaysDead, L0NeedsLiveToken, Never

LEMMA TickIInv == ASSUME IInv, Tick PROVE IInv'
<1>1. TypeOK'
    BY WriteGateAssumption DEF IInv, TypeOK, Tick, gate
<1>2. StaysDead'
    BY Types DEF IInv, TypeOK, StaysDead, Tick, gate, Row
<1>3. L0NeedsLiveToken'
    BY DEF IInv, L0NeedsLiveToken, Tick, gate
<1>4. QED
    BY <1>1, <1>2, <1>3 DEF IInv

LEMMA OpenIInv ==
    ASSUME IInv, NEW t \in Token, NEW a \in Actor, NEW sid \in Sid, NEW ttl \in TTL,
           Open(t, a, sid, ttl)
    PROVE  IInv'
<1>1. TypeOK'
    BY WriteGateAssumption DEF IInv, TypeOK, Open, gate, Row
<1>2. \A u \in Token : tokens[u] \in Row => tokens'[u] = tokens[u]
    BY Types DEF IInv, TypeOK, Open
<1>3. StaysDead'
    <2>1. barred' = barred /\ pc' = pc /\ at' = at /\ now' = now
        BY DEF Open
    <2>2. StaysDead
        BY DEF IInv
    <2>3. QED
        BY <1>2, <2>1, <2>2 DEF StaysDead
<1>4. ASSUME NEW r \in Request, tokens[Wants[r].token].actor = Wants[r].actor,
             Wants[r].token # Absent
      PROVE  Wants[r].token \in Token /\ tokens[Wants[r].token] \in Row
    BY <1>4, Types, WriteGateAssumption DEF IInv, TypeOK, NoToken
<1>5. L0NeedsLiveToken'
    BY <1>2, <1>4 DEF IInv, L0NeedsLiveToken, Open, gate
<1>6. QED
    BY <1>1, <1>3, <1>5 DEF IInv

LEMMA RevokeIInv == ASSUME IInv, NEW sid \in Sid, Revoke(sid) PROVE IInv'
<1>1. \A u \in Token :
          /\ tokens'[u] \in Row \cup {NoToken}
          /\ tokens[u] \in Row => tokens'[u] \in Row
          /\ tokens'[u].actor = tokens[u].actor /\ tokens'[u].sid = tokens[u].sid
          /\ tokens'[u].expires_at = tokens[u].expires_at
          /\ tokens[u].revoked => tokens'[u].revoked
    BY Types DEF IInv, TypeOK, Revoke, Row
<1>2. TypeOK'
    BY <1>1 DEF IInv, TypeOK, Revoke, gate
<1>3. StaysDead'
    BY <1>1 DEF IInv, TypeOK, StaysDead, Revoke, gate
<1>4. L0NeedsLiveToken'
    BY <1>1, Types DEF IInv, TypeOK, L0NeedsLiveToken, Revoke, gate
<1>5. QED
    BY <1>2, <1>3, <1>4 DEF IInv

LEMMA ArriveIInv == ASSUME IInv, NEW r \in Request, Arrive(r) PROVE IInv'
<1>1. TypeOK'
    BY DEF IInv, TypeOK, Arrive, Goto, gate
<1>2. StaysDead'
    <2> SUFFICES ASSUME NEW s \in barred'
                 PROVE  LET row == tokens[Wants[s].token]
                        IN  /\ pc'[s] # "new"
                            /\ Wants[s].token \in Token /\ row \in Row
                            /\ \/ row.revoked
                               \/ /\ row.expires_at < now
                                  /\ pc'[s] = "checking" => row.expires_at < at[s]
        BY DEF StaysDead, Arrive, gate
    <2>1. CASE s \in barred
        BY <2>1 DEF IInv, TypeOK, StaysDead, Arrive, Goto
    <2>2. CASE s \notin barred
        <3>1. s = r /\ Barred(r)
            BY <2>2 DEF Arrive
        <3>2. pc'[r] \in {"arrived", "admitted"}
            BY DEF Arrive, Goto, IInv, TypeOK
        <3>3. Wants[r].token \in Token /\ tokens[Wants[r].token] \in Row
            BY <3>1, Types DEF Barred, IInv, TypeOK
        <3>4. QED
            BY <3>1, <3>2, <3>3 DEF Barred
    <2>3. QED
        BY <2>1, <2>2
<1>3. L0NeedsLiveToken'
    BY Types DEF IInv, TypeOK, L0NeedsLiveToken, Arrive, Goto, gate
<1>4. QED
    BY <1>1, <1>2, <1>3 DEF IInv

LEMMA ReadClockIInv == ASSUME IInv, NEW r \in Request, ReadClock(r) PROVE IInv'
<1>1. TypeOK'
    BY Types DEF IInv, TypeOK, ReadClock, Goto, gate
<1>2. StaysDead'
    BY DEF IInv, TypeOK, StaysDead, ReadClock, Goto, gate
<1>3. L0NeedsLiveToken'
    BY DEF IInv, TypeOK, L0NeedsLiveToken, ReadClock, Goto, gate
<1>4. QED
    BY <1>1, <1>2, <1>3 DEF IInv

\* Only a live token of the caller and of its session is let through.
LEMMA CheckIInv == ASSUME IInv, NEW r \in Request, Check(r) PROVE IInv'
<1>1. \A t \in Token : Verdict(tokens[t], Wants[r], at[r]) \in Refusals \cup {"admitted"}
    BY DEF Verdict, Refusals
<1>2. pc'[r] \in Refusals \cup {"admitted"} /\ pc' = [pc EXCEPT ![r] = pc'[r]]
    BY <1>1, Types DEF IInv, TypeOK, Check, Goto, Refusals
<1>3. TypeOK'
    BY <1>2 DEF IInv, TypeOK, Check, gate
<1>4. StaysDead'
    BY <1>2 DEF IInv, TypeOK, StaysDead, Check, Refusals, gate
<1>5. ASSUME pc'[r] = "admitted"
      PROVE  LET t == Wants[r].token
             IN  /\ t # Absent /\ r \notin barred
                 /\ tokens[t].actor = Wants[r].actor
                 /\ tokens[t].sid = SessionId(Wants[r].header)
    <2> DEFINE t == Wants[r].token
    <2>1. t # Absent /\ t \in Token /\ Verdict(tokens[t], Wants[r], at[r]) = "admitted"
        BY <1>5, Types DEF Check, Goto, IInv, TypeOK
    <2>2. /\ ~tokens[t].revoked /\ ~(tokens[t].expires_at < at[r])
          /\ tokens[t].actor = Wants[r].actor
          /\ tokens[t].sid = SessionId(Wants[r].header)
        BY <2>1 DEF Verdict
    <2>3. r \notin barred
        BY <2>2 DEF IInv, StaysDead, Check
    <2>4. QED
        BY <2>1, <2>2, <2>3
<1>6. L0NeedsLiveToken'
    BY <1>2, <1>5 DEF IInv, TypeOK, L0NeedsLiveToken, Check, Refusals, gate
<1>7. QED
    BY <1>3, <1>4, <1>6 DEF IInv

\* The steps of admission move a request that was let through already.
LEMMA AdmissionIInv ==
    ASSUME IInv, NEW r \in Request,
           TakeQuota(r) \/ NoQuota(r) \/ TakePermit(r) \/ NoPermit(r) \/ Finish(r),
           \* Finish has a permit to give back.
           pc[r] = "writing" => permits < Queue
    PROVE  IInv'
<1>1. /\ pc[r] \in {"admitted", "entering", "writing"}
      /\ \E where \in {"entering", "writing", "done", "rate_limited", "queue_full"} :
            pc' = [pc EXCEPT ![r] = where]
      /\ UNCHANGED <<now, tokens, at, barred>>
    BY DEF TakeQuota, NoQuota, TakePermit, NoPermit, Finish, Goto, gate
<1>2. start' \in Nat /\ used' \in 0..PerWindow
    BY WriteGateAssumption, Types
       DEF IInv, TypeOK, TakeQuota, NoQuota, TakePermit, NoPermit, Finish, Fresh,
           Spent, gate
<1>3. granted' \in [Request -> 0..Never]
    <2>1. now \in 0..Never
        BY WriteGateAssumption DEF IInv, TypeOK, Never
    <2>2. QED
        BY <2>1 DEF IInv, TypeOK, TakeQuota, NoQuota, TakePermit, NoPermit, Finish, gate
<1>4. permits' \in 0..Queue
    BY WriteGateAssumption
       DEF IInv, TypeOK, TakeQuota, NoQuota, TakePermit, NoPermit, Finish, gate
<1>5. TypeOK'
    BY <1>1, <1>2, <1>3, <1>4 DEF IInv, TypeOK, Refusals
<1>6. StaysDead'
    BY <1>1 DEF IInv, TypeOK, StaysDead
<1>7. L0NeedsLiveToken'
    BY <1>1 DEF IInv, TypeOK, L0NeedsLiveToken
<1>8. QED
    BY <1>5, <1>6, <1>7 DEF IInv

----------------------------------------------------------------------------
Writing == {r \in Request : pc[r] = "writing"}

LEMMA WritingIsFinite == IsFiniteSet(Writing) /\ Cardinality(Writing) \in Nat
<1>1. IsFiniteSet(Writing)
    BY WriteGateAssumption, FS_Subset DEF Writing
<1>2. QED
    BY <1>1, FS_CardinalityType

\* A permit leaves with a request that begins to write and comes back with it.
LEMMA PermitsKept ==
    ASSUME IInv, PermitsAreCounted, [Next]_vars
    PROVE  PermitsAreCounted'
<1>1. permits + Cardinality(Writing) = Queue /\ permits \in Nat /\ Queue \in Nat
    BY WriteGateAssumption DEF PermitsAreCounted, Writing, IInv, TypeOK
<1>2. CASE permits' = permits /\ Writing' = Writing
    BY <1>1, <1>2 DEF PermitsAreCounted, Writing
<1>3. ASSUME NEW r \in Request, TakePermit(r) PROVE PermitsAreCounted'
    <2>1. Writing' = Writing \cup {r} /\ r \notin Writing
        BY <1>3 DEF TakePermit, Goto, Writing, IInv, TypeOK
    <2>2. Cardinality(Writing') = Cardinality(Writing) + 1
        BY <2>1, WritingIsFinite, FS_AddElement
    <2>3. permits' = permits - 1
        BY <1>3 DEF TakePermit
    <2>4. QED
        BY <1>1, <2>2, <2>3, WritingIsFinite DEF PermitsAreCounted, Writing
<1>4. ASSUME NEW r \in Request, Finish(r) PROVE PermitsAreCounted'
    <2>1. Writing' = Writing \ {r} /\ r \in Writing
        BY <1>4 DEF Finish, Goto, Writing, IInv, TypeOK
    <2>2. Cardinality(Writing') = Cardinality(Writing) - 1
        BY <2>1, WritingIsFinite, FS_RemoveElement
    <2>3. permits' = permits + 1
        BY <1>4 DEF Finish
    <2>4. QED
        BY <1>1, <2>2, <2>3, WritingIsFinite DEF PermitsAreCounted, Writing
<1>5. ASSUME NEW r \in Request,
             Arrive(r) \/ ReadClock(r) \/ Check(r) \/ TakeQuota(r) \/ NoQuota(r) \/ NoPermit(r)
      PROVE  permits' = permits /\ Writing' = Writing
    <2>1. /\ permits' = permits
          /\ \E where : /\ pc' = [pc EXCEPT ![r] = where] /\ where # "writing"
                        /\ pc[r] # "writing"
        BY <1>5 DEF Arrive, ReadClock, Check, TakeQuota, NoQuota, NoPermit, Goto,
                    Verdict, gate
    <2>2. QED
        BY <2>1 DEF Writing, IInv, TypeOK
<1>6. CASE \/ Tick \/ UNCHANGED vars
           \/ \E t \in Token, a \in Actor, n \in Name, h \in 0..1, ttl \in TTL :
                 Open(t, a, [http |-> h, name |-> n], ttl)
           \/ \E n \in Name, h \in 0..1 : Revoke([http |-> h, name |-> n])
    BY <1>2, <1>6 DEF Tick, Open, Revoke, vars, gate, Writing
<1>7. QED
    BY <1>2, <1>3, <1>4, <1>5, <1>6 DEF Next, Handle

\* A request that writes holds a permit, so there is one to give back.
LEMMA RoomToFinish ==
    ASSUME IInv, PermitsAreCounted, NEW r \in Request, pc[r] = "writing"
    PROVE  permits < Queue
<1>1. r \in Writing
    BY DEF Writing
<1>2. Cardinality(Writing) # 0
    BY <1>1, WritingIsFinite, FS_EmptySet
<1>3. QED
    BY <1>2, WritingIsFinite, WriteGateAssumption
       DEF PermitsAreCounted, Writing, IInv, TypeOK

LEMMA NextIInv ==
    ASSUME IInv, PermitsAreCounted, [Next]_vars
    PROVE  IInv' /\ PermitsAreCounted'
<1>1. ASSUME Tick PROVE IInv'
    BY <1>1, TickIInv
<1>2. ASSUME NEW t \in Token, NEW a \in Actor, NEW n \in Name, NEW h \in 0..1,
             NEW ttl \in TTL, Open(t, a, [http |-> h, name |-> n], ttl)
      PROVE  IInv'
    <2>1. [http |-> h, name |-> n] \in Sid
        BY DEF Sid
    <2>2. QED
        BY <1>2, <2>1, OpenIInv
<1>3. ASSUME NEW n \in Name, NEW h \in 0..1, Revoke([http |-> h, name |-> n])
      PROVE  IInv'
    <2>1. [http |-> h, name |-> n] \in Sid
        BY DEF Sid
    <2>2. QED
        BY <1>3, <2>1, RevokeIInv
<1>4. ASSUME NEW r \in Request, Arrive(r) \/ Handle(r) PROVE IInv'
    BY <1>4, ArriveIInv, ReadClockIInv, CheckIInv, AdmissionIInv, RoomToFinish DEF Handle
<1>5. ASSUME UNCHANGED vars PROVE IInv'
    BY <1>5 DEF vars, IInv, TypeOK, StaysDead, L0NeedsLiveToken
<1>6. IInv'
    BY <1>1, <1>2, <1>3, <1>4, <1>5 DEF Next
<1>7. QED
    BY <1>6, PermitsKept

LEMMA InitPermits == Init => PermitsAreCounted
<1> SUFFICES ASSUME Init PROVE PermitsAreCounted
    OBVIOUS
<1>1. {r \in Request : pc[r] = "writing"} = {}
    BY DEF Init
<1>2. Cardinality({}) = 0
    BY FS_EmptySet
<1>3. QED
    <2>1. permits = Queue /\ Queue + 0 = Queue
        BY WriteGateAssumption DEF Init
    <2>2. QED
        BY <1>1, <1>2, <2>1 DEF PermitsAreCounted

LEMMA Invariance == Spec => [](IInv /\ PermitsAreCounted)
BY InitIInv, InitPermits, NextIInv, PTL DEF Spec

\* The gate's state keeps its types: no quota over the limit, no permit made.
THEOREM TypeCorrect == Spec => []TypeOK
BY Invariance, PTL DEF IInv

\* No L0 write on a token that was revoked or expired when its request came,
\* or that is another actor's or another session's.
THEOREM LiveTokensOnly == Spec => []L0NeedsLiveToken
BY Invariance, PTL DEF IInv

\* At most Queue writes at once, and no permit is ever lost.
THEOREM NoPermitLeaks == Spec => []PermitsAreCounted
BY Invariance, PTL

----------------------------------------------------------------------------
\* The requests that took their quota at one of some times.
Taken(g, T) == {r \in Request : g[r] \in T}

\* The window that is open has spent no more than is counted, the stretch of a
\* window's length before it no more than a window may, and no grant lies past
\* the window's end or in the future.
WindowInv ==
    /\ start <= now
    /\ \A r \in Request : granted[r] # Never => granted[r] <= now /\ granted[r] < start + Window
    /\ Cardinality(Taken(granted, start..MaxTime)) <= used
    /\ \A i \in 0..MaxTime :
          i + Window > start => Cardinality(Taken(granted, i..(start - 1))) <= PerWindow
    /\ BurstIsBounded

LEMMA TakenIsFinite ==
    ASSUME NEW g, NEW T
    PROVE  IsFiniteSet(Taken(g, T)) /\ Cardinality(Taken(g, T)) \in Nat
<1>1. IsFiniteSet(Taken(g, T))
    BY WriteGateAssumption, FS_Subset DEF Taken
<1>2. QED
    BY <1>1, FS_CardinalityType

LEMMA FewerTaken ==
    ASSUME NEW S, NEW T, \A r \in Request : granted[r] \in S => granted[r] \in T
    PROVE  Cardinality(Taken(granted, S)) <= Cardinality(Taken(granted, T))
<1>1. Taken(granted, S) \in SUBSET Taken(granted, T)
    BY DEF Taken
<1>2. QED
    BY <1>1, TakenIsFinite, FS_Subset

LEMMA GateTypes ==
    ASSUME TypeOK
    PROVE  /\ now \in Nat /\ start \in Nat /\ used \in Nat /\ used <= PerWindow
           /\ PerWindow \in Nat /\ Window \in Nat \ {0} /\ MaxTime \in Nat
           /\ now <= MaxTime /\ Never = MaxTime + 1
           /\ \A r \in Request : granted[r] \in Nat /\ granted[r] <= Never
BY WriteGateAssumption DEF TypeOK, Never

\* The window is reset: everything that was taken lies before it, and what was
\* taken within its length is the old window's.
LEMMA ResetKeeps ==
    ASSUME TypeOK, WindowInv, Fresh
    PROVE  /\ Taken(granted, now..MaxTime) = {}
           /\ \A i \in 0..MaxTime :
                 i + Window > now => Cardinality(Taken(granted, i..(now - 1))) <= PerWindow
<1>1. now >= start + Window
    BY GateTypes DEF Fresh, WindowInv
<1>2. Taken(granted, now..MaxTime) = {}
    BY <1>1, GateTypes DEF WindowInv, Taken
<1>3. ASSUME NEW i \in 0..MaxTime, i + Window > now
      PROVE  Cardinality(Taken(granted, i..(now - 1))) <= PerWindow
    <2>1. i >= start
        BY <1>1, <1>3, GateTypes
    <2>2. \A r \in Request : granted[r] \in i..(now - 1) => granted[r] \in start..MaxTime
        BY <2>1, GateTypes
    <2>3. Cardinality(Taken(granted, i..(now - 1))) <= Cardinality(Taken(granted, start..MaxTime))
        BY <2>2, FewerTaken
    <2>4. QED
        BY <2>3, TakenIsFinite, GateTypes DEF WindowInv
<1>4. QED
    BY <1>2, <1>3

LEMMA TakeQuotaWindow ==
    ASSUME TypeOK, WindowInv, NEW r \in Request, TakeQuota(r)
    PROVE  WindowInv'
<1>1. /\ start' = IF Fresh THEN now ELSE start
      /\ used' = Spent + 1 /\ Spent < PerWindow
      /\ granted' = [granted EXCEPT ![r] = now] /\ now' = now
    BY DEF TakeQuota
<1>2. /\ granted'[r] = now /\ \A s \in Request \ {r} : granted'[s] = granted[s]
      /\ granted' \in [Request -> Nat]
    BY <1>1, GateTypes DEF TypeOK
<1>3. start' \in Nat /\ start' <= now /\ start <= start' /\ now < start' + Window
    BY <1>1, GateTypes DEF WindowInv, Fresh
<1>4. ASSUME NEW s \in Request, granted'[s] # Never
      PROVE  granted'[s] <= now /\ granted'[s] < start' + Window
    <2>1. CASE s = r
        BY <1>2, <1>3, <2>1
    <2>2. CASE s # r
        BY <1>2, <1>3, <1>4, <2>2, GateTypes DEF WindowInv
    <2>3. QED
        BY <2>1, <2>2
<1>5. /\ Spent \in Nat /\ Cardinality(Taken(granted, start'..MaxTime)) <= Spent
      /\ \A i \in 0..MaxTime :
            i + Window > start' => Cardinality(Taken(granted, i..(start' - 1))) <= PerWindow
    <2>1. CASE Fresh
        <3>1. Cardinality(Taken(granted, now..MaxTime)) = 0
            BY <2>1, ResetKeeps, FS_EmptySet
        <3>2. QED
            BY <1>1, <2>1, <3>1, ResetKeeps DEF Spent
    <2>2. CASE ~Fresh
        BY <1>1, <2>2, GateTypes DEF Spent, WindowInv
    <2>3. QED
        BY <2>1, <2>2
\* A set of times has one grant more, if it has the time of this one.
<1>6. ASSUME NEW T
      PROVE  /\ Taken(granted', T) \subseteq Taken(granted, T) \cup {r}
             /\ now \notin T => Taken(granted', T) \subseteq Taken(granted, T)
             /\ IsFiniteSet(Taken(granted', T)) /\ Cardinality(Taken(granted', T)) \in Nat
             /\ Cardinality(Taken(granted', T)) <= Cardinality(Taken(granted, T)) + 1
             /\ now \notin T => Cardinality(Taken(granted', T)) <= Cardinality(Taken(granted, T))
    <2>1. /\ Taken(granted', T) \subseteq Taken(granted, T) \cup {r}
          /\ now \notin T => Taken(granted', T) \subseteq Taken(granted, T)
        BY <1>2 DEF Taken
    <2>2. /\ IsFiniteSet(Taken(granted, T) \cup {r})
          /\ Cardinality(Taken(granted, T) \cup {r}) <= Cardinality(Taken(granted, T)) + 1
        BY TakenIsFinite, FS_AddElement
    <2>3. QED
        BY <2>1, <2>2, TakenIsFinite, FS_Subset, FS_CardinalityType
<1>7. Cardinality(Taken(granted', start'..MaxTime)) <= used'
    <2> DEFINE T == start'..MaxTime
    <2>1. Cardinality(Taken(granted, T)) \in Nat /\ Cardinality(Taken(granted, T)) <= Spent
        BY <1>5, TakenIsFinite
    <2> HIDE DEF T
    <2>2. /\ Cardinality(Taken(granted', T)) \in Nat
          /\ Cardinality(Taken(granted', T)) <= Cardinality(Taken(granted, T)) + 1
        BY <1>6
    <2>3. Cardinality(Taken(granted', T)) <= used'
        BY <1>1, <1>5, <2>1, <2>2
    <2>4. QED
        BY <2>3 DEF T
<1>8. ASSUME NEW i \in 0..MaxTime, i + Window > start'
      PROVE  Cardinality(Taken(granted', i..(start' - 1))) <= PerWindow
    <2>1. now \notin i..(start' - 1)
        BY <1>3, GateTypes
    <2> DEFINE T == i..(start' - 1)
    <2>2. Cardinality(Taken(granted, T)) \in Nat /\ Cardinality(Taken(granted, T)) <= PerWindow
        BY <1>5, <1>8, TakenIsFinite
    <2> HIDE DEF T
    <2>3. /\ Cardinality(Taken(granted', T)) \in Nat
          /\ Cardinality(Taken(granted', T)) <= Cardinality(Taken(granted, T))
        BY <1>6, <2>1 DEF T
    <2>4. Cardinality(Taken(granted', T)) <= PerWindow
        BY <2>2, <2>3, GateTypes
    <2>5. QED
        BY <2>4 DEF T
<1>9. ASSUME NEW i \in 0..MaxTime, NEW j \in 0..MaxTime, j < i + Window
      PROVE  Cardinality(Taken(granted', i..j)) <= 2 * PerWindow
    <2>1. CASE now \in i..j
        <3>1. i + Window > start'
            BY <1>3, <1>9, <2>1, GateTypes
        <3>2. Taken(granted', i..j) \subseteq Taken(granted', i..(start' - 1)) \cup Taken(granted', start'..MaxTime)
            BY <1>2, <1>3, GateTypes DEF Taken
        <3> DEFINE A == Taken(granted', i..(start' - 1))
                   B == Taken(granted', start'..MaxTime)
        <3>3. /\ IsFiniteSet(A) /\ IsFiniteSet(B)
              /\ Cardinality(A) \in Nat /\ Cardinality(B) \in Nat
            BY <1>6
        <3>4. IsFiniteSet(A \cup B) /\ Cardinality(A \cup B) <= Cardinality(A) + Cardinality(B)
            <4>1. IsFiniteSet(A \cap B) /\ Cardinality(A \cap B) \in Nat
                BY <3>3, FS_Subset, FS_CardinalityType
            <4>2. QED
                <5> HIDE DEF A, B
                <5>1. /\ IsFiniteSet(A \cup B)
                      /\ Cardinality(A \cup B) = Cardinality(A) + Cardinality(B) - Cardinality(A \cap B)
                    BY <3>3, FS_Union
                <5>2. QED
                    BY <3>3, <4>1, <5>1
        <3>5. Cardinality(A \cup B) \in Nat /\ Cardinality(Taken(granted', i..j)) <= Cardinality(A \cup B)
            BY <3>2, <3>4, FS_Subset, FS_CardinalityType
        <3>6. Cardinality(A) <= PerWindow
            BY <1>8, <3>1
        <3>7. Cardinality(B) <= PerWindow
            BY <1>1, <1>5, <1>7, <3>3, GateTypes
        <3>8. QED
            BY <1>6, <3>3, <3>4, <3>5, <3>6, <3>7, GateTypes
    <2>2. CASE now \notin i..j
        <3>1. Cardinality(Taken(granted, i..j)) <= 2 * PerWindow
            BY <1>9 DEF WindowInv, BurstIsBounded, GrantedIn, Taken
        <3>2. QED
            BY <1>6, <2>2, <3>1, TakenIsFinite, GateTypes
    <2>3. QED
        BY <2>1, <2>2
<1>10. BurstIsBounded'
    BY <1>9 DEF BurstIsBounded, GrantedIn, Taken
<1>11. QED
    BY <1>1, <1>3, <1>4, <1>7, <1>8, <1>10 DEF WindowInv, Taken

LEMMA NoQuotaWindow ==
    ASSUME TypeOK, WindowInv, NEW r \in Request, NoQuota(r)
    PROVE  WindowInv'
<1>1. /\ start' = IF Fresh THEN now ELSE start
      /\ used' = Spent /\ UNCHANGED <<now, granted>>
    BY DEF NoQuota
<1>2. \A T : Taken(granted', T) = Taken(granted, T)
    BY <1>1 DEF Taken
<1>3. /\ Cardinality(Taken(granted, start'..MaxTime)) <= used'
      /\ \A i \in 0..MaxTime :
            i + Window > start' => Cardinality(Taken(granted, i..(start' - 1))) <= PerWindow
    <2>1. CASE Fresh
        <3>1. Cardinality(Taken(granted, now..MaxTime)) = 0
            BY <2>1, ResetKeeps, FS_EmptySet
        <3>2. QED
            BY <1>1, <2>1, <3>1, ResetKeeps DEF Spent
    <2>2. CASE ~Fresh
        BY <1>1, <2>2 DEF Spent, WindowInv
    <2>3. QED
        BY <2>1, <2>2
<1>4. start' \in Nat /\ start' <= now /\ start <= start'
    BY <1>1, GateTypes DEF WindowInv, Fresh
<1>5. \A s \in Request : granted[s] # Never => granted[s] <= now /\ granted[s] < start' + Window
    BY <1>4, GateTypes DEF WindowInv
<1>6. BurstIsBounded'
    BY <1>1 DEF WindowInv, BurstIsBounded, GrantedIn
<1>7. QED
    BY <1>1, <1>2, <1>3, <1>4, <1>5, <1>6 DEF WindowInv, Taken

LEMMA WindowKept == ASSUME TypeOK, WindowInv, [Next]_vars PROVE WindowInv'
<1>1. CASE UNCHANGED <<start, used, granted>> /\ now' \in {now, now + 1}
    <2>1. \A s \in Request : granted[s] # Never => granted[s] <= now'
        BY <1>1, GateTypes DEF WindowInv
    <2>2. start <= now'
        BY <1>1, GateTypes DEF WindowInv
    <2>3. QED
        BY <1>1, <2>1, <2>2 DEF WindowInv, Taken, BurstIsBounded, GrantedIn
<1>2. ASSUME NEW r \in Request, TakeQuota(r) \/ NoQuota(r) PROVE WindowInv'
    BY <1>2, TakeQuotaWindow, NoQuotaWindow
<1>3. ASSUME NEW r \in Request,
             Arrive(r) \/ ReadClock(r) \/ Check(r) \/ TakePermit(r) \/ NoPermit(r) \/ Finish(r)
      PROVE  UNCHANGED <<start, used, granted, now>>
    BY <1>3 DEF Arrive, ReadClock, Check, TakePermit, NoPermit, Finish, gate
<1>4. CASE \/ Tick \/ UNCHANGED vars
           \/ \E t \in Token, a \in Actor, n \in Name, h \in 0..1, ttl \in TTL :
                 Open(t, a, [http |-> h, name |-> n], ttl)
           \/ \E n \in Name, h \in 0..1 : Revoke([http |-> h, name |-> n])
    BY <1>1, <1>4 DEF Tick, Open, Revoke, vars, gate
<1>5. QED
    BY <1>1, <1>2, <1>3, <1>4 DEF Next, Handle

LEMMA InitWindow == Init => WindowInv
<1> SUFFICES ASSUME Init PROVE WindowInv
    OBVIOUS
<1>1. \A T : Never \notin T => Taken(granted, T) = {}
    BY DEF Init, Taken
<1>2. /\ \A i \in 0..MaxTime : Never \notin i..(start - 1)
      /\ \A i, j \in 0..MaxTime : Never \notin i..j
      /\ Never \notin start..MaxTime
    BY WriteGateAssumption DEF Init, Never
<1>3. Cardinality({}) = 0
    BY FS_EmptySet
<1>4. /\ \A i \in 0..MaxTime : Cardinality(Taken(granted, i..(start - 1))) = 0
      /\ \A i, j \in 0..MaxTime : Cardinality(Taken(granted, i..j)) = 0
      /\ Cardinality(Taken(granted, start..MaxTime)) = 0
    BY <1>1, <1>2, <1>3
<1>5. \A i, j \in 0..MaxTime : GrantedIn(i, j) = Taken(granted, i..j)
    BY DEF GrantedIn, Taken
<1>6. /\ start = 0 /\ now = 0 /\ used = 0 /\ PerWindow \in Nat
      /\ \A r \in Request : granted[r] = Never
    BY WriteGateAssumption DEF Init
<1>7. QED
    BY <1>4, <1>5, <1>6 DEF WindowInv, BurstIsBounded

\* Whatever the window, the quota and the times of the calls, no stretch of a
\* window's length lets more than twice the quota through.
THEOREM NoBurst == Spec => []BurstIsBounded
<1>1. Spec => []WindowInv
    BY Invariance, InitWindow, WindowKept, PTL DEF Spec, IInv
<1>2. WindowInv => BurstIsBounded
    BY DEF WindowInv
<1>3. QED
    BY <1>1, <1>2, PTL
=============================================================================
