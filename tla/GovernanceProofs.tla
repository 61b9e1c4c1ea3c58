-------------------------- MODULE GovernanceProofs --------------------------
(***************************************************************************)
(* Theorems of Governance, for every set of processes, principals, labels,  *)
(* changes and rows, every threshold and every list of legacy approvals.    *)
(***************************************************************************)
EXTENDS Governance, FiniteSetTheorems, WellFoundedInduction, TLAPS

----------------------------------------------------------------------------
\* Induction over the naturals stated about a set instead of a predicate, so that it
\* can be cited by name: the intervals 0..n are well founded under strict inclusion,
\* hence a non-empty set of naturals has a least element.

\* Every non-empty set of naturals has a least element.
LEMMA LeastNat ==
    ASSUME NEW T \in SUBSET Nat, T # {}
    PROVE  \E n \in T : \A m \in T : n <= m
<1> PICK t \in T : TRUE
    OBVIOUS
<1> DEFINE S == 0..t
           Low == {m \in T : m <= t}
           I == {0..m : m \in Low}
           R == StrictSubsetOrdering(S)
           F == FiniteSubsetsOf(S)
<1>1. IsWellFoundedOn(R, F)
    BY FS_StrictSubsetOrderingWellFounded
<1>2. I \subseteq F
    <2> SUFFICES ASSUME NEW m \in Low PROVE 0..m \in F
        OBVIOUS
    <2>1. IsFiniteSet(0..m) /\ 0..m \subseteq S
        BY FS_Interval
    <2>2. QED
        BY <2>1 DEF FiniteSubsetsOf
<1>3. I # {}
    <2>1. t \in Low
        OBVIOUS
    <2>2. QED
        BY <2>1
<1> HIDE DEF I, R, F
<1>4. \E x \in I : \A y \in I : ~(<<y, x>> \in R)
    BY <1>1, <1>2, <1>3, WFMin
<1>5. PICK n \in Low : \A m \in Low : ~(<<0..m, 0..n>> \in R)
    BY <1>4 DEF I
<1>6. ASSUME NEW m \in Low, m < n PROVE FALSE
    <2>1. 0..m \subseteq 0..n /\ 0..n # 0..m
        BY <1>6
    <2>2. 0..m \in SUBSET S /\ 0..n \in SUBSET S
        OBVIOUS
    <2>3. QED
        BY <1>5, <2>1, <2>2 DEF StrictSubsetOrdering, R
<1>7. QED
    BY <1>6

\* A set of naturals that holds 0 and is closed under successor is Nat.
LEMMA NatSetInduction ==
    ASSUME NEW S \in SUBSET Nat, 0 \in S, \A n \in S : n + 1 \in S
    PROVE  S = Nat
<1> SUFFICES ASSUME Nat \ S # {} PROVE FALSE
    OBVIOUS
<1>1. PICK n \in Nat \ S : \A m \in Nat \ S : n <= m
    BY LeastNat
<1>2. n - 1 \in Nat /\ n - 1 \notin S
    OBVIOUS
<1>3. QED
    BY <1>1, <1>2

----------------------------------------------------------------------------
\* The scan that normalises an approvals list.

\* The scan always has a result: it is built position by position.
LEMMA ScanExists ==
    ASSUME NEW A \in SUBSET Entry
    PROVE  \E K \in SUBSET A : Scan(A, K)
<1> DEFINE Below(n) == {e \in A : e.pos < n}
           Done == {n \in Nat : \E K \in SUBSET Below(n) : Scan(Below(n), K)}
<1>0. \A e \in A : e.pos \in 0..NewPos /\ NewPos \in Nat
    BY GovernanceAssumption DEF Entry
<1>1. 0 \in Done
    <2>1. Below(0) = {}
        BY <1>0
    <2>2. Scan({}, {})
        BY DEF Scan
    <2>3. QED
        BY <2>1, <2>2
<1>2. ASSUME NEW n \in Done PROVE n + 1 \in Done
    <2>1. PICK K \in SUBSET Below(n) : Scan(Below(n), K)
        BY <1>2
    <2> DEFINE At == {e \in A : e.pos = n /\ \A f \in K : ~SameVoter(f, e)}
               L  == K \cup At
    <2>2. L \in SUBSET Below(n + 1)
        BY <1>0
    <2>3. ASSUME NEW e \in Below(n + 1)
          PROVE  e \in L <=> \A f \in L : f.pos < e.pos => ~SameVoter(f, e)
        <3>1. CASE e.pos < n
            <4>1. e \in L <=> e \in K
                BY <3>1, <1>0
            <4>2. \A f \in L : f.pos < e.pos => f \in K
                BY <3>1, <1>0
            <4>3. QED
                BY <2>1, <3>1, <4>1, <4>2 DEF Scan
        <3>2. CASE e.pos = n
            <4>1. e \notin K
                BY <3>2, <1>0
            <4>2. \A f \in L : f.pos < e.pos <=> f \in K
                BY <3>2, <1>0
            <4>3. e \in L <=> \A f \in K : ~SameVoter(f, e)
                BY <3>2, <4>1, <1>0
            <4>4. K \subseteq L
                OBVIOUS
            <4>5. QED
                <5> HIDE DEF L
                <5>1. QED
                    BY <4>2, <4>3, <4>4
        <3>3. QED
            BY <3>1, <3>2, <1>0
    <2>4. Scan(Below(n + 1), L)
        BY <2>3 DEF Scan
    <2>5. n \in Nat
        BY <1>2
    <2>6. QED
        <3> HIDE DEF Below, L
        <3>1. QED
            BY <2>2, <2>4, <2>5
<1>3. Done = Nat
    <2> HIDE DEF Below
    <2>1. Done \in SUBSET Nat
        OBVIOUS
    <2> HIDE DEF Done
    <2>2. QED
        BY <1>1, <1>2, <2>1, NatSetInduction
<1>4. NewPos + 1 \in Done
    <2> HIDE DEF Done
    <2>1. QED
        BY <1>3, GovernanceAssumption
<1>5. Below(NewPos + 1) = A
    BY <1>0
<1>6. QED
    BY <1>4, <1>5

\* Normalise returns a part of the list that satisfies the scan.
LEMMA NormaliseScans ==
    ASSUME NEW A \in SUBSET Entry
    PROVE  Normalise(A) \in SUBSET A /\ Scan(A, Normalise(A))
BY ScanExists DEF Normalise

\* A list without two entries of one voter is left alone.
LEMMA NormaliseKeeps ==
    ASSUME NEW A \in SUBSET Entry, ClashFree(A)
    PROVE  Normalise(A) = A
<1>0. \A e \in A : e.pos \in 0..NewPos /\ NewPos \in Nat
    BY GovernanceAssumption DEF Entry
<1>1. ASSUME NEW e \in A PROVE e \in Normalise(A)
    <2>1. \A f \in Normalise(A) : f.pos < e.pos => ~SameVoter(f, e)
        BY NormaliseScans, <1>0 DEF ClashFree
    <2>2. QED
        BY <2>1, NormaliseScans DEF Scan
<1>2. QED
    BY <1>1, NormaliseScans

\* What a row may hold: a legacy list, or a list this code has written.
Stored(A) ==
    /\ A \in SUBSET Entry /\ IsFiniteSet(A)
    /\ ClashFree(A) \/ \A e, f \in A : e.pos = f.pos => e = f

\* After normalising, every remaining entry is another voter's.
LEMMA NormaliseClashFree ==
    ASSUME NEW A, Stored(A)
    PROVE  ClashFree(Normalise(A)) /\ IsFiniteSet(Normalise(A))
<1>0. A \in SUBSET Entry
    BY DEF Stored
<1>1. IsFiniteSet(Normalise(A))
    BY <1>0, NormaliseScans, FS_Subset DEF Stored
<1>2. CASE ClashFree(A)
    <2>1. Normalise(A) = A
        BY <1>2, <1>0, NormaliseKeeps
    <2>2. QED
        BY <1>1, <1>2, <2>1
<1>3. CASE \A e, f \in A : e.pos = f.pos => e = f
    <2>0. \A e \in A : e.pos \in 0..NewPos /\ NewPos \in Nat
        BY <1>0, GovernanceAssumption DEF Entry
    <2>1. ASSUME NEW e \in Normalise(A), NEW f \in Normalise(A), SameVoter(e, f)
          PROVE  e = f
        <3>1. e \in A /\ f \in A
            BY <1>0, NormaliseScans
        <3>2. SameVoter(f, e)
            BY <2>1 DEF SameVoter
        <3>3. ~(e.pos < f.pos) /\ ~(f.pos < e.pos)
            BY <1>0, <2>1, <3>1, <3>2, NormaliseScans DEF Scan
        <3>4. e.pos = f.pos
            BY <2>0, <3>1, <3>3
        <3>5. QED
            BY <1>3, <3>1, <3>4
    <2>2. QED
        BY <1>1, <2>1 DEF ClashFree
<1>4. QED
    BY <1>2, <1>3 DEF Stored

\* An admitted voter clashes with nobody already counted.
LEMMA ApprovalAdds ==
    ASSUME NEW A, Stored(A), NEW a \in Actor, NEW l \in Label,
           \A e \in Normalise(A) : e.label # l /\ e.actor # a
    PROVE  LET B == Normalise(A) \cup {[pos |-> NewPos, actor |-> a, label |-> l]}
           IN  ClashFree(B) /\ IsFiniteSet(B) /\ B \in SUBSET Entry
<1> DEFINE new == [pos |-> NewPos, actor |-> a, label |-> l]
           B == Normalise(A) \cup {new}
<1>1. A \in SUBSET Entry /\ Normalise(A) \in SUBSET Entry
    BY NormaliseScans DEF Stored
<1>2. new \in Entry /\ new.actor = a /\ new.label = l
    BY GovernanceAssumption DEF Entry
<1>3. ClashFree(B)
    <2> HIDE DEF new
    <2>1. SUFFICES ASSUME NEW e \in B, NEW f \in B, SameVoter(e, f) PROVE e = f
        BY DEF ClashFree
    <2>2. CASE e = new \/ f = new
        BY <1>2, <2>1, <2>2 DEF SameVoter
    <2>3. CASE e # new /\ f # new
        BY <2>1, <2>3, NormaliseClashFree DEF ClashFree
    <2>4. QED
        BY <2>2, <2>3
<1>4. IsFiniteSet(B)
    BY NormaliseClashFree, FS_AddElement
<1>5. QED
    BY <1>1, <1>2, <1>3, <1>4

\* A clash-free list counts as many principals, and labels, as entries.
LEMMA CountsVoters ==
    ASSUME NEW A, IsFiniteSet(A), ClashFree(A)
    PROVE  /\ Cardinality({e.actor : e \in A}) = Cardinality(A)
           /\ Cardinality({e.label : e \in A}) = Cardinality(A)
<1> DEFINE P == {e.actor : e \in A}
           Q == {e.label : e \in A}
           f == [e \in A |-> e.actor]
           g == [e \in A |-> e.label]
<1>1. f \in Bijection(A, P)
    BY DEF Bijection, Injection, Surjection, IsInjective, ClashFree, SameVoter
<1>2. g \in Bijection(A, Q)
    BY DEF Bijection, Injection, Surjection, IsInjective, ClashFree, SameVoter
<1> HIDE DEF f, g
<1>3. QED
    BY <1>1, <1>2, FS_Bijection DEF ExistsBijection

----------------------------------------------------------------------------
\* The inductive invariant.  Both images hold lists this code may meet, and
\* no applied change on fewer than Needed voters; a call that has recorded
\* the deciding approval works on a list that already counts Needed voters.

Enough(A) == ClashFree(A) /\ Cardinality(A) >= Needed

ImageOK(image) ==
    \A c \in Change :
        /\ Stored(image.changes[c].approvals)
        /\ image.changes[c].status = "applied" => Enough(image.changes[c].approvals)

IInv ==
    /\ TypeOK
    /\ ImageOK(db) /\ ImageOK(work)
    /\ \A p \in Process : pc[p] # "idle" => owner = p
    /\ \A p \in Process :
          pc[p] = "recorded" => Enough(work.changes[req[p].change].approvals)

USE DEF Image

LEMMA InitIInv == Init => IInv
<1> SUFFICES ASSUME Init PROVE IInv
    OBVIOUS
<1> USE GovernanceAssumption
<1>1. PICK held \in [Change -> Legacy \cup {{}}], kind \in [Change -> Kinds],
           target \in [Change -> Row \cup {Nobody}] :
          db = Stocked(held, kind, target)
    BY DEF Init
<1>2. \A c \in Change : Stored(held[c])
    <2>1. Stored({})
        BY FS_EmptySet DEF Stored, ClashFree
    <2>2. \A A \in Legacy : Stored(A)
        BY DEF Stored
    <2>3. QED
        BY <2>1, <2>2
<1>3. db.changes \in [Change -> ChangeRec]
    <2>1. \A c \in Change : held[c] \in SUBSET Entry
        BY <1>2 DEF Stored
    <2>2. QED
        BY <1>1, <2>1 DEF ChangeRec, Stocked
<1>4. db.rows \in [Row -> RowRec]
    BY <1>1 DEF RowRec, Stocked
<1>5. db \in Image /\ work \in Image
    BY <1>1, <1>3, <1>4 DEF Init, Stocked
<1>6. (CHOOSE q \in Request : TRUE) \in Request
    <2>1. \E c \in Change, a \in Actor, l \in Label :
             [change |-> c, actor |-> a, label |-> l] \in Request
        BY DEF Request
    <2>2. QED
        BY <2>1
<1>7. TypeOK
    BY <1>5, <1>6 DEF Init, TypeOK
<1>8. ImageOK(db) /\ ImageOK(work)
    <2>1. ASSUME NEW c \in Change
          PROVE  /\ Stored(db.changes[c].approvals)
                 /\ db.changes[c].status # "applied"
        BY <1>1, <1>2 DEF Stocked
    <2>2. work = db
        BY DEF Init
    <2>3. QED
        BY <2>1, <2>2 DEF ImageOK
<1>9. QED
    BY <1>7, <1>8 DEF Init, IInv

\* Giving up leaves the committed image and returns the connection to idle.
LEMMA AbandonIInv ==
    ASSUME IInv, NEW p \in Process, owner = p, Abandon(p) PROVE IInv'
BY GovernanceAssumption DEF IInv, Abandon, TypeOK, ImageOK, Enough

LEMMA ProposeIInv ==
    ASSUME IInv, NEW p \in Process, NEW c \in Change, NEW kind \in Kinds,
           NEW t \in Row \cup {Nobody}, Propose(p, c, kind, t)
    PROVE  IInv'
<1> DEFINE new == [kind |-> kind, target |-> t, status |-> "pending",
                   approvals |-> {}]
<1>1. Stored({}) /\ new \in ChangeRec
    BY FS_EmptySet DEF Stored, ClashFree, ChangeRec
<1>2. ASSUME NEW image \in Image, ImageOK(image)
      PROVE  LET put == [image EXCEPT !.changes[c] = new]
             IN  put \in Image /\ ImageOK(put)
    <2> DEFINE put == [image EXCEPT !.changes[c] = new]
    <2>1. put \in Image
        BY <1>1
    <2>2. \A d \in Change : put.changes[d] = IF d = c THEN new ELSE image.changes[d]
        OBVIOUS
    <2>3. QED
        BY <1>1, <1>2, <2>1, <2>2 DEF ImageOK
<1>3. CASE /\ owner = Nobody
           /\ db' = [db EXCEPT !.changes[c] = new]
           /\ work' = db'
    <2>1. \A q \in Process : pc[q] = "idle"
        BY <1>3, GovernanceAssumption DEF IInv
    <2>2. db \in Image /\ ImageOK(db)
        BY DEF IInv, TypeOK
    <2>3. db' \in Image /\ work' = db' /\ ImageOK(db')
        BY <1>2, <1>3, <2>2
    <2>4. ImageOK(db)' /\ ImageOK(work)'
        BY <2>3 DEF ImageOK
    <2>5. TypeOK'
        BY <2>3 DEF Propose, IInv, TypeOK
    <2>6. QED
        BY <2>1, <2>4, <2>5 DEF Propose, IInv
<1>4. CASE /\ owner = p
           /\ work' = [work EXCEPT !.changes[c] = new]
           /\ UNCHANGED db
    <2>1. \A q \in Process : pc[q] = "idle"
        BY <1>4, GovernanceAssumption DEF IInv, Propose
    <2>2. ImageOK(db)'
        BY <1>4 DEF IInv, ImageOK
    <2>3. QED
        BY <1>2, <1>4, <2>1, <2>2 DEF Propose, IInv, TypeOK
<1>5. QED
    BY <1>3, <1>4 DEF Propose

LEMMA BeginIInv ==
    ASSUME IInv, NEW p \in Process, NEW c \in Change, NEW a \in Actor,
           NEW l \in Label, Begin(p, c, a, l)
    PROVE  IInv'
<1>1. [change |-> c, actor |-> a, label |-> l] \in Request
    BY DEF Request
<1>2. \A q \in Process : pc[q] = "idle"
    BY GovernanceAssumption DEF IInv, Begin
<1>3. TypeOK'
    BY <1>1 DEF IInv, TypeOK, Begin
<1>4. ImageOK(db)' /\ ImageOK(work)'
    BY DEF IInv, Begin, ImageOK
<1>5. QED
    BY <1>2, <1>3, <1>4 DEF IInv, Begin, TypeOK

LEMMA RecordIInv ==
    ASSUME IInv, NEW p \in Process, Record(p) PROVE IInv'
<1> DEFINE c == req[p].change
           A == work.changes[c].approvals
           B == Normalise(A) \cup
                  {[pos |-> NewPos, actor |-> req[p].actor, label |-> req[p].label]}
<1>0. c \in Change /\ req[p].actor \in Actor /\ req[p].label \in Label
    BY DEF IInv, TypeOK, Request
<1>1. Stored(A)
    BY <1>0 DEF IInv, ImageOK
<1>2. ClashFree(B) /\ IsFiniteSet(B) /\ B \in SUBSET Entry
    BY <1>0, <1>1, ApprovalAdds DEF Record, MayApprove
<1>3. Stored(B)
    BY <1>2 DEF Stored
<1>4. /\ work' = [work EXCEPT !.changes[c].approvals = B]
      /\ pc' = [pc EXCEPT ![p] =
                   IF Cardinality(B) >= Needed THEN "recorded" ELSE "ready"]
      /\ UNCHANGED <<db, owner, req, acked>>
      /\ work.changes[c].status = "pending" /\ pc[p] = "begun"
    BY DEF Record, MayApprove
<1> HIDE DEF B
<1>5. work.changes[c] \in ChangeRec
    BY <1>0 DEF IInv, TypeOK
<1>6. /\ work' \in Image
      /\ \A d \in Change : work'.changes[d] =
            IF d = c THEN [work.changes[d] EXCEPT !.approvals = B] ELSE work.changes[d]
    BY <1>0, <1>2, <1>4, <1>5 DEF IInv, TypeOK, ChangeRec
<1>7. work'.changes[c].approvals = B /\ work'.changes[c].status = "pending"
    BY <1>0, <1>4, <1>5, <1>6 DEF ChangeRec
<1>8. TypeOK'
    BY <1>4, <1>6 DEF IInv, TypeOK
<1>9. ImageOK(work)'
    BY <1>3, <1>6, <1>7 DEF IInv, ImageOK
<1>10. ImageOK(db)'
    BY <1>4 DEF IInv, ImageOK
<1>11. \A q \in Process : pc'[q] # "idle" => owner' = q
    BY <1>4 DEF IInv, TypeOK
<1>12. ASSUME NEW q \in Process, pc'[q] = "recorded"
       PROVE  Enough(work.changes[req[q].change].approvals)'
    <2>1. q = p
        BY <1>4, <1>11, <1>12 DEF IInv
    <2>2. Cardinality(B) >= Needed
        BY <1>4, <1>12, <2>1 DEF IInv, TypeOK
    <2>3. QED
        BY <1>2, <1>4, <1>7, <2>1, <2>2 DEF Enough
<1>13. QED
    BY <1>8, <1>9, <1>10, <1>11, <1>12 DEF IInv

LEMMA ApplyIInv ==
    ASSUME IInv, NEW p \in Process, Apply(p) PROVE IInv'
<1> DEFINE c == req[p].change
           change == work.changes[c]
           Wrote(r) == IF change.kind = "delete"
                       THEN [work.rows[r] EXCEPT !.active = FALSE,
                                                 !.evolution_state = "deprecated"]
                       ELSE Upserted(p, c, work.rows[r])
<1>0. c \in Change /\ change \in ChangeRec
    BY DEF IInv, TypeOK, Request
<1>1. PICK r \in Targets(change.kind, change.target, work.rows) :
         work' = [work EXCEPT !.rows[r] = Wrote(r), !.changes[c].status = "applied"]
    BY DEF Apply
<1>2. r \in Row
    BY <1>1 DEF Targets
<1>3. Wrote(r) \in RowRec
    <2>1. work.rows[r] \in RowRec
        BY <1>2 DEF IInv, TypeOK
    <2>2. QED
        BY <1>0, <2>1, GovernanceAssumption DEF Upserted, RowRec
<1> HIDE DEF Wrote
<1>4. /\ work' \in Image
      /\ \A d \in Change : work'.changes[d] =
            IF d = c THEN [work.changes[d] EXCEPT !.status = "applied"] ELSE work.changes[d]
    BY <1>0, <1>1, <1>2, <1>3 DEF IInv, TypeOK, ChangeRec
<1>5. \A d \in Change : work'.changes[d].approvals = work.changes[d].approvals
    BY <1>0, <1>4 DEF ChangeRec
<1>6. pc[p] = "recorded" /\ pc' = [pc EXCEPT ![p] = "ready"]
      /\ UNCHANGED <<db, owner, req, acked>>
    BY DEF Apply
<1>7. Enough(work.changes[c].approvals)
    BY <1>6 DEF IInv
<1>8. ImageOK(work)'
    BY <1>4, <1>5, <1>7 DEF IInv, ImageOK
<1>9. TypeOK' /\ ImageOK(db)'
    BY <1>4, <1>6 DEF IInv, TypeOK, ImageOK
<1>10. \A q \in Process : pc'[q] # "idle" => owner' = q
    BY <1>6 DEF IInv, TypeOK
<1>11. ASSUME NEW q \in Process, pc'[q] = "recorded"
       PROVE  Enough(work.changes[req[q].change].approvals)'
    <2>1. q # p /\ pc[q] = "recorded"
        BY <1>6, <1>11 DEF IInv, TypeOK
    <2>2. req[q].change \in Change
        BY DEF IInv, TypeOK, Request
    <2>3. QED
        BY <1>5, <1>6, <2>1, <2>2 DEF IInv, Enough
<1>12. QED
    BY <1>8, <1>9, <1>10, <1>11 DEF IInv

LEMMA CommitIInv ==
    ASSUME IInv, NEW p \in Process, Commit(p) PROVE IInv'
<1>1. <<req[p].change, req[p].actor>> \in Change \X (Actor \cup {Nobody})
    BY DEF IInv, TypeOK, Request
<1>2. TypeOK'
    BY <1>1 DEF IInv, TypeOK, Commit
<1>3. ImageOK(db)' /\ ImageOK(work)'
    BY DEF IInv, ImageOK, Commit
<1>4. \A q \in Process : pc'[q] = "idle"
    BY DEF IInv, TypeOK, Commit
<1>5. QED
    BY <1>2, <1>3, <1>4 DEF IInv

LEMMA StepIInv ==
    ASSUME IInv, NEW p \in Process, Step(p) PROVE IInv'
<1>1. CASE Record(p)
    BY <1>1, RecordIInv
<1>2. CASE Refuse(p)
    BY <1>2, AbandonIInv DEF Refuse, IInv
<1>3. CASE Apply(p)
    BY <1>3, ApplyIInv
<1>4. CASE ApplyFails(p)
    BY <1>4, AbandonIInv DEF ApplyFails, IInv
<1>5. CASE StatementFails(p)
    BY <1>5, AbandonIInv DEF StatementFails, IInv
<1>6. CASE Commit(p)
    BY <1>6, CommitIInv
<1>7. CASE CommitFails(p)
    <2>1. CASE Abandon(p)
        BY <1>7, <2>1, AbandonIInv DEF CommitFails, IInv
    <2>2. CASE /\ pc' = [pc EXCEPT ![p] = "idle"]
               /\ UNCHANGED <<db, work, owner, req, acked>>
        BY <2>2 DEF IInv, TypeOK, ImageOK, Enough
    <2>3. QED
        BY <1>7, <2>1, <2>2 DEF CommitFails
<1>8. QED
    BY <1>1, <1>2, <1>3, <1>4, <1>5, <1>6, <1>7 DEF Step

LEMMA NextIInv == IInv /\ [Next]_vars => IInv'
<1> SUFFICES ASSUME IInv, [Next]_vars PROVE IInv'
    OBVIOUS
<1>1. CASE UNCHANGED vars
    BY <1>1 DEF vars, IInv, TypeOK, ImageOK, Enough
<1>2. ASSUME NEW p \in Process, NEW c \in Change, NEW kind \in Kinds,
             NEW t \in Row \cup {Nobody}, Propose(p, c, kind, t)
      PROVE  IInv'
    BY <1>2, ProposeIInv
<1>3. ASSUME NEW p \in Process, NEW c \in Change, NEW a \in Actor,
             NEW l \in Label, Begin(p, c, a, l)
      PROVE  IInv'
    BY <1>3, BeginIInv
<1>4. ASSUME NEW p \in Process, Step(p) PROVE IInv'
    BY <1>4, StepIInv
<1>5. ASSUME NEW p \in Process, Crash(p) PROVE IInv'
    BY <1>5, AbandonIInv DEF Crash
<1>6. QED
    BY <1>1, <1>2, <1>3, <1>4, <1>5 DEF Next

LEMMA Inductive == Spec => []IInv
BY InitIInv, NextIInv, PTL DEF Spec

----------------------------------------------------------------------------
\* Every variable keeps its type, whatever fails and whoever crashes.
THEOREM TypeCorrect == Spec => []TypeOK
<1>1. IInv => TypeOK
    BY DEF IInv
<1>2. QED
    BY <1>1, Inductive, PTL

\* No change is ever applied on fewer than Needed distinct principals, nor
\* on fewer than Needed distinct canonical labels.
THEOREM QuorumHolds == Spec => []AppliedByQuorum
<1>1. ASSUME IInv PROVE AppliedByQuorum
    <2>1. ASSUME NEW c \in Change, db.changes[c].status = "applied"
          PROVE  LET A == db.changes[c].approvals
                 IN  /\ Cardinality({e.actor : e \in A}) >= Needed
                     /\ Cardinality({e.label : e \in A}) >= Needed
        BY <1>1, <2>1, CountsVoters DEF IInv, ImageOK, Enough, Stored
    <2>2. QED
        BY <2>1 DEF AppliedByQuorum
<1>2. QED
    BY <1>1, Inductive, PTL
=============================================================================
