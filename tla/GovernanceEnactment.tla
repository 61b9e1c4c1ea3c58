------------------------ MODULE GovernanceEnactment ------------------------
(***************************************************************************)
(* What an open transaction may differ in from the committed image, and     *)
(* what follows: rules change by enactment alone, acknowledged votes stay,  *)
(* and Governance implements Constitution.                                  *)
(***************************************************************************)
EXTENDS GovernanceProofs

USE DEF Image

\* The list approve_inner stores for the call of p.
Ballot(p) ==
    Normalise(db.changes[req[p].change].approvals) \cup
        {[pos |-> NewPos, actor |-> req[p].actor, label |-> req[p].label]}

\* Nothing but the approval is recorded; the decision is still to be applied.
Undecided(p) ==
    work.rows = db.rows /\ work.changes[req[p].change].status = "pending"

\* The change is applied and has written at most one row.
Decided(p) ==
    /\ work.changes[req[p].change].status = "applied"
    /\ \E r \in Row : \A s \in Row \ {r} : work.rows[s] = db.rows[s]

\* What the call of p has done to its copy of the committed image.
Draft(p) ==
    /\ pc[p] = "begun" => work = db
    /\ pc[p] \in {"recorded", "ready"} =>
         /\ MayApprove(db.changes[req[p].change], req[p].actor, req[p].label)
         /\ work.changes[req[p].change].approvals = Ballot(p)
         /\ \A d \in Change \ {req[p].change} : work.changes[d] = db.changes[d]
    /\ pc[p] = "recorded" => Undecided(p) /\ Cardinality(Ballot(p)) >= Needed
    /\ pc[p] = "ready" =>
         IF Cardinality(Ballot(p)) >= Needed THEN Decided(p) ELSE Undecided(p)

TInv ==
    /\ IInv
    /\ owner = Nobody => work = db
    /\ \A c \in Change : db.changes[c].status = "absent" =>
                            db.changes[c].approvals = {}
    /\ \A p \in Process : Draft(p)

LEMMA InitTInv == Init => TInv
<1> SUFFICES ASSUME Init PROVE TInv
    OBVIOUS
<1>1. IInv
    BY InitIInv
<1>2. PICK held \in [Change -> Legacy \cup {{}}], kind \in [Change -> Kinds],
           target \in [Change -> Row \cup {Nobody}] :
          db = Stocked(held, kind, target)
    BY DEF Init
<1>3. ASSUME NEW c \in Change, db.changes[c].status = "absent"
      PROVE  db.changes[c].approvals = {}
    BY <1>2, <1>3 DEF Stocked
<1>4. QED
    BY <1>1, <1>3 DEF Init, TInv, Draft

\* While one call holds the transaction every other process is idle.
LEMMA OthersIdle ==
    ASSUME IInv, NEW p \in Process, owner = p
    PROVE  \A q \in Process \ {p} : pc[q] = "idle"
BY DEF IInv

LEMMA AbandonTInv ==
    ASSUME TInv, NEW p \in Process, owner = p, Abandon(p) PROVE TInv'
<1>1. IInv'
    BY AbandonIInv DEF TInv
<1>2. \A q \in Process : pc'[q] = "idle"
    BY OthersIdle DEF Abandon, TInv, IInv, TypeOK
<1>3. QED
    BY <1>1, <1>2 DEF TInv, Abandon, Draft

LEMMA ProposeTInv ==
    ASSUME TInv, NEW p \in Process, NEW c \in Change, NEW kind \in Kinds,
           NEW t \in Row \cup {Nobody}, Propose(p, c, kind, t)
    PROVE  TInv'
<1>1. IInv'
    BY ProposeIInv DEF TInv
<1>2. \A q \in Process : pc'[q] = "idle"
    BY GovernanceAssumption DEF Propose, TInv, IInv
<1>3. owner' = Nobody => work' = db'
    BY GovernanceAssumption DEF Propose
<1>4. ASSUME NEW d \in Change, db'.changes[d].status = "absent"
      PROVE  db'.changes[d].approvals = {}
    <2>1. db \in Image
        BY DEF TInv, IInv, TypeOK
    <2>2. CASE UNCHANGED db
        BY <1>4, <2>2 DEF TInv
    <2>3. CASE db' = [db EXCEPT !.changes[c] =
                [kind |-> kind, target |-> t, status |-> "pending", approvals |-> {}]]
        BY <1>4, <2>1, <2>3 DEF TInv
    <2>4. QED
        BY <2>2, <2>3 DEF Propose
<1>5. QED
    BY <1>1, <1>2, <1>3, <1>4 DEF TInv, Draft

LEMMA BeginTInv ==
    ASSUME TInv, NEW p \in Process, NEW c \in Change, NEW a \in Actor,
           NEW l \in Label, Begin(p, c, a, l)
    PROVE  TInv'
<1>1. IInv'
    BY BeginIInv DEF TInv
<1>2. \A q \in Process : pc'[q] = IF q = p THEN "begun" ELSE "idle"
    BY GovernanceAssumption DEF Begin, TInv, IInv, TypeOK
<1>3. owner' # Nobody /\ work' = db' /\ db' = db
    BY GovernanceAssumption DEF Begin
<1>4. \A q \in Process : Draft(q)'
    BY <1>2, <1>3 DEF Draft
<1>5. QED
    BY <1>1, <1>3, <1>4 DEF TInv

LEMMA RecordTInv ==
    ASSUME TInv, NEW p \in Process, Record(p) PROVE TInv'
<1> DEFINE c == req[p].change
<1>1. IInv'
    BY RecordIInv DEF TInv
<1>2. owner = p /\ pc[p] = "begun" /\ work = db /\ c \in Change
    BY DEF Record, TInv, IInv, TypeOK, Draft, Request
<1>3. /\ work' = [db EXCEPT !.changes[c].approvals = Ballot(p)]
      /\ pc' = [pc EXCEPT ![p] =
                  IF Cardinality(Ballot(p)) >= Needed THEN "recorded" ELSE "ready"]
      /\ MayApprove(db.changes[c], req[p].actor, req[p].label)
      /\ UNCHANGED <<db, owner, req, acked>>
    BY <1>2 DEF Record, Ballot
<1>4. Ballot(p)' = Ballot(p)
    BY <1>3 DEF Ballot
<1>5. db \in Image /\ db.changes[c] \in ChangeRec
    BY <1>2 DEF TInv, IInv, TypeOK
<1>6. /\ work'.rows = db.rows
      /\ work'.changes[c].approvals = Ballot(p)
      /\ work'.changes[c].status = "pending"
      /\ \A d \in Change \ {c} : work'.changes[d] = db.changes[d]
    <2> HIDE DEF Ballot
    <2>1. QED
        BY <1>2, <1>3, <1>5 DEF MayApprove, ChangeRec
<1>7. Draft(p)'
    <2>1. pc'[p] \in {"recorded", "ready"} /\
          (pc'[p] = "recorded" <=> Cardinality(Ballot(p)) >= Needed)
        BY <1>3 DEF TInv, IInv, TypeOK
    <2>2. Undecided(p)'
        BY <1>3, <1>6 DEF Undecided
    <2>3. QED
        BY <1>3, <1>4, <1>6, <2>1, <2>2 DEF Draft
<1>8. \A q \in Process \ {p} : pc'[q] = "idle"
    BY <1>2, <1>3, OthersIdle DEF TInv, IInv, TypeOK
<1>9. owner' # Nobody
    BY <1>2, <1>3, GovernanceAssumption
<1>10. QED
    BY <1>1, <1>3, <1>7, <1>8, <1>9 DEF TInv, Draft

LEMMA ApplyTInv ==
    ASSUME TInv, NEW p \in Process, Apply(p) PROVE TInv'
<1> DEFINE c == req[p].change
<1>1. IInv'
    BY ApplyIInv DEF TInv
<1>2. /\ owner = p /\ pc[p] = "recorded" /\ c \in Change
      /\ pc' = [pc EXCEPT ![p] = "ready"] /\ UNCHANGED <<db, owner, req, acked>>
    BY DEF Apply, TInv, IInv, TypeOK, Request
<1>3. /\ MayApprove(db.changes[c], req[p].actor, req[p].label)
      /\ work.changes[c].approvals = Ballot(p)
      /\ \A d \in Change \ {c} : work.changes[d] = db.changes[d]
      /\ work.rows = db.rows /\ Cardinality(Ballot(p)) >= Needed
    BY <1>2 DEF TInv, Draft, Undecided
<1>4. Ballot(p)' = Ballot(p)
    BY <1>2 DEF Ballot
<1>5. work \in Image /\ work.changes[c] \in ChangeRec
    BY <1>2 DEF TInv, IInv, TypeOK
<1>6. PICK r \in Row :
          \E row : work' = [work EXCEPT !.rows[r] = row, !.changes[c].status = "applied"]
    <2>1. PICK r \in Targets(work.changes[c].kind, work.changes[c].target, work.rows) :
             work' = [work EXCEPT
                !.rows[r] = IF work.changes[c].kind = "delete"
                            THEN [@ EXCEPT !.active = FALSE,
                                           !.evolution_state = "deprecated"]
                            ELSE Upserted(p, c, @),
                !.changes[c].status = "applied"]
        BY DEF Apply
    <2>2. r \in Row
        BY <2>1 DEF Targets
    <2>3. QED
        BY <2>1, <2>2
<1>7. /\ work'.changes[c].status = "applied"
      /\ work'.changes[c].approvals = Ballot(p)
      /\ \A d \in Change \ {c} : work'.changes[d] = db.changes[d]
      /\ \A s \in Row \ {r} : work'.rows[s] = db.rows[s]
    BY <1>2, <1>3, <1>5, <1>6 DEF ChangeRec
<1>8. Draft(p)'
    <2>1. pc'[p] = "ready"
        BY <1>2 DEF TInv, IInv, TypeOK
    <2>2. Decided(p)'
        BY <1>2, <1>7 DEF Decided
    <2>3. QED
        BY <1>2, <1>3, <1>4, <1>7, <2>1, <2>2 DEF Draft
<1>9. \A q \in Process \ {p} : pc'[q] = "idle"
    BY <1>2, OthersIdle DEF TInv, IInv, TypeOK
<1>10. owner' # Nobody
    BY <1>2, GovernanceAssumption
<1>11. QED
    BY <1>1, <1>2, <1>8, <1>9, <1>10 DEF TInv, Draft

LEMMA CommitTInv ==
    ASSUME TInv, NEW p \in Process, Commit(p) PROVE TInv'
<1>1. IInv'
    BY CommitIInv DEF TInv
<1>2. /\ owner = p /\ pc[p] = "ready" /\ req[p].change \in Change
      /\ db' = work /\ work' = work
    BY DEF Commit, TInv, IInv, TypeOK, Request
<1>3. \A q \in Process : pc'[q] = "idle"
    BY <1>2, OthersIdle DEF Commit, TInv, IInv, TypeOK
<1>4. ASSUME NEW d \in Change, db'.changes[d].status = "absent"
      PROVE  db'.changes[d].approvals = {}
    <2>1. d # req[p].change
        BY <1>2, <1>4 DEF TInv, Draft, Decided, Undecided
    <2>2. work.changes[d] = db.changes[d]
        BY <1>2, <2>1 DEF TInv, Draft
    <2>3. QED
        BY <1>2, <1>4, <2>2 DEF TInv
<1>5. QED
    BY <1>1, <1>2, <1>3, <1>4 DEF TInv, Draft

LEMMA NextTInv == TInv /\ [Next]_vars => TInv'
<1> SUFFICES ASSUME TInv, [Next]_vars PROVE TInv'
    OBVIOUS
<1>1. CASE UNCHANGED vars
    <2>1. IInv'
        BY <1>1, NextIInv DEF TInv
    <2>2. \A p \in Process : Draft(p)'
        BY <1>1 DEF vars, TInv, Draft, Ballot, Decided, Undecided
    <2>3. QED
        BY <1>1, <2>1, <2>2 DEF vars, TInv
<1>2. ASSUME NEW p \in Process, NEW c \in Change, NEW kind \in Kinds,
             NEW t \in Row \cup {Nobody}, Propose(p, c, kind, t)
      PROVE  TInv'
    BY <1>2, ProposeTInv
<1>3. ASSUME NEW p \in Process, NEW c \in Change, NEW a \in Actor,
             NEW l \in Label, Begin(p, c, a, l)
      PROVE  TInv'
    BY <1>3, BeginTInv
<1>4. ASSUME NEW p \in Process, Record(p) PROVE TInv'
    BY <1>4, RecordTInv
<1>5. ASSUME NEW p \in Process, Apply(p) PROVE TInv'
    BY <1>5, ApplyTInv
<1>6. ASSUME NEW p \in Process, Commit(p) PROVE TInv'
    BY <1>6, CommitTInv
<1>7. ASSUME NEW p \in Process, Abandon(p), owner = p PROVE TInv'
    BY <1>7, AbandonTInv
<1>8. ASSUME NEW p \in Process,
             Refuse(p) \/ ApplyFails(p) \/ StatementFails(p) \/ Crash(p)
      PROVE  TInv'
    <2>1. Abandon(p) /\ owner = p
        BY <1>8 DEF Refuse, ApplyFails, StatementFails, Crash, TInv, IInv
    <2>2. QED
        BY <1>7, <2>1
<1>9. ASSUME NEW p \in Process, CommitFails(p) PROVE TInv'
    <2>1. owner = p
        BY <1>9 DEF CommitFails, TInv, IInv
    <2>2. CASE /\ pc' = [pc EXCEPT ![p] = "idle"]
               /\ UNCHANGED <<db, work, owner, req, acked>>
        <3>1. IInv'
            BY <1>9, NextIInv DEF Next, Step, TInv
        <3>2. \A q \in Process : pc'[q] = "idle"
            BY <2>1, <2>2, OthersIdle DEF TInv, IInv, TypeOK
        <3>3. QED
            BY <2>2, <3>1, <3>2 DEF TInv, Draft
    <2>3. QED
        BY <1>7, <1>9, <2>1, <2>2 DEF CommitFails
<1>10. QED
    BY <1>1, <1>2, <1>3, <1>4, <1>5, <1>6, <1>8, <1>9 DEF Next, Step

LEMMA TInductive == Spec => []TInv
BY InitTInv, NextTInv, PTL DEF Spec

----------------------------------------------------------------------------
\* An admitted voter's ballot counts every voter once.
LEMMA BallotIsClashFree ==
    ASSUME TInv, NEW p \in Process, pc[p] = "ready"
    PROVE  ClashFree(Ballot(p)) /\ IsFiniteSet(Ballot(p)) /\ Ballot(p) \in SUBSET Entry
<1>1. /\ req[p].change \in Change /\ req[p].actor \in Actor /\ req[p].label \in Label
      /\ MayApprove(db.changes[req[p].change], req[p].actor, req[p].label)
      /\ Stored(db.changes[req[p].change].approvals)
    BY DEF TInv, IInv, TypeOK, Request, Draft, ImageOK
<1>2. \A e \in Normalise(db.changes[req[p].change].approvals) :
         e.label # req[p].label /\ e.actor # req[p].actor
    BY <1>1 DEF MayApprove
<1>3. QED
    <2> DEFINE A == db.changes[req[p].change].approvals
               a == req[p].actor
               l == req[p].label
    <2>1. /\ Stored(A) /\ a \in Actor /\ l \in Label
          /\ \A e \in Normalise(A) : e.label # l /\ e.actor # a
        BY <1>1, <1>2
    <2>2. Ballot(p) = Normalise(A) \cup {[pos |-> NewPos, actor |-> a, label |-> l]}
        BY DEF Ballot
    <2> HIDE DEF A, a, l
    <2>3. QED
        BY <2>1, <2>2, ApprovalAdds

\* The principals of a stored ballot are those counted before and the voter.
LEMMA BallotVotes ==
    ASSUME TInv, NEW p \in Process, pc[p] = "ready"
    PROVE  LET c == req[p].change
               A == work.changes[c].approvals
           IN  /\ {e.actor : e \in Normalise(A)} = Votes[c] \cup {req[p].actor}
               /\ Cardinality({e.actor : e \in Normalise(A)}) = Cardinality(Ballot(p))
               /\ req[p].actor \notin Votes[c]
<1> DEFINE c == req[p].change
           A == work.changes[c].approvals
           old == Normalise(db.changes[c].approvals)
           new == [pos |-> NewPos, actor |-> req[p].actor, label |-> req[p].label]
<1>1. /\ c \in Change /\ req[p].actor \in Actor /\ req[p].label \in Label
      /\ A = Ballot(p)
      /\ \A e \in old : e.label # req[p].label /\ e.actor # req[p].actor
      /\ Stored(db.changes[c].approvals)
    BY DEF TInv, IInv, TypeOK, Request, Draft, ImageOK, MayApprove
<1>2. ClashFree(Ballot(p)) /\ IsFiniteSet(Ballot(p)) /\ Ballot(p) \in SUBSET Entry
    BY BallotIsClashFree
<1>3. Normalise(A) = Ballot(p)
    BY <1>1, <1>2, NormaliseKeeps
<1>4. Votes[c] = {e.actor : e \in old}
    BY <1>1 DEF Votes
<1>5. Ballot(p) = old \cup {new} /\ new.actor = req[p].actor
    BY DEF Ballot
<1>6. {e.actor : e \in Ballot(p)} = Votes[c] \cup {req[p].actor}
    <2> HIDE DEF old, new
    <2>1. QED
        BY <1>4, <1>5
<1>7. req[p].actor \notin Votes[c]
    BY <1>1, <1>4
<1>8. QED
    BY <1>2, <1>3, <1>6, <1>7, CountsVoters

\* What one commit does to the committed image, in Constitution's words.
LEMMA CommitEnacts ==
    ASSUME TInv, NEW p \in Process, Commit(p)
    PROVE  LET c == req[p].change
               a == req[p].actor
           IN  /\ c \in Change /\ a \in Actor
               /\ a \notin Votes[c]
               /\ Votes' = [Votes EXCEPT ![c] = @ \cup {a}]
               /\ db.changes[c].status = "pending"
               /\ \A d \in Change \ {c} : db'.changes[d] = db.changes[d]
               /\ \/ /\ Cardinality(Votes'[c]) < Needed
                     /\ db'.changes[c].status = "pending" /\ db'.rows = db.rows
                  \/ /\ Cardinality(Votes'[c]) >= Needed
                     /\ db'.changes[c].status = "applied"
                     /\ \E r \in Row : \A s \in Row \ {r} : db'.rows[s] = db.rows[s]
<1> DEFINE c == req[p].change
           a == req[p].actor
<1>1. c \in Change /\ a \in Actor /\ pc[p] = "ready" /\ db' = work
    BY DEF Commit, TInv, IInv, TypeOK, Request
<1>2. /\ a \notin Votes[c]
      /\ Votes'[c] = Votes[c] \cup {a}
      /\ Cardinality(Votes'[c]) = Cardinality(Ballot(p))
    BY <1>1, BallotVotes DEF Votes
<1>3. \A d \in Change \ {c} : db'.changes[d] = db.changes[d]
    BY <1>1 DEF TInv, Draft
<1>4. Votes' = [Votes EXCEPT ![c] = @ \cup {a}]
    <2>1. \A d \in Change \ {c} : Votes'[d] = Votes[d]
        BY <1>3 DEF Votes
    <2>2. /\ Votes' = [d \in Change |-> Votes'[d]]
          /\ Votes = [d \in Change |-> Votes[d]]
        BY DEF Votes
    <2>3. QED
        BY <1>1, <1>2, <2>1, <2>2
<1>5. db.changes[c].status = "pending"
    BY <1>1 DEF TInv, Draft, MayApprove
<1>6. CASE Cardinality(Ballot(p)) >= Needed
    BY <1>1, <1>2, <1>3, <1>4, <1>5, <1>6 DEF TInv, Draft, Decided
<1>7. CASE ~(Cardinality(Ballot(p)) >= Needed)
    <2>1. Cardinality(Ballot(p)) < Needed
        <3>1. Cardinality(Ballot(p)) \in Nat
            BY <1>1, BallotIsClashFree, FS_CardinalityType
        <3>2. QED
            BY <1>7, <3>1, GovernanceAssumption
    <2>2. QED
        BY <1>1, <1>2, <1>3, <1>4, <1>5, <1>7, <2>1 DEF TInv, Draft, Undecided
<1>8. QED
    BY <1>6, <1>7

\* The only other write of the committed image adds a proposal without votes.
LEMMA ProposeIsQuiet ==
    ASSUME TInv, NEW p \in Process, NEW c \in Change, NEW kind \in Kinds,
           NEW t \in Row \cup {Nobody}, Propose(p, c, kind, t)
    PROVE  /\ db'.rows = db.rows /\ Votes' = Votes
           /\ \A d \in Change : \/ db'.changes[d] = db.changes[d]
                                \/ /\ db.changes[d].status = "absent"
                                   /\ db'.changes[d].status = "pending"
<1>1. CASE UNCHANGED db
    BY <1>1 DEF Votes
<1>2. CASE db' = [db EXCEPT !.changes[c] =
                [kind |-> kind, target |-> t, status |-> "pending", approvals |-> {}]]
    <2>1. db \in Image /\ db.changes[c].status = "absent"
        BY DEF TInv, IInv, TypeOK, Propose
    <2>2. /\ db'.rows = db.rows
          /\ db'.changes[c].status = "pending" /\ db'.changes[c].approvals = {}
          /\ \A d \in Change \ {c} : db'.changes[d] = db.changes[d]
        BY <1>2, <2>1
    <2>3. db.changes[c].approvals = {}
        BY <2>1 DEF TInv
    <2>4. Votes' = Votes
        <3>1. \A d \in Change : db'.changes[d].approvals = db.changes[d].approvals
            BY <2>2, <2>3
        <3>2. QED
            BY <3>1 DEF Votes
    <2>5. QED
        BY <2>1, <2>2, <2>4
<1>3. QED
    BY <1>1, <1>2 DEF Propose

\* Every other step leaves the committed image alone.
LEMMA WhoWrites ==
    ASSUME [Next]_vars
    PROVE  \/ UNCHANGED db
           \/ \E p \in Process : Commit(p)
           \/ \E p \in Process, c \in Change, kind \in Kinds, t \in Row \cup {Nobody} :
                 Propose(p, c, kind, t)
BY DEF Next, Step, vars, Begin, Record, Refuse, Apply, ApplyFails, StatementFails,
       CommitFails, Crash, Abandon

\* Rules change only in the commit that makes a pending change applied; an
\* applied change is frozen and no counted principal is ever lost.
THEOREM EnactmentOnly == Spec => RulesChangeByEnactment
<1> DEFINE Enacts ==
        /\ db'.rows # db.rows =>
             \E c \in Change : /\ db.changes[c].status = "pending"
                               /\ db'.changes[c].status = "applied"
        /\ \A c \in Change :
             /\ db.changes[c].status = "applied" => db'.changes[c] = db.changes[c]
             /\ {e.actor : e \in Normalise(db.changes[c].approvals)}
                  \subseteq {e.actor : e \in Normalise(db'.changes[c].approvals)}
<1>1. ASSUME TInv, [Next]_vars PROVE Enacts
    <2>1. CASE UNCHANGED db
        BY <2>1
    <2>2. ASSUME Votes' = Votes PROVE
             \A c \in Change : {e.actor : e \in Normalise(db.changes[c].approvals)}
                  \subseteq {e.actor : e \in Normalise(db'.changes[c].approvals)}
        <3>1. \A c \in Change : Votes[c] = Votes'[c]
            BY <2>2
        <3>2. QED
            BY <3>1 DEF Votes
    <2>3. ASSUME NEW p \in Process, NEW c \in Change, NEW kind \in Kinds,
                 NEW t \in Row \cup {Nobody}, Propose(p, c, kind, t)
          PROVE  Enacts
        BY <1>1, <2>2, <2>3, ProposeIsQuiet
    <2>4. ASSUME NEW p \in Process, Commit(p) PROVE Enacts
        <3>1. \A c \in Change : Votes[c] \subseteq Votes'[c]
            <4>1. Votes = [c \in Change |-> Votes[c]]
                BY DEF Votes
            <4>2. QED
                BY <1>1, <2>4, <4>1, CommitEnacts
        <3>2. \A c \in Change : {e.actor : e \in Normalise(db.changes[c].approvals)}
                  \subseteq {e.actor : e \in Normalise(db'.changes[c].approvals)}
            BY <3>1 DEF Votes
        <3>3. QED
            BY <1>1, <2>4, <3>2, CommitEnacts
    <2>5. QED
        BY <1>1, <2>1, <2>3, <2>4, WhoWrites
<1>2. QED
    BY <1>1, TInductive, PTL DEF Spec, RulesChangeByEnactment

\* Constitution counts as this module does.
LEMMA SameCount == \A S : Promise!Cardinality(S) = Cardinality(S)
BY Zenon DEF Promise!Cardinality, Cardinality

\* Governance implements Constitution: seen through its committed image, the
\* processes, failures and crashes only ever cast votes and enact changes.
THEOREM ImplementsConstitution == Spec => KeepsPromise
<1>1. Init => Promise!Init
    <2> SUFFICES ASSUME Init PROVE Promise!Init
        OBVIOUS
    <2>1. Enacted = {}
        BY DEF Init, Stocked, Enacted
    <2>2. ASSUME NEW c \in Change
          PROVE  {e.actor : e \in Normalise(db.changes[c].approvals)} \in SUBSET Actor
        <3>1. db.changes[c].approvals \in SUBSET Entry
            BY InitIInv DEF IInv, TypeOK, ChangeRec
        <3>2. Normalise(db.changes[c].approvals) \in SUBSET Entry
            BY <3>1, NormaliseScans
        <3>3. QED
            BY <3>2 DEF Entry
    <2>3. Votes \in [Change -> SUBSET Actor]
        BY <2>2 DEF Votes
    <2>4. QED
        BY <2>1, <2>3 DEF Promise!Init
<1>2. TInv /\ [Next]_vars => [Promise!Next]_(Promise!promised)
    <2> SUFFICES ASSUME TInv, [Next]_vars
                 PROVE  [Promise!Next]_(Promise!promised)
        OBVIOUS
    <2>1. CASE UNCHANGED db
        BY <2>1 DEF Promise!promised, Votes, Enacted
    <2>2. ASSUME NEW p \in Process, NEW c \in Change, NEW kind \in Kinds,
                 NEW t \in Row \cup {Nobody}, Propose(p, c, kind, t)
          PROVE  UNCHANGED Promise!promised
        <3>1. Enacted' = Enacted
            BY <2>2, ProposeIsQuiet DEF Enacted
        <3>2. QED
            BY <2>2, <3>1, ProposeIsQuiet DEF Promise!promised
    <2>3. ASSUME NEW p \in Process, Commit(p) PROVE Promise!Next
        <3> DEFINE c == req[p].change
                   a == req[p].actor
        <3>1. c \in Change /\ a \in Actor /\ Promise!Vote(c, a)
            BY <2>3, CommitEnacts DEF Promise!Vote, Enacted
        <3>2. CASE Cardinality(Votes'[c]) < Needed /\ db'.rows = db.rows
                     /\ db'.changes[c].status = "pending"
            <4>1. Enacted' = Enacted
                BY <2>3, <3>2, CommitEnacts DEF Enacted
            <4>2. Promise!Support(c, a)
                BY <3>1, <3>2, <4>1, SameCount DEF Promise!Support
            <4>3. QED
                BY <3>1, <4>2 DEF Promise!Next
        <3>3. CASE /\ Cardinality(Votes'[c]) >= Needed
                   /\ db'.changes[c].status = "applied"
                   /\ \E r \in Row : \A s \in Row \ {r} : db'.rows[s] = db.rows[s]
            <4>1. Enacted' = Enacted \cup {c}
                BY <2>3, <3>1, <3>3, CommitEnacts DEF Enacted
            <4>2. Promise!Enact(c, a)
                BY <3>1, <3>3, <4>1, SameCount DEF Promise!Enact
            <4>3. QED
                BY <3>1, <4>2 DEF Promise!Next
        <3>4. QED
            BY <2>3, <3>2, <3>3, CommitEnacts
    <2>4. QED
        BY <2>1, <2>2, <2>3, WhoWrites
<1>3. QED
    BY <1>1, <1>2, TInductive, PTL DEF Spec, KeepsPromise, Promise!Spec

----------------------------------------------------------------------------
\* Answers.  A COMMIT that may fail and leave its transaction open breaks
\* them: the connection then answers Ok for rows that land in that transaction.

DInv ==
    /\ TInv
    /\ \A p \in Process : owner = p => pc[p] # "idle"
    /\ \A ack \in acked :
         /\ db.changes[ack[1]].status # "absent"
         /\ ack[2] # Nobody => ack[2] \in Votes[ack[1]]

LEMMA InitDInv == Init => DInv
BY InitTInv, GovernanceAssumption DEF Init, DInv

LEMMA NextDInv ==
    ASSUME ~CommitBusy, DInv, [Next]_vars PROVE DInv'
<1>1. TInv /\ TInv'
    BY NextTInv DEF DInv
<1>2. \A p \in Process : owner' = p => pc'[p] # "idle"
    <2>1. TypeOK /\ \A p \in Process : owner = p => pc[p] # "idle"
        BY DEF DInv, TInv, IInv
    <2>2. \A p \in Process : Abandon(p) \/ Commit(p) => owner' = Nobody
        BY DEF Abandon, Commit
    <2>3. \A p \in Process : Record(p) \/ Apply(p) =>
             \/ owner' = owner /\ pc' = [pc EXCEPT ![p] = "ready"]
             \/ owner' = owner /\ pc' = [pc EXCEPT ![p] = "recorded"]
        BY DEF Record, Apply
    <2>4. \A p \in Process : \A c \in Change, a \in Actor, l \in Label :
             Begin(p, c, a, l) => owner' = p /\ pc' = [pc EXCEPT ![p] = "begun"]
        BY DEF Begin
    <2>5. \A p \in Process :
             \A c \in Change, kind \in Kinds, t \in Row \cup {Nobody} :
                Propose(p, c, kind, t) => UNCHANGED <<owner, pc>>
        BY DEF Propose
    <2>6. \A p \in Process :
             Refuse(p) \/ ApplyFails(p) \/ StatementFails(p) \/ CommitFails(p)
               \/ Crash(p) => Abandon(p)
        BY DEF Refuse, ApplyFails, StatementFails, CommitFails, Crash
    <2>7. \/ owner' = Nobody
          \/ UNCHANGED <<owner, pc>>
          \/ \E p \in Process : Record(p) \/ Apply(p)
          \/ \E p \in Process, c \in Change, a \in Actor, l \in Label :
                Begin(p, c, a, l)
        BY <2>2, <2>5, <2>6 DEF Next, Step, vars
    <2>8. CASE owner' = Nobody
        BY <2>8, GovernanceAssumption
    <2>9. CASE \E p \in Process : Record(p) \/ Apply(p)
        BY <2>1, <2>3, <2>9 DEF TypeOK
    <2>10. CASE \E p \in Process, c \in Change, a \in Actor, l \in Label :
                   Begin(p, c, a, l)
        BY <2>1, <2>4, <2>10 DEF TypeOK
    <2>11. QED
        BY <2>1, <2>7, <2>8, <2>9, <2>10
<1>3. ASSUME NEW ack \in acked'
      PROVE  /\ db'.changes[ack[1]].status # "absent"
             /\ ack[2] # Nobody => ack[2] \in Votes'[ack[1]]
    <2>1. ack[1] \in Change
        <3>1. acked' \subseteq Change \X (Actor \cup {Nobody})
            BY <1>1 DEF TInv, IInv, TypeOK
        <3>2. QED
            BY <1>3, <3>1
    <2>2. ack \in acked => /\ db.changes[ack[1]].status # "absent"
                           /\ ack[2] # Nobody => ack[2] \in Votes[ack[1]]
        BY DEF DInv
    <2>3. CASE UNCHANGED <<db, acked>>
        BY <1>3, <2>2, <2>3 DEF Votes
    <2>4. ASSUME NEW p \in Process, Commit(p)
          PROVE  /\ db'.changes[ack[1]].status # "absent"
                 /\ ack[2] # Nobody => ack[2] \in Votes'[ack[1]]
        <3> DEFINE c == req[p].change
                   a == req[p].actor
        <3>1. acked' = acked \cup {<<c, a>>}
            BY <2>4 DEF Commit
        <3>2. /\ a \in Votes'[c] /\ Votes[ack[1]] \subseteq Votes'[ack[1]]
              /\ db'.changes[c].status # "absent"
              /\ \A d \in Change \ {c} : db'.changes[d] = db.changes[d]
            <4>1. Votes = [d \in Change |-> Votes[d]]
                BY DEF Votes
            <4>2. QED
                BY <1>1, <2>1, <2>4, <4>1, CommitEnacts
        <3>3. CASE ack \in acked
            BY <2>1, <2>2, <3>2, <3>3
        <3>4. CASE ack = <<c, a>>
            BY <3>2, <3>4
        <3>5. QED
            BY <1>3, <3>1, <3>3, <3>4
    <2>5. ASSUME NEW p \in Process, NEW c \in Change, NEW kind \in Kinds,
                 NEW t \in Row \cup {Nobody}, Propose(p, c, kind, t)
          PROVE  /\ db'.changes[ack[1]].status # "absent"
                 /\ ack[2] # Nobody => ack[2] \in Votes'[ack[1]]
        <3>1. owner = Nobody
            BY <2>5 DEF Propose, DInv
        <3>2. db'.changes[c].status = "pending"
            <4>1. db \in Image
                BY <1>1 DEF TInv, IInv, TypeOK
            <4>2. QED
                BY <2>5, <3>1, <4>1, GovernanceAssumption DEF Propose
        <3>3. acked' = acked \cup {<<c, Nobody>>}
            BY <2>5 DEF Propose
        <3>4. CASE ack \in acked
            BY <1>1, <2>1, <2>2, <2>5, <3>4, ProposeIsQuiet
        <3>5. CASE ack = <<c, Nobody>>
            BY <3>2, <3>5
        <3>6. QED
            BY <1>3, <3>3, <3>4, <3>5
    <2>6. QED
        <3>1. \/ UNCHANGED <<db, acked>>
              \/ \E p \in Process : Commit(p)
              \/ \E p \in Process, c \in Change, kind \in Kinds,
                    t \in Row \cup {Nobody} : Propose(p, c, kind, t)
            BY DEF Next, Step, vars, Begin, Record, Refuse, Apply, ApplyFails,
                   StatementFails, CommitFails, Crash, Abandon
        <3>2. QED
            BY <2>3, <2>4, <2>5, <3>1
<1>4. QED
    BY <1>1, <1>2, <1>3 DEF DInv

\* When a failed COMMIT always ends its transaction, no answer of Ok is taken
\* back: the proposal and the approval stay in the committed table.
THEOREM AnswersAreDurable == ASSUME ~CommitBusy PROVE Spec => []AckedIsDurable
<1>1. DInv => AckedIsDurable
    <2> SUFFICES ASSUME DInv, NEW ack \in acked, ack[2] # Nobody
                 PROVE  \E e \in db.changes[ack[1]].approvals : e.actor = ack[2]
        BY DEF DInv, AckedIsDurable
    <2>1. ack[1] \in Change /\ db.changes[ack[1]].approvals \in SUBSET Entry
        BY DEF DInv, TInv, IInv, TypeOK, ChangeRec
    <2>2. ack[2] \in {e.actor : e \in Normalise(db.changes[ack[1]].approvals)}
        BY <2>1 DEF DInv, Votes
    <2>3. QED
        BY <2>1, <2>2, NormaliseScans
<1>2. DInv /\ [Next]_vars => DInv'
    BY NextDInv
<1>3. QED
    BY <1>1, <1>2, InitDInv, PTL DEF Spec

----------------------------------------------------------------------------
\* Rows and changes.  RowsMatchChanges of one image, and that a row some
\* change has written is still there.
Matched(image) ==
    /\ \A r \in Row : image.rows[r].by # Nobody =>
          /\ image.rows[r].present
          /\ image.changes[image.rows[r].by].status = "applied"
          /\ image.changes[image.rows[r].by].kind \in {"create", "update"}
    /\ \A c \in Change :
          LET change == image.changes[c]
          IN  change.status = "applied" =>
                 /\ change.kind # "other"
                 /\ change.kind = "create" =>
                      \E r \in Row : \/ image.rows[r].by = c
                                     \/ \E d \in Change :
                                           /\ image.changes[d].target = r
                                           /\ image.changes[d].status = "applied"
                 /\ change.kind # "create" => image.rows[change.target].present

\* A step that leaves the rows alone, and of the changes touches only some
\* that are not applied and stay so.
LEMMA MatchedKept ==
    ASSUME NEW old \in Image, NEW new, Matched(old), new.rows = old.rows,
           \A c \in Change : \/ /\ new.changes[c].status = old.changes[c].status
                                /\ new.changes[c].kind = old.changes[c].kind
                                /\ new.changes[c].target = old.changes[c].target
                             \/ /\ old.changes[c].status # "applied"
                                /\ new.changes[c].status # "applied"
    PROVE  Matched(new)
<1>1. \A c \in Change : old.changes[c].status = "applied" =>
            /\ new.changes[c].status = "applied"
            /\ new.changes[c].kind = old.changes[c].kind
            /\ new.changes[c].target = old.changes[c].target
    OBVIOUS
<1>2. \A c \in Change : new.changes[c].status = "applied" =>
            old.changes[c].status = "applied"
    OBVIOUS
<1>3. \A r \in Row : old.rows[r].by \in Change \cup {Nobody}
    BY DEF RowRec
<1>4. QED
    BY <1>1, <1>2, <1>3 DEF Matched

LEMMA ApplyMatched ==
    ASSUME IInv, NEW p \in Process, Apply(p), Matched(work)
    PROVE  Matched(work)'
<1> DEFINE c == req[p].change
           change == work.changes[c]
<1>1. c \in Change /\ work \in Image /\ change \in ChangeRec
    BY DEF IInv, TypeOK, Request
<1>2. PICK r \in Targets(change.kind, change.target, work.rows) :
         work' = [work EXCEPT
            !.rows[r] = IF change.kind = "delete"
                        THEN [@ EXCEPT !.active = FALSE,
                                       !.evolution_state = "deprecated"]
                        ELSE Upserted(p, c, @),
            !.changes[c].status = "applied"]
    BY DEF Apply
<1>3. /\ r \in Row /\ change.kind # "other"
      /\ change.kind = "create" => ~work.rows[r].present
      /\ change.kind # "create" => r = change.target /\ work.rows[r].present
    BY <1>1, <1>2 DEF Targets, ChangeRec, Kinds
<1>4. work.rows[r] \in RowRec
    BY <1>1, <1>3
<1>5. /\ \A d \in Change \ {c} : work'.changes[d] = work.changes[d]
      /\ work'.changes[c].status = "applied"
      /\ work'.changes[c].kind = change.kind /\ work'.changes[c].target = change.target
    BY <1>1, <1>2, <1>3 DEF ChangeRec
<1>6. /\ \A s \in Row \ {r} : work'.rows[s] = work.rows[s]
      /\ work'.rows[r].present
      /\ change.kind = "delete" => work'.rows[r].by = work.rows[r].by
      /\ change.kind # "delete" => work'.rows[r].by = c
    <2>1. CASE change.kind = "delete"
        BY <1>1, <1>2, <1>3, <1>4, <2>1 DEF RowRec
    <2>2. CASE change.kind # "delete"
        BY <1>1, <1>2, <1>3, <1>4, <2>2 DEF Upserted
    <2>3. QED
        BY <2>1, <2>2
<1>7. \A s \in Row : work.rows[s].by \in Change \cup {Nobody}
    BY <1>1 DEF RowRec
<1>8. \A d \in Change : work.changes[d].status = "applied" =>
            /\ work'.changes[d].status = "applied"
            /\ work'.changes[d].kind = work.changes[d].kind
            /\ work'.changes[d].target = work.changes[d].target
    BY <1>5
<1> HIDE DEF c, change
<1>9. ASSUME NEW s \in Row, work'.rows[s].by # Nobody
      PROVE  /\ work'.rows[s].present
             /\ work'.changes[work'.rows[s].by].status = "applied"
             /\ work'.changes[work'.rows[s].by].kind \in {"create", "update"}
    <2>1. CASE s = r /\ change.kind # "delete"
        <3>1. change.kind \in {"create", "update"}
            BY <1>1, <1>3, <2>1 DEF ChangeRec, Kinds
        <3>2. QED
            BY <1>5, <1>6, <2>1, <3>1
    <2>2. CASE work'.rows[s].by = work.rows[s].by
        BY <1>6, <1>7, <1>8, <1>9, <2>2 DEF Matched
    <2>3. QED
        BY <1>6, <2>1, <2>2
<1>10. ASSUME NEW d \in Change, work'.changes[d].status = "applied"
       PROVE  /\ work'.changes[d].kind # "other"
              /\ work'.changes[d].kind = "create" =>
                   \E s \in Row : \/ work'.rows[s].by = d
                                  \/ \E e \in Change :
                                        /\ work'.changes[e].target = s
                                        /\ work'.changes[e].status = "applied"
              /\ work'.changes[d].kind # "create" =>
                    work'.rows[work'.changes[d].target].present
    <2>1. CASE d = c
        <3>1. change.kind = "create" => work'.rows[r].by = c
            BY <1>6
        <3>2. QED
            BY <1>3, <1>5, <1>6, <2>1, <3>1
    <2>2. CASE d # c
        <3>1. work.changes[d].status = "applied" /\ work'.changes[d] = work.changes[d]
            BY <1>5, <1>10, <2>2
        <3>2. ASSUME work.changes[d].kind = "create"
              PROVE  \E s \in Row : \/ work'.rows[s].by = d
                                    \/ \E e \in Change :
                                          /\ work'.changes[e].target = s
                                          /\ work'.changes[e].status = "applied"
            <4>1. PICK s \in Row :
                     \/ work.rows[s].by = d
                     \/ \E e \in Change : /\ work.changes[e].target = s
                                          /\ work.changes[e].status = "applied"
                BY <3>1, <3>2 DEF Matched
            <4>2. CASE \E e \in Change : /\ work.changes[e].target = s
                                         /\ work.changes[e].status = "applied"
                BY <1>8, <4>2
            <4>3. CASE work.rows[s].by = d /\ (s # r \/ change.kind = "delete")
                BY <1>6, <4>3
            <4>4. CASE work.rows[s].by = d /\ s = r /\ change.kind # "delete"
                <5>1. work.rows[r].present
                    BY <4>4, GovernanceAssumption DEF Matched
                <5>2. change.target = r
                    BY <1>3, <5>1
                <5>3. QED
                    BY <1>1, <1>3, <1>5, <5>2
            <4>5. QED
                BY <4>1, <4>2, <4>3, <4>4
        <3>3. ASSUME work.changes[d].kind # "create"
              PROVE  work'.rows[work.changes[d].target].present
            <4>1. work.rows[work.changes[d].target].present
                BY <3>1, <3>3 DEF Matched
            <4>2. work'.rows = [work'.rows EXCEPT ![r] = work'.rows[r]]
                BY <1>1, <1>2
            <4>3. QED
                BY <1>1, <1>2, <1>6, <4>1 DEF c, change
        <3>4. QED
            BY <3>1, <3>2, <3>3, <1>10 DEF Matched
    <2>3. QED
        BY <2>1, <2>2
<1>11. QED
    BY <1>9, <1>10 DEF Matched

MInv == IInv /\ Matched(db) /\ Matched(work)

LEMMA InitMInv == Init => MInv
<1> SUFFICES ASSUME Init PROVE MInv
    OBVIOUS
<1>1. IInv
    BY InitIInv
<1>2. Matched(db)
    BY DEF Init, Stocked, Matched
<1>3. work = db
    BY DEF Init
<1>4. QED
    BY <1>1, <1>2, <1>3 DEF MInv

LEMMA ProposeMInv ==
    ASSUME MInv, NEW p \in Process, NEW c \in Change, NEW kind \in Kinds,
           NEW t \in Row \cup {Nobody}, Propose(p, c, kind, t)
    PROVE  Matched(db)' /\ Matched(work)'
<1> DEFINE put(image) == [image EXCEPT !.changes[c] =
               [kind |-> kind, target |-> t, status |-> "pending", approvals |-> {}]]
<1>1. db \in Image /\ work \in Image
    BY DEF MInv, IInv, TypeOK
<1>2. ASSUME NEW image \in Image, Matched(image),
             image.changes[c].status = "absent"
      PROVE  Matched(put(image))
    <2>1. /\ put(image).rows = image.rows
          /\ put(image).changes[c].status = "pending"
          /\ \A d \in Change \ {c} : put(image).changes[d] = image.changes[d]
        OBVIOUS
    <2> HIDE DEF put
    <2>2. QED
        BY <1>2, <2>1, MatchedKept
<1>3. Matched(put(db)) /\ Matched(put(work))
    BY <1>1, <1>2 DEF MInv, Propose
<1>4. \/ db' = put(db) /\ work' = db'
      \/ db' = db /\ work' = put(work)
    BY DEF Propose
<1>5. Matched(db') /\ Matched(work')
    <2> HIDE DEF put
    <2>1. QED
        BY <1>3, <1>4 DEF MInv
<1>6. QED
    BY <1>5 DEF Matched

LEMMA RecordMInv ==
    ASSUME MInv, NEW p \in Process, Record(p) PROVE Matched(work)'
<1> DEFINE c == req[p].change
<1>1. work \in Image /\ c \in Change
    BY DEF MInv, IInv, TypeOK, Request
<1>2. PICK B : work' = [work EXCEPT !.changes[c].approvals = B]
    BY DEF Record
<1>3. /\ work'.rows = work.rows
      /\ \A d \in Change : /\ work'.changes[d].status = work.changes[d].status
                           /\ work'.changes[d].kind = work.changes[d].kind
                           /\ work'.changes[d].target = work.changes[d].target
    BY <1>1, <1>2 DEF ChangeRec
<1>4. Matched(work')
    BY <1>1, <1>3, MatchedKept DEF MInv
<1>5. QED
    BY <1>4 DEF Matched

\* A rule's content comes from an applied change, and an applied change has
\* reached its rule: the status and the row are published together.
THEOREM RowsAndStatusTogether == Spec => []RowsMatchChanges
<1>1. MInv /\ [Next]_vars => MInv'
    <2> SUFFICES ASSUME MInv, [Next]_vars PROVE MInv'
        OBVIOUS
    <2>1. IInv'
        BY NextIInv DEF MInv
    <2>2. CASE db' \in {db, work} /\ work' \in {db, work}
        <3>1. Matched(db') /\ Matched(work')
            BY <2>2 DEF MInv
        <3>2. Matched(db)' /\ Matched(work)'
            BY <3>1 DEF Matched
        <3>3. QED
            BY <2>1, <3>2 DEF MInv
    <2>3. ASSUME NEW p \in Process, Record(p) \/ Apply(p) PROVE MInv'
        <3>1. Matched(work)'
            BY <2>3, RecordMInv, ApplyMatched DEF MInv
        <3>2. db' = db
            BY <2>3 DEF Record, Apply
        <3>3. QED
            BY <2>1, <3>1, <3>2 DEF MInv, Matched
    <2>4. ASSUME NEW p \in Process, NEW c \in Change, NEW kind \in Kinds,
                 NEW t \in Row \cup {Nobody}, Propose(p, c, kind, t)
          PROVE  MInv'
        BY <2>1, <2>4, ProposeMInv DEF MInv
    <2>5. QED
        BY <2>2, <2>3, <2>4
           DEF Next, Step, vars, Begin, Refuse, ApplyFails, StatementFails, Commit,
               CommitFails, Crash, Abandon
<1>2. MInv => RowsMatchChanges
    BY DEF MInv, Matched, RowsMatchChanges
<1>3. QED
    BY <1>1, <1>2, InitMInv, PTL DEF Spec
=============================================================================
