----------------------------- MODULE Governance -----------------------------
(***************************************************************************)
(* L0 governance (memra-core/src/governance/mod.rs): a change to the        *)
(* constitution is proposed, approved by several principals and, on the     *)
(* approval that reaches the threshold, applied to the notes table in the   *)
(* transaction that records that approval.                                  *)
(*                                                                         *)
(* Several server processes share one SQLite file.  Each has one governance *)
(* connection behind a mutex, so a process runs one call at a time; between *)
(* processes only SQLite's write lock orders the calls.  `db' is the        *)
(* committed image, `work' the image of the open write transaction and      *)
(* `owner' the process that holds it.                                       *)
(***************************************************************************)
EXTENDS Naturals, FiniteSets

CONSTANTS
    Process,     \* server processes with a governance connection
    Actor,       \* principals resolved from transport credentials
    Label,       \* approver labels after canonicalize_approver
    Change,      \* ids of constitution_changes rows
    Row,         \* ids of notes rows of layer identity_schema
    Project,     \* project namespaces
    ProjectOf,   \* [Process -> Project], GovernanceService.project_id
    Needed,      \* APPROVALS_NEEDED
    Legacy,      \* approval lists a pending row may hold at start
    NewPos,      \* list position of the entries this code appends
    Seeded,      \* identity_schema rows already in the database
    CommitBusy,  \* whether COMMIT may fail and leave the transaction open
    Nobody       \* "no process", "no change", "no row", "no actor"

Kinds   == {"create", "update", "delete", "other"}
Entry   == [pos : 0..NewPos, actor : Actor, label : Label]

ASSUME GovernanceAssumption ==
    /\ Needed \in Nat \ {0} /\ NewPos \in Nat
    /\ Actor # {} /\ Label # {} /\ Change # {} /\ Project # {}
    /\ Seeded \subseteq Row /\ CommitBusy \in BOOLEAN
    /\ ProjectOf \in [Process -> Project]
    /\ Nobody \notin Process \cup Change \cup Row \cup Actor
    /\ \A A \in Legacy :
          /\ A \subseteq Entry /\ IsFiniteSet(A)
          /\ \A e, f \in A : e.pos = f.pos => e = f

VARIABLES
    db,      \* committed image: [changes, rows]
    work,    \* image of the open write transaction
    owner,   \* process whose connection holds it, or Nobody
    pc,      \* where each process is in approve_change_for_principal
    req,     \* the arguments of that call
    acked    \* <<change, actor>> answered Ok; actor Nobody for a proposal

vars == <<db, work, owner, pc, req, acked>>

ChangeRec == [kind : Kinds, target : Row \cup {Nobody},
              status : {"absent", "pending", "applied"},
              approvals : SUBSET Entry]
\* `by' is metadata_json's change_id: the change that wrote the content.
RowRec == [present : BOOLEAN, by : Change \cup {Nobody}, active : BOOLEAN,
           evolution_state : {"active", "deprecated"}, project : Project]
Image  == [changes : [Change -> ChangeRec], rows : [Row -> RowRec]]
Request == [change : Change, actor : Actor, label : Label]

TypeOK ==
    /\ db \in Image /\ work \in Image
    /\ owner \in Process \cup {Nobody}
    /\ pc \in [Process -> {"idle", "begun", "recorded", "ready"}]
    /\ req \in [Process -> Request]
    /\ acked \subseteq Change \X (Actor \cup {Nobody})

----------------------------------------------------------------------------
\* The approvals list.  Entries carry the position they have in the stored
\* array; those this code appends all carry NewPos, past every stored one.

SameVoter(e, f) == e.actor = f.actor \/ e.label = f.label

ClashFree(A) == \A e, f \in A : SameVoter(e, f) => e = f

\* The scan over the parsed list: an entry stays when no entry kept before it
\* has its principal or its canonical label.
Scan(A, K) ==
    \A e \in A : e \in K <=> \A f \in K : f.pos < e.pos => ~SameVoter(f, e)
Normalise(A) == CHOOSE K \in SUBSET A : Scan(A, K)

----------------------------------------------------------------------------
\* A database with pending changes on the lists `held' and the Seeded rules.
Stocked(held, kind, target) ==
    [changes |-> [c \in Change |->
        [kind |-> kind[c], target |-> target[c],
         status |-> IF held[c] = {} THEN "absent" ELSE "pending",
         approvals |-> held[c]]],
     rows |-> [r \in Row |->
        [present |-> r \in Seeded, by |-> Nobody, active |-> r \in Seeded,
         evolution_state |-> "active", project |-> CHOOSE x \in Project : TRUE]]]

Init ==
    /\ \E held \in [Change -> Legacy \cup {{}}], kind \in [Change -> Kinds],
          target \in [Change -> Row \cup {Nobody}] :
          /\ \A c \in Change :
                held[c] = {} => kind[c] = "other" /\ target[c] = Nobody
          /\ db = Stocked(held, kind, target)
    /\ work = db
    /\ owner = Nobody
    /\ pc = [p \in Process |-> "idle"]
    /\ req = [p \in Process |-> CHOOSE q \in Request : TRUE]
    /\ acked = {}

\* propose_change: one autocommitted INSERT.  On a connection whose earlier
\* COMMIT left the transaction open the row lands in that transaction.
Propose(p, c, kind, target) ==
    LET new == [kind |-> kind, target |-> target, status |-> "pending",
                approvals |-> {}]
    IN  /\ pc[p] = "idle"
        /\ db.changes[c].status = "absent" /\ work.changes[c].status = "absent"
        /\ \/ /\ owner = Nobody
              /\ db' = [db EXCEPT !.changes[c] = new]
              /\ work' = db'
           \/ /\ owner = p
              /\ work' = [work EXCEPT !.changes[c] = new]
              /\ UNCHANGED db
        /\ acked' = acked \cup {<<c, Nobody>>}
        /\ UNCHANGED <<owner, pc, req>>

\* BEGIN IMMEDIATE: enabled when nobody holds the write lock.  A connection
\* already inside a transaction gets an error, which changes nothing.
Begin(p, c, a, l) ==
    /\ pc[p] = "idle" /\ owner = Nobody
    /\ owner' = p
    /\ work' = db
    /\ pc' = [pc EXCEPT ![p] = "begun"]
    /\ req' = [req EXCEPT ![p] = [change |-> c, actor |-> a, label |-> l]]
    /\ UNCHANGED <<db, acked>>

\* ROLLBACK, and what SQLite does for a process that dies.
Abandon(p) ==
    /\ owner' = Nobody
    /\ work' = db
    /\ pc' = [pc EXCEPT ![p] = "idle"]
    /\ UNCHANGED <<db, req, acked>>

\* Faulty variants, one per hazard, stand before the definition they vary.
MayApprove_AnyPrincipal(change, a, l) ==
    /\ change.status = "pending"
    /\ \A e \in Normalise(change.approvals) : e.label # l
MayApprove_AnyStatus(change, a, l) ==
    \A e \in Normalise(change.approvals) : e.label # l /\ e.actor # a

\* What approve_inner requires of the row and of the voter.
MayApprove(change, a, l) ==
    /\ change.status = "pending"
    /\ \A e \in Normalise(change.approvals) : e.label # l /\ e.actor # a

Refuse_NoRollback(p) ==
    /\ pc[p] = "begun"
    /\ ~MayApprove(work.changes[req[p].change], req[p].actor, req[p].label)
    /\ pc' = [pc EXCEPT ![p] = "idle"]
    /\ UNCHANGED <<db, work, owner, req, acked>>

Refuse(p) ==
    /\ pc[p] = "begun"
    /\ ~MayApprove(work.changes[req[p].change], req[p].actor, req[p].label)
    /\ Abandon(p)

\* The count column trusted instead of the normalised list.
Record_RawCount(p) ==
    LET c == req[p].change
        approvals == work.changes[c].approvals \cup
              {[pos |-> NewPos, actor |-> req[p].actor, label |-> req[p].label]}
    IN  /\ pc[p] = "begun"
        /\ MayApprove(work.changes[c], req[p].actor, req[p].label)
        /\ work' = [work EXCEPT !.changes[c].approvals = approvals]
        /\ pc' = [pc EXCEPT ![p] =
                    IF Cardinality(approvals) >= Needed THEN "recorded" ELSE "ready"]
        /\ UNCHANGED <<db, owner, req, acked>>

\* approve_inner up to the UPDATE of approvals and approvals_count.
Record(p) ==
    LET c == req[p].change
        approvals == Normalise(work.changes[c].approvals) \cup
              {[pos |-> NewPos, actor |-> req[p].actor, label |-> req[p].label]}
    IN  /\ pc[p] = "begun"
        /\ MayApprove(work.changes[c], req[p].actor, req[p].label)
        /\ work' = [work EXCEPT !.changes[c].approvals = approvals]
        /\ pc' = [pc EXCEPT ![p] =
                    IF Cardinality(approvals) >= Needed THEN "recorded" ELSE "ready"]
        /\ UNCHANGED <<db, owner, req, acked>>

Upserted_NullState(p, c, old) ==
    [present |-> TRUE, by |-> c, active |-> TRUE,
     evolution_state |-> IF old.present THEN old.evolution_state ELSE "null",
     project |-> ProjectOf[p]]

\* The row a create or an update writes.  upsert_note keeps the stored
\* evolution_state when the new one is "active", and sets everything else.
Upserted(p, c, old) ==
    [present |-> TRUE, by |-> c, active |-> TRUE,
     evolution_state |-> IF old.present THEN old.evolution_state ELSE "active",
     project |-> ProjectOf[p]]

Targets_NoPrecheck(kind, target, rows) ==
    CASE kind = "create" -> {r \in Row : ~rows[r].present}
      [] kind \in {"update", "delete"} -> {r \in Row : r = target}
      [] OTHER -> {}

\* The rows apply_change_inner may write: a fresh one, or its target.
Targets(kind, target, rows) ==
    CASE kind = "create" -> {r \in Row : ~rows[r].present}
      [] kind \in {"update", "delete"} -> {r \in Row : r = target /\ rows[r].present}
      [] OTHER -> {}

\* apply_change_inner: the notes row and the flip to 'applied'.
Apply(p) ==
    LET c == req[p].change
        change == work.changes[c]
    IN  /\ pc[p] = "recorded"
        /\ \E r \in Targets(change.kind, change.target, work.rows) :
              work' = [work EXCEPT
                !.rows[r] = IF change.kind = "delete"
                            THEN [@ EXCEPT !.active = FALSE,
                                           !.evolution_state = "deprecated"]
                            ELSE Upserted(p, c, @),
                !.changes[c].status = "applied"]
        /\ pc' = [pc EXCEPT ![p] = "ready"]
        /\ UNCHANGED <<db, owner, req, acked>>

ApplyFails(p) ==
    LET change == work.changes[req[p].change]
    IN  /\ pc[p] = "recorded"
        /\ Targets(change.kind, change.target, work.rows) = {}
        /\ Abandon(p)

\* A statement inside the transaction fails: Err, then ROLLBACK.
StatementFails(p) == pc[p] \in {"begun", "recorded"} /\ Abandon(p)

Commit(p) ==
    /\ pc[p] = "ready"
    /\ db' = work
    /\ owner' = Nobody
    /\ pc' = [pc EXCEPT ![p] = "idle"]
    /\ acked' = acked \cup {<<req[p].change, req[p].actor>>}
    /\ UNCHANGED <<work, req>>

CommitFails_AnswersOk(p) ==
    /\ pc[p] = "ready"
    /\ owner' = Nobody /\ work' = db
    /\ pc' = [pc EXCEPT ![p] = "idle"]
    /\ acked' = acked \cup {<<req[p].change, req[p].actor>>}
    /\ UNCHANGED <<db, req>>

\* COMMIT fails and the error returns at once, with no ROLLBACK.  SQLite has
\* rolled back after an I/O error; after SQLITE_BUSY the transaction is open.
CommitFails(p) ==
    /\ pc[p] = "ready"
    /\ \/ Abandon(p)
       \/ /\ CommitBusy
          /\ pc' = [pc EXCEPT ![p] = "idle"]
          /\ UNCHANGED <<db, work, owner, req, acked>>

Crash(p) == owner = p /\ Abandon(p)

Step(p) ==
    \/ Record(p) \/ Refuse(p) \/ Apply(p) \/ ApplyFails(p)
    \/ StatementFails(p) \/ Commit(p) \/ CommitFails(p)

Next ==
    \E p \in Process :
        \/ \E c \in Change, kind \in Kinds, t \in Row \cup {Nobody} :
              Propose(p, c, kind, t)
        \/ \E c \in Change, a \in Actor, l \in Label : Begin(p, c, a, l)
        \/ Step(p)
        \/ Crash(p)

Spec == Init /\ [][Next]_vars

\* A call that has begun runs to its end; nobody has to call, or to crash.
FairSpec == Spec /\ \A p \in Process : WF_vars(Step(p))

----------------------------------------------------------------------------
\* No change is applied on fewer than Needed approvals by pairwise distinct
\* principals and pairwise distinct canonical labels, whatever duplicates an
\* older backend left in its list and whichever processes took the approvals.
AppliedByQuorum ==
    \A c \in Change : db.changes[c].status = "applied" =>
        LET A == db.changes[c].approvals
        IN  /\ Cardinality({e.actor : e \in A}) >= Needed
            /\ Cardinality({e.label : e \in A}) >= Needed

\* The status flip and the notes row are one transaction: a row's content
\* comes from an applied change, and an applied change reached its row.
RowsMatchChanges ==
    /\ \A r \in Row : db.rows[r].by # Nobody =>
          /\ db.changes[db.rows[r].by].status = "applied"
          /\ db.changes[db.rows[r].by].kind \in {"create", "update"}
    /\ \A c \in Change :
          LET change == db.changes[c]
          IN  change.status = "applied" =>
                 /\ change.kind # "other"
                 /\ change.kind = "create" =>
                      \E r \in Row : \/ db.rows[r].by = c
                                     \/ \E d \in Change : /\ db.changes[d].target = r
                                                          /\ db.changes[d].status = "applied"
                 /\ change.kind # "create" => db.rows[change.target].present

\* An answer of Ok is never taken back: the approval is in the committed
\* list, and the proposal in the committed table.
AckedIsDurable ==
    \A ack \in acked :
        LET change == db.changes[ack[1]]
        IN  /\ change.status # "absent"
            /\ ack[2] # Nobody => \E e \in change.approvals : e.actor = ack[2]

\* Rules change only in the step that makes a change applied; an applied
\* change is never touched again, and a counted principal never disappears.
RulesChangeByEnactment ==
    [][ /\ db'.rows # db.rows =>
             \E c \in Change : /\ db.changes[c].status = "pending"
                               /\ db'.changes[c].status = "applied"
        /\ \A c \in Change :
             /\ db.changes[c].status = "applied" => db'.changes[c] = db.changes[c]
             /\ {e.actor : e \in Normalise(db.changes[c].approvals)}
                  \subseteq {e.actor : e \in Normalise(db'.changes[c].approvals)}
      ]_vars

\* Whatever fails, the write lock is released (with CommitBusy FALSE).
LockReleased == \A p \in Process : owner = p ~> owner # p

\* What the committed image says in the vocabulary of Constitution.
Votes   == [c \in Change |-> {e.actor : e \in Normalise(db.changes[c].approvals)}]
Enacted == {c \in Change : db.changes[c].status = "applied"}

Promise == INSTANCE Constitution
              WITH Principal <- Actor, votes <- Votes, enacted <- Enacted,
                   rules <- db.rows

\* The processes, transactions, failures and crashes above implement the
\* abstract constitution: committed images step as it does.
KeepsPromise == Promise!Spec
=============================================================================
