------------------------------ MODULE Handover ------------------------------
(***************************************************************************)
(* What a session is told when it starts: `get_context' in its modes         *)
(* (memra-core/src/retrieval/search.rs), `ma packet' and `ma resume'          *)
(* (memra-server/src/cli/phase4.rs). Each is a row of SELECTs on one          *)
(* connection without a transaction: other processes write between them.     *)
(***************************************************************************)
EXTENDS Integers, Sequences, FiniteSets

CONSTANTS
    Tables,       \* the tables there may be at first, each a sequence of rows by age
    Home,         \* the project that is asked for
    OpenTasks,    \* tasks whose checkpoints are saved
    OpenLimit,    \* open checkpoints that are told
    Limit,        \* entries of the other lists
    MaxOthers,    \* bound: others after the start
    MaxAsks      \* bound: asks

ASSUME HandoverAssumption ==
    {OpenLimit, Limit, MaxOthers, MaxAsks} \subseteq Nat

(* A row: a note that is a checkpoint ("task"), another "event", a "fact", a "rule"
   or of the "identity"; a "dream" that was promoted; a "session". near: within the days,
   hours or minutes the list asks for; act: there is a next step or a blocker;
   match: how well the query of `ma resume' fits, in hundredths. *)
RowOf(kind, project) ==
    [kind |-> kind, project |-> project, live |-> TRUE, state |-> "active", task |-> "none", status |-> "none",
     near |-> TRUE, failed |-> FALSE, due |-> FALSE, act |-> FALSE, match |-> 0]
Unfinished == {"blocked", "in_progress"}
Statuses == Unfinished \cup {"completed", "abandoned"}
NoteKinds == {"task", "event", "fact", "rule", "identity"}
TableRows ==
    [kind : NoteKinds \cup {"dream", "session"}, project : {Home, "other"}, live : BOOLEAN,
     state : {"active", "deprecated"}, task : OpenTasks \cup {"none"}, status : Statuses \cup {"none"},
     near : BOOLEAN, failed : BOOLEAN, due : BOOLEAN, act : BOOLEAN, match : Nat]

ASSUME TablesAssumption ==
    \A rows \in Tables :
        rows \in Seq(TableRows) /\ \A i \in DOMAIN rows : rows[i].kind = "task" => rows[i].status \in Statuses

VARIABLES
    table,    \* the rows; a new one comes last
    call,     \* the call under way
    others, asks

handoverVars == <<table, call, others, asks>>

NoCall == [mode |-> "none", next |-> 1, got |-> <<>>, quiet |-> TRUE, still |-> {}]
----------------------------------------------------------------------------
TopOf(n, S, Before(_, _)) == {i \in S : Cardinality({j \in S : Before(j, i)}) < n}
Latest(n, S) == TopOf(n, S, LAMBDA i, j : i > j)
Oldest(n, S) == TopOf(n, S, LAMBDA i, j : i < j)

Here(kinds) == {i \in DOMAIN table : table[i].kind \in kinds /\ table[i].live /\ table[i].project = Home}

\* active_note_where_clause also asks for the state of the note's evolution.
Alive(kinds) == {i \in Here(kinds) : table[i].state = "active"}

Failed(i) == table[i].failed

\* search_checkpoints_inner does not.
OpenRows == {i \in Here({"task"}) : table[i].status \in Unfinished}

\* list_context_notes: the first 3 * limit are fetched, the failed ones of them and,
\* for events, the checkpoints left out.
ContextNotes(kinds, told) ==
    LET before(i, j) == \/ table[i].kind = "identity" /\ table[j].kind # "identity"
                        \/ (table[i].kind = "identity" <=> table[j].kind = "identity") /\ i > j
        offered == {i \in TopOf(3 * Limit, Alive(kinds), before) : table[i].kind \in told /\ ~Failed(i)}
    IN  TopOf(Limit, offered, before)

\* list_recent_memories leaves out checkpoints that are not completed: those that
\* were abandoned, too.
Hidden(i) == table[i].kind = "task" /\ table[i].status # "completed"
RecentMemories == Latest(Limit, {i \in Latest(3 * Limit, Alive(NoteKinds)) : ~Hidden(i)})

FailedMemories == Latest(Limit, {i \in Latest(3 * Limit, Here(NoteKinds)) : Failed(i)})
NeedsReview == Oldest(Limit, {i \in Alive(NoteKinds) : table[i].due})

\* list_active_workstreams: the rows of the tasks that were written to most.
Workstreams ==
    LET touched == {i \in Here(NoteKinds) : table[i].near /\ table[i].task # "none"}
        weight(t) == Cardinality({i \in touched : table[i].task = t})
    IN  {i \in touched : Cardinality({t \in {table[j].task : j \in touched} : weight(t) > weight(table[i].task)}) < Limit}

Promoted == Latest(Limit, {i \in Here({"dream"}) : table[i].near})

Sessions_OfAll == {i \in DOMAIN table : table[i].kind = "session" /\ table[i].near}
\* list_active_sessions: those seen within five minutes.
Sessions == {i \in Here({"session"}) : table[i].near}

\* latest_packet_note_time, for one layer: its row within the last 24 hours.
NearNotes(kind) == {i \in Here({kind}) : table[i].near}

\* packet_active_checkpoints asks for one status after the other.
OfStatus(status) == {i \in OpenRows : table[i].status = status}

\* A packet tells the 30 newest decisions and suggests the rules of a week that are
\* among the 20 newest and the decisions of three days that are among the 10 newest.
Decisions   == Latest(3 * Limit, Here({"fact"}))
Corrections == {i \in Latest(2 * Limit, Here({"rule"})) : table[i].near}
Suggested   == {i \in Latest(Limit, Here({"fact"})) : table[i].near}

\* resume_candidate_from_checkpoint: the rank, in hundredths.
Ranked(i) == table[i].match + (IF table[i].act THEN 25 ELSE 0) + (IF table[i].status = "blocked" THEN 15 ELSE 0)
ResumeOrder(i, j) == Ranked(i) > Ranked(j) \/ (Ranked(i) = Ranked(j) /\ i > j)
Breakpoint(S) == TopOf(1, S, ResumeOrder)

SelectsOf(mode) ==
    CASE mode = "wake"   -> <<"open", "recent", "streams", "dreams", "sessions">>
      [] mode = "full"   -> <<"open", "entities", "events", "procedures", "recent", "review", "failed", "streams",
                              "dreams", "sessions">>
      [] mode = "packet" -> <<"facts_near", "tasks_near", "rules_near", "identity_near", "identity", "decisions", "blocked",
                              "in_progress", "corrections", "suggested">>
      [] OTHER           -> <<"resume">>
Modes == {"wake", "full", "packet", "resume"}

Select(list) ==
    CASE list = "open"       -> Latest(OpenLimit, OpenRows)
      [] list = "entities"   -> ContextNotes({"identity", "fact"}, {"identity", "fact"})
      [] list = "events"     -> ContextNotes({"task", "event"}, {"event"})
      [] list = "procedures" -> ContextNotes({"rule"}, {"rule"})
      [] list = "recent"     -> RecentMemories
      [] list = "review"     -> NeedsReview
      [] list = "failed"     -> FailedMemories
      [] list = "streams"    -> Workstreams
      [] list = "dreams"     -> Promoted
      [] list = "sessions"   -> Sessions
      [] list = "facts_near" -> NearNotes("fact")
      [] list = "tasks_near" -> NearNotes("task")
      [] list = "rules_near" -> NearNotes("rule")
      [] list = "identity_near" -> NearNotes("identity")
      [] list = "identity"   -> Here({"identity"})
      [] list = "decisions"  -> Decisions
      [] list \in Unfinished -> OfStatus(list)
      [] list = "corrections" -> Corrections
      [] list = "suggested"  -> Suggested
      [] OTHER               -> Breakpoint(Latest(5 * Limit, OpenRows))
----------------------------------------------------------------------------
Tasks(S) == {<<table[i].task, table[i].status>> : i \in S}

CallStarts(mode) ==
    /\ call = NoCall /\ asks < MaxAsks /\ asks' = asks + 1
    /\ call' = [NoCall EXCEPT !.mode = mode, !.still = Tasks(OpenRows)]
    /\ UNCHANGED <<table, others>>

ListsOf == SelectsOf(call.mode)
CallReads ==
    /\ call # NoCall /\ call.next <= Len(ListsOf)
    /\ call' = [call EXCEPT !.next = @ + 1, !.got = Append(@, Select(ListsOf[call.next]))]
    /\ UNCHANGED <<table, others, asks>>
CallEnds ==
    /\ call # NoCall /\ call.next > Len(ListsOf) /\ call' = NoCall /\ UNCHANGED <<table, others, asks>>

\* The others: still are the tasks that had an open checkpoint of one status ever
\* since the call began (history).
Writes(rows) ==
    /\ others < MaxOthers /\ others' = others + 1 /\ table' = rows /\ UNCHANGED asks
    /\ call' = IF call = NoCall THEN call
               ELSE [call EXCEPT !.quiet = FALSE, !.still = @ \cap Tasks(OpenRows)']

\* deactivate_checkpoints_by_task_id and the new row are one transaction.
Closes(task) ==
    [i \in DOMAIN table |-> IF table[i].kind = "task" /\ table[i].task = task THEN [table[i] EXCEPT !.live = FALSE] ELSE table[i]]

\* validate_checkpoint_params lets four states pass.
SaveTask(project, task, status, act) ==
    Writes(Append(Closes(task), [RowOf("task", project) EXCEPT !.task = task, !.status = status, !.act = act]))

WriteRow(kind, project) == Writes(Append(table, RowOf(kind, project)))
Fails(i)     == table[i].kind \in NoteKinds /\ ~table[i].failed /\ Writes([table EXCEPT ![i].failed = TRUE])
Retires(i)   == table[i].live /\ Writes([table EXCEPT ![i].live = FALSE])
Deprecates(i) == table[i].kind = "task" /\ table[i].state = "active" /\ Writes([table EXCEPT ![i].state = "deprecated"])
----------------------------------------------------------------------------
HandoverInit == table \in Tables /\ call = NoCall /\ others = 0 /\ asks = 0

HandoverNext ==
    \/ \E mode \in Modes : CallStarts(mode)
    \/ CallReads \/ CallEnds
    \/ \E task \in OpenTasks, status \in Statuses, act \in BOOLEAN :
            SaveTask(Home, task, status, act)
    \/ \E kind \in {"fact", "event", "session"}, project \in {Home, "other"} : WriteRow(kind, project)
    \/ \E i \in DOMAIN table : Fails(i) \/ Retires(i) \/ Deprecates(i)

HandoverSpec == HandoverInit /\ [][HandoverNext]_handoverVars
----------------------------------------------------------------------------
HandoverTypeOK ==
    /\ call.mode \in Modes \cup {"none"} /\ Len(call.got) = call.next - 1
    /\ \A k \in DOMAIN call.got : call.got[k] \subseteq DOMAIN table

Got(list) == UNION {call.got[k] : k \in {j \in DOMAIN call.got : ListsOf[j] = list}}
Has(list) == \E k \in DOMAIN call.got : ListsOf[k] = list

\* A session is told of its own project only.
NothingOfOthers == \A k \in DOMAIN call.got : \A i \in call.got[k] : table[i].project = Home

\* Whatever is written in between, no row is told as an open checkpoint and as a
\* recent memory.
NoRowTwice == Got("open") \cap Got("recent") = {}

\* A task that was open, with one status, all the time of the call is told, but for
\* the limit; `ma packet' may miss one that becomes blocked between two SELECTs, and
\* tell one twice that is taken up again.
OpenTasksAreTold ==
    \A t \in call.still :
        /\ Has("open") => t \in Tasks(Got("open")) \/ Cardinality(Got("open")) = OpenLimit
        /\ Has("in_progress") => t \in Tasks(Got("blocked") \cup Got("in_progress"))

\* Without others in between: a live note newer than a recent memory that is told is
\* told, too, unless it is a checkpoint, which is told as one unless it was abandoned
\* or there are too many; what failed is told as failed unless there are too many,
\* and not offered as knowledge; what a packet suggests it has told.
QuietCallsAreWhole ==
    call.quiet =>
        /\ Has("recent") => \A i \in Got("recent"), j \in Alive(NoteKinds) :
               j > i => \/ j \in Got("recent") \cup Got("open") \/ (j \in OpenRows /\ Cardinality(Got("open")) = OpenLimit)
                        \/ (table[j].kind = "task" /\ table[j].status = "abandoned")
        /\ Has("failed") =>
              /\ \A i \in Got("entities") \cup Got("procedures") : i \notin Got("failed") /\ ~Failed(i)
              /\ \A i \in Here(NoteKinds) : Failed(i) /\ i \notin Got("failed") =>
                    \/ Cardinality({j \in Here(NoteKinds) : j > i}) >= 3 * Limit
                    \/ Cardinality({j \in Here(NoteKinds) : j > i /\ Failed(j)}) >= Limit
        /\ Has("suggested") => Got("suggested") \subseteq Got("decisions")
        /\ Has("suggested") /\ Got("suggested") # {} => Got("facts_near") # {}

\* No open checkpoint that fits as well, can be acted on as well and is as blocked is
\* passed over for an older one, unless 5 * limit are newer.
ResumeIsBest ==
    \A i \in Got("resume"), j \in {k \in OpenRows : call.quiet} :
        j > i /\ Cardinality(OpenRows) <= 5 * Limit =>
            \/ table[j].match < table[i].match \/ (table[i].act /\ ~table[j].act)
            \/ (table[i].status = "blocked" /\ table[j].status # "blocked")

\* What a session is told.
HandoverIsTrue ==
    HandoverTypeOK /\ NothingOfOthers /\ NoRowTwice /\ OpenTasksAreTold /\ QuietCallsAreWhole /\ ResumeIsBest
=============================================================================
