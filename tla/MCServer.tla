------------------------------ MODULE MCServer ------------------------------
(***************************************************************************)
(* Small instances for TLC, side by side, of what stands around the          *)
(* database: WriteGate, KeyFile, AuditLog, Background, Forwarding, Hooks,      *)
(* Research, Llm and Handover share no variable, so a behaviour is one of one of them,      *)
(* which `part' names, and the variables of the others stay where they begin. *)
(***************************************************************************)
EXTENDS MCWriteGate, KeyFile, AuditLog, Background, Forwarding, Hooks, Research, Llm, Handover

CONSTANTS s1, s2

VARIABLE part
----------------------------------------------------------------------------
\* Forwarding: two daemons, of two databases.
MCServes == [d \in Servers |-> IF d = s1 THEN 1 ELSE 2]

\* Research: a row that is kept, and what keeps a row out of an aggregate.
KeptRow == [status |-> "keep", score |-> 5, foul |-> FALSE, shown |-> TRUE, guarded |-> TRUE, whole |-> TRUE]
MCRows == {KeptRow, [KeptRow EXCEPT !.score = 6, !.foul = TRUE], [KeptRow EXCEPT !.score = 6, !.foul = TRUE, !.shown = FALSE],
           [KeptRow EXCEPT !.score = 4, !.guarded = FALSE], [KeptRow EXCEPT !.score = 9, !.status = "discard"],
           [KeptRow EXCEPT !.score = 9, !.whole = FALSE]}

\* Llm: a provider that gives the first choice and one that gives all parts.
MCProviders == <<"openai", "gemini">>
Told(parts) == [status |-> 200, json |-> TRUE, parts |-> parts]
MCAnswers ==
    {NoAnswer, [NoAnswer EXCEPT !.status = 429], [NoAnswer EXCEPT !.status = 200],
     Told(<<>>), Told(<<<<"m">>>>), Told(<<<<"t">>, <<"m">>>>), Told(<<<<"<", "m", ">">>, <<"t">>>>),
     Told(<<<<"<", "t", ">", "m">>>>), Told(<<<<"<", "m">>>>), Told(<<<<"<", "m">>, <<">">>>>),
     Told(<<<<"<", ">">>>>), Told(<<<<"<", ">", "m", "<", ">">>>>)}
MCReplies ==
    {<<"[", "a", "]", "n", "n", "[", "e1", "e2", "]", "n", "n", "D", "n", "n">>,
     <<":", "n", "[", "b", "]", "n", "[", "a", "]", "n", "n", "n", "D">>,
     <<"[", "a", "]", "r", "n", "r", "n", "D", "r", "n", "r", "n">>,
     <<"[", "b", "n", "n", "D", "n", "n">>,
     <<"[", "b", "]", "n", "n">>}

\* Handover: open tasks, one of each other kind, and rows of other projects.
Task(task, status, act, match) ==
    [RowOf("task", "home") EXCEPT !.task = task, !.status = status, !.act = act, !.match = match]
OldFact == RowOf("fact", "home")
MCTables ==
    {<<OldFact, Task("t1", "in_progress", FALSE, 100), Task("t2", "blocked", TRUE, 50)>>,
     <<RowOf("identity", "home"), Task("t1", "completed", FALSE, 0), RowOf("rule", "home"),
       [OldFact EXCEPT !.failed = TRUE], OldFact>>,
     <<[OldFact EXCEPT !.due = TRUE, !.near = FALSE], RowOf("dream", "home"), RowOf("session", "other"),
       RowOf("fact", "other"), [Task("t1", "in_progress", TRUE, 50) EXCEPT !.state = "deprecated"]>>}
----------------------------------------------------------------------------
\* Bounds. WriteGate: a token is opened at the start, or not at all.
OpenedFirst == (tokens' # tokens /\ tokens = [t \in Token |-> NoToken]) => now = 0

\* Background: one process is in a cycle, jobs change while none is, and the
\* last call finds all idle.
OneCycle ==
    /\ Cardinality({p \in Runners : cycle'[p] # NoCycle}) <= 1
    /\ \A p \in Runners : bpc[p] = "idle" /\ bpc'[p] = "dream" => ~disturbed
    /\ <<dreamJob, researchJob>> # <<dreamJob', researchJob'>> /\ bpc' = bpc => \A p \in Runners : bpc[p] = "idle"
    /\ (calls' # calls /\ calls' = MaxCalls) => \A p \in Runners : bpc[p] = "idle"

\* Hooks: warnings of both kinds share their number, and behaviours with warnings log
\* nothing in the trackers.
WarnsOrLogs ==
    /\ raised'["precompact"] + raised'["backup"] <= 2
    /\ raised'["precompact"] + raised'["backup"] = 0 \/ logged'["edit"] + logged'["fail"] = 0

\* Research: the score sheets, the batch and the aggregate each while the others rest.
Apart ==
    /\ Len(aggregate') <= 4
    /\ batchVars' = batchVars \/ (/\ sheets = [d \in Directions |-> <<>>]
                                  /\ \A p \in Aggregators : rpc[p] = 1
                                  /\ aggregate = <<>>)
    /\ sheetVars' = sheetVars \/ batch = "none"

\* Llm: streams and jobs share nothing.
LlmApart == (job = NoJob /\ StreamNext) \/ (stream = "idle" /\ JobNext)

\* Handover: others write while a call is under way; what they wrote before is in Tables.
WritesBetween == others' # others => call # NoCall

ServerInit ==
    /\ part \in {"gate", "keys", "audit", "background", "forwarding", "hooks", "research", "models", "handover"}
    /\ Init /\ KeyInit /\ AuditInit /\ BackgroundInit /\ ForwardInit /\ HookInit /\ ResearchInit /\ LlmInit /\ HandoverInit
    /\ part # "hooks" => checkpoint = "none"
    /\ part # "handover" => table = CHOOSE rows \in Tables : TRUE

ServerNext ==
    \/ /\ part = "gate" /\ Next /\ OpenedFirst
       /\ UNCHANGED <<part, keyVars, auditVars, backgroundVars, forwardVars, hookVars, researchVars, llmVars, handoverVars>>
    \/ /\ part = "keys" /\ KeyNext
       /\ UNCHANGED <<part, vars, auditVars, backgroundVars, forwardVars, hookVars, researchVars, llmVars, handoverVars>>
    \/ /\ part = "audit" /\ AuditNext
       /\ UNCHANGED <<part, vars, keyVars, backgroundVars, forwardVars, hookVars, researchVars, llmVars, handoverVars>>
    \/ /\ part = "background" /\ BackgroundNext /\ OneCycle
       /\ UNCHANGED <<part, vars, keyVars, auditVars, forwardVars, hookVars, researchVars, llmVars, handoverVars>>
    \/ /\ part = "forwarding" /\ ForwardNext
       /\ UNCHANGED <<part, vars, keyVars, auditVars, backgroundVars, hookVars, researchVars, llmVars, handoverVars>>
    \/ /\ part = "hooks" /\ HookNext /\ WarnsOrLogs
       /\ UNCHANGED <<part, vars, keyVars, auditVars, backgroundVars, forwardVars, researchVars, llmVars, handoverVars>>
    \/ /\ part = "research" /\ ResearchNext /\ Apart
       /\ UNCHANGED <<part, vars, keyVars, auditVars, backgroundVars, forwardVars, hookVars, llmVars, handoverVars>>
    \/ /\ part = "models" /\ LlmApart
       /\ UNCHANGED <<part, vars, keyVars, auditVars, backgroundVars, forwardVars, hookVars, researchVars, handoverVars>>
    \/ /\ part = "handover" /\ HandoverNext /\ WritesBetween
       /\ UNCHANGED <<part, vars, keyVars, auditVars, backgroundVars, forwardVars, hookVars, researchVars, llmVars>>

serverVars == <<part, vars, keyVars, auditVars, backgroundVars, forwardVars, hookVars, researchVars,
                llmVars, handoverVars>>
ServerSpec == ServerInit /\ [][ServerNext]_serverVars

\* The configuration names the processes of Background, Hooks and Research after the two
\* requests that are alike, so that one symmetry serves all parts.
----------------------------------------------------------------------------
\* The files of the server's operators and of the hooks keep what crossing commands
\* write: the key file (admin.rs), the audit log (audit/mod.rs) and the trackers and
\* warnings (phase4.rs).
FilesAreKept ==
    /\ part = "keys" => KeysAreKept
    /\ part = "audit" => AuditIsKept
    /\ part = "hooks" => HooksLoseNothing

\* What is asked elsewhere comes back whole or not at all: the daemons' answers to
\* searches (phase4.rs) and the models' answers (llm/mod.rs).
AnswersAreWhole ==
    /\ part = "forwarding" => ForwardingHolds
    /\ part = "models" => LlmIsHonest
=============================================================================
