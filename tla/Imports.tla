------------------------------ MODULE Imports ------------------------------
(***************************************************************************)
(* What is taken over from outside (memra-server/src/cli/phase4.rs):          *)
(* `ma ingest' turns Markdown files into notes and keeps a state file that    *)
(* tells which files it need not read again, and `ma mine-convos' turns       *)
(* exported conversations into notes (memra-core/src/convo_normalizer.rs).    *)
(***************************************************************************)
EXTENDS Integers, Sequences, FiniteSets

LOCAL INSTANCE SequencesExt

CONSTANTS
    Ingesters,   \* processes of `ma ingest'
    DocSections,    \* [version -> sections of a file, in their order]
    Docs,        \* the files, in their order
    Limits,      \* the values of --limit
    MaxDocEdits,  \* bound: edits of files
    MaxIngests,  \* bound: runs of `ma ingest'
    Dirs,        \* the directories of exports, each a sequence of exports
    MaxExchanges \* --max

ASSUME ImportsAssumption == {MaxDocEdits, MaxIngests, MaxExchanges} \cup Docs \subseteq Nat

VARIABLES
    docs,        \* [file -> [version, stamp]]: its time in seconds and its length
    stamps,      \* the state file: [file -> stamp], 0 when not there; TornStamps while it is written
    chunksKept,  \* chunks that are notes
    ingest,      \* [process -> its run]
    docEdits, ingests,
    blind,       \* files edited within the second, to the same length (history)
    gaps,        \* versions recorded though a chunk was cut off or failed (history)
    miner        \* the run of `ma mine-convos'

ingestVars == <<docs, stamps, chunksKept, ingest, docEdits, ingests, blind, gaps>>
importVars == <<ingestVars, miner>>

TornStamps == [d \in Docs |-> -1]
NoCount == [found |-> 0, written |-> 0, duplicates |-> 0, policy |-> 0, failed |-> 0]
NoIngest == [at |-> "none", state |-> TornStamps, left |-> {}, remaining |-> 0, force |-> FALSE, dry |-> FALSE,
             doc |-> 0, stamp |-> 0, version |-> 0, todo |-> <<>>, whole |-> TRUE, count |-> NoCount]
----------------------------------------------------------------------------
\* A file is written or edited; the stamp of an edited one may stay the same.
EditDoc(d, seen) ==
    /\ docEdits < MaxDocEdits /\ docs[d].version < Len(DocSections) /\ docEdits' = docEdits + 1
    /\ docs[d].version = 0 => seen
    /\ docs' = [docs EXCEPT ![d] = [version |-> @.version + 1, stamp |-> IF seen THEN @.stamp + 1 ELSE @.stamp]]
    /\ blind' = IF seen THEN blind \ {d} ELSE blind \cup {d}
    /\ UNCHANGED <<stamps, chunksKept, ingest, ingests, gaps, miner>>

\* collect_markdown_files: the Markdown files under the roots, by their paths.
Listed == {d \in Docs : docs[d].version # 0}

\* markdown_ingest_chunks: a chunk is a section under the name of its file.
Chunks(d, v) == [k \in DOMAIN DocSections[v] |-> <<d, DocSections[v][k]>>]

\* load_ingest_state: what does not parse stops the command.
IngestStarts(i) ==
    /\ ingest[i].at = "none" /\ ingests < MaxIngests /\ ingests' = ingests + 1
    /\ IF stamps = TornStamps THEN UNCHANGED ingest
       ELSE \E limit \in Limits, force, dry \in BOOLEAN :
                /\ ~(force /\ dry)
                /\ ingest' = [ingest EXCEPT ![i] = [NoIngest EXCEPT !.at = "files", !.state = stamps, !.left = Listed,
                                                                    !.remaining = limit, !.force = force, !.dry = dry]]
    /\ UNCHANGED <<docs, stamps, chunksKept, docEdits, blind, gaps, miner>>

FirstOf(S) == CHOOSE d \in S : \A e \in S : d <= e

\* The stamp is taken before the file is read. No file is looked at once the limit
\* is used up.
Stat(i) ==
    LET run == ingest[i]
        d   == FirstOf(run.left)
    IN  /\ run.at = "files" /\ run.left # {} /\ run.remaining > 0
        /\ ingest' = [ingest EXCEPT ![i] =
               IF run.state[d] = docs[d].stamp /\ ~run.force
                 THEN [run EXCEPT !.left = @ \ {d}]
                 ELSE [run EXCEPT !.at = "open", !.left = @ \ {d}, !.doc = d, !.stamp = docs[d].stamp]]
        /\ UNCHANGED <<docs, stamps, chunksKept, docEdits, ingests, blind, gaps, miner>>

\* A file that cannot be read is an error of the report and is not recorded.
ReadDoc(i) ==
    LET run == ingest[i]
        v   == docs[run.doc].version
    IN  /\ run.at = "open"
        /\ \/ ingest' = [ingest EXCEPT ![i] = [run EXCEPT !.at = "chunks", !.version = v, !.todo = Chunks(run.doc, v), !.whole = TRUE,
                                                          !.count.found = @ + Len(DocSections[v])]]
           \/ ingest' = [ingest EXCEPT ![i] = [run EXCEPT !.at = "files"]]
        /\ UNCHANGED <<docs, stamps, chunksKept, docEdits, ingests, blind, gaps, miner>>

\* write_ingest_chunk: add_memory saves the chunk, finds it to be there, keeps it out
\* or fails; a dry run counts it as written.
WriteChunk(i) ==
    LET run   == ingest[i]
        chunk == Head(run.todo)
        Counts(n, kept) == [ingest EXCEPT ![i] = [run EXCEPT !.todo = Tail(@), !.remaining = @ - 1,
                                                             !.count = n, !.whole = @ /\ kept]]
    IN  /\ run.at = "chunks" /\ run.todo # <<>> /\ run.remaining > 0
        /\ \/ /\ run.dry /\ ingest' = Counts([run.count EXCEPT !.written = @ + 1], TRUE) /\ UNCHANGED chunksKept
           \/ /\ ~run.dry /\ chunk \notin chunksKept /\ chunksKept' = chunksKept \cup {chunk}
              /\ ingest' = Counts([run.count EXCEPT !.written = @ + 1], TRUE)
           \/ /\ ~run.dry /\ chunk \in chunksKept /\ UNCHANGED chunksKept
              /\ ingest' = Counts([run.count EXCEPT !.duplicates = @ + 1], TRUE)
           \/ /\ ~run.dry /\ chunk \notin chunksKept /\ UNCHANGED chunksKept
              /\ \/ ingest' = Counts([run.count EXCEPT !.policy = @ + 1], FALSE)
                 \/ ingest' = Counts([run.count EXCEPT !.failed = @ + 1], FALSE)
        /\ UNCHANGED <<docs, stamps, docEdits, ingests, blind, gaps, miner>>

\* What is recorded of a file is the stamp it had before it was read.
Stamped(run) == run.stamp

\* The file is recorded, whatever became of its chunks, even those the limit cut off.
RecordDoc(i) ==
    LET run == ingest[i]
        this == <<run.doc, run.version>>
    IN  /\ run.at = "chunks" /\ (run.todo = <<>> \/ run.remaining = 0)
        /\ ingest' = [ingest EXCEPT ![i] = [run EXCEPT !.at = "files",
                          !.state = IF run.dry THEN @ ELSE [@ EXCEPT ![run.doc] = Stamped(run)]]]
        /\ gaps' = IF run.dry THEN gaps
                   ELSE IF run.todo = <<>> /\ run.whole THEN gaps \ {this} ELSE gaps \cup {this}
        /\ UNCHANGED <<docs, stamps, chunksKept, docEdits, ingests, blind, miner>>

\* save_ingest_state truncates the file and fills it. A dry run leaves it alone.
Over(run) == run.at = "files" /\ (run.left = {} \/ run.remaining = 0)
SaveEmpties(i) ==
    /\ Over(ingest[i]) /\ ~ingest[i].dry
    /\ stamps' = TornStamps /\ ingest' = [ingest EXCEPT ![i].at = "saving"]
    /\ UNCHANGED <<docs, chunksKept, docEdits, ingests, blind, gaps, miner>>
SaveFills(i) ==
    /\ ingest[i].at = "saving" /\ stamps' = ingest[i].state /\ ingest' = [ingest EXCEPT ![i] = NoIngest]
    /\ UNCHANGED <<docs, chunksKept, docEdits, ingests, blind, gaps, miner>>
DryEnds(i) ==
    /\ Over(ingest[i]) /\ ingest[i].dry /\ ingest' = [ingest EXCEPT ![i] = NoIngest]
    /\ UNCHANGED <<docs, stamps, chunksKept, docEdits, ingests, blind, gaps, miner>>

IngestDies(i) ==
    /\ ingest[i].at # "none" /\ ingest' = [ingest EXCEPT ![i] = NoIngest]
    /\ UNCHANGED <<docs, stamps, chunksKept, docEdits, ingests, blind, gaps, miner>>
----------------------------------------------------------------------------
(* An export is read line by line ("jsonl"), as a tree of messages of which the
   branch of the current node counts ("chatgpt"), or as text in which the
   questions are quoted ("text"); of any other format is an error. A turn is the
   role that spoke; its place stands for what it said. *)
User == "user"
Assistant == "assistant"
NoPair == [user |-> 0, answer |-> <<>>]
NoMiner == [at |-> "none", dir |-> <<>>, node |-> 0, chain |-> <<>>, pos |-> 1, pending |-> NoPair,
            pairs |-> <<>>, all |-> <<>>, sum |-> 0, cut |-> FALSE]

\* conversation_export_files: jsonl before json before txt before md.
MineStarts ==
    /\ miner.at = "none" /\ \E dir \in Dirs : miner' = [NoMiner EXCEPT !.at = "open", !.dir = dir]
    /\ UNCHANGED ingestVars

Export == miner.dir[1]
Nodes(e) == DOMAIN e.turns

\* latest_leaf_node: the times of the messages follow their numbers.
Leaf(e) ==
    LET leaves == Nodes(e) \ {e.parent[n] : n \in Nodes(e)}
    IN  IF e.current \in Nodes(e) THEN e.current
        ELSE IF leaves = {} THEN 0 ELSE CHOOSE n \in leaves : \A o \in leaves : o <= n

OpenExport ==
    /\ miner.at = "open" /\ miner.dir # <<>>
    /\ miner' = CASE Export.format = "chatgpt" -> [miner EXCEPT !.at = "chain", !.node = Leaf(Export)]
                  [] Export.format \in {"jsonl", "text"} ->
                         [miner EXCEPT !.at = "turns", !.chain = [n \in Nodes(Export) |-> n]]
                  [] OTHER -> [miner EXCEPT !.dir = Tail(@)]
    /\ UNCHANGED ingestVars

\* active_chain_ids climbs from the current node; a node it has seen ends the chain.
Climbs(n) == n \in Nodes(Export) /\ n \notin Range(miner.chain)

ClimbChain ==
    /\ miner.at = "chain"
    /\ miner' = IF Climbs(miner.node)
                  THEN [miner EXCEPT !.chain = <<miner.node>> \o @, !.node = Export.parent[miner.node]]
                  ELSE [miner EXCEPT !.at = "turns"]
    /\ UNCHANGED ingestVars

\* A question that follows a question leaves that one unanswered, or answered by the
\* lines since then in a text.
Asked(m, p) ==
    [m EXCEPT !.pairs = IF m.pending = NoPair THEN @ ELSE Append(@, m.pending),
              !.pending = [user |-> p, answer |-> <<>>]]

\* The first answer ends the exchange: the next ones are dropped.
Answered(m, p) ==
    IF m.pending = NoPair THEN m
    ELSE IF Export.format = "text" THEN [m EXCEPT !.pending.answer = Append(@, p)]
    ELSE [m EXCEPT !.pairs = Append(@, [m.pending EXCEPT !.answer = <<p>>]), !.pending = NoPair]

\* chatgpt_messages, claude_entry_content: what has no text, only calls of tools, or
\* another role says nothing.
Role(e, p) == IF e.turns[p] \in {User, Assistant} THEN e.turns[p] ELSE "none"

ReadTurn ==
    LET p == miner.chain[miner.pos]
        m == [miner EXCEPT !.pos = @ + 1]
    IN  /\ miner.at = "turns" /\ miner.pos <= Len(miner.chain)
        /\ miner' = CASE Role(Export, p) = User -> Asked(m, p)
                      [] Role(Export, p) = Assistant -> Answered(m, p)
                      [] OTHER -> m
        /\ UNCHANGED ingestVars

LastTurn ==
    /\ miner.at = "turns" /\ miner.pos > Len(miner.chain)
    /\ miner' = [miner EXCEPT !.at = "paired", !.pending = NoPair,
                              !.pairs = IF miner.pending = NoPair THEN @ ELSE Append(@, miner.pending)]
    /\ UNCHANGED ingestVars

Smaller(a, b) == IF a <= b THEN a ELSE b

\* collect_mine_convos takes what the limit leaves of an export; once it is used up
\* the other exports are not opened.
CollectExport ==
    LET room == MaxExchanges - Len(miner.all)
        all  == miner.all \o SubSeq(miner.pairs, 1, Smaller(Len(miner.pairs), room))
    IN  /\ miner.at = "paired"
        /\ miner' = [NoMiner EXCEPT !.at = IF Len(all) >= MaxExchanges THEN "mined" ELSE "open", !.dir = Tail(miner.dir),
                                    !.all = all, !.sum = miner.sum + Len(miner.pairs), !.cut = Len(all) >= MaxExchanges]
        /\ UNCHANGED ingestVars

MineEnds ==
    /\ miner.at = "mined" \/ (miner.at = "open" /\ miner.dir = <<>>)
    /\ miner' = NoMiner /\ UNCHANGED ingestVars
----------------------------------------------------------------------------
ImportsInit ==
    /\ docs = [d \in Docs |-> [version |-> 0, stamp |-> 0]] /\ stamps = [d \in Docs |-> 0] /\ chunksKept = {}
    /\ ingest = [i \in Ingesters |-> NoIngest] /\ docEdits = 0 /\ ingests = 0 /\ blind = {} /\ gaps = {}
    /\ miner = NoMiner

IngestNext ==
    \/ \E d \in Docs, seen \in BOOLEAN : EditDoc(d, seen)
    \/ \E i \in Ingesters : \/ IngestStarts(i) \/ Stat(i) \/ ReadDoc(i) \/ WriteChunk(i) \/ RecordDoc(i)
                            \/ SaveEmpties(i) \/ SaveFills(i) \/ DryEnds(i) \/ IngestDies(i)
MineNext ==
    \/ MineStarts \/ OpenExport \/ ClimbChain \/ ReadTurn \/ LastTurn \/ CollectExport \/ MineEnds

ImportsNext == IngestNext \/ MineNext

ImportsSpec == ImportsInit /\ [][ImportsNext]_importVars
----------------------------------------------------------------------------
ImportsTypeOK ==
    /\ \A d \in Docs : stamps[d] \in -1..(MaxDocEdits + 1) /\ chunksKept \subseteq UNION {Range(Chunks(d, v)) : v \in DOMAIN DocSections}
    /\ miner.at \in {"none", "open", "chain", "turns", "paired", "mined"} /\ Len(miner.all) <= MaxExchanges

\* A file that the next `ma ingest' will skip has all its sections among the notes:
\* an edit during the run is read by the next one, however two runs overwrite each
\* other's state file. Not so after an edit that kept the stamp, a chunk that
\* failed, and the limit: those are not made up for.
RecordedIsRead ==
    \A d \in Listed \ blind :
        LET v == docs[d].version
        IN  stamps[d] = docs[d].stamp /\ <<d, v>> \notin gaps => Range(Chunks(d, v)) \subseteq chunksKept

\* Every chunk that was found was written, counted as there, kept out, failed, or cut
\* off by the limit.
IngestAddsUp ==
    \A i \in Ingesters :
        LET n == ingest[i].count
            done == n.written + n.duplicates + n.policy + n.failed
        IN  /\ done <= n.found
            /\ Over(ingest[i]) /\ ingest[i].remaining > 0 => done = n.found

\* The answers to the question at place k of the chain, up to the next question.
Replies(e, chain, k) ==
    {j \in (k + 1)..Len(chain) : e.turns[chain[j]] = Assistant /\ \A l \in (k + 1)..j : e.turns[chain[l]] # User}

\* Every question of the branch is an exchange, in order, with the first answer it
\* got or, in a text, all of them; the branch is a path of the tree to its end.
ExchangesAreFaithful ==
    miner.at = "paired" =>
        LET e == Export
            chain == miner.chain
            asked == SelectSeq([k \in DOMAIN chain |-> k], LAMBDA k : e.turns[chain[k]] = User)
            told(k) == SelectSeq([j \in DOMAIN chain |-> j], LAMBDA j : j \in Replies(e, chain, k))
            kept(k) == IF e.format = "text" \/ told(k) = <<>> THEN told(k) ELSE <<told(k)[1]>>
        IN  /\ miner.pairs = [n \in DOMAIN asked |-> [user |-> chain[asked[n]],
                                  answer |-> [j \in DOMAIN kept(asked[n]) |-> chain[kept(asked[n])[j]]]]]
            /\ e.format = "chatgpt" =>
                  /\ IsInjective(chain) /\ (chain = <<>> <=> Leaf(e) = 0)
                  /\ chain # <<>> => Last(chain) = Leaf(e)
                  /\ \A k \in 1..(Len(chain) - 1) : e.parent[chain[k + 1]] = chain[k]

\* No more than asked for is taken over, and nothing is left out below that.
MinesToTheLimit == miner.all # <<>> => Len(miner.all) = Smaller(miner.sum, MaxExchanges)

\* What the imports do.
ImportsAreFaithful == ImportsTypeOK /\ RecordedIsRead /\ IngestAddsUp /\ ExchangesAreFaithful /\ MinesToTheLimit
=============================================================================
