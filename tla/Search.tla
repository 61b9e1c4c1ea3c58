---- MODULE Search ----
(***************************************************************************)
(* The search of the memory (retrieval/search.rs), with the reader that    *)
(* follows a note to the head of its lineage (canonical_reader.rs), the    *)
(* candidate channels (recall.rs) and the post-processing                  *)
(* (postprocess.rs).  A search is a sequence of SELECTs that share no      *)
(* transaction: each step below is what the code reads between two points  *)
(* at which another process may write, and OtherWrites is such a write.    *)
(*                                                                         *)
(* A note is what the search tells apart: its project, layer, topic and    *)
(* root, whether it is live (active, head, in evolution state 'active'),   *)
(* whether its author allows strengthening, which channels match the       *)
(* query, and its relevance in hundredths.  A larger identifier is a newer *)
(* note.  The caps of single channels (8 to 50 rows) are above any         *)
(* instance checked here and are left out, as are rooms, agents and time   *)
(* ranges, which filter like the layer does.                               *)
(***************************************************************************)
EXTENDS Integers, FiniteSets, Sequences, SequencesExt

CONSTANTS
    Notes,          \* note identifiers, in the order they were written
    Stores,         \* the contents of the notes table a search may meet
    Graphs,         \* the sets of edges spreading activation may walk
    Requests,       \* the requests made of the server
    MaxWrites       \* how often another process writes during the behaviour

ASSUME SearchAssumption ==
    /\ Notes \subseteq Nat \ {0}
    /\ IsFiniteSet(Notes)
    /\ MaxWrites \in Nat

None == 0
AnyLayer == "any"        \* no layer is asked for
MaxHops == 3
Threshold == 4      \* ACTIVATION_STRENGTH_THRESHOLD, in tenths
Weight == 3         \* ACTIVATION_WEIGHT, in tenths

VARIABLES
    notes,      \* the notes table
    edges,      \* note_relations and the evidence of promoted dreams
    request,    \* what is asked
    phase,      \* where the search stands
    todo,       \* candidates whose head is still to be read
    results,    \* the answer as it is built, best first
    topics,     \* topics already spoken for
    frontier,   \* the seeds of the next hop
    activated,  \* what spreading activation has reached
    hop,        \* the hop to take
    fast,       \* the answer came from a prepass
    moved,      \* notes written while the search ran
    writes

searchVars == <<notes, edges, request, phase, todo, results, topics, frontier,
          activated, hop, fast, moved, writes>>

----------------------------------------------------------------------------
(* What the candidate queries let through.                                 *)
Scoped(n) == request.cross \/ notes[n].project = request.project

Layered(n) ==
    /\ request.layer = AnyLayer \/ notes[n].layer = request.layer
    /\ \/ request.constitution
       \/ request.layer = "identity_schema"
       \/ notes[n].layer # "identity_schema"

Eligible == {n \in Notes : notes[n].live /\ Scoped(n) /\ Layered(n)}

Matching(channels) == {n \in Eligible : notes[n].hits \cap channels # {}}

(* exact substring, full text and vector channels; bigrams when they find  *)
(* nothing, and the recent rows when those find nothing either.            *)
Collected(vector) ==
    LET main == Matching({"exact", "fts"} \cup (IF vector THEN {"vector"} ELSE {}))
        bigram == Matching({"bigram"})
    IN  IF request.empty THEN Eligible
        ELSE IF main # {} THEN main
        ELSE IF bigram # {} THEN bigram
        ELSE Eligible

(* A query that names a project entity keeps only its notes, if any.       *)
Strong(found) ==
    LET named == {n \in found : "entity" \in notes[n].hits}
    IN  IF request.entity /\ named # {} THEN named ELSE found

Sufficient(found) ==
    found # {} /\ (Cardinality(found) >= request.limit
                    \/ \E n \in found : "exact" \in notes[n].hits)

----------------------------------------------------------------------------
(* The newest live head that a field names.                                *)
Newest(S) == IF S = {} THEN None ELSE CHOOSE n \in S : \A o \in S : o <= n

HeadOf(n) ==
    LET ofRoot == {o \in Notes : notes[o].live /\ notes[o].root = notes[n].root}
        ofTopic == {o \in Notes : notes[o].live /\ notes[o].topic = notes[n].topic}
    IN  IF notes[n].root # None /\ ofRoot # {} THEN Newest(ofRoot)
        ELSE IF notes[n].topic # None THEN Newest(ofTopic)
        ELSE None

(* The note a reader of n is given: the head, or n where there is none.    *)
ReadHead(n) == IF HeadOf(n) = None THEN n ELSE HeadOf(n)

----------------------------------------------------------------------------
Result(n, score) ==
    [id |-> n, score |-> score, exact |-> "exact" \in notes[n].hits,
     via |-> "direct", path |-> <<n>>]

IdsOf(seq) == {seq[i].id : i \in DOMAIN seq}
ByScore(seq) == SortSeq(seq, LAMBDA a, b : a.score > b.score)

(* Every note once: its first result.                                      *)
Once(seq) == FoldLeft(LAMBDA kept, r : IF r.id \in IdsOf(kept) THEN kept ELSE Append(kept, r),
                      <<>>, seq)

(* The bonus of a literal match and the penalty of a missing keyword.      *)
Adjusted(seq) ==
    [i \in DOMAIN seq |->
        [seq[i] EXCEPT !.score =
            IF "exact" \in notes[seq[i].id].hits
            THEN (IF @ > 90 THEN 100 ELSE @ + 10)
            ELSE (IF @ < 5 THEN 0 ELSE @ - 5)]]

Topic(r) == notes[r.id].topic
Preferred(a, b) == IF a.exact # b.exact THEN a.exact ELSE a.id > b.id

(* One result of a topic: the literal match, else the newest.              *)
OnePerTopic(seq) ==
    SelectSeq(seq, LAMBDA r : Topic(r) = None
                    \/ \A s \in Range(seq) : Topic(s) = Topic(r) /\ s # r => Preferred(r, s))

TopicsOf(seq) == {Topic(r) : r \in Range(seq)} \ {None}

(* No layer holds more than six of ten results, two at the least.          *)
Diverse(seq) ==
    LET most == LET share == (Len(seq) * 6) \div 10 IN IF share < 2 THEN 2 ELSE share
        Layer(r) == notes[r.id].layer
        Before(r) == {s \in Range(seq) : Layer(s) = Layer(r)
                        /\ \E i, j \in DOMAIN seq : i < j /\ seq[i] = s /\ seq[j] = r}
    IN  IF Len(seq) <= 2 \/ Cardinality({Layer(r) : r \in Range(seq)}) <= 1 THEN seq
        ELSE SelectSeq(seq, LAMBDA r : Cardinality(Before(r)) < most)

Truncated(seq) == SubSeq(seq, 1, IF Len(seq) < request.limit THEN Len(seq) ELSE request.limit)

----------------------------------------------------------------------------
(* Spreading activation.                                                   *)
Neighbours(n) ==
    {[to |-> IF e.from = n THEN e.to ELSE e.from, strength |-> e.strength] :
        e \in {e \in edges : /\ n \in {e.from, e.to}
                             /\ e.strength > Threshold
                             /\ e.project = None \/ request.cross
                                    \/ e.project = request.project}}

Passes(n) == notes[n].trusted /\ notes[n].live /\ Scoped(n) /\ Layered(n)

Best(reached, n) ==
    LET same == {r \in reached \cup Range(results) : r.id = n}
    IN  IF same = {} THEN 0 ELSE (CHOOSE r \in same : \A s \in same : s.score <= r.score).score

Known_OnPath(n, path) == n \in Range(path)

(* Direct answers and the notes of its own path are not reached again.     *)
Known(n, path) == n \in IdsOf(results) \cup Range(path)

FreshTopic(n) == notes[n].topic \notin topics

(* What the seeds of one hop reach, each reached note with its best score. *)
Reached ==
    LET offers ==
          UNION {{[id |-> ReadHead(b.to), score |-> (s.score * b.strength * Weight) \div 100,
                   exact |-> FALSE, via |-> "association", path |-> Append(s.path, ReadHead(b.to))] :
                    b \in {b \in Neighbours(s.id) :
                            /\ ~Known(b.to, s.path) /\ ~Known(ReadHead(b.to), s.path)
                            /\ Passes(ReadHead(b.to))
                            /\ FreshTopic(ReadHead(b.to))}} :
                  s \in {s \in frontier : notes[s.id].trusted}}
        better == {o \in offers : o.score > Best(activated, o.id)}
    IN  {o \in better : o = CHOOSE p \in {p \in better : p.id = o.id} :
                                \A q \in {q \in better : q.id = o.id} : q.score <= p.score}

(* The best of a set, as a sequence no longer than the room left.          *)
Chosen(set, room) ==
    LET all == ByScore(SetToSeq(set))
    IN  SubSeq(all, 1, IF Len(all) < room THEN Len(all) ELSE room)

----------------------------------------------------------------------------
Nothing ==
    /\ todo' = {} /\ results' = <<>> /\ topics' = {}
    /\ frontier' = {} /\ activated' = {} /\ hop' = 0

Idle ==
    /\ phase = "idle" /\ todo = {} /\ results = <<>> /\ topics = {}
    /\ frontier = {} /\ activated = {} /\ hop = 0
    /\ fast = FALSE /\ moved = {}

SearchInit ==
    /\ notes \in Stores
    /\ edges \in Graphs
    /\ request \in Requests
    /\ writes = 0
    /\ Idle

(* A request arrives; auto mode tries the prepasses first.                 *)
Ask ==
    /\ phase = "idle"
    /\ phase' = IF request.auto /\ request.layer = AnyLayer /\ ~request.empty
                THEN "prefix" ELSE "lexical"
    /\ UNCHANGED <<notes, edges, request, todo, results, topics, frontier,
                   activated, hop, fast, moved, writes>>

(* A prepass answers at once with what it matched, newest first.           *)
Prepass(channel, applies, next) ==
    LET found == IF applies THEN Matching({channel}) ELSE {}
        rows == SortSeq(SetToSeq({Result(n, 100) : n \in found}), LAMBDA a, b : a.id > b.id)
    IN  /\ IF found = {}
           THEN phase' = next /\ UNCHANGED <<results, fast>>
           ELSE phase' = "answered" /\ results' = Truncated(rows) /\ fast' = TRUE
        /\ UNCHANGED <<notes, edges, request, todo, topics, frontier, activated,
                       hop, moved, writes>>

DirectFacts == phase = "prefix" /\ Prepass("prefix", request.words, "entity")
EntityNotes == phase = "entity" /\ Prepass("entity", request.entity, "lexical")

(* Candidates without an embedding, then with one if those do not do.      *)
Collect ==
    /\ phase \in {"lexical", "semantic"}
    /\ LET lexicalFirst == request.auto /\ request.words /\ ~request.empty
           vector == /\ request.embeds
                     /\ phase = "semantic" \/ (~lexicalFirst /\ ~request.lexical)
           found == Collected(vector)
           kept == Strong(found)
       IN  IF phase = "lexical" /\ lexicalFirst /\ ~Sufficient(found)
           THEN phase' = "semantic" /\ UNCHANGED <<todo, results>>
           ELSE /\ todo' = kept
                /\ results' = ByScore(SetToSeq({Result(n, notes[n].score) : n \in kept}))
                /\ phase' = IF kept = {} THEN "answered" ELSE "follow"
    /\ UNCHANGED <<notes, edges, request, topics, frontier, activated, hop, fast, moved, writes>>

(* One result is replaced by the head of its lineage.                      *)
Follow ==
    /\ phase = "follow"
    /\ \E n \in todo :
        /\ todo' = todo \ {n}
        /\ results' = [i \in DOMAIN results |->
                         IF results[i].path = <<n>>
                         THEN [results[i] EXCEPT !.id = ReadHead(n)] ELSE results[i]]
        /\ phase' = IF todo = {n} THEN "rank" ELSE "follow"
    /\ UNCHANGED <<notes, edges, request, topics, frontier, activated, hop, fast, moved, writes>>

(* Sort, once per note, adjust, sort, once per topic, cut, diversify.      *)
Rank ==
    /\ phase = "rank"
    /\ LET adjusted == ByScore(Adjusted(Once(ByScore(results))))
           perTopic == OnePerTopic(adjusted)
           kept == Diverse(Truncated(perTopic))
       IN  /\ results' = kept
           /\ topics' = TopicsOf(perTopic)
           /\ frontier' = {[r EXCEPT !.path = <<r.id>>] : r \in Range(kept)}
           /\ phase' = IF Len(kept) >= request.limit THEN "cut" ELSE "spread"
           /\ hop' = 1
    /\ UNCHANGED <<notes, edges, request, todo, activated, fast, moved, writes>>

(* One hop from every trusted seed.                                        *)
Spread ==
    /\ phase = "spread" /\ hop <= MaxHops /\ frontier # {}
    /\ LET new == Reached
       IN  /\ activated' = {a \in activated : a.id \notin {o.id : o \in new}} \cup new
           /\ frontier' = new
    /\ hop' = hop + 1
    /\ UNCHANGED <<notes, edges, request, phase, todo, results, topics,
                   fast, moved, writes>>

(* The best associations fill the answer up to the limit.                  *)
Fill ==
    /\ phase = "spread" /\ (hop > MaxHops \/ frontier = {})
    /\ LET more == Chosen(activated, request.limit - Len(results))
       IN  results' = results \o more
    /\ phase' = "cut"
    /\ UNCHANGED <<notes, edges, request, todo, topics, frontier, activated, hop,
                   fast, moved, writes>>

(* The score threshold of the request.                                     *)
CutToLimit ==
    /\ phase = "cut"
    /\ results' = SelectSeq(results, LAMBDA r : r.score >= request.min)
    /\ phase' = "answered"
    /\ UNCHANGED <<notes, edges, request, todo, topics, frontier, activated, hop, fast, moved, writes>>

(* The answer is returned and the next request comes.                      *)
Return ==
    /\ phase = "answered"
    /\ phase' = "idle" /\ request' \in Requests
    /\ fast' = FALSE /\ moved' = {}
    /\ Nothing
    /\ UNCHANGED <<notes, edges, writes>>

(* Another process retires a note, or commits one: a row that is not live   *)
(* may be one that is not there yet.                                        *)
OtherWrites ==
    /\ writes < MaxWrites
    /\ phase \notin {"idle", "answered"}
    /\ \E n \in Notes :
        /\ notes' = [notes EXCEPT ![n].live = ~@]
        /\ moved' = moved \cup {n}
    /\ writes' = writes + 1
    /\ UNCHANGED <<edges, request, phase, todo, results, topics, frontier,
                   activated, hop, fast>>

SearchNext == Ask \/ DirectFacts \/ EntityNotes \/ Collect \/ Follow \/ Rank
                \/ Spread \/ Fill \/ CutToLimit \/ Return \/ OtherWrites

SearchSpec == SearchInit /\ [][SearchNext]_searchVars

----------------------------------------------------------------------------
(* Type correctness: results are notes with a score and where they came    *)
(* from, and what is still to be followed is among them.                   *)
SearchTypeOK ==
    /\ notes \in [Notes -> [project : Nat, layer : STRING, topic : Nat, root : Nat,
                           live : BOOLEAN, trusted : BOOLEAN,
                           hits : SUBSET {"prefix", "entity", "exact", "fts", "vector", "bigram"},
                           score : 0 .. 100]]
    /\ phase \in {"idle", "prefix", "entity", "lexical", "semantic", "follow",
                   "rank", "spread", "cut", "answered"}
    /\ todo \subseteq {results[i].path[1] : i \in DOMAIN results}
    /\ \A r \in Range(results) \cup frontier \cup activated :
            r.id \in Notes /\ r.score \in 0 .. 100 /\ Len(r.path) \in 1 .. MaxHops + 1
    /\ hop \in 0 .. MaxHops + 1 /\ moved \subseteq Notes /\ writes \in 0 .. MaxWrites

(* An answer names no note twice and is no longer than asked for: two      *)
(* versions that match both lead to one head, a neighbour is reached over  *)
(* several paths, and a prepass skips the code that would notice.          *)
AnswerIsDistinct ==
    phase = "answered" =>
        /\ Len(results) <= request.limit
        /\ \A i, j \in DOMAIN results : results[i].id = results[j].id => i = j

(* A direct answer is the only voice of its topic: no second result and no *)
(* association repeats it, even one that was cut from the answer later.    *)
OneVoicePerTopic ==
    phase = "answered" /\ ~fast =>
        \A i, j \in DOMAIN results :
            i < j /\ Topic(results[i]) # None /\ Topic(results[i]) = Topic(results[j])
                => {results[i].via, results[j].via} = {"association"}

(* An association was reached through notes whose authors are trusted, all *)
(* along its path, and itself belongs to what the request may see.         *)
AssociationsAreVouchedFor ==
    \A r \in activated \cup Range(results) :
        r.via = "association" =>
            /\ Scoped(r.id) /\ Layered(r.id)
            /\ \A i \in DOMAIN r.path : notes[r.path[i]].trusted

(* A note that is retired in the answer was retired while the search ran.  *)
NothingRetiredIsShown ==
    phase = "answered" => \A r \in Range(results) : notes[r.id].live \/ r.id \in moved

Relatives(n) ==
    {o \in Notes : \/ notes[o].root # None /\ notes[o].root = notes[n].root
                   \/ notes[o].topic # None /\ notes[o].topic = notes[n].topic}

(* A direct answer has no newer voice of its own lineage, unless that      *)
(* lineage was written while the search ran.  The prepasses answer without *)
(* looking, and are excepted.                                              *)
AnswerIsTheHead ==
    phase = "answered" /\ ~fast =>
        \A r \in Range(results) :
            r.via = "direct" => \/ HeadOf(r.id) \in {None, r.id}
                               \/ Relatives(r.id) \cap moved # {}

(* What a search_rules caller is promised by "Cross-project search" being  *)
(* an option: without it every answer belongs to the caller's project.     *)
AnswerInScope == phase = "answered" => \A r \in Range(results) : Scoped(r.id)

(* What an answer owes its reader, with writes of others between its       *)
(* SELECTs: distinct notes, one voice per topic, associations that trusted *)
(* notes lead to, and nothing that was retired or replaced before.         *)
AnswersAreSound ==
    /\ SearchTypeOK /\ AnswerIsDistinct /\ OneVoicePerTopic
    /\ AssociationsAreVouchedFor /\ NothingRetiredIsShown /\ AnswerIsTheHead
====
