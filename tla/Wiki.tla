-------------------------------- MODULE Wiki --------------------------------
(***************************************************************************)
(* `ma wiki sync' and `ma wiki backfill' (memra-server/src/cli/phase4.rs):    *)
(* verified facts are mirrored to one Markdown page per topic, and what a     *)
(* person changed in a page is reported back as a correction of its note.     *)
(* The commands share nothing but the pages, which are written in place.     *)
(***************************************************************************)
EXTENDS Integers, Sequences, FiniteSets

LOCAL INSTANCE SequencesExt

CONSTANTS
    Bodies,    \* [id -> lines], the notes that may be written, in the order of the ids
    TopicOf,     \* [id -> topic]
    PageOf,      \* [topic -> file name]: a slug, so two topics may share one
    Edited,      \* the line a person writes into a page
    MaxEdits,    \* bound: edits of pages
    MaxSyncs     \* bound: syncs and backfills

ASSUME WikiAssumption == {MaxEdits, MaxSyncs} \subseteq Nat

\* A line of a page: text, blank, a note's heading, its id, another line of its head.
PageLine(kind, of) == [kind |-> kind, of |-> of]
Blank == PageLine("blank", 0)
FactIds == DOMAIN Bodies
Pages == {PageOf[t] : t \in DOMAIN PageOf}

VARIABLES
    facts,       \* notes: [id -> "absent" | "active" | "hidden"]
    penalties,   \* [id -> times reported as corrected]
    pages,       \* [file -> lines]; <<>> is no page
    newPage,     \* a page a person wrote: "none" | "written" | "saved"
    scribe,      \* the sync: [at, left, seen]
    reader,      \* the backfill: [at, left, seen, todo]
    edits, syncs,
    touched,     \* notes whose section a person edited in a page that is still there (history)
    tornPages,   \* files a dying sync left short (history)
    wrongly      \* notes corrected though nobody had touched their section (history)

wikiVars == <<facts, penalties, pages, newPage, scribe, reader, edits, syncs, touched, tornPages, wrongly>>

AtRest == "idle"
NoScribe == [at |-> AtRest, left |-> {}, seen |-> {}]
NoReader == [at |-> AtRest, left |-> {}, seen |-> {}, todo |-> <<>>]
----------------------------------------------------------------------------
OneOf(S, Before(_, _)) == CHOOSE x \in S : \A y \in S \ {x} : Before(x, y)
Lowest(S) == OneOf(S, LAMBDA x, y : x < y)
Highest(S) == OneOf(S, LAMBDA x, y : x > y)

\* strip, trim: blank lines at both ends fall away.
Trimmed(ls) ==
    LET said == {i \in DOMAIN ls : ls[i].kind # "blank"}
    IN  IF said = {} THEN <<>>
        ELSE SubSeq(ls, Lowest(said), Highest(said))

\* render_wiki_topic_markdown, for one note.
Section(id) ==
    <<PageLine("heading", id), Blank, PageLine("id", id), PageLine("head", id), Blank>> \o Trimmed(Bodies[id]) \o <<Blank>>

\* load_wiki_notes orders by topic and version; group_wiki_notes keeps the order.
Page(S, t) ==
    LET of == SelectSeq([id \in FactIds |-> id], LAMBDA id : id \in S /\ TopicOf[id] = t)
    IN  <<PageLine("title", 0)>> \o FlattenSeq([i \in DOMAIN of |-> Section(of[i])])

OfKind(ls, kind, from) == {i \in DOMAIN ls : i >= from /\ ls[i].kind = kind}

Content_FromId(part) == SubSeq(part, Lowest(OfKind(part, "id", 1)) + 1, Len(part))
\* The content of a section begins after the first blank line that follows its id.
\* A line that looks like an id is taken for one there, too.
Content(part) ==
    LET blanks == OfKind(part, "blank", Lowest(OfKind(part, "id", 1)))
    IN  IF blanks = {} THEN <<>> ELSE SubSeq(part, Lowest(blanks) + 1, Len(part))
NoId(l) == l.kind # "id"

\* wiki_backfill_sections: from heading to heading, with the last id; a section
\* without an id or without content is dropped.
Sections(ls) ==
    LET heads == SelectSeq([i \in DOMAIN ls |-> i], LAMBDA i : ls[i].kind = "heading")
        end(k) == IF k = Len(heads) THEN Len(ls) ELSE heads[k + 1] - 1
        part(k) == SubSeq(ls, heads[k], end(k))
        section(k) == IF OfKind(part(k), "id", 1) = {} THEN [id |-> 0, lines |-> <<>>]
                      ELSE [id |-> part(k)[Highest(OfKind(part(k), "id", 1))].of,
                            lines |-> Trimmed(SelectSeq(Content(part(k)), NoId))]
    IN  SelectSeq([k \in DOMAIN heads |-> section(k)], LAMBDA s : s.lines # <<>>)
----------------------------------------------------------------------------
\* Notes are written and superseded; their content never changes.
WriteFact(id) ==
    /\ facts[id] = "absent" /\ \A b \in FactIds : b < id => facts[b] # "absent"
    /\ facts' = [facts EXCEPT ![id] = "active"]
    /\ UNCHANGED <<penalties, pages, newPage, scribe, reader, edits, syncs, touched, tornPages, wrongly>>
HideFact(id) ==
    /\ facts[id] = "active" /\ facts' = [facts EXCEPT ![id] = "hidden"]
    /\ UNCHANGED <<penalties, pages, newPage, scribe, reader, edits, syncs, touched, tornPages, wrongly>>

KnownFacts == {id \in FactIds : facts[id] # "absent"}

\* wiki_sync_for_cli: the notes are read once, whether active or not.
SyncStarts ==
    /\ scribe.at = AtRest /\ syncs < MaxSyncs /\ syncs' = syncs + 1 /\ KnownFacts # {}
    /\ scribe' = [at |-> "writing", left |-> {TopicOf[id] : id \in KnownFacts}, seen |-> KnownFacts]
    /\ UNCHANGED <<facts, penalties, pages, newPage, reader, edits, touched, tornPages, wrongly>>

\* Pages are written in the order of the topics, each in place, over what is there.
FirstPage(S) == CHOOSE t \in S : \A u \in S : t <= u
Written(t, whole, n) ==
    LET page == Page(scribe.seen, t)
        f == PageOf[t]
    IN  /\ pages' = [pages EXCEPT ![f] = IF whole THEN page ELSE SubSeq(page, 1, n)]
        /\ touched' = {e \in touched : e[1] # f}
        /\ tornPages' = IF whole THEN tornPages \ {f} ELSE tornPages \cup {f}

SyncPage ==
    LET left == scribe.left \ {FirstPage(scribe.left)}
    IN  /\ scribe.at = "writing" /\ Written(FirstPage(scribe.left), TRUE, 0)
        /\ scribe' = IF left = {} THEN NoScribe ELSE [scribe EXCEPT !.left = left]
        /\ UNCHANGED <<facts, penalties, newPage, reader, edits, syncs, wrongly>>

\* The sync dies, before or within the write of a page.
SyncDies ==
    /\ scribe.at = "writing" /\ scribe' = NoScribe
    /\ \/ \E n \in 0..(Len(Page(scribe.seen, FirstPage(scribe.left))) - 1) : Written(FirstPage(scribe.left), FALSE, n)
       \/ UNCHANGED <<pages, touched, tornPages, wrongly>>
    /\ UNCHANGED <<facts, penalties, newPage, reader, edits, syncs, wrongly>>

\* A person changes the first line of what a page says of a note.
Edit(f, i) ==
    LET ls == pages[f]
        s  == Sections(ls)
    IN  /\ edits < MaxEdits /\ edits' = edits + 1 /\ f \notin tornPages
        /\ ls[i].kind = "text" /\ ls[i] # Edited /\ pages' = [pages EXCEPT ![f][i] = Edited]
        /\ touched' = touched \cup {<<f, s[k].id>> : k \in {j \in DOMAIN s : Contains(s[j].lines, ls[i])}}
        /\ UNCHANGED <<facts, penalties, newPage, scribe, reader, syncs, tornPages, wrongly>>
WriteNewPage ==
    /\ newPage = "none" /\ newPage' = "written"
    /\ UNCHANGED <<facts, penalties, pages, scribe, reader, edits, syncs, touched, tornPages, wrongly>>
----------------------------------------------------------------------------
\* wiki_backfill_for_cli: the contents are read once, before the pages.
BackfillStarts ==
    /\ reader.at = AtRest /\ syncs < MaxSyncs /\ syncs' = syncs + 1
    /\ reader' = [at |-> "reading", left |-> {f \in Pages : pages[f] # <<>>}, seen |-> KnownFacts, todo |-> <<>>]
    /\ UNCHANGED <<facts, penalties, pages, newPage, scribe, edits, touched, tornPages, wrongly>>

\* normalize_wiki_backfill_content trims both.
Differs(s) == Trimmed(s.lines) # Trimmed(Bodies[s.id])

Changed(s) == s.id \in reader.seen /\ Differs(s)

\* byHand: a person or an accident changed the page (history).
ReadPage ==
    LET f == FirstPage(reader.left)
    IN  /\ reader.at = "reading" /\ reader.todo = <<>> /\ reader.left # {}
        /\ reader' = [reader EXCEPT !.left = @ \ {f},
                          !.todo = LET changed == SelectSeq(Sections(pages[f]), Changed)
                                   IN  [i \in DOMAIN changed |->
                                          [id |-> changed[i].id,
                                           byHand |-> <<f, changed[i].id>> \in touched \/ f \in tornPages]]]
        /\ UNCHANGED <<facts, penalties, pages, newPage, scribe, edits, syncs, touched, tornPages, wrongly>>

\* report_outcome finds only a note that is active; for another an error is listed.
Corrects ==
    LET id == Head(reader.todo).id
    IN  /\ reader.todo # <<>>
        /\ penalties' = IF facts[id] = "active" THEN [penalties EXCEPT ![id] = @ + 1] ELSE penalties
        /\ reader' = [reader EXCEPT !.todo = Tail(@)]
        /\ wrongly' = IF Head(reader.todo).byHand THEN wrongly ELSE wrongly \cup {id}
        /\ UNCHANGED <<facts, pages, newPage, scribe, edits, syncs, touched, tornPages>>

\* A page without a section but with a [FACT] line is a new note, which add_memory
\* saves or finds to be there.
BackfillEnds ==
    /\ reader.at = "reading" /\ reader.left = {} /\ reader.todo = <<>> /\ reader' = NoReader
    /\ newPage' = IF newPage = "none" THEN "none" ELSE "saved"
    /\ UNCHANGED <<facts, penalties, pages, scribe, edits, syncs, touched, tornPages, wrongly>>

BackfillDies ==
    /\ reader.at = "reading" /\ reader' = NoReader
    /\ UNCHANGED <<facts, penalties, pages, newPage, scribe, edits, syncs, touched, tornPages, wrongly>>
----------------------------------------------------------------------------
WikiInit ==
    /\ facts = [id \in FactIds |-> "absent"] /\ penalties = [id \in FactIds |-> 0]
    /\ pages = [f \in Pages |-> <<>>] /\ newPage = "none"
    /\ scribe = NoScribe /\ reader = NoReader /\ edits = 0 /\ syncs = 0
    /\ touched = {} /\ tornPages = {} /\ wrongly = {}

WikiNext ==
    \/ \E id \in FactIds : WriteFact(id) \/ HideFact(id)
    \/ SyncStarts \/ SyncPage \/ SyncDies
    \/ \E f \in Pages : \E i \in DOMAIN pages[f] : Edit(f, i)
    \/ WriteNewPage
    \/ BackfillStarts \/ ReadPage \/ Corrects \/ BackfillEnds \/ BackfillDies

WikiSpec == WikiInit /\ [][WikiNext]_wikiVars
----------------------------------------------------------------------------
WikiTypeOK ==
    /\ \A id \in FactIds : facts[id] \in {"absent", "active", "hidden"} /\ penalties[id] \in 0..MaxSyncs
    /\ tornPages \subseteq Pages

\* A note whose own lines do not look like the lines around a note.
Ordinary(id) == \A l \in Range(Bodies[id]) : l.kind \in {"text", "blank"}

\* What sync writes backfill reads: a page that nobody touched gives every note of
\* its topic back, with its content.
PagesReadBack ==
    \A f \in Pages \ tornPages : pages[f] # <<>> /\ (\A e \in touched : e[1] # f) =>
        \E t \in DOMAIN PageOf : PageOf[t] = f /\
            LET s == Sections(pages[f])
            IN  \A id \in {s[i].id : i \in DOMAIN s} :
                    TopicOf[id] = t /\ (\A b \in FactIds : TopicOf[b] = t => Ordinary(b)) =>
                        /\ \A i \in DOMAIN s : s[i].id = id => ~Differs(s[i])
                        /\ \A b \in FactIds : b < id /\ TopicOf[b] = t => \E i \in DOMAIN s : s[i].id = b

\* A note is reported as corrected only where a person edited its section or a
\* dying sync left the page short, never because of how it is written out and read
\* back, unless a note quotes the head of another: that one pays for it. Every
\* backfill corrects it once, at most.
OnlyEditsCorrect ==
    /\ \A id \in wrongly : \E b \in FactIds : ~Ordinary(b) /\ (b = id \/ Contains(Bodies[b], PageLine("id", id)))
    /\ \A id \in FactIds : penalties[id] <= syncs

\* What the wiki does to notes.
WikiIsFaithful == WikiTypeOK /\ PagesReadBack /\ OnlyEditsCorrect
=============================================================================
