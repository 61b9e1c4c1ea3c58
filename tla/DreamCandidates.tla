-------------------------- MODULE DreamCandidates --------------------------
(***************************************************************************)
(* The dream pipeline (memra-server/src/cli/phase4.rs): each night a model   *)
(* reflects on the day's events and proposes candidates, evaluates those    *)
(* that are pending, and puts the promoted ones in the shadow; a person      *)
(* promotes or discards what is in the shadow, and resolves drift reports    *)
(* kept in the same table; outcomes of what was promoted come back to the    *)
(* candidate.                                                               *)
(*                                                                         *)
(* Every command reads the rows it will work on once, waits for the model    *)
(* or for a person's answer, and writes each row by its id.                  *)
(***************************************************************************)
EXTENDS Naturals, Sequences, FiniteSets, SequencesExt

CONSTANTS
    Cand,          \* candidates that may come up, numbers
    Claim,         \* [Cand -> summary]
    Drift,         \* candidates that are reports of replay drift
    ShadowMode,    \* MA_DREAM_SHADOW_MODE
    Answers,       \* confidences the model may give, percent
    MaxMemories, MaxNights, MaxPromotes, MaxReports   \* bounds of the instance

PromoteAt == 80
HoldAt    == 60
Verdicts  == {"none", "pending", "promoted", "held", "discarded",
              "shadow_pending", "duplicate"}

ASSUME DreamAssumption ==
    /\ Cand \subseteq Nat /\ IsFiniteSet(Cand) /\ Drift \subseteq Cand
    /\ DOMAIN Claim = Cand /\ ShadowMode \in BOOLEAN /\ Answers \subseteq 0..100

VARIABLES
    verdict,     \* [Cand -> Verdicts], "none" before the row exists
    promotedTo,  \* [Cand -> id of a memory, 0 for NULL]
    score,       \* [Cand -> confidence in percent]
    memories,    \* sequence of memories: their text and whether one can read them
    night,       \* stage of the nightly command
    batch,       \* rows the nightly command still has to write
    ask,         \* stage of `dream promote'
    chosen,      \* rows `dream promote' still has to write
    wrote,       \* what add_memory answered for the first of them, and the id
    raced,       \* rows written while another command had them listed (history)
    seenScore,   \* score at which the evaluator promoted (history)
    nightsRun, promotes, reports      \* counters

dreamVars == <<verdict, promotedTo, score, memories, night, batch, ask, chosen,
               wrote, raced, seenScore, nightsRun, promotes, reports>>
rowVars == <<verdict, promotedTo, score, seenScore, raced>>
Races(S) == raced' = raced \cup S
nightVars == <<night, batch, nightsRun>>
askVars == <<ask, chosen, wrote, promotes>>

NoAnswer == [result |-> "none", id |-> 0]

DreamTypeOK ==
    /\ verdict \in [Cand -> Verdicts] /\ score \in [Cand -> 0..100]
    /\ promotedTo \in [Cand -> 0..Len(memories)]
    /\ memories \in Seq([text: {Claim[c] : c \in Cand}, shown: BOOLEAN])
    /\ night \in {"off", "reflect", "load", "evaluate", "promote"}
    /\ ask \in {"off", "confirm", "write", "record"}
    /\ batch \in Seq(Cand) /\ chosen \in Seq(Cand)
    /\ ask = "record" => chosen # <<>> /\ wrote.result # "none"

In(v) == {c \in Cand : verdict[c] = v}
Listed(S) == SetToSortSeq(S, <)
----------------------------------------------------------------------------
\* consolidate dream --apply

StartNight ==
    /\ night = "off" /\ nightsRun < MaxNights
    /\ night' = "reflect" /\ nightsRun' = nightsRun + 1 /\ batch' = <<>>
    /\ UNCHANGED <<rowVars, memories, askVars, reports>>

\* run_dream_reflector; it adds nothing when there is nothing to reflect on or
\* the model is away.
Reflect ==
    /\ night = "reflect" /\ night' = "load"
    /\ \E S \in SUBSET (In("none") \ Drift) :
          verdict' = [c \in Cand |-> IF c \in S THEN "pending" ELSE verdict[c]]
    /\ UNCHANGED raced
    /\ UNCHANGED <<promotedTo, score, seenScore, memories, batch, nightsRun, askVars, reports>>

PendingRows_Held == Listed(In("pending") \cup In("held"))
\* load_dream_pending_candidates
PendingRows == Listed(In("pending"))

LoadPending ==
    /\ night = "load" /\ night' = "evaluate" /\ batch' = PendingRows
    /\ UNCHANGED <<rowVars, memories, nightsRun, askVars, reports>>

\* The verdict for the confidence the model gives; a contradiction, or a
\* conflict with the identity, is a confidence of 0.
Verdict(confidence) ==
    IF confidence >= PromoteAt THEN "promoted"
    ELSE IF confidence >= HoldAt THEN "held" ELSE "discarded"

\* One candidate: the row is written by its id, whatever it has become.
Evaluate ==
    /\ night = "evaluate" /\ batch # <<>> /\ batch' = Tail(batch)
    /\ LET c == Head(batch) IN
       \E a \in Answers \cup {0} :
         /\ verdict' = [verdict EXCEPT ![c] = Verdict(a)]
         /\ score' = [score EXCEPT ![c] = a]
         /\ seenScore' = [seenScore EXCEPT ![c] = a]
    /\ Races({Head(batch)} \cap ToSet(chosen))
    /\ UNCHANGED <<promotedTo, memories, night, nightsRun, askVars, reports>>

\* The model does not answer, or not in JSON: the candidate stays pending.
NoVerdict ==
    /\ night = "evaluate" /\ batch # <<>> /\ batch' = Tail(batch)
    /\ UNCHANGED <<rowVars, memories, night, nightsRun, askVars, reports>>

\* The rows run_dream_promoter reads: those without a memory.
PromotedRows == Listed({c \in In("promoted") : promotedTo[c] = 0})

LoadPromoted ==
    /\ night = "evaluate" /\ batch = <<>>
    /\ night' = "promote" /\ batch' = PromotedRows
    /\ UNCHANGED <<rowVars, memories, nightsRun, askVars, reports>>

\* Without shadow mode the candidate is held, for want of a direct promotion.
Shadow ==
    /\ night = "promote" /\ batch # <<>> /\ batch' = Tail(batch)
    /\ verdict' = [verdict EXCEPT ![Head(batch)] =
                     IF ShadowMode THEN "shadow_pending" ELSE "held"]
    /\ Races({Head(batch)} \cap ToSet(chosen))
    /\ UNCHANGED <<promotedTo, score, seenScore, memories, night, nightsRun, askVars, reports>>

NightEnds ==
    /\ night = "promote" /\ batch = <<>> /\ night' = "off"
    /\ UNCHANGED <<rowVars, memories, batch, nightsRun, askVars, reports>>

NightDies ==
    /\ night # "off" /\ night' = "off" /\ batch' = <<>>
    /\ UNCHANGED <<rowVars, memories, nightsRun, askVars, reports>>
----------------------------------------------------------------------------
\* dream promote, dream discard, review resolve

\* collect_dream_promote_rows: a day or a prefix of an id.
Choose ==
    /\ ask = "off" /\ promotes < MaxPromotes /\ promotes' = promotes + 1
    /\ \E S \in SUBSET In("shadow_pending") :
          S # {} /\ chosen' = Listed(S)
    /\ ask' = "confirm" /\ wrote' = NoAnswer
    /\ UNCHANGED <<rowVars, memories, nightVars, reports>>

Confirm ==
    /\ ask = "confirm"
    /\ \/ ask' = "write" /\ UNCHANGED chosen
       \/ ask' = "off" /\ chosen' = <<>>
    /\ UNCHANGED <<rowVars, memories, nightVars, wrote, promotes, reports>>

\* A readable memory that says the same.
Twin(text) == {i \in DOMAIN memories : memories[i].shown /\ memories[i].text = text}

WriteMemory ==
    /\ ask = "write" /\ chosen # <<>> /\ ask' = "record"
    /\ LET text == Claim[Head(chosen)] IN
       \/ /\ Twin(text) # {} /\ UNCHANGED memories
          /\ \E i \in Twin(text) : wrote' = [result |-> "duplicate", id |-> i]
       \/ /\ Twin(text) = {} /\ Len(memories) < MaxMemories
          /\ memories' = Append(memories, [text |-> text, shown |-> TRUE])
          /\ wrote' = [result |-> "saved", id |-> Len(memories')]
       \/ /\ UNCHANGED memories
          /\ wrote' \in {[result |-> r, id |-> 0] : r \in {"policy", "failed"}}
    /\ UNCHANGED <<rowVars, nightVars, chosen, promotes, reports>>

\* The memory a candidate is recorded with.
RecordedId == wrote.id

\* promote_dream_rows
RecordPromotion ==
    /\ ask = "record" /\ ask' = "write" /\ chosen' = Tail(chosen)
    /\ LET c == Head(chosen) IN
       CASE wrote.result \in {"saved", "duplicate"} ->
              /\ verdict' = [verdict EXCEPT ![c] =
                   IF wrote.result = "saved" THEN "promoted" ELSE "duplicate"]
              /\ promotedTo' = [promotedTo EXCEPT ![c] = RecordedId]
         [] wrote.result = "policy" ->
              verdict' = [verdict EXCEPT ![c] = "held"] /\ UNCHANGED promotedTo
         [] wrote.result = "failed" -> UNCHANGED <<verdict, promotedTo>>
    /\ wrote' = NoAnswer
    /\ Races({Head(chosen)} \cap ToSet(batch))
    /\ UNCHANGED <<score, seenScore, memories, nightVars, promotes, reports>>

PromoteEnds ==
    /\ ask = "write" /\ chosen = <<>> /\ ask' = "off"
    /\ UNCHANGED <<rowVars, memories, nightVars, chosen, wrote, promotes, reports>>

PromoteDies ==
    /\ ask # "off" /\ ask' = "off" /\ chosen' = <<>> /\ wrote' = NoAnswer
    /\ UNCHANGED <<rowVars, memories, nightVars, promotes, reports>>

\* discard_dream_candidates: one UPDATE of the rows still in the shadow.
Discard ==
    /\ \E S \in SUBSET In("shadow_pending") :
          /\ S # {}
          /\ verdict' = [c \in Cand |-> IF c \in S THEN "discarded" ELSE verdict[c]]
          /\ Races(S \cap (ToSet(batch) \cup ToSet(chosen)))
    /\ UNCHANGED <<promotedTo, score, seenScore, memories, nightVars, askVars, reports>>

\* batch dream-insert-candidate, as drift reports arrive
InsertDrift ==
    /\ \E c \in Drift \cap In("none") : verdict' = [verdict EXCEPT ![c] = "pending"]
    /\ UNCHANGED raced
    /\ UNCHANGED <<promotedTo, score, seenScore, memories, nightVars, askVars, reports>>

\* resolve_review_candidate
ResolveDrift ==
    /\ \E c \in Drift \cap In("pending"), v \in {"held", "discarded"} :
          verdict' = [verdict EXCEPT ![c] = v] /\ Races({c} \cap ToSet(batch))
    /\ UNCHANGED <<promotedTo, score, seenScore, memories, nightVars, askVars, reports>>
----------------------------------------------------------------------------
\* The server

Capped(x) == IF x > 100 THEN 100 ELSE x
Fed(outcome, s) ==
    CASE outcome = "confirmed" -> Capped(s + 5)
      [] outcome = "corrected" -> (s * 85) \div 100
      [] outcome = "outdated"  -> (s * 70) \div 100

\* The candidates apply_dream_feedback moves.
PromotedAs(i) == {c \in Cand : promotedTo[c] = i /\ verdict[c] = "promoted"}

ReportDream ==
    /\ reports < MaxReports /\ reports' = reports + 1
    /\ \E i \in DOMAIN memories, o \in {"confirmed", "corrected", "outdated"} :
          /\ memories[i].shown
          /\ score' = [c \in Cand |-> IF c \in PromotedAs(i) THEN Fed(o, score[c])
                                      ELSE score[c]]
          /\ memories' = [memories EXCEPT ![i].shown = o # "outdated"]
    /\ UNCHANGED raced
    /\ UNCHANGED <<verdict, promotedTo, seenScore, nightVars, askVars>>
----------------------------------------------------------------------------
DreamInit ==
    /\ verdict = [c \in Cand |-> "none"] /\ promotedTo = [c \in Cand |-> 0]
    /\ score = [c \in Cand |-> 0] /\ seenScore = [c \in Cand |-> 0]
    /\ raced = {}
    /\ memories = <<>> /\ night = "off" /\ batch = <<>>
    /\ ask = "off" /\ chosen = <<>> /\ wrote = NoAnswer
    /\ nightsRun = 0 /\ promotes = 0 /\ reports = 0

DreamNext ==
    \/ StartNight \/ Reflect \/ LoadPending \/ Evaluate \/ NoVerdict
    \/ LoadPromoted \/ Shadow \/ NightEnds \/ NightDies
    \/ Choose \/ Confirm \/ WriteMemory \/ RecordPromotion \/ PromoteEnds \/ PromoteDies
    \/ Discard \/ InsertDrift \/ ResolveDrift \/ ReportDream

DreamSpec == DreamInit /\ [][DreamNext]_dreamVars
----------------------------------------------------------------------------
\* A candidate is recorded as promoted to, or a duplicate of, a memory that
\* says what it says: whatever died or was decided in between, the row never
\* names a memory that was not written, or another's.
PromotedIsWritten ==
    \A c \in Cand : promotedTo[c] # 0 => memories[promotedTo[c]].text = Claim[c]

\* Promoting again what a dead command promoted before adds no second memory:
\* no two readable memories make the same claim.
OneMemoryPerClaim ==
    \A i, j \in DOMAIN memories :
        memories[i].shown /\ memories[j].shown /\ memories[i].text = memories[j].text
          => i = j

\* A candidate that is settled (written, a duplicate, held or discarded) keeps
\* its verdict over all later nights and reviews, unless it was settled while
\* another command had read it already.
SettledStays ==
    [][\A c \in Cand \ raced :
          verdict[c] \in {"held", "discarded", "duplicate"} \/ promotedTo[c] # 0
            => verdict'[c] = verdict[c]]_dreamVars

\* Only what the evaluator gave the promotion threshold comes to be in the
\* shadow, where a person may make a memory of it, whatever else was decided
\* on the row since: the threshold of the one stage is what the next relies on.
ShadowIsEarned ==
    \A c \in Cand : verdict[c] = "shadow_pending" => seenScore[c] >= PromoteAt

\* A claim passes from candidate to memory once, on its merits, and its row
\* says which memory it became, whoever died or decided in between.
DreamsComeTrueOnce ==
    /\ SettledStays
    /\ [][DreamTypeOK' /\ PromotedIsWritten' /\ OneMemoryPerClaim' /\ ShadowIsEarned']_dreamVars
=============================================================================
