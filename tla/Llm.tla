--------------------------------- MODULE Llm ---------------------------------
(***************************************************************************)
(* The clients of the language models (memra-core/src/llm/mod.rs) and their  *)
(* callers in memra-server/src/cli/phase4.rs: a key comes from the           *)
(* environment or from the child process `akm get', an answer in one piece   *)
(* or as a stream of server-sent events in chunks of any length. `ma llm     *)
(* smoke' asks every selected provider in turn, the nightly stages ask one.  *)
(***************************************************************************)
EXTENDS Integers, Sequences, FiniteSets

CONSTANTS
    Providers,    \* providers in the order LlmSmokeProvider::selected lists them
    Answers,      \* answers a provider can give, see ModelAnswer below
    Replies,      \* streams a server can send, see Symbol below
    KeyPipe,    \* what a pipe holds before its writer has to wait
    KeyTimeout    \* polls of the child before it is killed

(* A stream is a sequence of symbols: "[" opens a `data:' line with a delta, "]" closes
   it, "a" and "b" are characters of one byte, "e1" and "e2" the two bytes of another,
   "D" is the line `data: [DONE]', ":" a comment, "r" and "n" end a line. *)
Letters == {"a", "b", "e1", "e2"}

(* An answer: its status, whether the body is the JSON that is consulted for, and the texts
   of its parts. A text is a sequence of "<" and ">" (<think>, </think>), "m" (the
   marker that is expected) and "t" (anything else). *)
ModelAnswer == [status : {200, 400, 429, 500, 0}, json : BOOLEAN, parts : Seq(Seq({"<", ">", "m", "t"}))]

ASSUME LlmAssumption ==
    /\ KeyPipe \in Nat /\ KeyTimeout \in Nat
    /\ Answers \subseteq ModelAnswer

VARIABLES
    wire,     \* what the server has still to send
    heard,    \* what has arrived: history
    cutLetter,    \* a character arrived in two chunks: history
    buffer, spoken, sawDone,    \* of complete_streaming
    stream,   \* "open", or how complete_streaming ended
    job,      \* the command under way
    akm,      \* the child process
    consulted     \* the answers the providers gave: history

streamVars == <<wire, heard, cutLetter, buffer, spoken, sawDone, stream>>
llmVars == <<wire, heard, cutLetter, buffer, spoken, sawDone, stream, job, akm, consulted>>

NoChild == [state |-> "none", left |-> 0, pipe |-> 0, code |-> 0, waited |-> 0, held |-> FALSE]
NoJob == [use |-> "none", todo |-> <<>>, step |-> "idle", results |-> <<>>, end |-> "none"]
NoAnswer == [status |-> 0, json |-> FALSE, parts |-> <<>>]

LlmInit ==
    /\ wire = <<>> /\ heard = <<>> /\ cutLetter = FALSE
    /\ buffer = <<>> /\ spoken = <<>> /\ sawDone = FALSE /\ stream = "idle"
    /\ job = NoJob /\ akm = NoChild /\ consulted = <<>>
----------------------------------------------------------------------------
(* complete_streaming *)
OpenStream(reply) ==
    /\ stream = "idle"
    /\ wire' = reply /\ stream' = "open"
    /\ UNCHANGED <<heard, cutLetter, buffer, spoken, sawDone, job, akm, consulted>>

Text(s) == SelectSeq(s, LAMBDA x : x \in Letters)

\* A `data:' line that is no JSON.
Garbled(frame) ==
    \E i \in DOMAIN frame :
        /\ frame[i] = "["
        /\ \A j \in i + 1 .. Len(frame) : frame[j] = "]" => \E k \in i .. j : frame[k] = "n"

\* split_sse_frame looks for two line feeds in a row.
FrameEnds(s) == {i \in 1 .. Len(s) - 1 : s[i] = "n" /\ s[i + 1] = "n"}

Rest(s, i) == SubSeq(s, i + 2, Len(s))

\* apply_sse_frame
Apply(frame) ==
    IF Garbled(frame)
    THEN stream' = "malformed" /\ UNCHANGED <<spoken, sawDone>>
    ELSE /\ spoken' = spoken \o Text(frame)
         /\ sawDone' = (sawDone \/ \E i \in DOMAIN frame : frame[i] = "D")
         /\ UNCHANGED stream

TakeFrame ==
    /\ stream = "open" /\ FrameEnds(buffer) # {}
    /\ LET i == CHOOSE i \in FrameEnds(buffer) : \A j \in FrameEnds(buffer) : i <= j
       IN  Apply(SubSeq(buffer, 1, i - 1)) /\ buffer' = Rest(buffer, i)
    /\ UNCHANGED <<wire, heard, cutLetter, job, akm, consulted>>

\* Each chunk has to be UTF-8 by itself.
Receive(n) ==
    /\ stream = "open" /\ FrameEnds(buffer) = {} /\ n \in 1 .. Len(wire)
    /\ LET chunk == SubSeq(wire, 1, n)
           broken == chunk[1] = "e2" \/ chunk[n] = "e1"
       IN  /\ heard' = heard \o chunk
           /\ cutLetter' = broken
           /\ IF broken
              THEN stream' = "malformed" /\ UNCHANGED buffer
              ELSE buffer' = buffer \o chunk /\ UNCHANGED stream
    /\ wire' = SubSeq(wire, n + 1, Len(wire))
    /\ UNCHANGED <<spoken, sawDone, job, akm, consulted>>

\* An error or the timeout of the connection.
ConnectionFails ==
    /\ stream = "open" /\ FrameEnds(buffer) = {}
    /\ stream' = "failed"
    /\ UNCHANGED <<wire, heard, cutLetter, buffer, spoken, sawDone, job, akm, consulted>>

Leftover_Dropped == <<>>
\* What is left in the buffer when the connection is closed is a frame, too.
Leftover == buffer

EndOfStream ==
    /\ stream = "open" /\ FrameEnds(buffer) = {}
    /\ IF Garbled(Leftover)
       THEN stream' = "malformed" /\ UNCHANGED <<spoken, sawDone>>
       ELSE /\ spoken' = spoken \o Text(Leftover)
            /\ sawDone' = (sawDone \/ \E i \in DOMAIN Leftover : Leftover[i] = "D")
            /\ stream' = IF sawDone' THEN "ok" ELSE "interrupted"
    /\ UNCHANGED <<wire, heard, cutLetter, buffer, job, akm, consulted>>
----------------------------------------------------------------------------
(* The commands. job.todo lists the providers that have not been consulted. *)
Selected(provider) == IF provider = "all" THEN Providers ELSE <<provider>>

StartJob(use, provider) ==
    /\ job.step = "idle"
    /\ use = "stage" => provider \in {"openai", "deepseek"}
    /\ job' = [NoJob EXCEPT !.use = use, !.todo = Selected(provider), !.step = "key"]
    /\ consulted' = [i \in 1 .. Len(Selected(provider)) |-> [called |-> 0, answer |-> NoAnswer]]
    /\ UNCHANGED <<streamVars, akm>>

Turn == Len(consulted) - Len(job.todo) + 1

\* One provider's outcome. A stage asks one only; a smoke run goes on to the next.
Close(status) ==
    LET rest == Tail(job.todo) IN
    job' = [job EXCEPT !.results = Append(@, status), !.todo = rest,
                       !.step = IF rest = <<>> THEN "done" ELSE "key",
                       !.end = IF rest = <<>> THEN "report" ELSE @]

Fail == job' = [job EXCEPT !.step = "done", !.end = "error", !.results = <<>>]

NoKey == Close(IF job.use = "smoke" THEN "missing_key" ELSE "nothing")

\* LlmKeyResolver::resolve: a blank variable counts as none.
KeyInEnvironment ==
    /\ job.step = "key"
    /\ job' = [job EXCEPT !.step = "call"]
    /\ UNCHANGED <<streamVars, akm, consulted>>

AkmMissing ==
    /\ job.step = "key" /\ NoKey
    /\ UNCHANGED <<streamVars, akm, consulted>>

\* The child will print so much and leave with the code; held: a process of its own
\* keeps the pipes open after it.
StartAkm(prints, code, held) ==
    /\ job.step = "key"
    /\ akm' = [NoChild EXCEPT !.state = "runs", !.left = prints, !.code = code, !.held = held]
    /\ job' = [job EXCEPT !.step = "poll"]
    /\ UNCHANGED <<streamVars, consulted>>

AkmPrints ==
    /\ akm.state = "runs" /\ akm.left > 0 /\ akm.pipe < KeyPipe
    /\ akm' = [akm EXCEPT !.left = @ - 1, !.pipe = @ + 1]
    /\ UNCHANGED <<streamVars, job, consulted>>

AkmExits ==
    /\ akm.state = "runs" /\ akm.left = 0
    /\ akm' = [akm EXCEPT !.state = "left"]
    /\ UNCHANGED <<streamVars, job, consulted>>

\* output_with_timeout: nothing is read while the child runs.
Poll ==
    /\ job.step = "poll" /\ akm.state = "runs" /\ akm.waited < KeyTimeout
    /\ akm' = [akm EXCEPT !.waited = @ + 1]
    /\ UNCHANGED <<streamVars, job, consulted>>

KillAkm ==
    /\ job.step = "poll" /\ akm.state = "runs" /\ akm.waited = KeyTimeout
    /\ akm' = NoChild /\ Fail
    /\ UNCHANGED <<streamVars, consulted>>

\* resolve_from_akm: trimmed_secret of what a successful akm printed.
KeyFound(child) == child.code = 0 /\ child.pipe > 0

\* read_to_end waits until nobody holds the pipe, and no timeout bounds that.
ReadAkm ==
    /\ job.step = "poll" /\ akm.state = "left" /\ ~akm.held
    /\ IF KeyFound(akm) THEN job' = [job EXCEPT !.step = "call"] ELSE NoKey
    /\ akm' = IF KeyFound(akm) THEN [akm EXCEPT !.state = "kept"] ELSE NoChild
    /\ UNCHANGED <<streamVars, consulted>>

AkmLetsGo ==
    /\ akm.held /\ akm.state = "left"
    /\ akm' = [akm EXCEPT !.held = FALSE]
    /\ UNCHANGED <<streamVars, job, consulted>>

\* into_llm_response: OpenAI and DeepSeek give the first choice, the others all parts.
RECURSIVE Joined(_)
Joined(parts) == IF parts = <<>> THEN <<>> ELSE Head(parts) \o Joined(Tail(parts))

ContentOf(provider, answer) ==
    IF answer.parts = <<>> THEN <<>>
    ELSE IF provider \in {"openai", "deepseek"} THEN answer.parts[1] ELSE Joined(answer.parts)

\* complete: a status of 0 stands for an answer that never came.
Completed(provider, answer) == answer.status = 200 /\ answer.json /\ ContentOf(provider, answer) # <<>>

\* strip_reality_think_blocks: a block that is not closed stays.
RECURSIVE Stripped(_)
Stripped(text) ==
    LET opens == {i \in DOMAIN text : text[i] = "<"}
        open == CHOOSE i \in opens : \A j \in opens : i <= j
        closes == {i \in DOMAIN text : text[i] = ">" /\ i > open}
        close == CHOOSE i \in closes : \A j \in closes : i <= j
    IN  IF opens = {} \/ closes = {} THEN text
        ELSE Stripped(SubSeq(text, 1, open - 1) \o SubSeq(text, close + 1, Len(text)))

Marked(text) == \E i \in DOMAIN text : text[i] = "m"

\* run_llm_smoke_provider; call_openai_compatible_llm keeps no error.
Outcome(provider, answer) ==
    LET text == Stripped(ContentOf(provider, answer)) IN
    CASE job.use = "smoke" /\ ~Completed(provider, answer) -> "failed"
      [] job.use = "smoke" /\ Completed(provider, answer) -> IF Marked(text) THEN "passed" ELSE "unexpected_content"
      [] job.use = "stage" -> IF Completed(provider, answer) /\ text # <<>> THEN "answered" ELSE "nothing"

Call(answer) ==
    /\ job.step = "call"
    /\ consulted' = [consulted EXCEPT ![Turn] = [called |-> @.called + 1, answer |-> answer]]
    /\ Close(Outcome(Head(job.todo), answer))
    /\ akm' = NoChild
    /\ UNCHANGED streamVars

\* auth_headers: a key with a character no header may hold is refused before a call.
BadKey ==
    /\ job.step = "call"
    /\ Close(IF job.use = "smoke" THEN "failed" ELSE "nothing")
    /\ akm' = NoChild
    /\ UNCHANGED <<streamVars, consulted>>

StreamNext ==
    \/ \E reply \in Replies : OpenStream(reply)
    \/ TakeFrame \/ ConnectionFails \/ EndOfStream
    \/ \E n \in 1 .. Len(wire) : Receive(n)

JobNext ==
    \/ \E provider \in {"all"} \union {Providers[i] : i \in DOMAIN Providers}, use \in {"smoke", "stage"} :
           StartJob(use, provider)
    \/ KeyInEnvironment \/ AkmMissing
    \/ \E prints \in 0 .. KeyPipe + 1, code \in {0, 1}, held \in BOOLEAN : StartAkm(prints, code, held)
    \/ AkmPrints \/ AkmExits \/ AkmLetsGo
    \/ Poll \/ KillAkm \/ ReadAkm
    \/ \E answer \in Answers : Call(answer)
    \/ BadKey

LlmNext == StreamNext \/ JobNext

LlmSpec == LlmInit /\ [][LlmNext]_llmVars
----------------------------------------------------------------------------
LlmTypeOK ==
    /\ stream \in {"idle", "open", "ok", "malformed", "interrupted", "failed"}
    /\ job.step \in {"idle", "key", "poll", "call", "done"}
    /\ job.end \in {"none", "report", "error"}
    /\ akm.pipe \in 0 .. KeyPipe /\ akm.waited \in 0 .. KeyTimeout

\* Wherever the chunks break, an answer is the text of all deltas that arrived, in
\* their order, and the server has said that it is complete.
StreamsAreWhole ==
    stream = "ok" => /\ spoken = Text(heard)
                     /\ \E i \in DOMAIN heard : heard[i] = "D"

\* A whole, well-formed reply is taken unless a character was cut in two or the
\* connection failed; it never passes for one that was interrupted.
WholeRepliesAreTaken ==
    (/\ wire = <<>> /\ stream \in {"malformed", "interrupted"}
     /\ ~cutLetter /\ ~Garbled(heard)) => ~\E i \in DOMAIN heard : heard[i] = "D"

\* A report has one result for each selected provider, in their order: `passed' only
\* if that provider, consulted once, answered with the marker outside every closed think
\* block, `missing_key' only if it was not consulted.
ReportIsTrue ==
    job.end = "report" =>
        /\ Len(job.results) = Len(consulted)
        /\ \A i \in DOMAIN consulted :
               LET result == job.results[i]
                   texts == consulted[i].answer.parts
                   free(text, k) ==
                       /\ text[k] = "m"
                       /\ ~\E o, c \in DOMAIN text :
                              /\ o < k /\ k < c /\ text[o] = "<" /\ text[c] = ">"
                              /\ \A between \in o .. k : text[between] # ">"
               IN  /\ consulted[i].called <= 1
                   /\ result \in {"passed", "unexpected_content", "answered"} =>
                          consulted[i].called = 1 /\ consulted[i].answer.status = 200
                   /\ result = "passed" => \E p \in DOMAIN texts : \E k \in DOMAIN texts[p] : free(texts[p], k)
                   /\ result = "missing_key" => consulted[i].called = 0

\* A provider is called only with a key: with one of the environment, or with all that
\* an akm that succeeded in time printed.
KeysAreWhole == akm.state = "kept" => akm.code = 0 /\ akm.pipe > 0 /\ akm.left = 0

\* No provider's failure ends a run: without a report, akm was killed, and the results
\* of the providers consulted before are lost.
OnlyKeysEndRuns ==
    (job.step = "done" /\ job.end = "error") => Len(job.todo) > 0 /\ consulted[Turn].called = 0

LlmIsHonest ==
    /\ LlmTypeOK
    /\ StreamsAreWhole
    /\ WholeRepliesAreTaken
    /\ ReportIsTrue
    /\ KeysAreWhole
    /\ OnlyKeysEndRuns
=============================================================================
