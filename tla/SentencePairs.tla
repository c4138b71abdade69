---------------------------- MODULE SentencePairs ----------------------------
(* The sentence highlights of two editions read side by side: the offline job per pair of      *)
(* editions (catalog/offline_sentence_alignment.py), what it keeps per pair of blocks, and     *)
(* its being queued again after a correction (catalog/parallel_status.py).  A block's text is  *)
(* a version; one model; one worker on the default queue.                                      *)
EXTENDS Naturals, Sequences, SequencesExt, TLC

CONSTANTS
    Pairs,       \* the block pairs in order: 1..n
    MaxEdits, MaxLine, MaxMishaps   \* bounds

PairsConstants == Pairs \in Nat \ {0}

VARIABLES
    version,    \* the text of each side of each pair
    spans,      \* the blocks, <<side, pair>>, that have their sentences
    splitFor,   \* the texts of an edition a SENTENCES run succeeded for
    highlights, \* EditionArtifacts: <<pair, text of both sides>> -> is_current
    jobs,       \* ALIGN runs by creation: [digest, status]
    line,       \* messages, in order
    scribe,     \* what the worker is at
    hasty,      \* the job that was queued last was queued with a correction's refresh to come
    used        \* [edits, mishaps]: bounded

pairsVars == <<version, spans, splitFor, highlights, jobs, line, scribe, hasty, used>>

Sides == {"primary", "secondary"}
Blocks == Sides \X (1..Pairs)
Asleep == [at |-> "rest"]
Use(what, limit) == used[what] < limit /\ used' = [used EXCEPT ![what] = @ + 1]

\* pair_hash of a pair, its texts and their sentences, and of all of them (_digest).
Hash(p) == [side \in Sides |-> <<version[side][p], <<side, p>> \in spans>>]
Digest == [p \in 1..Pairs |-> Hash(p)]
Whole(p) == \A side \in Sides : <<side, p>> \in spans
Current(p) == Whole(p) /\ <<p, Hash(p)>> \in DOMAIN highlights /\ highlights[<<p, Hash(p)>>]

Init ==
    /\ version = [side \in Sides |-> [p \in 1..Pairs |-> 0]] /\ spans = Blocks
    /\ splitFor = {<<side, version[side]>> : side \in Sides}
    /\ highlights = <<>> /\ jobs = <<>> /\ line = <<>> /\ scribe = Asleep /\ hasty = FALSE
    /\ used = [edits |-> 0, mishaps |-> 0]

--------------------------------------------------------------------------------
(* A job is queued.                                                             *)

With(run, status) == [jobs EXCEPT ![run].status = status]

\* What was kept of a finished job was retired by a correction.
Retired == \E p \in 1..Pairs : ~Current(p)

\* queue_alignment: one run per digest; a failed one, and a finished one whose highlights were
\* retired, goes again.  before is the line the message is put in; a broker that is away fails it.
Queued(before) ==
    LET known == {i \in DOMAIN jobs : jobs[i].digest = Digest}
        run == IF known = {} THEN Len(jobs) + 1 ELSE CHOOSE i \in known : TRUE
        Set(status) == IF known = {} THEN Append(jobs, [digest |-> Digest, status |-> status])
                       ELSE With(run, status)
        goes == IF known = {} THEN TRUE ELSE jobs[run].status \in IF Retired THEN {"failed", "succeeded"} ELSE {"failed"} IN
    \/ ~goes /\ line' = before /\ UNCHANGED <<jobs, hasty, used>>
    \/ /\ goes /\ jobs' = Set("queued") /\ line' = Append(before, [task |-> "align", run |-> run])
       /\ hasty' = (\E m \in ToSet(before) : m.task = "refresh") /\ UNCHANGED used
    \/ goes /\ jobs' = Set("failed") /\ line' = before /\ Use("mishaps", MaxMishaps) /\ UNCHANGED hasty

\* The page's button (sentence_preview, queue_sentence_alignment).
Press ==
    /\ Len(line) < MaxLine /\ Queued(line)
    /\ UNCHANGED <<version, spans, splitFor, highlights, scribe>>

\* An editor corrects one side of a pair, with a new text or one it had: its sentences go, and with
\* the primary's text every highlight is retired; the refresh follows (_finish_text_revision).
Edit(side, p, text) ==
    /\ Use("edits", MaxEdits) /\ text # version[side][p] /\ text \in {0, used'.edits}
    /\ version' = [version EXCEPT ![side][p] = text] /\ spans' = spans \ {<<side, p>>}
    /\ highlights' = IF side = "primary" THEN [h \in DOMAIN highlights |-> FALSE] ELSE highlights
    /\ line' = Append(line, [task |-> "refresh", side |-> side])
    /\ UNCHANGED <<splitFor, jobs, scribe, hasty>>

--------------------------------------------------------------------------------
(* The worker.                                                                  *)

\* A pair of editions that lost its highlights (refresh_sentence_alignment).
Lost(state) == state \in {"stale", "failed"}

\* pair_status, by the latest run.
State ==
    LET last == jobs[Len(jobs)].status IN
    IF jobs = <<>> THEN "missing"
    ELSE IF last \in {"queued", "running"} THEN "running"
    ELSE IF \A p \in 1..Pairs : Current(p) THEN "current"
    ELSE IF last = "failed" THEN "failed" ELSE "stale"

\* The first message is taken: refresh_edition_after_revision splits the sentences first
\* (split_edition_sentences, nothing for a text it was done for); run_alignment claims its run
\* and compares the digest.
Take ==
    /\ scribe.at = "rest" /\ line # <<>>
    /\ LET message == Head(line) IN
       \/ /\ message.task = "refresh" /\ scribe' = [at |-> "refresh"]
          /\ LET read == <<message.side, version[message.side]>> IN
             /\ spans' = IF read \in splitFor THEN spans ELSE spans \cup ({message.side} \X (1..Pairs))
             /\ splitFor' = splitFor \cup {read}
          /\ UNCHANGED <<line, jobs>>
       \/ /\ message.task = "align" /\ line' = Tail(line) /\ UNCHANGED <<spans, splitFor>>
          /\ LET run == jobs[message.run] IN
             IF run.status # "queued" THEN UNCHANGED <<jobs, scribe>>
             ELSE IF run.digest # Digest THEN jobs' = With(message.run, "failed") /\ UNCHANGED scribe
             ELSE /\ jobs' = With(message.run, "running")
                  /\ scribe' = [at |-> "pair", run |-> message.run, pair |-> 1]
    /\ UNCHANGED <<version, highlights, hasty, used>>

\* The refresh ends with the highlights; its message is acknowledged.
Refresh ==
    /\ scribe.at = "refresh" /\ scribe' = Asleep
    /\ IF Lost(State) THEN Queued(Tail(line)) ELSE line' = Tail(line) /\ UNCHANGED <<jobs, hasty, used>>
    /\ UNCHANGED <<version, spans, splitFor, highlights>>

Digests == jobs[scribe.run].digest
Fail == jobs' = With(scribe.run, "failed") /\ scribe' = Asleep /\ UNCHANGED highlights

\* One pair: its groups come from what is kept or are computed, and are stored under the lock
\* unless the text moved; sentences that are missing on one side fail the job.
Pair ==
    /\ scribe.at = "pair"
    /\ LET p == scribe.pair IN
       IF Digests[p] # Hash(p) \/ ~Whole(p) THEN Fail
       ELSE /\ highlights' = (<<p, Hash(p)>> :> TRUE) @@ highlights
            /\ scribe' = IF p = Pairs THEN [at |-> "close", run |-> scribe.run] ELSE [scribe EXCEPT !.pair = p + 1]
            /\ UNCHANGED jobs
    /\ UNCHANGED <<version, spans, splitFor, line, hasty, used>>

\* The job ends well if the whole digest is still the one it was queued for.
Close ==
    /\ scribe.at = "close"
    /\ IF Digests # Digest THEN Fail
       ELSE jobs' = With(scribe.run, "succeeded") /\ scribe' = Asleep /\ UNCHANGED highlights
    /\ UNCHANGED <<version, spans, splitFor, line, hasty, used>>

\* The worker dies: a refresh comes again (acks_late), an alignment's message is gone.
Die ==
    /\ scribe.at # "rest" /\ Use("mishaps", MaxMishaps) /\ scribe' = Asleep
    /\ UNCHANGED <<version, spans, splitFor, highlights, jobs, line, hasty>>

Next ==
    \/ Press \/ Take \/ Refresh \/ Pair \/ Close \/ Die
    \/ \E side \in Sides, p \in 1..Pairs, text \in 0..MaxEdits : Edit(side, p, text)

Spec == Init /\ [][Next]_pairsVars

--------------------------------------------------------------------------------
(* Properties.                                                                  *)

Quiet == line = <<>> /\ scribe = Asleep

\* The sentences of a text that came back are not cut again (split_edition_sentences).
NotCut == \E side \in Sides : {side} \X (1..Pairs) \ spans # {} /\ <<side, version[side]>> \in splitFor

\* "Re-queue the pairs that had them" (tasks.py:1173): once the work is done and nothing went
\* wrong, editions that were aligned, or asked to be, have their highlights for the text they
\* have, in whatever order corrections, presses and refreshes came, but for a text that came back
\* without its sentences and a last job that was queued before the refresh of a correction.
HighlightsReturn ==
    Quiet /\ jobs # <<>> /\ used.mishaps = 0 /\ ~NotCut /\ ~hasty => \A p \in 1..Pairs : Current(p)

\* A run that waits has a message, whatever failed.
QueuedIsInLine ==
    \A i \in DOMAIN jobs : jobs[i].status = "queued" => [task |-> "align", run |-> i] \in ToSet(line)

--------------------------------------------------------------------------------
(* What is said of the code and does not hold (README, departures).             *)

\* "closed, so that nothing shows as running for ever" (janitor.py:1): a job that nobody works on
\* is not left running.  (Runs of this stage are not among those the janitor closes.)
NothingRunsForEver ==
    \A i \in DOMAIN jobs : jobs[i].status = "running" => scribe.at # "rest"

\* "when the text later returns to a digest that already succeeded, the same run has to serve its
\* cached rows again" (offline_sentence_alignment.py:72).
ReturnIsServed ==
    Quiet /\ jobs # <<>> /\ used.mishaps = 0 /\ ~hasty => \A p \in 1..Pairs : Current(p)
================================================================================
