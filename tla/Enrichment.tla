----------------------------- MODULE Enrichment -----------------------------
(***************************************************************************)
(* What is cut and counted from an edition's text, and what a correction   *)
(* of the text does to it (services.py:816-1265, tasks.py:819-1160).       *)
(*                                                                         *)
(* A correction is a transaction: it locks the block, writes the words,    *)
(* drops the block's sentence spans, retires every current artifact and    *)
(* the open findings of the block, and queues the refresh once committed.  *)
(* The refresh, one message, cuts the sentences, counts the words and      *)
(* looks for slips of the scan, each in a run keyed by the hash of the     *)
(* text.  The worker takes the hash first and reads the blocks after it,   *)
(* and an editor may write between the two and between reading and         *)
(* writing.  An editor who applies a finding reads its block without a     *)
(* lock and locks it later.                                                *)
(*                                                                         *)
(* A block's text is a wording, a natural number: later wordings are       *)
(* larger unless Reverts.  Flawed wordings have a slip, and what the scan  *)
(* suggests for it is the next wording.  A hash is the text it was taken   *)
(* of.  A finding stands for its passage, which one wording has.           *)
(***************************************************************************)
EXTENDS Integers, FiniteSets

CONSTANTS Blocks,      \* paragraphs of the edition
          Editors,     \* people with an edition page open
          Workers,     \* processes of the container worker
          LastWording, \* wordings are 0..LastWording
          Flawed,      \* wordings with a slip the scan finds
          Reverts,     \* whether an editor may type an earlier wording again
          Audited,     \* whether an auditor left a finding on each flawed block
          MaxEdits,    \* bound on corrections begun
          MaxEvents    \* bound on scans asked for, decisions, failures and crashes together

Gone == -1       \* the wording of a block taken out
None == -2       \* no spans, no block
Wordings == 0..LastWording

Stages == {"split", "lexical", "qa"}
Kinds == Stages \cup {"refresh"}
Texts == [Blocks -> Wordings \cup {Gone}]
NoText == [b \in Blocks |-> None]  \* no hash, nothing read

ASSUME WordingsAssumption == LastWording \in Nat /\ Flawed \subseteq 0..(LastWording - 1)
ASSUME SwitchesAssumption == Reverts \in BOOLEAN /\ Audited \in BOOLEAN
ASSUME BoundsAssumption == MaxEdits \in Nat /\ MaxEvents \in Nat

VARIABLES
  text,      \* the words of each block
  spans,     \* the wording each block's sentence spans were cut from
  runs,      \* the pipeline run of each stage and hash
  made,      \* the text an artifact of a stage and hash was made from
  current,   \* the hash of the current artifact of each stage
  findings,  \* text-quality findings
  queue,     \* messages waiting, per kind
  job,       \* what each worker is doing
  tx,        \* what each editor's open transaction holds
  used       \* corrections, failures, other events so far

vars == <<text, spans, runs, made, current, findings, queue, job, tx, used>>

Idle == [kind |-> "none", stage |-> "none", step |-> "idle", hash |-> NoText, read |-> NoText]
NoPlace == [code |-> "none", hash |-> NoText, block |-> None, wording |-> None]
NoTx == [does |-> "nothing", block |-> None, wording |-> None, finding |-> NoPlace]

FindingStatus == {"open", "applied", "dismissed", "superseded"}
Places == [code: {"qa", "fidelity"}, hash: Texts \cup {NoText}, block: Blocks, wording: Wordings]

TypeOK ==
  /\ text \in Texts
  /\ spans \in [Blocks -> Wordings \cup {None}]
  /\ \A s \in Stages : DOMAIN runs[s] \subseteq Texts
                        /\ \A t \in DOMAIN runs[s] : runs[s][t] \in {"running", "succeeded", "failed"}
  /\ \A s \in {"lexical", "qa"} : DOMAIN made[s] \subseteq Texts
                                 /\ \A t \in DOMAIN made[s] : made[s][t] \in Texts
  /\ current \in [{"lexical", "qa"} -> Texts \cup {NoText}]
  /\ DOMAIN findings \subseteq Places /\ \A p \in DOMAIN findings : findings[p] \in FindingStatus
  /\ queue \in [Kinds -> Nat]
  /\ DOMAIN job = Workers /\ DOMAIN tx = Editors

----------------------------------------------------------------------------
(* State formulae. *)

Present == {b \in Blocks : text[b] # Gone}

\* Rows an editor's transaction has locked; the others wait for them.
HoldsBlock(e, b) == tx[e].does \in {"revise", "remove"} /\ tx[e].block = b
HoldsFinding(e, p) == tx[e].does = "apply" /\ tx[e].finding = p
BlockFree(b) == \A e \in Editors : ~HoldsBlock(e, b)
FindingFree(p) == \A e \in Editors : ~HoldsFinding(e, p)

\* Mutant: an edit leaves the findings of its block open.
OpenOnNothing(F, b) == {}
\* The findings of a block an edit retires: an auditor's are kept for their own path.
OpenOn(F, b) == {p \in DOMAIN F : p.block = b /\ F[p] = "open" /\ p.code # "fidelity"}

SetAll(F, P, status) == [p \in DOMAIN F |-> IF p \in P THEN status ELSE F[p]]

\* Rows of a table by their key, and what updating or creating one gives.
NoRows == [t \in {} |-> None]
Put(rows, key, row) == [k \in DOMAIN rows \cup {key} |-> IF k = key THEN row ELSE rows[k]]
Status(stage, t) == IF t \in DOMAIN runs[stage] THEN runs[stage][t] ELSE "absent"
SetRun(stage, t, status) == runs' = [runs EXCEPT ![stage] = Put(@, t, status)]

\* publication_blocker's question of the sentences.
Splittable(t) == Status("split", t) = "succeeded"

SlipsIn(t, hash) ==
  {[code |-> "qa", hash |-> hash, block |-> b, wording |-> t[b]] :
     b \in {x \in Blocks : t[x] \in Flawed}}

\* The scan's own findings of other texts, superseded by every scan.
OfOtherTexts(F, hash) ==
  {p \in DOMAIN F : F[p] = "open" /\ p.hash # hash /\ p.code # "fidelity"}

Eventful == used.events + used.failures < MaxEvents
Count(kind) == used' = [used EXCEPT ![kind] = @ + 1]

----------------------------------------------------------------------------
Init ==
  /\ text = [b \in Blocks |-> 0]
  /\ spans = [b \in Blocks |-> None]
  /\ runs = [s \in Stages |-> NoRows]
  /\ made = [s \in {"lexical", "qa"} |-> NoRows]
  /\ current = [s \in {"lexical", "qa"} |-> NoText]
  /\ findings = [p \in {[code |-> "fidelity", hash |-> NoText, block |-> b, wording |-> 0] :
                          b \in {x \in Blocks : Audited /\ 0 \in Flawed}} |-> "open"]
  /\ queue = [k \in Kinds |-> IF k = "refresh" THEN 1 ELSE 0]
  /\ job = [w \in Workers |-> Idle]
  /\ tx = [e \in Editors |-> NoTx]
  /\ used = [edits |-> 0, events |-> 0, failures |-> 0]

----------------------------------------------------------------------------
(* Editors. *)

\* Mutant: nothing is queued after the correction.
CommitUnqueued(changes, F) ==
  /\ text' = [b \in Blocks |-> IF b \in DOMAIN changes THEN changes[b] ELSE text[b]]
  /\ spans' = [b \in Blocks |-> IF b \in DOMAIN changes THEN None ELSE spans[b]]
  /\ current' = [s \in DOMAIN current |-> NoText]
  /\ findings' = F
  /\ UNCHANGED <<runs, made, job, queue>>

\* _record_block_revision and _finish_text_revision: what every correction commits.
Commit(changes, F) ==
  /\ text' = [b \in Blocks |-> IF b \in DOMAIN changes THEN changes[b] ELSE text[b]]
  /\ spans' = [b \in Blocks |-> IF b \in DOMAIN changes THEN None ELSE spans[b]]
  /\ current' = [s \in DOMAIN current |-> NoText]
  /\ findings' = F
  /\ queue' = [queue EXCEPT !["refresh"] = @ + 1]
  /\ UNCHANGED <<runs, made, job>>

\* revise_block_text and remove_block, the first half: the block is locked and read.
LockBlock(e, b, does, wording) ==
  /\ tx[e] = NoTx
  /\ used.edits < MaxEdits
  /\ BlockFree(b)
  /\ text[b] # Gone
  /\ tx' = [tx EXCEPT ![e] = [NoTx EXCEPT !.does = does, !.block = b, !.wording = wording]]
  /\ Count("edits")
  /\ UNCHANGED <<text, spans, runs, made, current, findings, queue, job>>

Revise(e) ==
  \E b \in Blocks, wording \in Wordings :
    /\ wording # text[b]
    /\ Reverts \/ wording > text[b]
    /\ LockBlock(e, b, "revise", wording)

Remove(e) == \E b \in Blocks : Cardinality(Present) > 1 /\ LockBlock(e, b, "remove", Gone)

\* The second half: it waits for whoever holds a finding it is to supersede.
FinishRevision(e) ==
  LET b == tx[e].block
      retired == IF tx[e].does = "remove"
                   THEN {p \in DOMAIN findings : p.block = b /\ findings[p] = "open"}
                   ELSE OpenOn(findings, b)
  IN /\ tx[e].does \in {"revise", "remove"}
     /\ \A p \in retired : FindingFree(p)
     /\ Commit([x \in {b} |-> tx[e].wording], SetAll(findings, retired, "superseded"))
     /\ UNCHANGED used
     /\ tx' = [tx EXCEPT ![e] = NoTx]

\* apply_text_quality_finding, the first half: the finding is locked, its block only read,
\* and a block that no longer has the passage is refused.
BeginApply(e) ==
  \E p \in DOMAIN findings :
    /\ tx[e] = NoTx
    /\ used.edits < MaxEdits
    /\ FindingFree(p)
    /\ findings[p] = "open"
    /\ text[p.block] = p.wording
    /\ tx' = [tx EXCEPT ![e] = [does |-> "apply", block |-> p.block,
                                wording |-> p.wording + 1, finding |-> p]]
    /\ Count("edits")
    /\ UNCHANGED <<text, spans, runs, made, current, findings, queue, job>>

\* The second half, revise_block_text under the block's lock: the words are those computed
\* from what was read; it supersedes the other findings of the block and closes its own.
FinishApply(e) ==
  LET p == tx[e].finding
      others == OpenOn(findings, p.block) \ {p}
  IN /\ tx[e].does = "apply"
     /\ BlockFree(p.block)
     /\ text[p.block] \notin {Gone, tx[e].wording}
     /\ \A q \in others : FindingFree(q)
     /\ Commit([x \in {p.block} |-> tx[e].wording],
               SetAll(SetAll(findings, others, "superseded"), {p}, "applied"))
     /\ UNCHANGED used
     /\ tx' = [tx EXCEPT ![e] = NoTx]

\* The block is gone or has the words already, or the database breaks a deadlock between a
\* correction that holds the block and an apply that holds a finding it must supersede.
Abort(e) ==
  /\ tx[e] # NoTx
  /\ \/ tx[e].does = "apply" /\ text[tx[e].block] \in {Gone, tx[e].wording}
     \/ \E d \in Editors \ {e} :
          /\ tx[d].block = tx[e].block
          /\ {tx[d].does, tx[e].does} \in {{"apply", "revise"}, {"apply", "remove"}}
  /\ tx' = [tx EXCEPT ![e] = NoTx]
  /\ UNCHANGED <<text, spans, runs, made, current, findings, queue, job, used>>

\* apply_high_confidence_detached_initials: every open finding of the scan, one per block,
\* under the locks of the findings and of the blocks.
ApplyInitials(e) ==
  LET open == {p \in DOMAIN findings : p.code = "qa" /\ findings[p] = "open"}
      blocks == {p.block : p \in open}
  IN /\ tx[e] = NoTx
     /\ used.edits < MaxEdits
     /\ open # {}
     /\ Cardinality(open) = Cardinality(blocks)
     /\ \A p \in open : FindingFree(p) /\ BlockFree(p.block) /\ text[p.block] = p.wording
     /\ Commit([b \in blocks |-> text[b] + 1], SetAll(findings, open, "applied"))
     /\ Count("edits")
     /\ UNCHANGED tx

Decide(e, from, to, counter) ==
  \E p \in DOMAIN findings :
    /\ tx[e] = NoTx
    /\ FindingFree(p)
    /\ findings[p] = from
    /\ to = "open" => text[p.block] = p.wording
    /\ findings' = [findings EXCEPT ![p] = to]
    /\ used' = counter
    /\ UNCHANGED <<text, spans, runs, made, current, queue, job, tx>>

\* dismiss_text_quality_finding and reopen_text_quality_finding.
Dismiss(e) == Eventful /\ Decide(e, "open", "dismissed", [used EXCEPT !.events = @ + 1])
Reopen(e) == Decide(e, "dismissed", "open", used)

\* queue_lexical_analysis, queue_source_quality_scan and the admin's actions.
Ask(kind) ==
  /\ Eventful
  /\ queue' = [queue EXCEPT ![kind] = @ + 1]
  /\ Count("events")
  /\ UNCHANGED <<text, spans, runs, made, current, findings, job, tx>>

----------------------------------------------------------------------------
(* The worker. *)

First(kind) == IF kind = "refresh" THEN "split" ELSE kind

Deliver(w) ==
  \E kind \in Kinds :
    /\ job[w] = Idle
    /\ queue[kind] > 0
    /\ queue' = [queue EXCEPT ![kind] = @ - 1]
    /\ job' = [job EXCEPT ![w] = [Idle EXCEPT !.kind = kind, !.stage = First(kind), !.step = "claim"]]
    /\ UNCHANGED <<text, spans, runs, made, current, findings, tx, used>>

\* refresh_edition_after_revision goes on to the next stage; any other job is over.
After(j) ==
  IF j.kind = "refresh" /\ j.stage # "qa"
    THEN [j EXCEPT !.stage = IF @ = "split" THEN "lexical" ELSE "qa", !.step = "claim",
                   !.hash = NoText, !.read = NoText]
    ELSE Idle

\* The hash is taken and the run of that hash made; a run that succeeded is not run again.
Claim(w) ==
  LET j == job[w]
      done == Status(j.stage, text) = "succeeded"
  IN /\ j.step = "claim"
     /\ IF done /\ j.stage = "split"
          THEN job' = [job EXCEPT ![w] = After(j)]
          ELSE job' = [job EXCEPT ![w].step = IF done THEN "remark" ELSE "read", ![w].hash = text]
     /\ IF done THEN UNCHANGED runs ELSE SetRun(j.stage, text, "running")
     /\ UNCHANGED <<text, spans, made, current, findings, queue, tx, used>>

\* The artifact of a text met before is current again, and the scan closes its other findings.
Remark(w) ==
  LET j == job[w]
  IN /\ j.step = "remark"
     /\ current' = [current EXCEPT ![j.stage] = j.hash]
     /\ IF j.stage = "qa"
          THEN LET old == OfOtherTexts(findings, j.hash)
               IN /\ \A p \in old : FindingFree(p)
                  /\ findings' = SetAll(findings, old, "superseded")
          ELSE UNCHANGED findings
     /\ job' = [job EXCEPT ![w] = After(j)]
     /\ UNCHANGED <<text, spans, runs, made, queue, tx, used>>

\* The blocks are read, which an edit may have changed since the hash.
Read(w) ==
  /\ job[w].step = "read"
  /\ job' = [job EXCEPT ![w].step = "write", ![w].read = text]
  /\ UNCHANGED <<text, spans, runs, made, current, findings, queue, tx, used>>

\* Mutant: blocks that have spans already are passed over.
WriteMissingSpans(w) ==
  LET j == job[w]
  IN /\ j.step = "write" /\ j.stage = "split"
     /\ spans' = [b \in Blocks |-> IF Gone \in {text[b], j.read[b]} \/ spans[b] # None
                                    THEN spans[b] ELSE j.read[b]]
     /\ SetRun(j.stage, j.hash, "succeeded")
     /\ job' = [job EXCEPT ![w] = After(j)]
     /\ UNCHANGED <<text, made, current, findings, queue, tx, used>>

\* split_edition_sentences: every block read gets the spans of the words read.
WriteSpans(w) ==
  LET j == job[w]
  IN /\ j.step = "write" /\ j.stage = "split"
     /\ spans' = [b \in Blocks |-> IF Gone \in {text[b], j.read[b]} THEN spans[b] ELSE j.read[b]]
     /\ SetRun(j.stage, j.hash, "succeeded")
     /\ job' = [job EXCEPT ![w] = After(j)]
     /\ UNCHANGED <<text, made, current, findings, queue, tx, used>>

\* analyze_edition_lexicon: the profile and the useful words, in one transaction.
WriteLexicon(w) ==
  LET j == job[w]
  IN /\ j.step = "write" /\ j.stage = "lexical"
     /\ made' = [made EXCEPT !.lexical = Put(@, j.hash, j.read)]
     /\ current' = [current EXCEPT !["lexical"] = j.hash]
     /\ SetRun(j.stage, j.hash, "succeeded")
     /\ job' = [job EXCEPT ![w] = After(j)]
     /\ UNCHANGED <<text, spans, findings, queue, tx, used>>

\* analyze_edition_source_quality: the artifact, and a row per slip; a row of this hash and
\* fingerprint keeps the decision it has.
WriteScan(w) ==
  LET j == job[w]
      slips == SlipsIn(j.read, j.hash)
      old == OfOtherTexts(findings, j.hash)
  IN /\ j.step = "write" /\ j.stage = "qa"
     /\ \A p \in old : FindingFree(p)
     /\ made' = [made EXCEPT !.qa = Put(@, j.hash, j.read)]
     /\ current' = [current EXCEPT !["qa"] = j.hash]
     /\ findings' = [p \in DOMAIN findings \cup slips |->
                       IF p \in old THEN "superseded"
                       ELSE IF p \in DOMAIN findings THEN findings[p] ELSE "open"]
     /\ SetRun(j.stage, j.hash, "succeeded")
     /\ job' = [job EXCEPT ![w] = After(j)]
     /\ UNCHANGED <<text, spans, queue, tx, used>>

\* A stage raises: the run is failed, the refresh goes on unless it was the sentences.
Fail(w) ==
  LET j == job[w]
  IN /\ j.step \in {"read", "write"}
     /\ Eventful
     /\ SetRun(j.stage, j.hash, "failed")
     /\ job' = [job EXCEPT ![w] = IF j.stage = "split" THEN Idle ELSE After(j)]
     /\ Count("failures")
     /\ UNCHANGED <<text, spans, made, current, findings, queue, tx>>

\* The worker dies: acks_late puts the message back, the run is left as it was.
Crash(w) ==
  /\ job[w] # Idle
  /\ Eventful
  /\ queue' = [queue EXCEPT ![job[w].kind] = @ + 1]
  /\ job' = [job EXCEPT ![w] = Idle]
  /\ Count("events")
  /\ UNCHANGED <<text, spans, runs, made, current, findings, tx>>

----------------------------------------------------------------------------
Correct(e) ==
  Revise(e) \/ Remove(e) \/ BeginApply(e) \/ ApplyInitials(e) \/ Dismiss(e) \/ Reopen(e)
EndTx(e) == FinishRevision(e) \/ FinishApply(e) \/ Abort(e)
Work(w) ==
  Deliver(w) \/ Claim(w) \/ Remark(w) \/ Read(w) \/ WriteSpans(w) \/ WriteLexicon(w) \/ WriteScan(w)

Quiet == (\A k \in Kinds : queue[k] = 0) /\ (\A w \in Workers : job[w] = Idle)
NothingOpen == \A e \in Editors : tx[e] = NoTx
\* Nobody has anything left to do and the bounds are used up, or no one wants to.
Rest == Quiet /\ NothingOpen /\ UNCHANGED vars

Next ==
  \/ \E e \in Editors : Correct(e) \/ EndTx(e)
  \/ \E s \in Stages : Ask(s)
  \/ \E w \in Workers : Work(w) \/ Fail(w) \/ Crash(w)
  \/ Rest

\* The worker process runs, and an editor's transaction ends; nobody has to edit.
Fairness ==
  /\ \A w \in Workers : WF_vars(Work(w))
  /\ \A e \in Editors : WF_vars(EndTx(e))

Spec == Init /\ [][Next]_vars /\ Fairness

----------------------------------------------------------------------------
(* Properties. *)

SpansFit == \A b \in Present : spans[b] = text[b]
\* The stage failed for these words, or a refresh that failed before never came to it.
Missed(stage) ==
  \/ Status(stage, text) = "failed"
  \/ Status(stage, text) = "absent" /\ used.failures > 0

\* Once the sentences of the text count as split, which is what publication asks, the spans
\* of every block are cut from the words it has (publication_blocker, tasks.py:578-588).
SplitIsOfText == Splittable(text) => SpansFit

\* When nothing is queued and the text has been scanned, the open findings of the
\* scan are of passages the text has, and each slip in it has a row nobody but an editor
\* has closed (analyze_edition_source_quality, _finish_text_revision).
ScanIsOfText ==
  Quiet /\ NothingOpen /\ Status("qa", text) = "succeeded" =>
    /\ \A p \in DOMAIN findings :
         findings[p] = "open" /\ p.code = "qa" => text[p.block] = p.wording
    /\ \A p \in SlipsIn(text, text) : p \in DOMAIN findings /\ findings[p] # "superseded"

\* What is derived from the text is of the text that stands: its sentences, and the slips the
\* scan found in it (publication_blocker, analyze_edition_source_quality).
DerivedIsOfText == SplitIsOfText /\ ScanIsOfText

\* A suggestion is written only over the words it was made for: whoever edits the block
\* between the check and the write has taken the finding away or waits
\* (apply_text_quality_finding, services.py:945-958).
OverItsWords ==
  [][\A e \in Editors : tx[e].does = "apply" /\ text' # text /\ tx'[e] = NoTx =>
        text[tx[e].block] = tx[e].finding.wording]_vars

\* Once corrections stop, the spans and the current artifacts are made from the words that
\* stand, or the run of these words says that it failed (refresh_edition_after_revision).
Refreshed ==
  <>[](/\ SpansFit \/ Missed("split")
       /\ \A s \in {"lexical", "qa"} :
            (current[s] = text /\ made[s][text] = text) \/ Missed(s))
=============================================================================
