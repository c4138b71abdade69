------------------------------ MODULE Alignment ------------------------------
(* The inferred alignment of an imported text with the canonical one: local candidates        *)
(* (tasks.py), a model's review of them in batches (catalog/ai_alignment.py), and what        *)
(* editors accept, repair and add (catalog/services.py).  One group of chapters; a text is    *)
(* its content's version, and an edit or an added block makes a new one.                      *)
EXTENDS Naturals, FiniteSets, Sequences, SequencesExt, FiniteSetsExt, TLC

CONSTANTS
    Sources, Added,   \* the source's blocks; the target block a gap's translation adds
    Pairings,         \* candidates a model may propose: sets of [src, tgt], disjoint, in order
    MaxText, MaxActs, MaxAsks, MaxTroubles   \* bounds

AlignmentConstants ==
    \A pairing \in Pairings : \A g, h \in pairing :
        g # h => g.src \cap h.src = {} /\ g.tgt \cap h.tgt = {}

VARIABLES
    text,      \* the version of both contents
    present,   \* the target's blocks
    links,     \* BlockAlignment rows: [id, s, t]
    verdicts,  \* AlignmentGroupReview rows by creation: [id, src, tgt, human]
    chart,     \* which making of ChapterAlignment stands, 0 before
    inferred,  \* the ALIGN runs by version: their status
    batches,   \* the AIRuns: [text, chart, tier] -> [status, tgt, unsure]
    doubt,     \* the stronger model's open warning
    inbox,     \* messages: align, prepare
    polls,     \* and the polls, by batch
    aligner,   \* what the worker is at, what it has read and what people decided since
    tally      \* [ids, acts, asks, troubles]: bounded; late: a gap was filled while a batch was
               \* under way; dropped: the worker died between a batch's end and its escalation

alignmentVars == <<text, present, links, verdicts, chart, inferred, batches, doubt, inbox, polls, aligner, tally>>

Free == [at |-> "rest"]
Again(count, limit) == tally[count] < limit /\ tally' = [tally EXCEPT ![count] = @ + 1]
Pairs(id, g) == {[id |-> id, s |-> s, t |-> t] : s \in g.src, t \in g.tgt}
Linked(ids) == {r \in links : r.id \in ids}
Human(id) == \E v \in ToSet(verdicts) : v.id = id /\ v.human
Status(run, key) == IF key \in DOMAIN run THEN run[key] ELSE "none"

Init ==
    /\ text = 1 /\ present = UNION {UNION {g.tgt : g \in p} : p \in Pairings}
    /\ links = {} /\ verdicts = <<>> /\ chart = 0 /\ inferred = <<>> /\ batches = <<>> /\ doubt = FALSE
    /\ inbox = {} /\ polls = {} /\ aligner = Free
    /\ tally = [ids |-> 0, acts |-> 0, asks |-> 0, troubles |-> 0, late |-> FALSE, dropped |-> FALSE]

--------------------------------------------------------------------------------
(* Editors.                                                                     *)

Act == Again("acts", MaxActs)

\* People decide groups ids; a worker at one of stages has read what it writes by.
DecidedAt(stages, ids) ==
    aligner' = IF aligner.at \in stages THEN [aligner EXCEPT !.since = @ \cup ids] ELSE aligner
Decided(ids) == DecidedAt({"write", "apply"}, ids)

\* queue_source_alignment, queue_ai_alignment_review.
Ask(job) ==
    /\ job \notin inbox /\ Again("asks", MaxAsks)
    /\ inbox' = inbox \cup {job}
    /\ UNCHANGED <<text, present, links, verdicts, chart, inferred, batches, doubt, polls, aligner>>

\* review_alignment_group: the row of the group is made or taken over.
Judged(ids) ==
    LET Group(id) == [id |-> id, src |-> {r.s : r \in Linked({id})}, tgt |-> {r.t : r \in Linked({id})},
                      human |-> TRUE]
        known == {v.id : v \in ToSet(verdicts)} IN
    [i \in DOMAIN verdicts |-> IF verdicts[i].id \in ids THEN Group(verdicts[i].id) ELSE verdicts[i]]
        \o SetToSeq({Group(id) : id \in ids \ known})

\* A group is accepted, or with review_alignment_chapter all of them.
Accept(ids) ==
    /\ ids # {} /\ ids \subseteq {r.id : r \in links} /\ Act
    /\ verdicts' = Judged(ids) /\ Decided(ids)
    /\ UNCHANGED <<text, present, links, chart, inferred, batches, doubt, inbox, polls>>

\* confirm_ai_alignment_groups: a person's name under what the model approved and is current.
ConfirmAll ==
    /\ Act
    /\ verdicts' = [i \in DOMAIN verdicts |->
                       IF Linked({verdicts[i].id}) # {} THEN [verdicts[i] EXCEPT !.human = TRUE] ELSE verdicts[i]]
    /\ verdicts' # verdicts /\ Decided({v.id : v \in ToSet(verdicts)})
    /\ UNCHANGED <<text, present, links, chart, inferred, batches, doubt, inbox, polls>>

\* Mutant: only the rows of the chosen blocks go.
AffectedPairs(g) == {r.id : r \in {q \in links : q.s \in g.src /\ q.t \in g.tgt}}

\* The groups a repair takes a block from.
Affected(g) == {r.id : r \in {q \in links : q.s \in g.src \/ q.t \in g.tgt}}

\* repair_alignment_group.
Repair(g) ==
    /\ g.tgt \subseteq present /\ tally.acts < MaxActs
    /\ tally' = [tally EXCEPT !.acts = @ + 1, !.ids = @ + 1]
    /\ LET id == <<tally.ids + 1, g.tgt>> IN
       /\ links' = (links \ Linked(Affected(g))) \cup Pairs(id, g)
       /\ verdicts' = Append(verdicts, [id |-> id, human |-> TRUE] @@ g) /\ Decided({id})
    /\ UNCHANGED <<text, present, chart, inferred, batches, doubt, inbox, polls>>

\* translate_coverage_gap: a block is added for a source block without a partner.
Fill(s) ==
    /\ s \notin {r.s : r \in links} /\ Added \notin present /\ text < MaxText
    /\ tally.acts < MaxActs
    /\ tally' = [tally EXCEPT !.acts = @ + 1, !.ids = @ + 1,
                  !.late = @ \/ \E b \in DOMAIN batches : batches[b].status \in {"queued", "submitted"}]
    /\ LET g == [src |-> {s}, tgt |-> {Added}]
           id == <<tally.ids + 1, g.tgt>> IN
       /\ links' = links \cup Pairs(id, g)
       /\ verdicts' = Append(verdicts, [id |-> id, human |-> TRUE] @@ g)
       /\ DecidedAt({"read", "write", "apply"}, {id})
    /\ text' = text + 1 /\ present' = present \cup {Added}
    /\ UNCHANGED <<chart, inferred, batches, doubt, inbox, polls>>

\* edit_alignment_target.
Edit ==
    /\ text < MaxText /\ text' = text + 1
    /\ UNCHANGED <<present, links, verdicts, chart, inferred, batches, doubt, inbox, polls, aligner, tally>>

\* resolve_warning.
Resolve ==
    /\ doubt /\ doubt' = FALSE
    /\ UNCHANGED <<text, present, links, verdicts, chart, inferred, batches, inbox, polls, aligner, tally>>

--------------------------------------------------------------------------------
(* The worker: align_edition_to_source.                                         *)

\* The default queue's one worker takes a message and keeps it until it is done.
Start(job) ==
    /\ aligner.at = "rest" /\ job \in inbox
    /\ IF Status(inferred, text) = "succeeded"
       THEN /\ aligner' = [at |-> IF job = "prepare" THEN "submit" ELSE "done", job |-> job]
            /\ UNCHANGED inferred
       ELSE /\ inferred' = (text :> "running") @@ inferred
            /\ aligner' = [at |-> "read", job |-> job, text |-> text, present |-> present, since |-> {}]
    /\ UNCHANGED <<text, present, links, verdicts, chart, batches, doubt, inbox, polls, tally>>

\* A verdict stands unless its blocks are gone or a later one took one of them.
Restored(v, taken) ==
    /\ v.tgt \subseteq aligner.present
    /\ \A w \in taken : w.src \cap v.src = {} /\ w.tgt \cap v.tgt = {}

\* _settled_alignment: the verdicts that stand, from the latest to the first.
Settled ==
    LET Latest[i \in 0..Len(verdicts)] ==
            IF i = 0 THEN {}
            ELSE LET v == verdicts[Len(verdicts) + 1 - i] IN
                 Latest[i - 1] \cup (IF Restored(v, Latest[i - 1]) THEN {v} ELSE {})
    IN Latest[Len(verdicts)]

\* The vectors are there: the candidates are made, the settled groups restored and the
\* verdicts that do not stand deleted.
Settle ==
    /\ aligner.at = "read"
    /\ \E pairing \in Pairings :
          aligner' = [aligner EXCEPT !.at = "write"] @@
                     [settled |-> Settled,
                      new |-> {g \in pairing : \A v \in Settled : g.src \cap v.src = {} /\ g.tgt \cap v.tgt = {}}]
    /\ verdicts' = SelectSeq(verdicts, LAMBDA v : v \in Settled)
    /\ UNCHANGED <<text, present, links, chart, inferred, batches, doubt, inbox, polls, tally>>

\* The transaction that replaces the rows.
Replace ==
    /\ aligner.at = "write"
    /\ links' = UNION {Pairs(v.id, v) : v \in aligner.settled}
                \cup UNION {Pairs(<<tally.ids + 1, g.tgt>>, g) : g \in aligner.new}
    /\ tally' = [tally EXCEPT !.ids = @ + 1]
    /\ chart' = tally.ids + 1 /\ doubt' = FALSE
    /\ aligner' = [at |-> "end", job |-> aligner.job, text |-> aligner.text]
    /\ UNCHANGED <<text, present, verdicts, inferred, batches, inbox, polls>>

\* And the run's end, in a save of its own.
EndRun ==
    /\ aligner.at = "end" /\ inferred' = (aligner.text :> "succeeded") @@ inferred
    /\ aligner' = [at |-> IF aligner.job = "prepare" THEN "submit" ELSE "done", job |-> aligner.job]
    /\ UNCHANGED <<text, present, links, verdicts, chart, batches, doubt, inbox, polls, tally>>

Done ==
    /\ aligner.at = "done" /\ aligner' = Free /\ inbox' = inbox \ {aligner.job}
    /\ UNCHANGED <<text, present, links, verdicts, chart, inferred, batches, doubt, polls, tally>>

--------------------------------------------------------------------------------
(* ai_alignment.py: a batch per tier.                                           *)

Key(tier) == [text |-> text, chart |-> chart, tier |-> tier]
Sent(key) == key \in DOMAIN batches /\ batches[key].status \in {"submitted", "succeeded"}

\* submit_alignment_batch: the run is reserved with the groups it is about, unless it is under way
\* or done, before the provider is called.
Reserved(key) == (key :> [status |-> "queued", tgt |-> present, unsure |-> FALSE]) @@ batches
Polled(key) == IF batches[key].status = "submitted" THEN polls \cup {key} ELSE polls

\* prepare_ai_alignment.
Submit ==
    /\ aligner.at = "submit"
    /\ LET key == Key("primary") IN
       IF Sent(key)
       THEN aligner' = Free /\ inbox' = inbox \ {aligner.job} /\ polls' = Polled(key) /\ UNCHANGED batches
       ELSE /\ aligner' = [at |-> "sent", key |-> key, job |-> aligner.job]
            /\ batches' = Reserved(key) /\ UNCHANGED <<inbox, polls>>
    /\ UNCHANGED <<text, present, links, verdicts, chart, inferred, doubt, tally>>

\* The provider took the batch, which is saved and polled, or refused it.
Answered ==
    /\ aligner.at = "sent" /\ aligner' = Free
    /\ \/ /\ batches' = [batches EXCEPT ![aligner.key].status = "submitted"]
          /\ polls' = (IF aligner.key.tier = "primary" THEN polls ELSE polls \ {aligner.first})
                      \cup {aligner.key}
          /\ UNCHANGED tally
       \/ /\ Again("troubles", MaxTroubles)
          /\ batches' = [b \in DOMAIN batches |->
                IF b = aligner.key \/ (aligner.key.tier = "escalation" /\ b = aligner.first)
                THEN [batches[b] EXCEPT !.status = "failed"] ELSE batches[b]]
          /\ polls' = IF aligner.key.tier = "primary" THEN polls ELSE polls \ {aligner.first}
    /\ inbox' = IF aligner.key.tier = "primary" THEN inbox \ {aligner.job} ELSE inbox
    /\ UNCHANGED <<text, present, links, verdicts, chart, inferred, doubt>>

\* Mutant: the groups a person decided are not looked for.
HandsOffNever(key) == FALSE

\* A person decided one of the groups: the model's answer is left aside.
HandsOff(key) == \E r \in links : r.t \in batches[key].tgt /\ Human(r.id)

\* poll_ai_alignment_batch: the batch is retrieved.  Its answer is a pairing, or unsure
\* (uncertain, invalid or missing), and it is looked for what a person decided.
Poll(key) ==
    /\ aligner.at = "rest" /\ key \in polls
    /\ \/ /\ batches[key].status # "submitted"
          /\ polls' = polls \ {key} /\ UNCHANGED <<aligner, batches, tally>>
       \/ /\ batches[key].status = "submitted"
          /\ \/ \E pairing \in Pairings :
                   aligner' = [at |-> "apply", key |-> key, since |-> {}, unsure |-> FALSE, skip |-> HandsOff(key), new |-> pairing]
             \/ aligner' = [at |-> "apply", key |-> key, since |-> {}, unsure |-> TRUE, skip |-> TRUE, new |-> {}]
          /\ UNCHANGED <<polls, batches, tally>>
       \/ /\ batches[key].status = "submitted" /\ Again("troubles", MaxTroubles)
          /\ batches' = [batches EXCEPT ![key].status = "failed"]
          /\ polls' = polls \ {key} /\ UNCHANGED aligner
    /\ UNCHANGED <<text, present, links, verdicts, chart, inferred, doubt, inbox>>

\* A doubt of the first model goes to the stronger one.
Escalates(key) == key.tier = "primary"

\* complete_alignment_batch, _apply_adjudication: in one transaction the model's groups replace
\* the rows of the batch's target blocks, with a verdict of their own; a doubt of the last
\* model is filed as a warning.
Apply ==
    /\ aligner.at = "apply"
    /\ LET key == aligner.key
           mine == {r \in links : r.t \in batches[key].tgt}
           old == {r.id : r \in mine}
           Id(g) == <<tally.ids + 1, g.tgt>>
           made == SetToSeq({[id |-> Id(g), human |-> FALSE] @@ g : g \in aligner.new}) IN
       /\ IF aligner.skip THEN UNCHANGED <<links, verdicts>>
          ELSE /\ links' = (links \ mine) \cup UNION {Pairs(Id(g), g) : g \in aligner.new}
               /\ verdicts' = SelectSeq(verdicts, LAMBDA v : v.human \/ v.id \notin old) \o made
       /\ tally' = [tally EXCEPT !.ids = @ + 1]
       /\ batches' = [batches EXCEPT ![key].status = "succeeded", ![key].unsure = aligner.unsure]
       /\ doubt' = IF aligner.unsure THEN doubt \/ key.tier = "escalation" ELSE doubt /\ aligner.skip
       /\ IF aligner.unsure /\ Escalates(key)
          THEN aligner' = [at |-> "escalate", key |-> key] /\ UNCHANGED polls
          ELSE aligner' = Free /\ polls' = polls \ {key}
    /\ UNCHANGED <<text, present, chart, inferred, inbox>>

\* The chapters in doubt are submitted to the stronger model; a new chart has no such chapters,
\* and the error marks the first batch failed.
Escalate ==
    /\ aligner.at = "escalate"
    /\ LET first == aligner.key
           key == Key("escalation") IN
       \/ /\ first.chart # chart /\ batches' = [batches EXCEPT ![first].status = "failed"]
          /\ polls' = polls \ {first} /\ aligner' = Free
       \/ /\ first.chart = chart /\ Sent(key) /\ UNCHANGED batches
          /\ polls' = Polled(key) \ {first} /\ aligner' = Free
       \/ /\ first.chart = chart /\ ~Sent(key) /\ batches' = Reserved(key) /\ UNCHANGED polls
          /\ aligner' = [at |-> "sent", key |-> key, first |-> first]
    /\ UNCHANGED <<text, present, links, verdicts, chart, inferred, doubt, inbox, tally>>

\* What a poll has left to do when its batch has ended: the escalation of its doubts.
Escalating == aligner.at = "escalate" \/ (aligner.at = "sent" /\ aligner.key.tier = "escalation")

\* The worker dies: what it did not commit is gone, and its message comes again.
Die ==
    /\ aligner.at # "rest" /\ tally.troubles < MaxTroubles /\ aligner' = Free
    /\ tally' = [tally EXCEPT !.troubles = @ + 1, !.dropped = @ \/ Escalating]
    /\ UNCHANGED <<text, present, links, verdicts, chart, inferred, batches, doubt, inbox, polls>>

Next ==
    \/ \E job \in {"align", "prepare"} : Ask(job) \/ Start(job)
    \/ \E id \in {r.id : r \in links} : Accept({id})
    \/ Accept({r.id : r \in links}) \/ ConfirmAll
    \/ \E g \in UNION Pairings : Repair(g)
    \/ \E s \in Sources : Fill(s)
    \/ Edit \/ Resolve
    \/ Settle \/ Replace \/ EndRun \/ Done \/ Submit \/ Answered \/ Apply \/ Escalate \/ Die
    \/ \E key \in DOMAIN batches : Poll(key)

Spec == Init /\ [][Next]_alignmentVars

--------------------------------------------------------------------------------
(* Properties.                                                                  *)

\* The partner of a source block that was translated while a batch was under way.
Late(r) == tally.late /\ r.t = Added

\* "every group a reviewer or the adjudicator accepted is restored from the block ids on its
\* review" (tasks.py:1256): no step of the worker takes a pair from a group a person decided, or the
\* decision, but for those made after the worker read what it writes by and for what was added
\* while a batch was under way.
ReviewedStands ==
    [][aligner'.at # aligner.at =>
          \A r \in links :
             Human(r.id) /\ ~Late(r) /\ ~("since" \in DOMAIN aligner /\ r.id \in aligner.since)
             => r \in links' /\ Human(r.id)']_alignmentVars

\* "A block may occur in at most one group" (ai/alignment.py:70), whoever made the groups, but for
\* the partner of a block that was added while a batch was under way.
OneGroup ==
    \A q, r \in links :
        q.s = r.s \/ q.t = r.t => q.id = r.id \/ Late(q) \/ Late(r)

\* What the first model was unsure of goes to the stronger one, whatever failed and whenever the
\* worker died, but between the end of a batch and the escalation of its doubts.
DoubtIsPassedOn ==
    \A key \in DOMAIN batches :
        key.tier = "primary" /\ batches[key].status = "succeeded" /\ batches[key].unsure
        => \/ Escalating
           \/ \E b \in DOMAIN batches : b.tier = "escalation" /\ b.chart = key.chart
           \/ tally.dropped
--------------------------------------------------------------------------------
(* What is said of the code and does not hold (README, departures).             *)

\* "a later review superseded it" (tasks.py:1225): what a repair took apart does not come back.
\* (It does once a second repair took the first apart.)
SupersededStays ==
    [][\A v \in ToSet(verdicts) : Linked({v.id}) = {} => ~\E r \in links' : r.id = v.id]_alignmentVars

\* "Restored on every rebuild" (tasks.py:1186), whenever it was decided.
RestoredAlways ==
    [][aligner'.at # aligner.at => \A r \in links : Human(r.id) => r \in links']_alignmentVars
================================================================================
