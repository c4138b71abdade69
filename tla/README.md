# Formal model of the book processor

The book processor takes public-domain books and makes graded adaptations and parallel
translations of them with models that are paid for per call. Its state is in PostgreSQL, its
work is done by Celery tasks, most of them acknowledged late (a task whose worker dies is
delivered again), and what a person once decided is decided by gates over readings, audits and
reviews. This directory models the parts of it where the order of events matters and some of
its algorithms, checks them with TLC on small instances and proves the results that matter most
with TLAPS for every value of the constants.

Paths are relative to `src/almonium_book_processor/` unless they begin with `docs/` or
`compose.yaml`.

## The system

| Part | State it keeps | Operations | What is hard | What makes it correct |
| --- | --- | --- | --- | --- |
| Chapter analysis (`catalog/chapter_analysis.py`, `chapter_projections.py`) | a run per text snapshot with a lease, a ledger of paid readings, projections | `queue_analysis`, `analyze_chapters`, `carry_analysis_forward`, `refresh_projections` | leases that expire under live workers, answers after a purge, edits under a reading | what succeeded is read; nothing is paid twice; what is asked for is settled; only the holder settles |
| Production (`catalog/production.py`) | cursors, counters and outcomes of two tracks in one run's summary | the steps of both tracks, `advance`, `queue_production` | effects committed before the row is saved, ticks delivered again, jobs that never end, edits beside it | the ladder is descended in order; ready is earned; held has a reason; it ends |
| Fidelity audit (`catalog/fidelity_audit.py`, `services.py`) | audits per text, a ledger of answers, findings | `queue_edition_audit`, `run_edition_audit`, `carry_audit_forward`, apply, dismiss, reopen | text that changes under an audit, filings out of order, carried verdicts | the gate opens only on what was read and decided |
| Publication, removal, promotion (`catalog/tasks.py`, `purge.py`, `publication.py`, `promotion.py`) | the edition's status, publication runs, what Almonium serves | publish, update metadata, unpublish, withdraw, purge, import a bundle | another service whose answers are lost, pages that write beside tasks | what is shown has its text here; what is behind is said to be |
| Corrections and analyses (`catalog/services.py`, `tasks.py`) | block texts, sentences, lexicon, findings of the scan | correct, remove, apply, dismiss, the refresh after a commit | a hash taken before the blocks are read, reads without a lock | what is derived is of the text; nobody's words are overwritten unseen |
| Translation jobs (`catalog/ai_translation.py`, `translation_jobs.py`) | runs per source hash, provider batches, saved answers | order, submit, poll, collect, retry, cancel | a poll chain that can break, a worker beside a cancellation | no answer is billed twice; what is cancelled stays so; what is ordered ends and goes out |
| Book writing (`catalog/book_adaptation.py`, `adaptation.py`, `heartbeat.py`, `janitor.py`) | a book run, pilots per window, the edition they fill | `queue_book`, `run_book`, `resume_book`, `_materialize` | a hung writer beside its successor, a source edited meanwhile | an edition is one text, whole or empty, and is not written twice |
| Factory and ingestion (`catalog/factory.py`, `services.py`, `reingest.py`, `tasks.py`) | wanted books with reservations, source files, pipelines | the tick, download, ingest, normalize, re-ingest, retry | reports that fail, stages between which a worker dies | few places that keep moving; what is on the shelf has text; the end is told |
| Glosses (`catalog/glosses.py`) | a chapter's notes and their generations | generate, review, add | a review beside a generation | paid once, the reviewer's word stands |
| Review of translations, title pages (`catalog/translation_review.py`, `metadata_translation.py`) | windows' answers, findings; names and descriptions | review, apply; queue, run | a source renamed meanwhile | applicable findings are backed; a page is named from one source |
| Imports and re-cut (`catalog/metadata.py`, `front_matter.py`, `recut.py`, `ingest/`) | an uploaded book's metadata; chapters | propose, confirm; cut, fold, give roles, re-cut | an owner who types while a model proposes; files whose headings lie | the owner's word stays; a cut keeps every paragraph and the story is read |
| Alignment and sentence pairs (`catalog/ai_alignment.py`, `offline_sentence_alignment.py`) | groups, candidates, highlights | align, review, escalate, accept | a batch beside an editor | one group, a person's review stands, highlights come back |
| Plans and calls (`catalog/plan_pause.py`, `ai/cli_calls.py`) | paused accounts; a process's words | pause, resume, start a worker; one call | messages that cross a start | a paused account stays paused; costs are carried |
| Adaptation floor and levels (`catalog/adaptation_floor.py`, `pilot_difficulty.py`, `adaptation_quality.py`) | probes, judges' and auditors' answers, evidence per level | `queue_probe`, `run_probe`, `backfill_probe`, `refresh_adaptation_floor`; `panel_readings`, `adaptation_quality` | edits and deployments under a probe, several transactions that compute one floor | a verdict is what was answered; the work claims the levels whose editions stand; no level is tried before the one above |
| Promotion's state (`catalog/release_state.py`, `promote_edition`) | promotion runs, what the target holds | promote, catch up, send a bundle | bundles that overtake each other or land after they were given up | what is called current is there |

The parts meet in the database. The factory starts an ingest, whose pipeline ends in a production;
a production starts analyses, probes, books, audits, translations, reviews and promotions and
looks at their rows; an edit or an applied correction calls back after its commit and carries or
queues again what depends on the words; the janitor closes the rows nobody touches; a purge takes
an edition's runs with it.

## Modules

| Module | Models | Instance | Proofs |
| --- | --- | --- | --- |
| `ChapterAnalysis` | the run, lease, ledger and projections of one edition | `MCChapterAnalysis` | `ChapterAnalysisProofs` |
| `Ladder` | the promise of a production | | `ProductionProofs` |
| `Production` | one production, which implements `Ladder` | `MCProduction` | `ProductionProofs` |
| `FidelityAudit` | the audits of one adaptation and the editor | `MCFidelityAudit` | `FidelityAuditProofs` |
| `Publication` | a work's editions here and at Almonium, with promotion | `MCPublication` | `PublicationProofs` |
| `Enrichment` | corrections and the analyses they set off | `MCEnrichment` | `EnrichmentProofs` |
| `Translation` | an ordered translation, direct or as a batch | `MCTranslation` | `TranslationProofs` |
| `Factory` | the factory's tick, ingest, pipeline and shelf | `MCFactory` | `FactoryProofs` |
| `BookWriting` | a book written window by window | `MCJobs` | `BookWritingProofs` |
| `Glosses`, `TranslationReview`, `TitlePages`, `ImportMetadata`, `Alignment`, `SentencePairs`, `PlanAccounts` | one job each | `MCJobs` | |
| `Release` | promotion runs, their bundles and what the pages call current | `MCJobs` | |
| `Floor` | the probes of a work, its editions' gates and its floor | `MCFactory` | |
| `LevelGate`, `ChapterCut`, `Recut`, `CliCalls`, `Correspondence` | functions of their input: what a panel reads and a gate passes, how a file is cut, a source cut again, a call's process, alignments | `MCFactory` | |

One row of another process's table is a record, a table a function of its key, a ledger a sequence
or a function of the answers' keys. A worker's `at` says between which two transactions it is:
every transaction is one action and every call to a model, to Almonium or to a provider lies
between two, so that everything another worker, an edit, the janitor or a purge can do in between
is explored. A message is a member of a set or a bag of what the broker holds; a worker's death
gives back a message that is acknowledged late and drops the others. Texts are versions: what
matters of a text is which one it is, which windows it shares with another and what an auditor
finds in it.

### ChapterAnalysis

`run[t]` is the `PipelineRun` of snapshot `t`, found by its `input_hash`; `lease` and `age` are
the `worker_token` in its summary and the time since it was touched. `air` is the `AIRun` ledger.
A worker's `at` is `check` (`_current_plan`), `look` (the transaction that looks a window up or
reserves a row), `call`, `save` (`_record_response`), `record` (`_update_run`). `Take*` is a
delivery of the message with what the task makes of it: settled, busy under somebody's lease
(tried again after a tick), claimed. `Lose` is a restart (the message comes again), a killed
process whose message was acknowledged, or a message lost on its way. `Edit`, `AfterEdit` and
`Carry` are a text revision and the callback after its commit, which carries the newest succeeded
reading over a difference of no more than a phrase or asks for a new one; a carry is one step,
which the code makes in two transactions (`chapter_analysis.py:817-874`). The branch that reads
chapters with a panel of judges (`_read_with_judges`) is left out: it has the same lease and no
ledger of windows.

### Production and Ladder

`row` is the production as it is saved and `mem` the tick's copy. A tick (`Begin`) asks each
track once per round; a step acts on the world at once and on `mem`; `Save` ends a round. `Crash`
anywhere in a tick leaves `row` as it was and the world as the steps made it. The edition of a
target is a record of what the steps tell apart:

| Field | Meaning |
| --- | --- |
| `text` | no edition, an empty one, in review, ready |
| `read`, `above`, `over` | complete reading; body chapters above the target; more of them than the allowance tolerates |
| `audited` | the audit (or review) is current |
| `fixes` | severities of the open corrections both auditors agree on and that can be placed |
| `stuck` | paragraphs of serious agreed findings that cannot be placed |
| `alone` | a serious finding of one auditor is open |

A job is `active` (queued, or running and touched), `stalled` (silent for longer than `STALL`),
`void` (an audit of a text that is gone), or ended; `sent` is a message whose worker has not made
its row yet, which happens for translations and reviews only. The counters are those of the
summary; as the number in the key of a start never falls, `Counted` sets the counter back instead.
`old` says that a step has lasted longer than `STEP_TIMEOUT`.

What is abstracted: the log, the meters, the wording of reasons (an outcome carries the kind of
hold), the bound on the rounds of one tick (the next tick goes on), the legacy layout with one
cursor (`_tracks`), the evidence of earlier productions. A verdict and its sign-off are one step.
A second edition of one target, withdrawal, and a purge by a person during the production are left
out, as are the chain of ticks, its lock and `requeue_held`. A mend always drops the reading,
which the code may carry over a small difference (`services.py:1034-1042`).

`Ladder` says what a production promises whoever asked for it: outcomes of targets, what was spent
on each, a status. `Production` has `Promise == INSTANCE Ladder WITH ...`, and `LadderKept` is its
specification.

### FidelityAudit

`run` is the sequence of audits, each keyed by the text it is of; `ledger` the answers of the
auditors, keyed by the paragraph as it was read; `finding` the set of findings. A worker looks a
window up, gets an answer and files it (`ReadWindow`, `Answered`, `CallFails`), looks at the text
once more (`Finish`) and files the run with its findings. `ApplyFindings` writes suggestions in
and carries the audit to the text that comes of it (`Carry` keys the run, its findings and its
ledger rows anew). Each chapter is one paragraph and one window; an issue stands for its
fingerprint; the order in which two answers of one window are found is not fixed by the code, so
either is taken. A second opinion is asked at the end and not after each chapter
(`fidelity_audit.py:846-856`); if it fails, so does the run. `seats` are the auditors of the
edition, one or two; a finding with two auditors is serious when both say so.

### Publication

Almonium is a service whose call may be lost before or after it took effect. A publication's
message is given back when its worker dies, an unpublishing's and a withdrawal's is not. What a
task reads of the edition before its call is what it writes with after it, while pages and bundles
write the same rows: the call (`CallPublish`), the save of the edition (`SavePublish`) and the end
of the run (`SettlePublish`) are steps of their own.

`meta` is a value that may come back: `runs[e]` is a publish run per value, as its key is a hash
of the metadata, so `Stale` and the early return of a publication look at what was sent of this
value and not at what was sent last. `facts` stands for what is sent and in no key (`adapts_to`,
the levels reached, the number of chapters, the register). `Remove` is `purge_edition_view`: a
published edition is withdrawn first, any other one is purged at once, one whose publish failed or
is still under way included. Three sets remember the steps after which the code itself has lost
track: `torn` (a page wrote back an older status), `doubt` (purged at once while a publication's
end was not known) and `back` (metadata put back to what had been sent before). The properties
except the editions these name, and nothing else. Changes of slug and language, tombstones, rights
checks and the bundle's format are left out.

### Enrichment

A correction locks the block, writes it, drops its sentence spans, retires artifacts and open
findings, and queues the refresh at its commit. The refresh cuts sentences, counts words and
scans, each in a run keyed by the text's hash: the hash is taken first, the blocks are read after
it and the rows written later still, with an editor free to write at each point. A database
deadlock is `Abort`. What the analyses compute is not modelled, only which text it is of. The
spans and the end of their run are saved together (`tasks.py:863-872` saves them one after the
other).

### Translation

A run is kept per state of the source. A direct run asks for its chapters on `Threads` threads
(`Asking`): the answers arrive and are billed in any order (`Answer`), and one thread saves them
in the order of the chapters (`Keep`), so that a worker that dies takes with it the answers that
had come and were not saved (`lost`). It asks again once for the unusable ones. A batch is
submitted (`Submit`), the provider's number saved (`SaveSubmit`), polled by messages that queue
themselves, and collected. A cancellation reads the edition, asks the provider to stop the batch,
which may fail, and writes (`OpenCancel`, `WriteCancel`). The publication is its check
(`BeginOther`), the call, and the save of PUBLISHED whatever happened in between (`Hand`). `Retry`
includes the edition that has its text and is only finished again (`Normalize`).

An answer is whether it is usable and how many calls' tokens it counts. Estimates, prices,
language detection and warnings are left out.

### BookWriting and the other jobs of MCJobs

`BookWriting`: a book's identity is its plan (the source with its titles), a pilot's its text and
titles, an answer's the text alone; a mangled answer is asked for again over halves. The chapters
a probe has written, a changed configuration and withdrawal are left out. A pilot's answer and a
gloss's are saved with the call (`adaptation.py:429-432`, `glosses.py:396-442`). `Glosses` leaves
out the guard of a withdrawal and hints.

`ImportMetadata` follows an upload through the header, the model's proposal, the owner's
confirmations and the split, to the shelf or to review; `confirm_metadata` sends back only a book
that is ready, and `CompleteReview` shelves it as it is. `astray` says why its sentences may be
for another language: none was sent back for it (`unsent`), or a split for that language had
succeeded before (`returned`). Editions that do not own their work and covers are left out.
`Alignment` has the worker's transaction on the rows and the end of its run as two steps
(`Replace`, `EndRun`), the reservation of a batch and the provider's answer too (`Submit`,
`Answered`); `since` are the groups people decided after the worker read what it writes by. It
leaves out the deletion of a reviewer's account, block removals and `clear_inferred_alignment`.
`SentencePairs` has corrections that restore an earlier text and presses of the button at any
moment; it leaves out the paid preview.

In `MCJobs` a behaviour is one job's,
which `which` names: the jobs share workers and no rows, so a run has the sum of their states
and not the product, and the properties of each are conjuncts of the run's. `MCFactory` joins the
factory, the floor and the functions in the same way. A function of its input has the input as its
only variable, and its properties hold the function against what it is said to give.

### Release

`sent` is the sequence of promotion runs, `flight` the bundles on their way, `held` what the
target holds and `by` whose bundle that was. Two workers send, so bundles cross. A change that the
pages count (a block's revision, a current artifact) has the moment at which its row was made and
is seen at its commit (`Begin`, `Commit`); what travels with the bundle and is not counted, the
review of a gloss, a resolved warning, a title, an artifact that was restored with its old moment,
is `Review`. `Panel` is what an edition's page says, `Token` what the catalogue says. Refusals,
publication at the target and edits made there are left out.

### Floor

`probe[l]` is a level's runs, `answer` what judges and auditors said of a draft, found again by
the question. A worker asks what is not known yet (`Ask`, `Answered`), has a result per chapter
(`ChapterEnds`) and saves its verdict (`EndProbe`); whoever moves a gate, records a level as not
reached or ends a probe computes the floor of what it sees and writes it at its commit (`Commit`).
A probe's generation is claimed with its judging. Left out: the live judge that is given up after
45 minutes (`pilot_difficulty.py:34`), standalone pilots and their judging, how chapters are
sampled, withdrawals, the purge of a probe's records.

### ChapterCut, Recut and LevelGate

`ChapterCut` cuts documents at their headings and by size (`SplitAtChapterHeadings`,
`SplitBySize`), puts the parts of several documents into chapters (`Ingested`), joins chapters of
mere headings to the next (`Fold`), and says which chapters are the story (`ChapterRoles`). Text
is sizes and kinds of items. `Recut` matches stored blocks with those of a fresh cut and moves the
editions made from them. `LevelGate` has the panel of judges, the runs that stand as evidence, and
the gate's shares. The readers of PDF and of plain text, and the matter trimmed from the files of
known publishers, are left out.

### Factory

A book is its row here, its reservation at Almonium, its edition and the stage of its pipeline; a
tick reads its editions once and reports what it saw, and the productions as they are then. A
commit and the message sent after it (`on_commit`) are two steps, of the tick (`Create`,
`SendDownload`) and of the worker (`Downloaded`, `SendPipeline`), and people's requests may die
between the two (`Sends`). A production may be refused (`Continue`: `continue_production` catches
the error and returns), and what fails after the edition was shelved fails it again
(`NormalizeFails`). People may retry and re-ingest at any time. `past` remembers which books were
taken up again, left without a message or a production (`left`), reported late (`missed`) or
reported in vain at their start (`untold`); `bare` marks a book whose text was taken away under
the worker that was about to shelve it.

Private imports, uploads, ingests for the shelf only, and a deployment that changes the cut are
left out.

## Runs

| Run | Instance | Shows |
| --- | --- | --- |
| `analysis_runs` | two texts that differ by a phrase and share windows, two workers, a lease of two ticks and an abandonment after three, one loss of any kind, one edit, a purge | `TypeOK`, `SucceededIsRead`, `PurgedIsGone`, `SettledByItsHolder`: a lease taken over from a worker that wakes up late does no harm |
| `analysis_settled` | two texts, one restart, one edit, no call outlasts its lease; fair | `ReadOnce`, `AskedIsSettled` |
| `production_levels` | one level, one chapter too long to rewrite, one trouble of any kind (death, raising step, silent job, edit) | `TypeOK`, `HeldForAReason`: no level is held for a text nobody read, but one whose text was changed without the saved row knowing (`torn`) |
| `production_repairs` | one level, two paragraphs to settle and repair (symmetric), an adapter that breaks half-way | `ReadyIsEarned` |
| `production_ladder` | two levels | `LadderKept` |
| `production_languages` | one language, two paragraphs, up to four troubles, sign-off asked for or not, promotion; fair | `CorrectedBeforeReady`, `Finishes` |
| `fidelity_audit` | two paragraphs, a serious issue and a small one, one auditor or two, two workers (symmetric), two audits; an edit and a loss with one auditor | `GateIsRead`, `NothingStuck`, `SettledStays`, `CarriedWhole` |
| `publication` | an original and an edition made from it, two values of metadata, two of the facts and of the origin, four requests of people, two lost answers, a worker death, two retries; 503,137 states | `ShownIsBacked`, `StaleIsSeen`, `RemovalEnds` |
| `enrichment` | two paragraphs, two editors, one worker, two edits, one failure | `DerivedIsOfText`, `OverItsWords`, `Refreshed` |
| `translation` | two chapters, two workers of two threads, both modes; a cancellation and a retry in any order, two troubles, and an edit of the source or a death; or one request with an edit and a death, or with an edit and a slow worker; 525,461 states | `BilledOnce`, `CancelledStaysIn`, `Ends`, `OrderedGoesOut` |
| `factory` | two wanted books and room for one, with one retry of a download and one death, lost post or refused production; one book with two of these or of a request of people; a probe of two chapters in two configurations with two workers and one trouble; a floor of two levels with four moves; the functions over all small inputs | `PlacesMove`, `ShelfHasText`, `ToldAsEnded`, `FloorHolds`, `InputsFit` |
| `jobs` | a book of two windows with halving and two workers; each other job with its own small instance (imports: two confirmations, a re-run or a trouble; pairs: two edits, one mishap; releases: two editions, two runs, two changes, two senders, one trouble); 816,292 states | below |

`jobs` checks `WrittenWhole`, `StartsAgain` and `TextIsKept` of the book; `GlossesKept` (a window
is charged once, approved notes of one text do not overlap); `TranslatedHolds` (of a review: what
is applicable is backed by an answer, answers are bought once, a serious finding stays until it is
decided; of a title page: named from one source, landed together, paid once); `ImportsHold` (a
text is split for its language, a proposal is paid once, one group per pair, a doubt is passed on,
highlights return, what is queued is in line); `PausesHold`; `ReleaseHolds` (what a page or the
catalogue calls current is at the target, with its sources where the page says so); and
`PeoplesWord` (a rejected gloss, an owner's metadata and a reviewer's alignment are not written
over).

`factory` checks the shelf as above, `FloorHolds` (`VerdictIsEarned`, `FloorIsTrue`,
`TriedInOrder`) and `InputsFit`, which holds the functions against their definitions over all
small inputs: alignments (`CoversBothSides`, `BestCandidates`; blocks of four sentences), a
panel's evidence and a gate's pass (`EvidenceIsOfLevel`, `PassIsOfLevel`; every edition of four
chapters, and editions of ten where a fifth and a tenth are two and one), cuts (`CutKeepsTheBook`,
`StoryIsRead`; files of four items, titles of four chapters), a re-cut (`RecutKeepsReading`; three
stored blocks against four fresh ones), and a call's costs (`CostsAreCarried`).

Why the bounds are enough: two ticks tell a live lease from a stale one, two claims let a lease be
taken over from a live worker, two workers are the pool's smallest race, and each counter (starts,
rounds, retries, tries) is met at zero, between and at its limit; `STARTS` and `SETTLE_ROUNDS` are
one or two instead of two and five. One trouble of any kind is allowed where a second one only
repeats the first from another state, and more where they add up (`production_languages`). The
theorems then drop the bounds for what they state.

Deadlock is not checked: what is settled, finished or published may stop.

Properties whose runs and theorems exclude something by a constant of the module:

* `ReadOnce` needs `Prompt` (no call outlasts the lease, `chapter_analysis.py:706`), and says of
  two readings of a window only that they are of two texts an edit parts: two runs of different
  snapshots that read a shared window at the same time pay for it twice. `AskedIsSettled` allows
  one restart, since the retries of a message are counted across its redeliveries
  (`tasks.py:117`).
* `SucceededIsRead` holds with several phrases only because one edit is made (`Complete` below).
* `GateIsRead` needs `Prompt` (nothing comes between a worker's last look at the text and its
  filing), no `Reverts` (no edit restores an earlier wording) and no lost worker where there are
  two auditors. Without the first, the filing of an older text's audit supersedes the findings of
  a newer one's (`fidelity_audit.py:805`); without the second, an already superseded audit becomes
  the current one; without the third, a second worker's differing answers overwrite a finding's
  severity.
* `DerivedIsOfText` needs no `Reverts` and one worker, which is what `compose.yaml:111` starts;
  `OverItsWords` is about the scan's findings, which an edit supersedes; an auditor's are not, and
  applying one can write over a concurrent edit (`Audited = TRUE`).
* `FloorIsTrue` needs `Careful`: two transactions that move two editions of a work compute its
  floor without seeing each other, and the second to commit writes what it computed, since nothing
  locks the work (`adaptation_floor.py:437`). It says nothing of an edition whose text was edited
  and has not been read again.
* Of the jobs: glosses with two editors or a generation the janitor closes while it lives
  (`.update()` does not touch `updated_at`) lose `ApprovedApart` and `ChargedOnce`; a review with
  `Reverts` and two mishaps loses `SeriousStands`; titles with `Reverts` lose `NamedFromSource`
  and with two workers `CallsPaidOnce`; pauses lose `PausesHold` when two people pause and resume
  at once (`OneAtATime`).

Properties that except by name what the code does not hold. Nobody is kept from acting: each case
happens in the run, a variable remembers it, and the property says that there is no other. Where a
doc or a comment claims the whole, the table below has it.

* `HeldForAReason` is about levels and excepts those `torn` names: a person edited the text, or a
  step rewrote it before it raised or its worker died, so that the saved row goes on from a step
  behind which the text has changed (`production.py:319`). It holds beside any other edit, death
  or raising step. `CorrectedBeforeReady` is about productions in which no step raised:
  `_corrections` counts its round before it makes it (`production.py:1088`), so a round that
  raises is not made again.
* `ShownIsBacked` excepts `doubt` (an edition that is not published here is purged at once,
  `views.py:2130-2132`, 2165-2167, though its publication is under way or its answer was lost)
  and, for what an edition was made of, `torn` (a page wrote back the status it had read,
  `metadata.py:373`). `StaleIsSeen` excepts `back` (a title put back to a value whose run had
  succeeded, `tasks.py:603-640`), and speaks of the metadata the key holds, not of `facts`.
* `BilledOnce` allows as many payments more as answers died unsaved with a worker (`lost`,
  `ai_translation.py:886-900`), and says nothing once a cancelled edition is retried: the calls of
  the cancelled attempt may go on beside the new one's (`views.py:2207`,
  `translation_jobs.py:310`). `CancelledStaysIn` excepts a publication that was past its check, or
  still queued when the edition was finished again by hand (`crossed`; `tasks.py:646-670`). Both
  say nothing of a slow worker that was taken for dead. `Ends` leaves out deaths and faults,
  `OrderedGoesOut` deaths and texts finished by hand: a poll that is delivered again after the
  batch was completed and before its continuation was queued returns at once (`tasks.py:1635`).
* `PlacesMove` excepts from the limit books taken up again and those whose first report failed
  (`factory.py:62`), and from being attended those `left` names: the message went with a killed
  worker, was never sent because its sender died after the commit (`tasks.py:439-457`,
  `services.py:250-273`; the redelivered download returns at `tasks.py:416`), or the production
  was refused (`factory.py:172-182`, and `_done` stays false, `:116`). These keep their place
  until a person takes them up. `ToldAsEnded` excepts books taken up again (`requeue_held` does
  not take back `reported_final`) and a production that ends between a report and the question
  whether it is over (`factory.py:212`). `ShelfHasText` excepts the book `bare` names.
* `StartsAgain` leaves out a second purchase after a hang. In `BookWriting` versions of the source
  only grow: an edit that is undone can mix a window of B into A.
* `OwnerKept` excepts a field the owner confirms while the detection that read the book before is
  under way (`crossed`), `SplitForLanguage` the books `astray` names. `ReviewedStands` excepts
  what was decided after the worker read what it writes by (`since`) and, like `OneGroup`, the
  partner of a block added while a batch was under way (`late`); `DoubtIsPassedOn` a worker that
  dies between the end of a batch and its escalation (`dropped`: the redelivered poll returns at
  once). `HighlightsReturn` excepts a text that came back without its sentences (`NotCut`) and a
  last job that was queued before the refresh of a correction (`hasty`).
* `ReleaseHolds` is about what is counted, and excepts a bundle that landed over a later one's and
  a change that was made before a bundle's run and committed after the bundle was built
  (`missed`).

## What is said of the code and does not hold

Each is a definition at the end of its module, false in an instance that is small to write down.

| Definition | Where the code does otherwise | Said at |
| --- | --- | --- |
| `RevertIsShown` (`ChapterAnalysis`) | `services.py:1041`: an undone edit leaves the other text's projection | `services.py:1009` |
| `Complete` without its assumption | `chapter_analysis.py:871`: carrying re-keys a ledger row that an older succeeded run relies on | `chapter_projections.py:327` |
| `DropIsEarned` (`Production`) | `production.py:736`: a chapter too long to rewrite is forgotten when another one goes back to the judges, and the book is dropped | `production.py:780` |
| `PicksUpWhereItWas` (`Production`) | `production.py:319`: after a death in `_mend` the level is held although nobody has read the rewritten text | `production.py:28` |
| `LanguageHeldAfterFailing` (`Production`) | `production.py:1042`: a translation whose message waits is started again at every tick and then held | `production.py:17`, `:533` |
| `StaleNeverCarries` (`FidelityAudit`) | `fidelity_audit.py:1292`: an audit that a hand edit made stale is carried with the next suggestion | `fidelity_audit.py:1285` |
| `ReturnIsPublished` (`Publication`) | `tasks.py:660`: publishing again what was unpublished is skipped | `tasks.py:787` |
| `PurgedIsNotServed` (`Publication`) | `views.py:2165`: an edition whose publication is under way, or failed here and reached Almonium, is purged at once and goes on being served without text | `views.py:2130` |
| `ToldIsCurrent` (`Publication`) | `tasks.py:625`: metadata put back to what was sent before counts as sent, and `publication.py:166-177` sends fields that are in no key | `tasks.py:604` |
| `SourcesFirst` (`Publication`) | `api/views.py:388`: a bundle's editions are queued in the order imported, then skipped | `promotion.py:822` |
| `SplitIsOfText` with `Reverts` (`Enrichment`) | `tasks.py:837`: an undone correction leaves its block without sentences | `tasks.py:588` |
| `NeverPaidTwice` (`Translation`) | `ai_translation.py:886-900`: answers are saved in the order of the chapters, those that came and were not saved are lost with the worker and bought again | `ai_translation.py:850` |
| `CancelledIsOver` (`Translation`) | `tasks.py:667`: the save after the call writes PUBLISHED over a cancellation | `translation_jobs.py:311` |
| `CountedOnce` (`Translation`) | `ai_translation.py:854`: a retry counts the tokens of kept chapters twice | `ai_translation.py:853` |
| `NoTwin` (`BookWriting`) | `book_adaptation.py:129`: `_stranded` can leave two books under way | |
| `TermOnce`, `OnePlace` (`Glosses`) | `glosses.py:459`, `:541`: a note added by hand after a rejection makes a twin | `docs/CONTEXTUAL_GLOSSES.md:21` |
| `NewRunQueued` (`TitlePages`) | `metadata_translation.py:437` | |
| `ReadyIsSplit` (`ImportMetadata`) | `metadata.py:370` sends back ready books only; `tasks.py:837` takes a language that was split for before as done | `metadata.py:285` |
| `NeverOverridden` (`ImportMetadata`) | `metadata.py:633`: a detection writes what it read before the owner confirmed | `metadata.py:6` |
| `SupersededStays` (`Alignment`) | `tasks.py:1225`: a second repair takes the first apart, and what that one had superseded is restored | `tasks.py:1225` |
| `RestoredAlways` (`Alignment`) | `tasks.py:1386`: the rows are written by what was read before | `tasks.py:1186` |
| `NothingRunsForEver` (`SentencePairs`) | `janitor.py:31` leaves the offline pairs out, and `tasks.py:84` has no late acknowledgement | `janitor.py:1` |
| `ReturnIsServed` (`SentencePairs`) | `tasks.py:837`: the sentences of a text that came back are not cut again, so its job fails and its rows are not served | `offline_sentence_alignment.py:72`, `tests/catalog/test_parallel_status.py:183` |
| `ProbeIsOfItsText` (`Floor`) | `adaptation_floor.py:289`: a probe reads the chapters as they are when it comes to them | `adaptation_floor.py:161` |
| `BackfillIsAProbe` (`Floor`) | `adaptation_floor.py:624`: one pilot is enough for it | `adaptation_floor.py:610` |
| `OfferIsTaken` (`Floor`) | `adaptation_floor.py:264`: a configuration that came back finds its old run | |
| `CurrentIsWhole` (`Release`) | `release_state.py:31-39`: gloss reviews, resolved warnings, titles and restored artifacts travel and are not counted | `release_state.py:7` |
| `CatchUpIsWhole` (`Release`) | `release_state.py:267`: only the edition and its direct source are looked at, so that a change further up is not found | `release_state.py:277` |
| `EasierPasses` (`LevelGate`) | `adaptation_quality.py:114`: one disputed chapter too many counts all of them as above | |
| `SameCut` (`Recut`) | the code compares the number of chapters | `recut_source.py:38` |

A worker that cannot ask whether its account is paused comes up taking plan jobs
(`config/celery.py:41`, against `plan_pause.py:5`): that is the action `AskInVain` of
`PlanAccounts`, and `PausesHold` allows for it.

Others met while modelling: `FACTORY_ENABLED=false` returns before it
reports (`docs/RUNBOOK.md:120` says reporting goes on); a call that timed out is not asked again
though the docstring of `ai/cli_calls.py` says it is worth a second try; a retried edition keeps the
status FAILED, so its pipeline can be queued twice; an answer whose source title changed during the
call is bought again; a failed report of a reservation leaves the work reserved at Almonium with
nothing here.

## Fairness

`ChapterAnalysis` (`FairSpec`): the clock ticks, callbacks after a commit run, Celery dispatches
and delivers messages and keeps workers working (weak fairness; the pool takes some message, each
worker goes on with its own). `Production`: the broker delivers the tick, the worker that has it
goes on, and time passes. No job has to end, no worker has to take a job's message and nobody has
to edit: the production ends because each wait is bounded by `STEP_TIMEOUT` and each loop by a
counter. `Publication`, `Enrichment` and `Translation` have the same in their `Spec`:
`Publication` that the worker works (`Work`), `Translation` that each worker goes on (`Work(w)`),
the row of a cancellation is written (`WriteCancel`) and the provider ends a batch (`BatchEnds`),
`Enrichment` that workers go on and an editor's transaction ends (`EndTx(e)`). No person ever has
to act, and no failure has to stay away: the liveness properties say which failures they allow.
`FidelityAudit`, `BookWriting`, `Factory` and the jobs beside them have none: they are too large
for TLC's liveness check, and `NothingStuck`, `StartsAgain` and `PlacesMove` state instead that
whatever waits has something that will move it.

## Proofs

All theorems are for any values of the constants, under the assumptions the modules name
(`ASSUME`s of the finiteness and types of parameters, which TLC evaluates in every run) and, where
noted, a condition on them that the theorem itself states.

**ChapterAnalysisProofs.** `Typed`: `[]TypeOK`, by `Shape`, which adds that a busy worker has a
token it was given and a place inside its plan, and that what waits names a snapshot. `Complete`:
`[]SucceededIsRead` when `Phrase = {}`; its invariant `Sound` says that the results a worker
carries are validated readings of the windows before its place, and that a run's saved results
are, since a run succeeds on what the worker counted and not on a look at the ledger. Without the
assumption the property is false (see above). `Purged`: `[]PurgedIsGone`. `Held`:
`SettledByItsHolder`. `PaidOnce`: `[]ReadOnce` when `Prompt` and `Phrase = {}`. Its invariant
`Paid` adds to `Sound` that a worker's run is under way with the worker's own token and a lease
that has not run out (`Owned`: nobody can take it), that the row a worker waits for is its run's
and the run has no reading of that window yet (`OwnRow`), that rows belong to runs that exist
(`OfRuns`, `OfTexts`), so that a text has one reading of a window (`Once`), and that before the
first edit everything is of one text (`OneText`). With phrase edits a carry gives rows to another
run, which the proof leaves out.

**ProductionProofs.** `ProductionTyped`: `[]TypeOK` for the whole of the tick, its steps and the
jobs. `ProductionKeepsItsPromise`: every step of `Production` is a step of `Ladder` or a stutter,
whatever crashes, faults, silent jobs and edits happen, so that what is proved of the promise
holds of the production; `NothingSpentBelow` proves of the promise (`LadderInOrder`), and so of
the production, that nothing is spent below a level that may still be held. The invariant
`Descending` (`Typed`, `Rests` of both copies, `RowStands`, `Ahead`) relates the tick's copy to
the saved row (the copy's outcomes extend the row's) and says that a track's cursor stands on the
first target without an outcome, which is what makes a save that covers several steps one step of
the promise. `ReadyStands` (`ReadyIsEarned`) and `CorrectedFirst` (`CorrectedBeforeReady`) rest on
`Earned` (`Descending`, `World` of each target, `Staged` of both copies, `Onward`): a cursor past
a step of the gates says what the edition was when it went past, and nothing but a person moves it
afterwards. `LevelsAreHeldForAReason` (`HeldForAReason`) says of the levels of every production,
with languages or without, whatever dies, breaks or is edited, that they are held for a reason. It
rests on `Told`, which adds to `Earned` what the row and the tick's copy tell of each level that
nobody is to blame for (`Reasoned`): a job that was started and counted is still in hand or has
done what it was for (`Begins`: a started reading means a text that is read, being read or not
there yet, and the count of the readings is taken back wherever the text is rewritten), so that
nothing is left to be started when the count runs out; and that past the gates the text of a level
that is not `torn` was read and audited (`Known`). It needs that failed and silent jobs have their
target in `hurt` (`JobsTold`) and, since every level waits for the source's reading, the same of
the source (`SourceTold`). Of a language it is false (see above).

**PublicationProofs.** `PublicationTyped`, `NothingShownIsLost` (`ShownIsBacked`) and
`BehindIsSaid` (`StaleIsSeen`) assume nothing of people: purges, forms and imports come at any
moment. The invariant has a part for each task: what a publication under way may rely on, and that
it is the only one of its metadata (`PublishHolds`), what a recall has behind it (`RecallHolds`),
whom a form is about (`FormHolds`). `ServedHolds`: what Almonium serves has its text here and is
published, or a page wrote back its status (`torn`), or it has a publication whose end is not
known (`Unsettled`), unless it was purged at once (`doubt`). `LastHolds`: if the metadata that
stands counts as sent, it is what Almonium was told last, unless it came back (`back`).
`DerivedHasSource`: an adapted edition has its source.

**BookWritingProofs.** `BookWritingTyped`; `BooksAreWhole` (`WrittenWhole`), `BooksStartAgain`
(`StartsAgain`), `TextsAreKept` (`TextIsKept`). The invariant: the source only grows
(`SourceGrows`), a worker's windows are those of its plan (`AsPlanned`), pilots are found under
their own keys and belong to one revision (`OwnKeys`, `OneRevision`), one writer at a time is past
its check unless one hangs (`OneWriter`), a written edition is at rest (`WrittenRests`), an
unanswered pilot has a worker or a death behind it (`Unanswered`), and what was paid for is kept
(`PaidOnce`).

**FidelityAuditProofs.** `AuditTyped`, `NothingIsStuck` (`NothingStuck`), `SettledIsKept`
(`SettledStays`) and `CarriedIsWhole` (`CarriedWhole`) assume nothing. `GateReads` (`GateIsRead`)
assumes `Steady`, the restriction its run has too: `Prompt`, no `Reverts`, and losses only where
there is one auditor. Its invariant: `Honest`, what an answer says is what the run, the ledger and
the findings keep of it, over every carry; `Ordered`, the wordings of a paragraph are ordered (by
hand edits, then by the suggestions written in), texts follow one another, and a text has one live
audit; `Single`, two auditors' audit has one worker; `Filing`, one worker files at a time, for a
run still of the text it read, and when the text has moved on there is no current audit;
`Decidable`, each serious issue of the current audit has an open serious finding or one that was
decided. The order of the wordings is what makes the proof work: a stale answer can only be of an
earlier wording, and no carry ever leads back to one.

**TranslationProofs.** `TranslationTyped`, `TranslationBilledOnce` (`BilledOnce`),
`CancelledStays` (`CancelledStaysIn`). While no slow worker is taken for dead and nothing was
ordered again beside its cancelled attempt (`Steady`), there is one message, or one worker, or
nothing (`Alone`), a translation that failed has neither (`GivenUp`), and all of it is either a
direct attempt or batches. A direct attempt (`Directly`), on any number of threads, keeps with its
run what it paid for, except one answer for each that died unsaved (`Saved`); it asks only for
what the run has not got, and what came and is good is among what it asked (`InHand`); what was
billed is in the ledger or in the hands of a worker as long as none died (`Accounted`). A
translation by batches (`InBatches`) is billed no call, and its polls are of the newest run. That
an order is cancelled for good rests on `LastOfAll`: while its publication is on its way, nothing
of a translation is (`OnlyOut`), and if it was cancelled since, it is failed and nobody is past
the check; what is published otherwise is `crossed` (`StaysIn`).

**FactoryProofs.** `FactoryTyped`, `FactoryPlaces` (`PlacesMove`), `EndsAreTold` (`ToldAsEnded`)
and `ShelfIsText` (`ShelfHasText`) assume nothing; what they except is what `past` and `bare`
remember. Most of the invariant is said of one book: its row, its messages and its worker fit
together (`Begun`), somebody will bring it to its end unless it was left to itself or its message
is about to be sent (`Tended`), it goes its way once unless it is taken up again (`Straight`),
what was reported as the end is how it ended (`Ended`), its text is there when the pipeline says
so and it is not `bare` (`Texted`). A step of one book leaves the others alone (`Apart`), so these
are proved book by book. The tick's part: whom it still has to report or to start is left as it
found it (`Rounds`), what it posted of a production that had ended is how that ended (`Posted`),
nobody has touched the book it has committed and not sent (`Unsent`), and there is room for the
book it is about to create (`Room`), with cardinalities of finite sets.

**EnrichmentProofs.** `EnrichmentTyped` assumes nothing; `SuggestionsFit` (`OverItsWords`) assumes
`~Audited`, `DerivedStands` (`DerivedIsOfText`) also one worker and no `Reverts`, which are the
restrictions of the run. A finding that is being applied is open, of the words that stand, and one
editor's (`Offered`); a block that is being changed is there, gets newer words and is one editor's
(`Locked`). Therefore texts only move forward: `Before` orders them, every text a run or a worker
has is before the one that stands (`Past`), and a text that comes to stand has no run (`Fresh`).
From this follow that while the worker is on an older text nothing has been made of the one that
stands (`Unseen`), so that its stale writes count for nothing; that findings of the text that
stands are of its words and not superseded (`Standing`); and the two halves of the property
(`SplitFits`, `ScanFits`). Without `~Audited` a finding that an edit leaves open is applied over
the edit; with two workers one may write spans of old words after the other has split the new
ones; with `Reverts` the run of a text that comes back counts although its spans are gone.

Only model-checked: the liveness properties (`AskedIsSettled`, `Finishes`, `RemovalEnds`,
`Refreshed`, `Ends`, `OrderedGoesOut`) and everything about `ENABLED`, which are out of the
prover's reach; the functions over their inputs (`InputsFit`), whose definitions are folds and
need induction over data; and `FloorHolds` and the properties of the jobs of `MCJobs` other than
the book, which are not proved yet.

## What is not modelled

Pages, forms and the catalogue (what they change is in the other modules' actions), the record
types, prompts and providers (an answer, a failure or a used-up allowance), prices and estimates,
the difficulty's measures, embeddings, the readers of file formats, management commands that
compare writers or print reports, authentication. Among the parts in the table: the panel of
judges, pilot audits, comparison runs, uploads, tombstones, the format of a bundle.

## Plan

1. *Done:* the modules above, their runs, and the proofs of the modules with a run of their own
   and of the book.
2. Proofs of `FloorHolds`, and of the jobs' properties, job by job.
3. The chain of ticks with its lock and `requeue_held`; two productions of one source.
4. The meters and the guard of spending beside the pauses of their accounts.
