------------------------------- MODULE MCJobs -------------------------------
(* Small instances of the jobs that share workers but no rows, checked in one run: each    *)
(* behaviour is one job's, and the others stay where they begin.                            *)
EXTENDS BookWriting, TLC

CONSTANTS w1, w2, e1

VARIABLES
    which,   \* the job
    prose, generation, answer, charged, post, writer, notes, desk, spent,
    wording, review, reading, bought, request, reviewer, remark, crossed, mishaps, asks,
    original, page, contents, naming, paid, letter, hand, warned, toil,
    book, label, languageSpans, astray, split, detection, proposal, billed, tasks, labour, steps,
    text, present, links, verdicts, chart, inferred, batches, doubt, inbox, polls, aligner, tally,
    version, pairSpans, splitFor, highlights, jobs, line, scribe, hasty, events,
    paused, registered, node, button, counts,
    content, open, changed, sent, flight, held, by, missed, moment, failures

glossVars == <<prose, generation, answer, charged, post, writer, notes, desk, spent>>
reviewVars == <<wording, review, reading, bought, request, reviewer, remark, crossed, mishaps, asks>>
titleVars == <<original, page, contents, naming, paid, letter, hand, warned, toil>>
importVars ==
    <<book, label, languageSpans, astray, split, detection, proposal, billed, tasks, labour, steps>>
alignmentVars ==
    <<text, present, links, verdicts, chart, inferred, batches, doubt, inbox, polls, aligner, tally>>
pairsVars == <<version, pairSpans, splitFor, highlights, jobs, line, scribe, hasty, events>>
planVars == <<paused, registered, node, button, counts>>
releaseVars == <<content, open, changed, sent, flight, held, by, missed, moment, failures>>

--------------------------------------------------------------------------------
(* The instances.                                                               *)

\* Books of two windows, the first of two blocks.
TwoWindows == <<{{1, 2}}, {{3}}>>
OneWindow == <<{{1}}>>
TwoWorkers == {w1, w2}
\* The default queue has one worker.
OneWorker == {e1}
WorkerSymmetry == Permutations({w1, w2})

\* A chapter of one window with two phrases that overlap, two texts and one editor.
Phrase(term, from) == [chapter |-> 1, window |-> 1, term |-> term, from |-> from, to |-> from + 2]
GlossEditors == {e1}
G == INSTANCE Glosses WITH
    Chapters <- {1}, Windows <- [c \in {1} |-> 1], Passages <- {Phrase("x", 1), Phrase("y", 2)},
    Versions <- {"a", "b"}, Editors <- GlossEditors, Prompt <- TRUE,
    MaxAgain <- 1, MaxAsks <- 2, MaxTroubles <- 1

\* A translation of two windows with an issue in the first.
R == INSTANCE TranslationReview WITH
    Windows <- {1, 2}, Issues <- [k \in {1, 2} |-> IF k = 1 THEN {"i"} ELSE {}], Panel <- {1, 2},
    Scopes <- {{1}, {1, 2}}, Slow <- FALSE, Reverts <- FALSE,
    MaxText <- 1, MaxAsks <- 2, MaxMishaps <- 1

\* A translation of one chapter, of a source with two names and two descriptions.
T == INSTANCE TitlePages WITH
    source <- original, Chapters <- {1}, Names <- 2, Readings <- 2, Workers <- OneWorker,
    Reverts <- FALSE, Prompt <- FALSE, MaxAsks <- 2, MaxTroubles <- 2

\* An upload with two values of each field.
I == INSTANCE ImportMetadata WITH
    spans <- languageSpans, Words <- {1, 2}, Languages <- {1, 2},
    MaxConfirms <- 2, MaxReruns <- 1, MaxTroubles <- 1, MaxSteps <- 2

\* Two blocks of the source and two of the imported text, in any groups a model may propose.
Match(s, t) == [src |-> s, tgt |-> t]
TwoByTwo == {{Match({1, 2}, {1})}, {Match({1}, {2})}}
L == INSTANCE Alignment WITH
    Sources <- {1, 2}, Added <- 3, Pairings <- TwoByTwo,
    MaxText <- 2, MaxActs <- 1, MaxAsks <- 2, MaxTroubles <- 1

\* Editions of two block pairs.
P == INSTANCE SentencePairs WITH
    spans <- pairSpans, used <- events, Pairs <- 2,
    MaxEdits <- 2, MaxLine <- 2, MaxMishaps <- 1

\* Two workers with a Codex account each and one Claude account between them.
Hosts == {"plans-1", "plans-2"}
CodexOf == [w \in Hosts |-> IF w = "plans-1" THEN "codex" ELSE "codex-2"]
PlanNames == {"codex", "codex-2", "claude"}
A == INSTANCE PlanAccounts WITH
    request <- button, Workers <- Hosts, Handlers <- {"page"}, Accounts <- PlanNames, Named <- {"codex"},
    Codex <- CodexOf, Claude <- [w \in Hosts |-> "claude"], OneAtATime <- TRUE,
    MaxPresses <- 2, MaxStarts <- 2, MaxTroubles <- 1

\* An edition and its source, whose bundles two workers send.
E == INSTANCE Release WITH
    mishaps <- failures, Editions <- 2, Senders <- 2,
    MaxRuns <- 2, MaxChanges <- 2, MaxTroubles <- 1

ASSUME JobsAssumption ==
    /\ G!GlossConstants /\ R!ReviewConstants /\ T!TitleConstants
    /\ I!ImportConstants /\ L!AlignmentConstants /\ P!PairsConstants /\ A!PlanConstants
    /\ E!ReleaseConstants

--------------------------------------------------------------------------------
(* One job at a time.                                                           *)

NoUpload ==
    /\ book = [status |-> "none"] /\ label = book /\ steps = book /\ labour = I!Resting
    /\ languageSpans = 0 /\ astray = "none" /\ split = {} /\ tasks = {}
    /\ detection = <<>> /\ proposal = <<>> /\ billed = <<>>

JobsInit ==
    /\ Init /\ G!Init /\ R!Init /\ T!Init /\ L!Init /\ P!Init /\ A!Init /\ E!Init
    /\ \/ which = "import" /\ I!Init
       \/ which \in {"book", "gloss", "review", "title", "align", "pairs", "plan", "release"} /\ NoUpload

\* The other jobs stay where they are.
OfBook ==
    /\ which = "book" /\ UNCHANGED which
    /\ UNCHANGED <<glossVars, reviewVars, titleVars, importVars, alignmentVars, pairsVars, planVars, releaseVars>>
OfGloss ==
    /\ which = "gloss" /\ UNCHANGED which
    /\ UNCHANGED <<vars, reviewVars, titleVars, importVars, alignmentVars, pairsVars, planVars, releaseVars>>
OfReview ==
    /\ which = "review" /\ UNCHANGED which
    /\ UNCHANGED <<vars, glossVars, titleVars, importVars, alignmentVars, pairsVars, planVars, releaseVars>>
OfTitle ==
    /\ which = "title" /\ UNCHANGED which
    /\ UNCHANGED <<vars, glossVars, reviewVars, importVars, alignmentVars, pairsVars, planVars, releaseVars>>
OfImport ==
    /\ which = "import" /\ UNCHANGED which
    /\ UNCHANGED <<vars, glossVars, reviewVars, titleVars, alignmentVars, pairsVars, planVars, releaseVars>>
OfAlign ==
    /\ which = "align" /\ UNCHANGED which
    /\ UNCHANGED <<vars, glossVars, reviewVars, titleVars, importVars, pairsVars, planVars, releaseVars>>
OfPairs ==
    /\ which = "pairs" /\ UNCHANGED which
    /\ UNCHANGED <<vars, glossVars, reviewVars, titleVars, importVars, alignmentVars, planVars, releaseVars>>
OfPlan ==
    /\ which = "plan" /\ UNCHANGED which
    /\ UNCHANGED <<vars, glossVars, reviewVars, titleVars, importVars, alignmentVars, pairsVars, releaseVars>>
OfRelease ==
    /\ which = "release" /\ UNCHANGED which
    /\ UNCHANGED <<vars, glossVars, reviewVars, titleVars, importVars, alignmentVars, pairsVars, planVars>>

\* The modules' next-state relations, action by action.
BookNext ==
    \/ OfBook /\ Begin
    \/ OfBook /\ Resume
    \/ OfBook /\ Edit
    \/ OfBook /\ Correct
    \/ OfBook /\ Publish
    \/ OfBook /\ Sweep
    \/ OfBook /\ Lose
    \/ \E w \in Workers :
          \/ OfBook /\ Claim(w)
          \/ OfBook /\ Check(w)
          \/ OfBook /\ QueueBatch(w)
          \/ OfBook /\ PilotClaim(w)
          \/ OfBook /\ PilotCall(w)
          \/ OfBook /\ PilotFinish(w)
          \/ OfBook /\ Collect(w)
          \/ OfBook /\ EndBatch(w)
          \/ OfBook /\ Materialize(w)
          \/ OfBook /\ Hang(w)
          \/ OfBook /\ Crash(w)
          \/ OfBook /\ Redeliver(w)

GlossNext ==
    \/ \E regenerate \in BOOLEAN : OfGloss /\ G!Ask(1, regenerate)
    \/ \E w \in Workers :
          \/ \E key \in post : OfGloss /\ G!Claim(w, key)
          \/ OfGloss /\ G!Look(w)
          \/ OfGloss /\ G!Call(w)
          \/ OfGloss /\ G!Check(w)
          \/ OfGloss /\ G!File(w)
          \/ OfGloss /\ G!Die(w)
          \/ OfGloss /\ G!Redeliver(w)
    \/ \E key \in DOMAIN generation : OfGloss /\ G!Sweep(key)
    \/ \E of \in {"a", "b"} : OfGloss /\ G!Edit(1, of)
    \/ \E e \in GlossEditors :
          \/ \E n \in notes, approve \in BOOLEAN : OfGloss /\ G!OpenReview(e, n, approve)
          \/ OfGloss /\ G!SaveReview(e)
          \/ \E p \in {Phrase("x", 1), Phrase("y", 2)} : OfGloss /\ G!OpenAdd(e, p)
          \/ OfGloss /\ G!SaveAdd(e)

ReviewNext ==
    \/ OfReview /\ R!Ask
    \/ \E w \in Workers :
          \/ OfReview /\ R!Take(w)
          \/ OfReview /\ R!Command(w, {1})
          \/ OfReview /\ R!LookUp(w)
          \/ OfReview /\ R!Answer(w)
          \/ OfReview /\ R!Fail(w)
          \/ OfReview /\ R!Conclude(w)
          \/ OfReview /\ R!File(w)
          \/ OfReview /\ R!Die(w)
    \/ \E f \in DOMAIN remark :
          \/ OfReview /\ R!Dismiss(f)
          \/ OfReview /\ R!Apply(f)
    \/ \E k \in {1, 2} : OfReview /\ R!Edit(k, 1)

TitleNext ==
    \/ OfTitle /\ T!Ask
    \/ OfTitle /\ T!NameByHand
    \/ OfTitle /\ T!Analysed(1)
    \/ \E w \in OneWorker :
          \/ \E plan \in letter : OfTitle /\ T!Claim(w, plan)
          \/ OfTitle /\ T!Look(w)
          \/ OfTitle /\ T!Answer(w)
          \/ OfTitle /\ T!Refuse(w)
          \/ OfTitle /\ T!Land(w)
          \/ OfTitle /\ T!Die(w)
    \/ \E plan \in DOMAIN naming : OfTitle /\ T!Sweep(plan)
    \/ \E name \in {1, 2} : OfTitle /\ T!Rename(name)

ImportNext ==
    \/ \E task \in tasks : OfImport /\ I!Take(task)
    \/ OfImport /\ I!Ingest
    \/ OfImport /\ I!Detect
    \/ OfImport /\ I!Propose
    \/ OfImport /\ I!Write
    \/ OfImport /\ I!Split
    \/ OfImport /\ I!Finish
    \/ OfImport /\ I!Die
    \/ OfImport /\ I!AskAgain
    \/ OfImport /\ I!CompleteReview
    \/ \E word \in {0, 1, 2}, language \in {1, 2} : OfImport /\ I!Confirm(word, language)

AlignNext ==
    \/ \E work \in {"align", "prepare"} :
          \/ OfAlign /\ L!Ask(work)
          \/ OfAlign /\ L!Start(work)
    \/ \E ids \in {{r.id} : r \in links} \cup {{r.id : r \in links}} : OfAlign /\ L!Accept(ids)
    \/ OfAlign /\ L!ConfirmAll
    \/ \E g \in UNION TwoByTwo : OfAlign /\ L!Repair(g)
    \/ \E s \in {1, 2} : OfAlign /\ L!Fill(s)
    \/ OfAlign /\ L!Edit
    \/ OfAlign /\ L!Resolve
    \/ OfAlign /\ L!Settle
    \/ OfAlign /\ L!Replace
    \/ OfAlign /\ L!EndRun
    \/ OfAlign /\ L!Done
    \/ OfAlign /\ L!Submit
    \/ OfAlign /\ L!Answered
    \/ OfAlign /\ L!Apply
    \/ OfAlign /\ L!Escalate
    \/ OfAlign /\ L!Die
    \/ \E key \in DOMAIN batches : OfAlign /\ L!Poll(key)

PairsNext ==
    \/ OfPairs /\ P!Press
    \/ OfPairs /\ P!Take
    \/ OfPairs /\ P!Refresh
    \/ OfPairs /\ P!Pair
    \/ OfPairs /\ P!Close
    \/ OfPairs /\ P!Die
    \/ \E side \in P!Sides, p \in {1, 2}, to \in {0, 1, 2} : OfPairs /\ P!Edit(side, p, to)

PlanNext ==
    \/ \E h \in {"page"} :
          \/ \E account \in PlanNames : OfPlan /\ A!PressOne(h, account)
          \/ OfPlan /\ A!PressAll(h)
          \/ OfPlan /\ A!ReadPauses(h)
          \/ OfPlan /\ A!ReadWorkers(h)
          \/ OfPlan /\ A!Respond(h)
          \/ \E w \in Hosts : OfPlan /\ A!Tell(h, w)
          \/ \E w \in Hosts : OfPlan /\ A!TellNobody(h, w)
    \/ \E w \in Hosts :
          \/ OfPlan /\ A!Start(w)
          \/ OfPlan /\ A!Register(w)
          \/ OfPlan /\ A!AskForItself(w)
          \/ OfPlan /\ A!AskInVain(w)
          \/ OfPlan /\ A!Obey(w)
          \/ OfPlan /\ A!Stop(w)

ReleaseNext ==
    \/ \E e \in {1, 2} :
          \/ OfRelease /\ E!Begin(e)
          \/ OfRelease /\ E!Review(e)
          \/ OfRelease /\ E!Promote(e)
    \/ \E o \in open : OfRelease /\ E!Commit(o)
    \/ OfRelease /\ E!CatchUp
    \/ \E i \in DOMAIN sent :
          \/ OfRelease /\ E!Send(i)
          \/ OfRelease /\ E!Arrived(i)
          \/ OfRelease /\ E!GivenUp(i)
    \/ \E b \in flight : OfRelease /\ E!Land(b)

JobsNext ==
    \/ BookNext \/ GlossNext \/ ReviewNext \/ TitleNext \/ ImportNext \/ AlignNext \/ PairsNext
    \/ PlanNext \/ ReleaseNext

JobsSpec ==
    JobsInit /\ [][JobsNext]_<<which, vars, planVars, glossVars, reviewVars, titleVars, importVars,
                              alignmentVars, pairsVars, releaseVars>>

--------------------------------------------------------------------------------
(* The properties of the instances; a job that is not the behaviour's stays at its beginning. *)

\* Contextual glosses (Glosses): a window's usable answer is paid for once and a text is generated
\* again only after it succeeded; no two approved notes of one text cover the same words.
GlossesKept == G!ChargedOnce /\ G!ApprovedApart

\* Translations that were made (TranslationReview, TitlePages): what can be applied both editors
\* said, what both said holds the translation until it is settled, and a question is paid for once;
\* a current title page is of the source's name, name and contents land together, and no call is
\* paid for twice.
TranslatedHolds ==
    /\ R!ApplicableIsBacked /\ R!SeriousStands /\ R!AnswersBoughtOnce
    /\ T!NamedFromSource /\ T!LandedTogether /\ T!CallsPaidOnce

\* Books that came in (ImportMetadata, Alignment, SentencePairs): a ready book is split for its
\* language, unless it changed in review or came back, and a model's proposal for the same input is
\* paid for once; a block is in one group and the first model's doubts go to the other; highlights
\* return after a correction, unless its text came back, and a run that waits has a message.
ImportsHold ==
    /\ I!SplitForLanguage /\ I!ProposalPaidOnce
    /\ L!OneGroup /\ L!DoubtIsPassedOn /\ P!HighlightsReturn /\ P!QueuedIsInLine

\* What a person decided stands against the workers: a rejected gloss is not offered again
\* (Glosses), what an owner typed is not changed by a worker that read the book since
\* (ImportMetadata), and none takes a pair from a group a person had decided (Alignment).
PeoplesWord == G!RejectedStays /\ I!OwnerKept /\ L!ReviewedStands

\* Plan accounts (PlanAccounts): a worker takes plan jobs just when neither account is paused.
PausesHold == A!PausesHold

\* The other environment (Release): of what a page calls current every correction and artifact is
\* there, with those of its sources.
ReleaseHolds == E!ReleaseHolds
=============================================================================
