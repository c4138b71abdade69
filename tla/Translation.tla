---------------------------- MODULE Translation ----------------------------
(***************************************************************************)
(* A parallel edition ordered by the product API, translated by direct     *)
(* calls or as one batch at the provider (ai_translation.py:232-955,       *)
(* translation_jobs.py:159-355, tasks.py:142-150, 1602-1674, views.py:     *)
(* 2207-2221).                                                             *)
(*                                                                         *)
(* A run is kept per state of the source's blocks, since the times they    *)
(* were last touched are in its key.  A direct run asks for its chapters   *)
(* on several threads; their answers come in any order and are saved in    *)
(* the order of the chapters, by one thread.  It asks once more for the    *)
(* unusable ones; a run that is submitted is left alone unless it has been *)
(* silent for long.  Messages are given back when their worker dies, and   *)
(* may be delivered again while it is only slow.                           *)
(*                                                                         *)
(* An answer is whether it is usable, and the number of calls whose tokens *)
(* it carries; billed and counted are calls the provider charged and calls *)
(* the run's ledger has.  Of a publication there is the check before it,   *)
(* the call, and the save after it; the rest is the module Publication.    *)
(***************************************************************************)
EXTENDS Integers, Sequences, FiniteSets, FiniteSetsExt

CONSTANTS Chapters,    \* of the source, numbered
          Workers,
          Modes,       \* ways the order may ask for: "batch", "direct"
          Threads,     \* that ask for chapters at once, of one direct run
          Idle,        \* a worker without a message
          MaxSource,   \* bound on changes of the source's blocks
          Budgets      \* bounds on what people and faults do: asks (cancellations and retries),
                       \* edits of the source, troubles (unusable answers and failed requests), workers that are
                       \* slow or die; a behaviour stays within one of them

ASSUME ChaptersAssumption ==
  IsFiniteSet(Chapters) /\ Chapters # {} /\ Chapters = 1..Cardinality(Chapters)
ASSUME ModesAssumption == Modes \subseteq {"batch", "direct"} /\ Modes # {}
ASSUME ThreadsAssumption == Threads \in Nat \ {0}
ASSUME BoundsAssumption == MaxSource \in Nat

VARIABLES
  edition,  \* its status, the chapters it has, whether it is to be published, and history
  source,   \* the state of the source's blocks
  runs,     \* the AI run of each state of the source
  batches,  \* what the provider does with each batch sent to it
  billed,   \* direct calls made for a chapter, of each run
  usable,   \* those that came back usable
  counted,  \* calls in the run's ledger, a batch's too
  lost,     \* history: usable answers that died with a worker who had not saved them
  queue,    \* messages waiting
  job,      \* what each worker is doing
  cancel,   \* a cancellation that has read its edition and not yet written
  used      \* asks, edits, troubles, delays, crashes so far

vars == <<edition, source, runs, batches, billed, usable, counted, lost, queue, job, cancel, used>>

Sources == 0..MaxSource
NoLine == [ok |-> FALSE, calls |-> 0]
NoLines == [c \in Chapters |-> NoLine]
NoRun == [status |-> "absent", how |-> "none", lines |-> NoLines, batch |-> 0, silent |-> FALSE]
Messages ==
  [task : {"batch", "direct", "split", "publish", "normalize"}, of : {0}] \cup
  [task : {"poll"}, of : Sources]
Taken(m, step, v) == [msg |-> m, step |-> step, of |-> v, lines |-> NoLines, todo |-> {},
                      came |-> {}, good |-> {}, round |-> 1, batch |-> 0]
Free == Taken(Idle, "free", 0)
NoCancel == [open |-> FALSE, of |-> -1]

Lines == [Chapters -> [ok : BOOLEAN, calls : Nat]]

TypeOK ==
  /\ edition.status \in {"processing", "failed", "review", "ready", "published"}
  /\ edition.text \subseteq Chapters
  /\ {edition.auto, edition.cancelled, edition.crossed, edition.aside, edition.again} \subseteq BOOLEAN
  /\ source \in Sources
  /\ \A v \in Sources :
       /\ runs[v].status \in {"absent", "queued", "submitted", "succeeded", "failed"}
       /\ runs[v].how \in {"none", "batch", "direct"}
       /\ runs[v].lines \in Lines /\ runs[v].batch \in 0..Len(batches)
       \* a direct run that is being made has an execution, a batch its identity
       /\ runs[v].status = "submitted" => runs[v].how # "none"
       /\ runs[v].how = "batch" => runs[v].batch > 0
  /\ \A i \in DOMAIN batches : batches[i] \in {"running", "whole", "partial", "ended"}
  /\ \A f \in {billed, usable, counted, lost} : f \in [Sources -> [Chapters -> Nat]]
  /\ \A i \in DOMAIN queue : queue[i] \in Messages
  /\ \A w \in Workers : job[w].step \in {"free", "begin", "submit", "save", "call", "complete",
                                         "poll", "after", "hand", "normalize"}

----------------------------------------------------------------------------
(* State formulae. *)

Working(v) ==
  \E w \in Workers : job[w].step \notin {"free", "after", "hand", "normalize"} /\ job[w].of = v
Existing == {v \in Sources : runs[v].status # "absent"}
Latest == Max(Existing)
Quiet == queue = <<>> /\ \A w \in Workers : job[w] = Free

\* A publication that was ordered: its sentences are to be split, it waits, or it is under way.
Handing == \E w \in Workers : job[w].step = "hand"
OnItsWay == Handing \/ \E i \in DOMAIN queue : queue[i].task \in {"split", "publish"}

\* last_translation_mode.
LastMode == IF Existing # {} /\ runs[Latest].how = "batch" THEN "batch" ELSE "direct"

Send(task, of) == [task |-> task, of |-> of]
Without(s, i) == SubSeq(s, 1, i - 1) \o SubSeq(s, i + 1, Len(s))
Start(w, m, step, v) == [job EXCEPT ![w] = Taken(m, step, v)]
Unusable(lines) == {c \in Chapters : ~lines[c].ok}

Bounded == {"asks", "edits", "troubles", "delays", "crashes"}
Happens(kind) ==
  /\ used' = [used EXCEPT ![kind] = @ + 1]
  /\ \E b \in Budgets : \A k \in Bounded : used'[k] <= b[k]

----------------------------------------------------------------------------
\* start_translation_job.
Init ==
  /\ edition = [status |-> "processing", text |-> {}, auto |-> TRUE, cancelled |-> FALSE,
                crossed |-> FALSE, aside |-> FALSE, again |-> FALSE]
  /\ source = 0
  /\ runs = [v \in Sources |-> NoRun]
  /\ batches = <<>>
  /\ billed = [v \in Sources |-> [c \in Chapters |-> 0]]
  /\ usable = billed /\ counted = billed /\ lost = billed
  /\ queue \in {<<Send(mode, 0)>> : mode \in Modes}
  /\ job = [w \in Workers |-> Free]
  /\ cancel = NoCancel
  /\ used = [asks |-> 0, edits |-> 0, troubles |-> 0, delays |-> 0, crashes |-> 0]

----------------------------------------------------------------------------
(* People. *)

Stoppable == IF Existing # {} /\ runs[Latest].status \in {"queued", "submitted"} THEN Latest ELSE -1
BatchUnderWay == Stoppable # -1 /\ runs[Stoppable].how = "batch"

\* What cancel_translation writes: the run, if one was under way, and the edition.  A publication
\* that is past its check is crossed by it, and goes on.
\* Mutant: the order to publish stands.
StopKeepingOrder(v) ==
  /\ IF v = -1 THEN UNCHANGED runs ELSE runs' = [runs EXCEPT ![v].status = "failed"]
  /\ edition' = [edition EXCEPT !.status = "failed", !.cancelled = TRUE, !.crossed = @ \/ Handing]

Stop(v) ==
  /\ IF v = -1 THEN UNCHANGED runs ELSE runs' = [runs EXCEPT ![v].status = "failed"]
  /\ edition' = [edition EXCEPT !.status = "failed", !.auto = FALSE, !.cancelled = TRUE,
                                !.crossed = @ \/ Handing]

\* cancel_translation at once, when no batch is under way ...
Cancel ==
  /\ edition.status # "published"
  /\ ~BatchUnderWay
  /\ Happens("asks")
  /\ Stop(Stoppable)
  /\ UNCHANGED <<source, batches, billed, usable, counted, lost, queue, job, cancel>>

\* ... or, when one is, having read the run and the edition and told the provider, which may
\* fail and stops nothing,
OpenCancel ==
  /\ ~cancel.open
  /\ edition.status # "published"
  /\ BatchUnderWay
  /\ Happens("asks")
  /\ cancel' = [open |-> TRUE, of |-> Stoppable]
  /\ \/ batches' = [batches EXCEPT ![runs[Stoppable].batch] = IF @ = "running" THEN "ended" ELSE @]
     \/ UNCHANGED batches
  /\ UNCHANGED <<edition, source, runs, billed, usable, counted, lost, queue, job>>

\* which takes its time.
WriteCancel ==
  /\ cancel.open
  /\ cancel' = NoCancel
  /\ Stop(cancel.of)
  /\ UNCHANGED <<source, batches, billed, usable, counted, lost, queue, job, used>>

\* retry_failed_edition: an edition that has its text is finished again, one that has none is
\* translated again.  Nothing queues the publication of the one that is only finished again, but
\* one that was queued before meets it.
Retry ==
  /\ edition.status = "failed"
  /\ Happens("asks")
  /\ \/ /\ edition.text = {}
        /\ edition' = [edition EXCEPT !.status = "processing", !.again = @ \/ edition.cancelled]
        /\ queue' = Append(queue, Send(LastMode, 0))
     \/ /\ edition.text # {}
        /\ edition' = [edition EXCEPT !.crossed = @ \/ OnItsWay, !.aside = TRUE,
                                      !.again = @ \/ edition.cancelled]
        /\ queue' = Append(queue, Send("normalize", 0))
  /\ UNCHANGED <<source, runs, batches, billed, usable, counted, lost, job, cancel>>

\* The source's blocks are touched: an edit (revise_block_text), a fresh split, an analysis.
TouchSource ==
  /\ source < MaxSource
  /\ source' = source + 1
  /\ Happens("edits")
  /\ UNCHANGED <<edition, runs, batches, billed, usable, counted, lost, queue, job, cancel>>

----------------------------------------------------------------------------
(* Taking a message. *)

\* Whether _prepare_translation_run leaves the run as it is.
Settled(r) ==
  \/ r.status = "succeeded"
  \/ r.status = "submitted" /\ (r.how # "direct" \/ ~r.silent)

\* _prepare_translation_run: what was sent is recorded anew, the chapters kept stay.
Prepare(w, i) ==
  LET m == queue[i]
      next == IF m.task = "batch" THEN "submit" ELSE "begin"
  IN /\ m.task \in {"batch", "direct"}
     /\ IF Settled(runs[source])
          THEN job' = Start(w, m, "after", source) /\ UNCHANGED runs
          ELSE /\ runs' = [runs EXCEPT ![source] = [@ EXCEPT !.status = "queued", !.how = "none",
                                                               !.silent = FALSE]]
               /\ job' = Start(w, m, next, source)

\* poll_translation_batch, which leaves a run that is over.
BeginPoll(w, i) ==
  LET m == queue[i]
  IN /\ m.task = "poll"
     /\ job' = IF runs[m.of].status \in {"succeeded", "failed"} THEN job
               ELSE Start(w, m, "poll", m.of)
     /\ UNCHANGED runs

\* The chain that continue_after_translation queues: its split queues the publication, unless
\* it fails; publish_edition asks whether the edition is ready, and begins its call.
\* process_normalized_edition begins.
BeginOther(w, i) ==
  LET m == queue[i]
  IN \/ /\ m.task = "split"
        /\ \/ queue' = Append(Tail(queue), Send("publish", 0)) /\ UNCHANGED <<edition, used>>
           \/ /\ Happens("troubles")
              /\ edition' = [edition EXCEPT !.aside = TRUE]
              /\ queue' = Tail(queue)
        /\ UNCHANGED job
     \/ /\ m.task = "publish"
        /\ job' = IF edition.status = "ready" THEN Start(w, m, "hand", source) ELSE job
        /\ queue' = Tail(queue)
        /\ UNCHANGED <<edition, used>>
     \/ /\ m.task = "normalize"
        /\ edition' = [edition EXCEPT !.status = "processing"]
        /\ job' = Start(w, m, "normalize", source)
        /\ queue' = Tail(queue)
        /\ UNCHANGED used

Deliver(w) ==
  /\ job[w] = Free
  /\ queue # <<>>
  /\ \/ BeginOther(w, 1) /\ UNCHANGED runs
     \/ (Prepare(w, 1) \/ BeginPoll(w, 1)) /\ queue' = Tail(queue) /\ UNCHANGED <<edition, used>>
  /\ UNCHANGED <<source, batches, billed, usable, counted, lost, cancel>>

\* publish_edition once Almonium has answered: published, whatever the edition is by now; or
\* it was refused, and nothing asks again.
Hand(w) ==
  /\ job[w].step = "hand"
  /\ job' = [job EXCEPT ![w] = Free]
  /\ \/ edition' = [edition EXCEPT !.status = "published"] /\ UNCHANGED used
     \/ Happens("troubles") /\ edition' = [edition EXCEPT !.aside = TRUE]
  /\ UNCHANGED <<source, runs, batches, billed, usable, counted, lost, queue, cancel>>

\* The end of process_normalized_edition.
Normalize(w) ==
  /\ job[w].step = "normalize"
  /\ job' = [job EXCEPT ![w] = Free]
  /\ \/ /\ \E status \in {"review", "ready"} : edition' = [edition EXCEPT !.status = status]
        /\ UNCHANGED used
     \/ Happens("troubles") /\ edition' = [edition EXCEPT !.status = "failed"]
  /\ UNCHANGED <<source, runs, batches, billed, usable, counted, lost, queue, cancel>>

----------------------------------------------------------------------------
(* Direct calls: run_translation_inline. *)

\* Chapters an earlier attempt got back usable are kept; their tokens are to be counted by
\* this one, whatever the earlier one counted.
\* Mutant: nothing is kept.
KeptNothing(lines) == NoLines
Kept(lines) == [c \in Chapters |-> IF lines[c].ok THEN lines[c] ELSE NoLine]

Begin(w) ==
  LET v == job[w].of
      kept == Kept(runs[v].lines)
  IN /\ job[w].step = "begin"
     /\ runs' = [runs EXCEPT ![v] = [@ EXCEPT !.status = "submitted", !.how = "direct", !.lines = kept,
                                               !.batch = 0, !.silent = FALSE]]
     /\ job' = [job EXCEPT ![w] = [@ EXCEPT !.step = IF Unusable(kept) = {} THEN "complete" ELSE "call",
                                            !.lines = kept, !.todo = Unusable(kept)]]
     /\ UNCHANGED <<edition, source, batches, billed, usable, counted, lost, queue, cancel, used>>

\* What the threads are asking for: the first that are not answered.
Asking(j) ==
  LET open == j.todo \ j.came
  IN {c \in open : Cardinality({d \in open : d < c}) < Threads}

\* The provider answers one of them, and charges it.  That its worker has died meanwhile is
\* told by Crash, which comes after.
Answer(w) ==
  LET j == job[w]
  IN /\ j.step = "call"
     /\ \E c \in Asking(j), ok \in BOOLEAN :
          /\ IF ok THEN UNCHANGED used ELSE Happens("troubles")
          /\ billed' = [billed EXCEPT ![j.of][c] = @ + 1]
          /\ usable' = [usable EXCEPT ![j.of][c] = IF ok THEN @ + 1 ELSE @]
          /\ job' = [job EXCEPT ![w] = [j EXCEPT !.came = @ \cup {c},
                                                  !.good = IF ok THEN @ \cup {c} ELSE @]]
     /\ UNCHANGED <<edition, source, runs, batches, counted, lost, queue, cancel>>

\* The answer of the next chapter in order is kept, and every answer of this attempt saved,
\* with the earlier one's tokens when it is the second; after the first round the unusable
\* chapters are asked once more.
SecondAnswer(first, ok) == [ok |-> ok, calls |-> first.calls + 1]

Keep(w) ==
  LET j == job[w]
      c == Min(j.todo)
      ok == c \in j.good
      line == IF j.round = 1 THEN [ok |-> ok, calls |-> 1] ELSE SecondAnswer(j.lines[c], ok)
      lines == [j.lines EXCEPT ![c] = line]
      rest == j.todo \ {c}
      todo == IF rest = {} /\ j.round = 1 THEN Unusable(lines) ELSE rest
  IN /\ j.step = "call"
     /\ c \in j.came
     /\ runs' = [runs EXCEPT ![j.of] = [@ EXCEPT !.lines = lines, !.silent = FALSE]]
     /\ job' = [job EXCEPT ![w] = [j EXCEPT !.lines = lines, !.todo = todo,
                     !.came = @ \ {c}, !.good = @ \ {c},
                     !.round = IF rest = {} THEN 2 ELSE j.round,
                     !.step = IF todo = {} THEN "complete" ELSE "call"]]
     /\ UNCHANGED <<edition, source, batches, billed, usable, counted, lost, queue, cancel, used>>

\* complete_translation_batch: under the run's lock, nothing when it succeeded before; the
\* attempt's tokens are added, and a book with an unusable chapter is no book.
Complete(w) ==
  LET j == job[w]
      v == j.of
      succeeded == runs[v].status = "succeeded"
      whole == Unusable(j.lines) = {}
  IN /\ j.step = "complete"
     /\ counted' = IF succeeded THEN counted
                   ELSE [counted EXCEPT ![v] = [c \in Chapters |-> @[c] + j.lines[c].calls]]
     /\ \/ /\ succeeded
           /\ UNCHANGED <<edition, runs>>
        \/ /\ ~succeeded /\ whole
           /\ runs' = [runs EXCEPT ![v] = [@ EXCEPT !.status = "succeeded", !.lines = NoLines]]
           /\ \E status \in {"review", "ready"} :
                edition' = [edition EXCEPT !.status = status, !.text = Chapters]
        \/ /\ ~succeeded /\ ~whole
           /\ runs' = [runs EXCEPT ![v].status = "failed"]
           /\ edition' = [edition EXCEPT !.status = "failed"]
     /\ job' = [job EXCEPT ![w] = IF succeeded \/ whole THEN [j EXCEPT !.step = "after"] ELSE Free]
     /\ UNCHANGED <<source, batches, billed, usable, lost, queue, cancel, used>>

\* continue_after_translation, which every delivery comes to: an order goes out once ready.
\* What a batch's first task comes to is a poll of the batch, while the run is submitted.
\* Mutant: an order whose batch ended is not continued.
AfterDirectOnly(w) ==
  LET j == job[w]
  IN /\ j.step = "after"
     /\ queue' = IF j.msg.task = "batch"
                   THEN IF runs[j.of].status = "submitted" THEN Append(queue, Send("poll", j.of))
                        ELSE queue
                 ELSE IF j.msg.task = "direct" /\ edition.auto /\ edition.status = "ready"
                   THEN Append(queue, Send("split", 0))
                 ELSE queue
     /\ job' = [job EXCEPT ![w] = Free]
     /\ UNCHANGED <<edition, source, runs, batches, billed, usable, counted, lost, cancel, used>>

After(w) ==
  LET j == job[w]
  IN /\ j.step = "after"
     /\ queue' = IF j.msg.task = "batch"
                   THEN IF runs[j.of].status = "submitted" THEN Append(queue, Send("poll", j.of))
                        ELSE queue
                 ELSE IF edition.auto /\ edition.status = "ready" THEN Append(queue, Send("split", 0))
                 ELSE queue
     /\ job' = [job EXCEPT ![w] = Free]
     /\ UNCHANGED <<edition, source, runs, batches, billed, usable, counted, lost, cancel, used>>

----------------------------------------------------------------------------
(* A batch: submit_translation_batch and poll_translation_batch. *)

\* The provider takes the batch, or refuses it, which leaves the edition as it is.
Submit(w) ==
  LET v == job[w].of
  IN /\ job[w].step = "submit"
     /\ \/ /\ batches' = Append(batches, "running")
           /\ job' = [job EXCEPT ![w] = [@ EXCEPT !.step = "save", !.batch = Len(batches')]]
           /\ UNCHANGED <<runs, used>>
        \/ /\ Happens("troubles")
           /\ runs' = [runs EXCEPT ![v].status = "failed"]
           /\ job' = [job EXCEPT ![w] = Free]
           /\ UNCHANGED batches
     /\ UNCHANGED <<edition, source, billed, usable, counted, lost, queue, cancel>>

SaveSubmit(w) ==
  /\ job[w].step = "save"
  /\ runs' = [runs EXCEPT ![job[w].of] = [@ EXCEPT !.status = "submitted", !.how = "batch",
                                                    !.batch = job[w].batch, !.lines = NoLines]]
  /\ job' = [job EXCEPT ![w].step = "after"]
  /\ UNCHANGED <<edition, source, batches, billed, usable, counted, lost, queue, cancel, used>>

\* The batch ends, in each way a batch can.
BatchEnds ==
  \E i \in DOMAIN batches :
    /\ batches[i] = "running"
    /\ \/ batches' = [batches EXCEPT ![i] = "whole"] /\ UNCHANGED used
       \/ /\ Happens("troubles")
          /\ \E end \in {"partial", "ended"} : batches' = [batches EXCEPT ![i] = end]
    /\ UNCHANGED <<edition, source, runs, billed, usable, counted, lost, queue, job, cancel>>

\* The lines of a batch: each request was one call.
BatchLines(state) == [c \in Chapters |-> [ok |-> state = "whole" \/ c > 1, calls |-> 1]]

\* Mutant: a batch that is still running is not asked about again.
PollOnce(w) ==
  LET j == job[w]
      state == IF runs[j.of].batch = 0 THEN "ended" ELSE batches[runs[j.of].batch]
  IN /\ j.step = "poll"
     /\ \/ /\ state = "running"
           /\ job' = [job EXCEPT ![w] = Free]
           /\ UNCHANGED <<edition, runs, queue, used>>
        \/ /\ state \in {"whole", "partial"}
           /\ job' = [job EXCEPT ![w] = [j EXCEPT !.step = "complete", !.lines = BatchLines(state)]]
           /\ UNCHANGED <<edition, runs, queue, used>>
        \/ /\ state = "ended"
           /\ runs' = [runs EXCEPT ![j.of].status = "failed"]
           /\ edition' = [edition EXCEPT !.status = "failed"]
           /\ job' = [job EXCEPT ![w] = Free]
           /\ UNCHANGED <<queue, used>>
     /\ UNCHANGED <<source, batches, billed, usable, counted, lost, cancel>>

\* A batch still running, and an error that may pass, are asked about again; a batch that
\* ended badly, and any other error, fail the run and the edition, whatever they are by now.
\* A run that has become a direct one is not known to the provider.
Poll(w) ==
  LET j == job[w]
      state == IF runs[j.of].batch = 0 THEN "ended" ELSE batches[runs[j.of].batch]
      again == /\ queue' = Append(queue, j.msg)
               /\ job' = [job EXCEPT ![w] = Free]
               /\ UNCHANGED <<edition, runs>>
      fail == /\ runs' = [runs EXCEPT ![j.of].status = "failed"]
              /\ edition' = [edition EXCEPT !.status = "failed"]
              /\ job' = [job EXCEPT ![w] = Free]
              /\ UNCHANGED queue
  IN /\ j.step = "poll"
     /\ \/ state = "running" /\ again /\ UNCHANGED used
        \/ Happens("troubles") /\ (again \/ fail)
        \/ state = "ended" /\ fail /\ UNCHANGED used
        \/ /\ state \in {"whole", "partial"}
           /\ job' = [job EXCEPT ![w] = [j EXCEPT !.step = "complete", !.lines = BatchLines(state)]]
           /\ UNCHANGED <<edition, runs, queue, used>>
     /\ UNCHANGED <<source, batches, billed, usable, counted, lost, cancel>>

----------------------------------------------------------------------------
(* Slow and dying workers. *)

\* A direct run nothing has touched for long: nobody works on it, or its worker is slow.
FallSilent ==
  \E v \in Sources :
    /\ runs[v].status = "submitted" /\ runs[v].how = "direct" /\ ~runs[v].silent
    /\ IF Working(v) THEN Happens("delays") ELSE UNCHANGED used
    /\ runs' = [runs EXCEPT ![v].silent = TRUE]
    /\ UNCHANGED <<edition, source, batches, billed, usable, counted, lost, queue, job, cancel>>

\* The broker takes a slow worker for dead and delivers its message to another.
Redeliver(w) ==
  /\ job[w] # Free
  /\ Happens("delays")
  /\ queue' = Append(queue, job[w].msg)
  /\ UNCHANGED <<edition, source, runs, batches, billed, usable, counted, lost, job, cancel>>

\* What was answered and not saved is lost.
Crash(w) ==
  /\ job[w] # Free
  /\ Happens("crashes")
  /\ queue' = Append(queue, job[w].msg)
  /\ job' = [job EXCEPT ![w] = Free]
  /\ lost' = [lost EXCEPT ![job[w].of] =
                [c \in Chapters |-> IF c \in job[w].good THEN @[c] + 1 ELSE @[c]]]
  /\ UNCHANGED <<edition, source, runs, batches, billed, usable, counted, cancel>>

----------------------------------------------------------------------------
Work(w) ==
  \/ Deliver(w) \/ Begin(w) \/ Answer(w) \/ Keep(w) \/ Complete(w) \/ After(w)
  \/ Submit(w) \/ SaveSubmit(w) \/ Poll(w) \/ Hand(w) \/ Normalize(w)

Next ==
  \/ Cancel \/ OpenCancel \/ WriteCancel \/ Retry \/ TouchSource
  \/ BatchEnds \/ FallSilent
  \/ \E w \in Workers : Work(w) \/ Redeliver(w) \/ Crash(w)

\* Workers run, a request that was begun is finished, and the provider ends what it took.
Fairness == (\A w \in Workers : WF_vars(Work(w))) /\ WF_vars(WriteCancel) /\ WF_vars(BatchEnds)

Spec == Init /\ [][Next]_vars /\ Fairness

----------------------------------------------------------------------------
(* Properties. *)

\* A chapter that came back usable and was not lost with its worker is not paid for twice,
\* though attempts fail and workers die, unless a slow worker was taken for dead or the edition
\* was retried after it was cancelled, which does not stop the calls under way
\* (run_translation_inline, 850-859).  Answers that were not saved yet are lost, 886-900.
PaidOnce ==
  used.delays = 0 /\ ~edition.again =>
    \A v \in Sources, c \in Chapters : usable[v][c] <= 1 + lost[v][c]

\* When nothing is under way, what a finished run was billed is in its ledger: an unusable
\* answer is counted with the one that replaced it (_with_usage_of, add_attempt_usage).
BilledIsCounted ==
  Quiet /\ used.delays = 0 /\ ~edition.again /\ used.crashes = 0 =>
    \A v \in Sources : runs[v].status \in {"succeeded", "failed"} =>
      \A c \in Chapters : counted[v][c] >= billed[v][c]

\* A usable answer is paid for once unless it was lost, and, where no worker died, whatever was
\* paid for is in the ledger.
BilledOnce == PaidOnce /\ BilledIsCounted

\* An order that was cancelled is never published on its own, also when its translation is
\* finished by a worker that was at it; unless its publication was past its check by then, or
\* was still on its way when the edition was finished again by hand, or a slow worker was taken
\* for dead, which lets a publication queued before find the text of the other
\* (cancel_translation, publish_edition).
CancelledStaysIn ==
  used.delays = 0 /\ edition.cancelled /\ ~edition.crossed => edition.status # "published"

\* A translation comes to an end, unless its worker died, or the provider refused the batch
\* or could not be asked (poll_translation_batch).
Ends ==
  edition.status = "processing"
    ~> (edition.status # "processing" \/ used.crashes > 0 \/ used.troubles > 0)

\* An order that is ready goes out, unless it is taken back, its split or its publication
\* failed, its text was finished again by hand, or a worker died (continue_after_translation).
OrderedGoesOut ==
  edition.status = "ready" /\ edition.auto
    ~> (edition.status # "ready" \/ ~edition.auto \/ edition.aside \/ used.crashes > 0)

----------------------------------------------------------------------------
(* What is said of the code and does not hold (README, departures).        *)

\* A translation whose worker died is not paid for twice (run_translation_inline, 850-851).
NeverPaidTwice ==
  used.delays = 0 /\ ~edition.again => \A v \in Sources, c \in Chapters : usable[v][c] <= 1

\* A cancelled order stays in (cancel_translation, translation_jobs.py:311).
CancelledIsOver == used.delays = 0 /\ edition.cancelled => edition.status # "published"

\* A call is in the ledger at most once (run_translation_inline, ai_translation.py:852-859).
CountedOnce == \A v \in Sources, c \in Chapters : counted[v][c] <= billed[v][c]
=============================================================================
