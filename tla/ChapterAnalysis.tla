---------------------------- MODULE ChapterAnalysis ----------------------------
(***************************************************************************)
(* The chapter analysis of one edition: catalog/chapter_analysis.py with    *)
(* the Celery task that runs it and the projections that show it.           *)
(*                                                                          *)
(* A run (PipelineRun) belongs to one snapshot of the edition's text.  It   *)
(* is worked on under a lease: a worker that claims the run writes a token  *)
(* into it, and every later write of that worker is filtered on the token.  *)
(* A lease nobody renewed may be taken over, although the worker that held  *)
(* it may still be alive.  Each window of the text is read by a paid call   *)
(* whose answer is kept in a ledger row (AIRun) and reused by later runs.   *)
(***************************************************************************)
EXTENDS Naturals, Sequences, FiniteSets

CONSTANTS
    Workers,     \* processes that take tasks from the broker
    Texts,       \* snapshots of the edition; a snapshot's hash is its run's input_hash
    NoText,      \* the edition was purged
    Windows,     \* hashes of the windows the snapshots are read in
    Plan,        \* [Texts -> Seq(Windows)], the windows of a snapshot in reading order
    Place,       \* [Windows -> Nat], the chapter and index a window stands at
    Phrase,      \* pairs of windows that differ by no more than max_change words
    LeaseTicks,  \* LEASE_DURATION, in ticks of the clock
    OldTicks,    \* janitor.ABANDONED_AFTER, in the same ticks
    MaxTries,    \* max_retries of the task; a retry waits one tick
    Prompt,      \* TRUE when no call outlasts the lease, as chapter_analysis.py:706 has it
    Losses,      \* the kinds of loss considered: "restart", "killed", "dispatch"
    MaxClaims, MaxAsks, MaxEdits, MaxLosses   \* bounds of the model

ASSUME PlanAssumption ==
    /\ NoText \notin Texts
    /\ Plan \in [Texts -> Seq(Windows)]
    /\ \A t \in Texts : Plan[t] # <<>>
    /\ Place \in [Windows -> Nat]
    /\ Phrase \subseteq Windows \X Windows

ASSUME BoundAssumption ==
    /\ LeaseTicks \in Nat \ {0} /\ OldTicks \in Nat /\ LeaseTicks < OldTicks
    /\ MaxTries \in Nat /\ Prompt \in BOOLEAN
    /\ MaxClaims \in Nat /\ MaxAsks \in Nat /\ MaxEdits \in Nat /\ MaxLosses \in Nat

VARIABLES
    text,      \* the edition's current snapshot
    run,       \* the PipelineRun of each snapshot
    made,      \* the snapshots that have a run, oldest run first
    air,       \* the AIRun ledger, by the token that made the row and the window it read
    msg,       \* the messages asking for a run, in the order they were made
    worker,    \* what each worker is doing
    shown,     \* the current book projection
    toProject, \* projection refreshes that are queued
    edits,     \* edits whose after-commit callback has not run yet
    tokens,    \* the tokens given out so far
    asked,     \* the messages made so far
    edited,    \* the edits made so far
    lost       \* the losses so far

vars == <<text, run, made, air, msg, worker, shown, toProject, edits, tokens, asked, edited, lost>>

Tokens == 1 .. MaxClaims
Asks == 1 .. MaxAsks
Ids == Tokens \X Windows
NoRow == <<0, 0>>
Statuses == {"none", "queued", "running", "succeeded", "failed", "cancelled"}
Places == {"idle", "project", "check", "look", "call", "save", "record", "stale", "broken"}

Runs == [status : Statuses, lease : 0 .. MaxClaims, age : 0 .. OldTicks, results : SUBSET Ids]
Rows == [status : {"none", "submitted", "succeeded", "failed"}, of : Texts \cup {NoText},
         hash : Windows, words : BOOLEAN]
Messages == [run : Texts \cup {NoText}, tries : 0 .. MaxTries,
             at : {"none", "unsent", "ready", "delayed", "taken", "gone"}]
Jobs == [at : Places, msg : 0 .. MaxAsks, run : Texts \cup {NoText}, token : 0 .. MaxClaims,
         done : Nat, row : Ids \cup {NoRow}, results : SUBSET Ids]

NoRun == [status |-> "none", lease |-> 0, age |-> 0, results |-> {}]
Idle == [at |-> "idle", msg |-> 0, run |-> NoText, token |-> 0, done |-> 0,
         row |-> NoRow, results |-> {}]

--------------------------------------------------------------------------------
(* State formulas.                                                           *)

WindowsOf(t) == {Plan[t][i] : i \in DOMAIN Plan[t]}

\* The windows the edition has a validated reading of: _attempt's cache, and what
\* refresh_projections builds the projections from.
Readings(h) == {x \in Ids : air[x].status = "succeeded" /\ air[x].hash = h}
Read == {h \in Windows : Readings(h) # {}}

\* A running run whose row was touched within the lease.
Live(t) == run[t].status = "running" /\ run[t].age < LeaseTicks

\* The runs once the row of run t was written with a status, and so touched.
Marked(t, status) == [run EXCEPT ![t].status = status, ![t].age = 0]

\* _update_run and refresh_projections(token=...): the run still carries the worker's token.
Holds(w) == text # NoText /\ run[worker[w].run].lease = worker[w].token

\* _current_plan: the edition exists and its text is the run's.
Current(w) == text = worker[w].run

\* projection_state of analysis_context and projection_context for the current text.
ProjectionState ==
    IF text = NoText \/ made = <<>> THEN "pending"
    ELSE IF run[text].status = "none" THEN "stale"
    ELSE LET held == IF shown.of = text
                     THEN (IF WindowsOf(text) \subseteq shown.read THEN "complete"
                           ELSE IF shown.read = {} THEN "pending" ELSE "partial")
                     ELSE (IF shown.any THEN "stale" ELSE "pending")
         IN CASE run[text].status \in {"failed", "cancelled"} /\ held # "stale" -> "failed"
              [] run[text].status \in {"queued", "running"} /\ held = "pending" -> run[text].status
              [] OTHER -> held

--------------------------------------------------------------------------------
Init ==
    /\ text \in Texts
    /\ run = [t \in Texts |-> NoRun]
    /\ made = <<>>
    /\ air = [x \in Ids |-> [status |-> "none", of |-> NoText, hash |-> x[2], words |-> FALSE]]
    /\ msg = [m \in Asks |-> [run |-> NoText, tries |-> 0, at |-> "none"]]
    /\ worker = [w \in Workers |-> Idle]
    /\ shown = [of |-> NoText, read |-> {}, any |-> FALSE]
    /\ toProject = {}
    /\ edits = 0 /\ tokens = 0 /\ asked = 0 /\ edited = 0 /\ lost = 0

\* queue_analysis in one transaction: the run is made or found; a run that did not succeed
\* and that nobody holds is queued, and its message is sent once this has committed.
QueueAnalysis ==
    /\ text # NoText
    /\ made' = IF run[text].status = "none" THEN Append(made, text) ELSE made
    /\ IF run[text].status = "succeeded"
       THEN toProject' = toProject \cup {text} /\ UNCHANGED <<run, msg, asked>>
       ELSE IF Live(text)
       THEN UNCHANGED <<run, msg, asked, toProject>>
       ELSE /\ asked < MaxAsks
            /\ asked' = asked + 1
            /\ msg' = [msg EXCEPT ![asked'] = [run |-> text, tries |-> 0, at |-> "unsent"]]
            /\ run' = Marked(text, "queued")
            /\ UNCHANGED toProject

\* The analyse button, a production's step, the end of a book's write.
Ask == QueueAnalysis /\ UNCHANGED <<text, air, worker, shown, edits, tokens, edited, lost>>

\* The on_commit callback of queue_analysis, and its failure path.
Dispatch(m) ==
    /\ msg[m].at = "unsent"
    /\ \/ msg' = [msg EXCEPT ![m].at = "ready"] /\ UNCHANGED <<run, lost>>
       \/ /\ "dispatch" \in Losses /\ lost < MaxLosses
          /\ lost' = lost + 1
          /\ msg' = [msg EXCEPT ![m].at = "gone"]
          /\ \/ UNCHANGED run                         \* the process died before it sent it
             \/ /\ run[msg[m].run].status = "queued"  \* the broker refused it
                /\ run' = Marked(msg[m].run, "failed")
    /\ UNCHANGED <<text, made, air, worker, shown, toProject, edits, tokens, asked, edited>>

\* refresh_projections: under a lock on the text, the projection is rebuilt from the readings
\* that exist, and refuses to be built for a text that is no longer the edition's.
Refresh(t) ==
    IF text # NoText /\ text = t /\ run[t].status # "none"
    THEN shown' = [of |-> t, read |-> Read \cap WindowsOf(t), any |-> TRUE]
    ELSE UNCHANGED shown

Answered(m) == msg' = [msg EXCEPT ![m].at = "gone"]

\* analyze_edition_chapters on a message whose run needs no work: it succeeded already, it was
\* cancelled, or the edition is gone.
TakeSettled(w, m) ==
    /\ worker[w].at = "idle" /\ msg[m].at = "ready"
    /\ run[msg[m].run].status \in {"succeeded", "cancelled", "none"}
    /\ IF run[msg[m].run].status = "succeeded" THEN Refresh(msg[m].run) ELSE UNCHANGED shown
    /\ Answered(m)
    /\ UNCHANGED <<text, run, made, air, worker, toProject, edits, tokens, asked, edited, lost>>

\* Mutant of TakeBusy: the retries are not limited.
TakeBusyUnlimited(w, m) ==
    /\ worker[w].at = "idle" /\ msg[m].at = "ready" /\ Live(msg[m].run)
    /\ msg' = [msg EXCEPT ![m].at = "delayed", ![m].tries = @ + 1]
    /\ UNCHANGED <<text, run, made, air, worker, shown, toProject, edits, tokens, asked, edited, lost>>

\* Mutant of TakeBusy: a message that finds the run busy is dropped.
TakeBusyDropped(w, m) ==
    /\ worker[w].at = "idle" /\ msg[m].at = "ready" /\ Live(msg[m].run)
    /\ Answered(m)
    /\ UNCHANGED <<text, run, made, air, worker, shown, toProject, edits, tokens, asked, edited, lost>>

\* AnalysisBusy: somebody works under the lease; the message waits and is tried again, as
\* often as the task may be retried.
TakeBusy(w, m) ==
    /\ worker[w].at = "idle" /\ msg[m].at = "ready" /\ Live(msg[m].run)
    /\ IF msg[m].tries < MaxTries
       THEN msg' = [msg EXCEPT ![m].at = "delayed", ![m].tries = @ + 1]
       ELSE Answered(m)
    /\ UNCHANGED <<text, run, made, air, worker, shown, toProject, edits, tokens, asked, edited, lost>>

\* _claim: the run is taken under a fresh token, and the calls an earlier holder left
\* unanswered are written off.
Claim(w, m) ==
    LET t == msg[m].run IN
    /\ worker[w].at = "idle" /\ msg[m].at = "ready"
    /\ run[t].status \in {"queued", "running", "failed"} /\ ~Live(t)
    /\ tokens < MaxClaims
    /\ tokens' = tokens + 1
    /\ run' = [run EXCEPT ![t].status = "running", ![t].lease = tokens', ![t].age = 0]
    /\ air' = [x \in Ids |-> IF air[x].of = t /\ air[x].status = "submitted"
                             THEN [air[x] EXCEPT !.status = "failed"] ELSE air[x]]
    /\ msg' = [msg EXCEPT ![m].at = "taken"]
    /\ worker' = [worker EXCEPT ![w] =
                     [Idle EXCEPT !.at = "project", !.msg = m, !.run = t, !.token = tokens']]
    /\ UNCHANGED <<text, made, shown, toProject, edits, asked, edited, lost>>

\* The refresh under the token, before the first window and after every one.
Project(w) ==
    /\ worker[w].at = "project"
    /\ IF text = NoText
       THEN worker' = [worker EXCEPT ![w].at = "check"] /\ UNCHANGED shown
       ELSE IF Holds(w) /\ Current(w)
       THEN worker' = [worker EXCEPT ![w].at = "check"] /\ Refresh(worker[w].run)
       ELSE worker' = [worker EXCEPT ![w].at = "stale"] /\ UNCHANGED shown
    /\ UNCHANGED <<text, run, made, air, msg, toProject, edits, tokens, asked, edited, lost>>

\* The check before a window: the text is still the run's, and the run is touched.
Check(w) ==
    LET t == worker[w].run IN
    /\ worker[w].at = "check" /\ worker[w].done < Len(Plan[t])
    /\ IF Current(w) /\ Holds(w)
       THEN /\ run' = Marked(t, "running")
            /\ worker' = [worker EXCEPT ![w].at = "look"]
       ELSE worker' = [worker EXCEPT ![w].at = "stale"] /\ UNCHANGED run
    /\ UNCHANGED <<text, made, air, msg, shown, toProject, edits, tokens, asked, edited, lost>>

\* Mutant of Look: validated readings are not reused.
LookAfresh(w) ==
    LET h == Plan[worker[w].run][worker[w].done + 1]
        x == <<worker[w].token, h>>
    IN
    /\ worker[w].at = "look" /\ text # NoText
    /\ air' = [air EXCEPT ![x] = [status |-> "submitted", of |-> worker[w].run,
                                  hash |-> h, words |-> TRUE]]
    /\ worker' = [worker EXCEPT ![w].at = "call", ![w].row = x]
    /\ UNCHANGED <<text, run, made, msg, shown, toProject, edits, tokens, asked, edited, lost>>

\* _attempt up to its call: a validated reading of the window is reused, or a ledger row is
\* made and the provider is asked.  A row cannot be made for an edition that is gone.
Look(w) ==
    LET h == Plan[worker[w].run][worker[w].done + 1]
        x == <<worker[w].token, h>>
    IN
    /\ worker[w].at = "look"
    /\ \/ \E y \in Readings(h) :
             /\ text # NoText
             /\ worker' = [worker EXCEPT ![w].at = "record", ![w].row = y]
             /\ UNCHANGED air
       \/ /\ Readings(h) = {} /\ text # NoText
          /\ air' = [air EXCEPT ![x] = [status |-> "submitted", of |-> worker[w].run,
                                        hash |-> h, words |-> TRUE]]
          /\ worker' = [worker EXCEPT ![w].at = "call", ![w].row = x]
       \/ text = NoText /\ worker' = [worker EXCEPT ![w].at = "broken"] /\ UNCHANGED air
    /\ UNCHANGED <<text, run, made, msg, shown, toProject, edits, tokens, asked, edited, lost>>

\* Mutant of Answer: a window whose call failed is counted and the next one is read.
AnswerSkipping(w) ==
    LET x == worker[w].row IN
    /\ worker[w].at = "call"
    /\ \/ Current(w) /\ worker' = [worker EXCEPT ![w].at = "save"] /\ UNCHANGED air
       \/ /\ worker' = [worker EXCEPT ![w].at = "record"]
          /\ air' = [air EXCEPT ![x].status = "failed"]
    /\ UNCHANGED <<text, run, made, msg, shown, toProject, edits, tokens, asked, edited, lost>>

\* The provider answers, or refuses; a good answer for a text that changed meanwhile is not kept.
Answer(w) ==
    LET x == worker[w].row IN
    /\ worker[w].at = "call"
    /\ \/ /\ Current(w)
          /\ worker' = [worker EXCEPT ![w].at = "save"]
          /\ UNCHANGED air
       \/ \E why \in {"broken"} \cup (IF Current(w) THEN {} ELSE {"stale"}) :
             /\ worker' = [worker EXCEPT ![w].at = why]
             /\ air' = [air EXCEPT ![x].status = "failed"]
    /\ UNCHANGED <<text, run, made, msg, shown, toProject, edits, tokens, asked, edited, lost>>

\* Mutant of Save: the answer is written without looking whether the edition is still there.
SaveBlindly(w) ==
    LET x == worker[w].row IN
    /\ worker[w].at = "save"
    /\ air' = [air EXCEPT ![x].status = "succeeded", ![x].words = TRUE]
    /\ worker' = [worker EXCEPT ![w].at = "record"]
    /\ UNCHANGED <<text, run, made, msg, shown, toProject, edits, tokens, asked, edited, lost>>

\* The answer is written to its row, unless the edition was purged since.
Save(w) ==
    LET x == worker[w].row IN
    /\ worker[w].at = "save"
    /\ IF text # NoText
       THEN /\ air' = [air EXCEPT ![x].status = "succeeded", ![x].words = TRUE]
            /\ worker' = [worker EXCEPT ![w].at = "record"]
       ELSE /\ air' = [air EXCEPT ![x].status = "failed"]
            /\ worker' = [worker EXCEPT ![w].at = "stale"]
    /\ UNCHANGED <<text, run, made, msg, shown, toProject, edits, tokens, asked, edited, lost>>

\* The window is counted in the run's summary.
Record(w) ==
    LET results == worker[w].results \cup {worker[w].row} IN
    /\ worker[w].at = "record"
    /\ IF Holds(w)
       THEN /\ run' = [run EXCEPT ![worker[w].run].results = results, ![worker[w].run].age = 0]
            /\ worker' = [worker EXCEPT ![w].at = "project", ![w].done = @ + 1,
                                        ![w].row = NoRow, ![w].results = results]
       ELSE worker' = [worker EXCEPT ![w].at = "stale"] /\ UNCHANGED run
    /\ UNCHANGED <<text, made, air, msg, shown, toProject, edits, tokens, asked, edited, lost>>

\* Every window is read: the run succeeded, if the text and the lease are still the worker's.
Finish(w) ==
    LET t == worker[w].run IN
    /\ worker[w].at = "check" /\ worker[w].done = Len(Plan[t])
    /\ IF Current(w) /\ Holds(w)
       THEN /\ run' = Marked(t, "succeeded")
            /\ worker' = [worker EXCEPT ![w] = Idle]
            /\ Answered(worker[w].msg)
       ELSE worker' = [worker EXCEPT ![w].at = "stale"] /\ UNCHANGED <<run, msg>>
    /\ UNCHANGED <<text, made, air, shown, toProject, edits, tokens, asked, edited, lost>>

\* Mutant of GiveUp: the run is closed by its id, whoever holds the lease.
GiveUpUnfiltered(w) ==
    LET t == worker[w].run
        verdict == IF worker[w].at = "stale" THEN "cancelled" ELSE "failed"
    IN
    /\ worker[w].at \in {"stale", "broken"}
    /\ run' = IF text # NoText
              THEN Marked(t, verdict) ELSE run
    /\ worker' = [worker EXCEPT ![w] = Idle]
    /\ Answered(worker[w].msg)
    /\ UNCHANGED <<text, made, air, shown, toProject, edits, tokens, asked, edited, lost>>

\* analyze_chapters' except: the holder of the lease closes the run, nobody else does.
GiveUp(w) ==
    LET t == worker[w].run
        verdict == IF worker[w].at = "stale" THEN "cancelled" ELSE "failed"
    IN
    /\ worker[w].at \in {"stale", "broken"}
    /\ run' = IF Holds(w) THEN Marked(t, verdict) ELSE run
    /\ worker' = [worker EXCEPT ![w] = Idle]
    /\ Answered(worker[w].msg)
    /\ UNCHANGED <<text, made, air, shown, toProject, edits, tokens, asked, edited, lost>>

\* project_chapter_analysis.
RefreshTask(t) ==
    /\ t \in toProject
    /\ Refresh(t)
    /\ toProject' = toProject \ {t}
    /\ UNCHANGED <<text, run, made, air, msg, worker, edits, tokens, asked, edited, lost>>

--------------------------------------------------------------------------------
(* The text changes.                                                         *)

\* A revision of the text; an edition that was judged before is looked at again once the
\* revision has committed.
Edit(t) ==
    /\ text # NoText /\ t # text /\ edited < MaxEdits
    /\ text' = t
    /\ edited' = edited + 1
    /\ edits' = IF made = <<>> THEN edits ELSE edits + 1
    /\ UNCHANGED <<run, made, air, msg, worker, shown, toProject, tokens, asked, lost>>

\* r is the newest run that succeeded.
IsNewest(r) ==
    \E i \in DOMAIN made :
        /\ made[i] = r /\ run[r].status = "succeeded"
        /\ \A j \in DOMAIN made : j > i => run[made[j]].status # "succeeded"

\* The readings of run r that can stand for window h of the current text.
Carries(r, h) ==
    {x \in run[r].results :
        /\ air[x].status = "succeeded" /\ Place[x[2]] = Place[h]
        /\ air[x].hash \notin Read \cap WindowsOf(text)
        /\ <<x[2], h>> \in Phrase}

\* carry_analysis_forward can keep run r for the current text.
CanCarry(r) ==
    /\ IsNewest(r) /\ run[text].status = "none"
    /\ \A h \in WindowsOf(text) \ Read : Carries(r, h) # {}

\* Run r and the readings it needs are re-keyed to the current text.
Carry(r) ==
    LET missing == WindowsOf(text) \ Read
        rekeyed == [h \in missing |-> CHOOSE x \in Carries(r, h) : TRUE]
        moved(x) == \E h \in missing : rekeyed[h] = x
        now(t) == IF t = r THEN text ELSE t
    IN
    /\ run' = [run EXCEPT ![text] = run[r], ![r] = NoRun]
    /\ made' = [i \in DOMAIN made |-> now(made[i])]
    /\ air' = [x \in Ids |->
                 [air[x] EXCEPT !.of = now(@),
                                !.hash = IF moved(x)
                                         THEN CHOOSE h \in missing : rekeyed[h] = x
                                         ELSE @]]
    /\ msg' = [m \in Asks |-> [msg[m] EXCEPT !.run = now(@)]]
    /\ toProject' = {now(t) : t \in toProject} \cup {text}

\* _requeue_analysis_after_commit: the newest run is of this very text and nothing is asked,
\* or its readings are carried, or the text is analysed anew.
AfterEdit ==
    /\ edits > 0
    /\ edits' = edits - 1
    /\ \/ /\ text = NoText \/ IsNewest(text)
          /\ UNCHANGED <<run, made, air, msg, toProject, asked>>
       \/ /\ text # NoText /\ ~IsNewest(text)
          /\ \E r \in Texts : CanCarry(r) /\ Carry(r)
          /\ UNCHANGED asked
       \/ /\ text # NoText /\ ~IsNewest(text)
          /\ \A r \in Texts : ~CanCarry(r)
          /\ QueueAnalysis /\ UNCHANGED air
    /\ UNCHANGED <<text, worker, shown, tokens, edited, lost>>

\* purge_edition: the edition goes with its runs and projections; the ledger keeps its rows
\* without the book's words.
Purge ==
    /\ text # NoText
    /\ text' = NoText
    /\ run' = [t \in Texts |-> NoRun]
    /\ made' = <<>>
    /\ air' = [x \in Ids |-> [air[x] EXCEPT !.words = FALSE]]
    /\ shown' = [of |-> NoText, read |-> {}, any |-> FALSE]
    /\ toProject' = {}
    /\ UNCHANGED <<msg, worker, edits, tokens, asked, edited, lost>>

--------------------------------------------------------------------------------
(* Time and losses.                                                          *)

\* Nobody has touched a running run for another while; retries that waited are due.
Tick ==
    /\ \/ \E t \in Texts : run[t].status = "running" /\ run[t].age < OldTicks
       \/ \E m \in Asks : msg[m].at = "delayed"
    /\ Prompt => \A w \in Workers :
          worker[w].at # "idle" /\ Holds(w) => run[worker[w].run].age + 1 < LeaseTicks
    /\ run' = [t \in Texts |-> IF run[t].status = "running" /\ run[t].age < OldTicks
                               THEN [run[t] EXCEPT !.age = @ + 1] ELSE run[t]]
    /\ msg' = [m \in Asks |-> IF msg[m].at = "delayed"
                              THEN [msg[m] EXCEPT !.at = "ready"] ELSE msg[m]]
    /\ UNCHANGED <<text, made, air, worker, shown, toProject, edits, tokens, asked, edited, lost>>

\* close_abandoned_runs.
CloseAbandoned(t) ==
    /\ run[t].status = "running" /\ run[t].age = OldTicks
    /\ run' = Marked(t, "failed")
    /\ UNCHANGED <<text, made, air, msg, worker, shown, toProject, edits, tokens, asked, edited, lost>>

\* A worker restarts and the broker delivers its unacknowledged message again; or its process
\* is killed and Celery acknowledges the message in its place.
Lose(w, kind) ==
    /\ worker[w].at # "idle" /\ lost < MaxLosses
    /\ lost' = lost + 1
    /\ msg' = [msg EXCEPT ![worker[w].msg].at = IF kind = "restart" THEN "ready" ELSE "gone"]
    /\ worker' = [worker EXCEPT ![w] = Idle]
    /\ UNCHANGED <<text, run, made, air, shown, toProject, edits, tokens, asked, edited>>

--------------------------------------------------------------------------------
Take(w, m) == TakeSettled(w, m) \/ TakeBusy(w, m) \/ Claim(w, m)

Work(w) ==
    \/ Project(w) \/ Check(w) \/ Look(w) \/ Answer(w) \/ Save(w)
    \/ Record(w) \/ Finish(w) \/ GiveUp(w)

Next ==
    \/ Ask \/ AfterEdit \/ Purge \/ Tick
    \/ \E m \in Asks : Dispatch(m)
    \/ \E w \in Workers, m \in Asks : Take(w, m)
    \/ \E w \in Workers : Work(w)
    \/ \E w \in Workers, kind \in Losses \ {"dispatch"} : Lose(w, kind)
    \/ \E t \in Texts : RefreshTask(t) \/ Edit(t) \/ CloseAbandoned(t)

Spec == Init /\ [][Next]_vars

\* The broker delivers, workers that are up go on with what they took, and time passes.
\* Nobody has to ask, edit, purge, close a run or die.
Fairness ==
    /\ WF_vars(Tick) /\ WF_vars(AfterEdit)
    /\ \A m \in Asks : WF_vars(Dispatch(m))
    /\ WF_vars(\E w \in Workers, m \in Asks : Take(w, m))
    /\ \A w \in Workers : WF_vars(Work(w))
    /\ \A t \in Texts : WF_vars(RefreshTask(t))

FairSpec == Spec /\ Fairness

--------------------------------------------------------------------------------
(* Properties.                                                               *)

\* Every variable has its type.
TypeOK ==
    /\ text \in Texts \cup {NoText}
    /\ run \in [Texts -> Runs]
    /\ made \in Seq(Texts)
    /\ air \in [Ids -> Rows]
    /\ msg \in [Asks -> Messages]
    /\ worker \in [Workers -> Jobs]
    /\ shown \in [of : Texts \cup {NoText}, read : SUBSET Windows, any : BOOLEAN]
    /\ toProject \subseteq Texts
    /\ edits \in 0 .. edited /\ tokens \in 0 .. MaxClaims /\ asked \in 0 .. MaxAsks
    /\ edited \in 0 .. MaxEdits /\ lost \in 0 .. MaxLosses

\* An analysis that succeeded has a validated reading of every window of its text, whichever
\* workers took the run over from one another, died in it or answered late: queue_analysis
\* never starts such a run again, so a window missing from it would stay missing.
SucceededIsRead == \A t \in Texts : run[t].status = "succeeded" => WindowsOf(t) \subseteq Read

\* A purged book's words are in no ledger row, although calls made before the purge may be
\* answered after it (_record_response: late responses must not resurrect text).
PurgedIsGone == text = NoText => \A x \in Ids : ~air[x].words

\* No window is paid for twice: a window has one validated reading at most, however often the
\* analysis is asked for, delivered again or taken over from a worker that died.  Only two texts
\* an edit parts, analysed at the same time, may each pay for a window they share (_attempt).
ReadOnce ==
    \A h \in Windows : \A x, y \in Readings(h) : x = y \/ (edited > 0 /\ air[x].of # air[y].of)

\* A run under way is closed, and its results are written, by the worker whose token it
\* carries and by no worker that was superseded; besides, the janitor closes a run nobody
\* has touched for hours.
SettledByItsHolder ==
    [][\A t \in Texts :
         /\ text' # NoText /\ run[t].status = "running" /\ run'[t].lease = run[t].lease
         /\ \/ run'[t].status \in {"succeeded", "failed", "cancelled"}
            \/ run'[t].results # run[t].results
         => \/ \E w \in Workers : /\ worker[w].run = t /\ worker[w].token = run[t].lease
                                  /\ worker'[w] # worker[w]
            \/ run[t].age = OldTicks /\ run'[t].status = "failed"]_vars

\* An analysis that was asked for does not stay queued or running for ever: a worker restarted
\* in the middle of it leaves a message that comes round after the lease, and the retries of
\* a message outlast the lease of a worker that died.
AskedIsSettled ==
    \A t \in Texts : run[t].status \in {"queued", "running"}
                       ~> run[t].status \notin {"queued", "running"}

----------------------------------------------------------------------------
(* What is said of the code and does not hold (README, departures).        *)

\* When the text is one whose analysis succeeded, the edition comes to show that analysis,
\* without anybody asking for it: _requeue_analysis_after_commit follows every revision.
RevertIsShown ==
    \A t \in Texts : text = t /\ run[t].status = "succeeded"
                       ~> ProjectionState = "complete" \/ text # t \/ run[t].status # "succeeded"

================================================================================
