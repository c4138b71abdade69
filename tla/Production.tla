------------------------------ MODULE Production -------------------------------
(***************************************************************************)
(* One production: catalog/production.py, from queue_production to _finish. *)
(*                                                                          *)
(* A production keeps its cursors, counters and outcomes in the summary of  *)
(* its run (row).  A tick copies them (mem), moves each track by one step   *)
(* per round and saves the round; what a step does to editions and jobs is  *)
(* committed at once, so a worker that dies between the two leaves the      *)
(* world ahead of the row.  The jobs run elsewhere and end in their own     *)
(* time.  One tick runs at a time (_one_tick's lock).                       *)
(***************************************************************************)
EXTENDS Naturals, Sequences, FiniteSets

CONSTANTS
    Rungs,          \* PROBE_LEVELS, highest first
    Levels,         \* the levels asked for
    Languages,      \* the languages asked for, in order
    Source,         \* the source edition, where the probes and its own analysis run
    Chapters,       \* sequences of the body chapters
    TooLong,        \* the chapters that do not fit one pilot
    Paras,          \* paragraphs a serious finding can name
    Starts,         \* STARTS
    SettleRounds,   \* SETTLE_ROUNDS
    SignOffs,       \* the values of sign_off a production may be queued with
    PromoteTo,      \* promote_to is given
    MaxCrashes, MaxBreaks, MaxEdits, MaxStalls, \* bounds of the model, each kind
    MaxTroubles                              \* and all kinds of troubles together

Names(s) == {s[i] : i \in DOMAIN s}
Distinct(s) == \A i, j \in DOMAIN s : s[i] = s[j] => i = j

\* What queue_production makes of what it is asked for: at least one target, each named once, the
\* levels in the order of PROBE_LEVELS, and the language of the source not among the languages.
AskedInOrder ==
    /\ Levels \o Languages # <<>>
    /\ Distinct(Levels) /\ Distinct(Languages)
    /\ \A i, j \in DOMAIN Levels : i < j =>
          \E a, b \in DOMAIN Rungs : a < b /\ Rungs[a] = Levels[i] /\ Rungs[b] = Levels[j]
    /\ Names(Levels) \subseteq Names(Rungs)

ASSUME ProductionAssumption ==
    /\ Rungs \in Seq(STRING) /\ Levels \in Seq(STRING) /\ Languages \in Seq(STRING)
    /\ AskedInOrder
    /\ Source \in STRING /\ Source \notin Names(Rungs) \cup Names(Languages)
    /\ Names(Rungs) \cap Names(Languages) = {}
    /\ Chapters \subseteq Nat /\ TooLong \subseteq Chapters
    /\ Starts \in Nat \ {0} /\ SettleRounds \in Nat
    /\ SignOffs \subseteq BOOLEAN /\ PromoteTo \in BOOLEAN
    /\ {MaxCrashes, MaxBreaks, MaxEdits, MaxStalls, MaxTroubles} \subseteq Nat

VARIABLES
    row,        \* the production as it is saved
    mem,        \* the tick's copy of it
    tick,       \* the tick under way
    source,     \* the source edition: whether its levels are read, the rungs below its own
    ed,         \* the edition of each target
    job,        \* the jobs, by target and kind
    unreached,  \* the levels the ladder remembers as not reached
    begun,      \* the targets work was begun for
    hurt,       \* the targets a job of which failed or went silent, or that a person edited
    torn,       \* the levels whose text was changed without the saved row knowing
    crashes, breaks, edits, stalls  \* what happened so far

vars == <<row, mem, tick, source, ed, job, unreached, begun, hurt, torn,
          crashes, breaks, edits, stalls>>
world == <<source, ed, job, unreached, begun>>
happened == <<hurt, torn, crashes, breaks, edits, stalls>>

Bearable == crashes + breaks + edits + stalls < MaxTroubles

Targets == Names(Levels) \cup Names(Languages)
Lists == [levels |-> Levels, languages |-> Languages]
Tracks == {k \in {"levels", "languages"} : Lists[k] # <<>>}

Promise == INSTANCE Ladder WITH outcome <- row.outcome, spent <- begun,
    status <- IF row.status \in {"queued", "running"} THEN "open" ELSE row.status

Steps == {"source", "probe", "write", "levels", "mend", "audit", "settle", "verdict", "promote",
          "translate", "review", "corrections"}
Jobs == {<<Source, "analysis">>}
        \cup (Names(Rungs) \X {"probe", "book", "analysis", "audit"})
        \cup (Names(Languages) \X {"translation", "review"})
        \cup (Targets \X {"promotion"})
\* Jobs whose row is made by the worker that takes the message, not by the step that sends it.
Unseen == Names(Languages) \X {"translation", "review"}
JobStates == {"none", "sent", "active", "stalled", "void", "failed", "refused", "done", "declined"}
Tries == {"paragraphs", "chapter"}
Severities == {"material", "minor"}

Productions == [
    status : {"queued", "running", "succeeded", "failed"}, rights : BOOLEAN, signOff : BOOLEAN,
    track : [Tracks -> [index : Nat, step : Steps, old : BOOLEAN]],
    outcome : [Targets -> Promise!Outcomes],
    editions : SUBSET Targets, books : SUBSET Targets, promoted : SUBSET Targets,
    starts : [Jobs -> Nat], errors : [Targets \X Steps -> Nat],
    mended : [Names(Levels) -> [Chapters -> SUBSET Tries]],
    settled : [Targets -> Nat], repaired : [Names(Levels) -> SUBSET Paras]]
Editions == [text : {"none", "empty", "review", "ready"}, read : BOOLEAN,
             above : SUBSET Chapters, over : BOOLEAN, audited : BOOLEAN,
             fixes : SUBSET Severities, stuck : SUBSET Paras, alone : BOOLEAN]

NoEdition == [text |-> "none", read |-> FALSE, above |-> {}, over |-> FALSE, audited |-> FALSE,
              fixes |-> {}, stuck |-> {}, alone |-> FALSE]
Closed == [open |-> FALSE, todo |-> {}, moved |-> {}]

--------------------------------------------------------------------------------
(* What the steps read.                                                      *)

Standing == {"review", "ready"}
Running == {"active", "void"}

Ended(p, k) == p.track[k].index > Len(Lists[k])
Finished(p) == \A k \in Tracks : Ended(p, k)
Target(k) == Lists[k][mem.track[k].index]

\* _first_step.
FirstStep(k) == IF k = "levels" THEN "probe" ELSE "translate"

\* _busy: the edition's own jobs that are queued, or running and not silent.
Busy(t) == \E kind \in {"book", "analysis", "audit", "promotion", "review"} :
              <<t, kind>> \in Jobs /\ job[<<t, kind>>] \in Running

\* The jobs whose failures _refused looks at: the source's, and those of the target's edition.
Watched(t) ==
    {j \in Jobs : \/ j[1] = Source \/ j[2] = "probe"
                  \/ j[1] = t /\ t \in mem.editions /\ j[2] # "translation"}

\* edition_gates of a level; for a language, no agreed serious finding is left.
Gates(t) ==
    IF t \in Names(Languages)
    THEN ed[t].text \in Standing /\ ed[t].stuck = {} /\ "material" \notin ed[t].fixes
    ELSE /\ ed[t].text \in Standing /\ ed[t].read /\ ~ed[t].over
         /\ ed[t].audited /\ ed[t].stuck = {} /\ "material" \notin ed[t].fixes /\ ~ed[t].alone

\* The state of a row of the source's ladder.
Rung(t) ==
    LET probe == job[<<t, "probe">>] IN
    IF Gates(t) THEN "reached"
    ELSE IF t \in unreached THEN "not_reached"
    ELSE CASE probe \in {"active", "stalled"} -> "probing"
           [] probe \in {"failed", "refused"} -> "error"
           [] probe = "done" -> "probe_passed"
           [] probe = "declined" -> "probe_failed"
           [] OTHER -> IF ed[t].text # "none" THEN "generated" ELSE "untried"

\* can_probe: the rung above is reached or worth writing, or this is the top of the ladder.
CanProbe(t) ==
    /\ Rung(t) \in {"untried", "error"}
    /\ \A i \in DOMAIN Rungs :
          i + 1 \in DOMAIN Rungs /\ Rungs[i + 1] = t /\ Rungs[i] \in source.rungs
            => Rung(Rungs[i]) \in {"reached", "probe_passed"}

--------------------------------------------------------------------------------
(* What a step answers.                                                      *)

\* Track k was asked in this round and waits.
Stays(k) == [tick EXCEPT !.todo = @ \ {k}]
\* It moved to another step.
Moved(k) == [tick EXCEPT !.todo = @ \ {k}, !.moved = @ \cup {k}]

\* ("goto", s): the cursor goes to another step.
GoTo(k, s, p) ==
    /\ mem' = [p EXCEPT !.track[k] = [@ EXCEPT !.step = s, !.old = FALSE]]
    /\ tick' = Moved(k)

\* _apply of an outcome: the next target, or past the end when the ladder stops here.
Close(k, o, p) ==
    LET at == p.track[k].index
        stops == k = "levels" /\ o \notin Promise!Good
        below == {Lists[k][i] : i \in at + 1 .. Len(Lists[k])}
        for == IF o = "not_reached" THEN "not_reached" ELSE "not_attempted"
    IN
    /\ mem' = [p EXCEPT
                 !.outcome = [t \in Targets |-> IF t = Lists[k][at] THEN o
                                                ELSE IF stops /\ t \in below THEN for ELSE @[t]],
                 !.track[k] = IF stops
                              THEN [@ EXCEPT !.index = Len(Lists[k]) + 1]
                              ELSE [index |-> at + 1, step |-> FirstStep(k), old |-> FALSE]]
    /\ tick' = Moved(k)

\* Mutant: a step waits for as long as its job takes.
WaitOn(k, p) == mem' = p /\ tick' = Stays(k)

\* ("wait", why): nothing changes, unless the step has lasted longer than STEP_TIMEOUT.
Wait(k, p) ==
    IF p.track[k].old THEN Close(k, "timeout", p) ELSE mem' = p /\ tick' = Stays(k)

\* Mutant: one start too many.
StartOver(k, j, limit, p) ==
    IF p.starts[j] > limit
    THEN Close(k, "started", p) /\ UNCHANGED <<job, begun>>
    ELSE /\ job' = [job EXCEPT ![j] = IF j \in Unseen THEN "sent" ELSE "active"]
         /\ begun' = begun \cup {Target(k)}
         /\ Wait(k, [p EXCEPT !.starts[j] = @ + 1])

\* _started and the call it guards: the job is begun and waited for.
Start(k, j, limit, p) ==
    IF p.starts[j] >= limit
    THEN Close(k, "started", p) /\ UNCHANGED <<job, begun>>
    ELSE /\ job' = [job EXCEPT ![j] = IF j \in Unseen THEN "sent" ELSE "active"]
         /\ begun' = begun \cup {Target(k)}
         /\ Wait(k, [p EXCEPT !.starts[j] = @ + 1])

\* The step raised: it is tried again on the next call, STARTS + 1 times.
Raise(k, p) ==
    LET e == <<Target(k), p.track[k].step>> IN
    IF p.errors[e] >= Starts + 1
    THEN Close(k, "error", p)
    ELSE mem' = [p EXCEPT !.errors[e] = @ + 1] /\ tick' = Stays(k)

\* The text of a level's edition changed: its readings and its audit are of another text, and
\* _requeue_analysis_after_commit carries the reading or asks for a new one.
Rewritten(e, carried) ==
    [e EXCEPT !.audited = FALSE, !.read = carried,
              !.above = IF carried THEN @ ELSE {}, !.over = carried /\ @]
Rejudged(t, carried) ==
    [job EXCEPT ![<<t, "analysis">>] = IF carried THEN @ ELSE "active"]

\* A change counted for level t: its reading and its audit are counted anew (_changes).
Counted(t, p) == [p EXCEPT !.starts[<<t, "analysis">>] = 0, !.starts[<<t, "audit">>] = 0]

\* The tick asks track k for step s.
At(k, s) ==
    /\ tick.open /\ k \in tick.todo
    /\ k = "languages" => "levels" \notin tick.todo
    /\ mem.track[k].step = s
    /\ \A j \in Watched(Target(k)) : job[j] # "refused"
\* _edition finds the target's edition.
AtEdition(k, s) == At(k, s) /\ ed[Target(k)].text # "none"

\* What no step touches, and what a step that only looks leaves alone besides.
Apart == UNCHANGED <<row, source>> /\ UNCHANGED happened
Looks == UNCHANGED <<ed, job, unreached, begun>>

--------------------------------------------------------------------------------
(* The steps of the levels' track.                                           *)

\* _source.
ReadSource(k) ==
    LET j == <<Source, "analysis">> IN
    /\ At(k, "source")
    /\ \/ source.read /\ GoTo(k, "probe", mem) /\ UNCHANGED <<job, begun>>
       \/ ~source.read /\ job[j] = "active" /\ Wait(k, mem) /\ UNCHANGED <<job, begun>>
       \/ ~source.read /\ job[j] # "active" /\ Start(k, j, Starts, mem)
    /\ UNCHANGED <<ed, unreached>> /\ Apart

\* _probe, a level the book itself reads at.
ProbeNotNeeded(k) ==
    /\ At(k, "probe") /\ Target(k) \notin source.rungs
    /\ Close(k, "not_needed", mem)
    /\ Looks /\ Apart

\* _probe, a level that was tried before and not reached.
ProbeNotReached(k) ==
    /\ At(k, "probe") /\ Target(k) \in source.rungs
    /\ Rung(Target(k)) \in {"not_reached", "probe_failed"}
    /\ Close(k, "not_reached", mem)
    /\ Looks /\ Apart

\* _probe, a level an edition exists for, whoever made it.
ProbeAdopts(k) ==
    LET t == Target(k) IN
    /\ At(k, "probe") /\ t \in source.rungs
    /\ Rung(t) \notin {"not_reached", "probe_failed"}
    /\ Rung(t) \in {"reached", "generated"} \/ ed[t].text \in Standing
    /\ GoTo(k, "levels", [mem EXCEPT !.editions = @ \cup {t}])
    /\ Looks /\ Apart

\* _probe, a level without a text.
Probe(k) ==
    LET t == Target(k) IN
    /\ At(k, "probe") /\ t \in source.rungs /\ ed[t].text \notin Standing
    /\ \/ Rung(t) = "probe_passed" /\ GoTo(k, "write", mem) /\ UNCHANGED <<job, begun>>
       \/ Rung(t) = "probing" /\ Wait(k, mem) /\ UNCHANGED <<job, begun>>
       \/ /\ Rung(t) \in {"untried", "error"} /\ ~CanProbe(t)
          /\ Close(k, "no_probe", mem) /\ UNCHANGED <<job, begun>>
       \/ CanProbe(t) /\ Start(k, <<t, "probe">>, Starts, mem)
    /\ UNCHANGED <<ed, unreached>> /\ Apart

\* _write, with no start to make.
WriteWaits(k) ==
    LET t == Target(k)
        known == t \in mem.books
    IN
    /\ At(k, "write")
    /\ \/ ~known /\ ed[t].text \in Standing
             /\ GoTo(k, "levels", [mem EXCEPT !.editions = @ \cup {t}])
       \/ known /\ job[<<t, "book">>] = "done" /\ GoTo(k, "levels", mem)
       \/ known /\ job[<<t, "book">>] \in {"active", "stalled"} /\ Wait(k, mem)
    /\ Looks /\ Apart

\* _write and queue_book: the edition is made, or the one an earlier write began is taken; a
\* write that is under way is not begun again.
Write(k) ==
    LET t == Target(k)
        b == <<t, "book">>
        here == [mem EXCEPT !.books = @ \cup {t}, !.editions = @ \cup {t}]
    IN
    /\ At(k, "write") /\ ed[t].text \notin Standing
    /\ t \notin mem.books \/ job[b] = "failed"
    /\ IF mem.starts[b] >= Starts
       THEN Close(k, "started", mem) /\ Looks
       ELSE /\ job' = [job EXCEPT ![b] = IF @ = "stalled" THEN @ ELSE "active"]
            /\ ed' = [ed EXCEPT ![t].text = "empty"]
            /\ begun' = begun \cup {t}
            /\ Wait(k, [here EXCEPT !.starts[b] = @ + 1])
            /\ UNCHANGED unreached
    /\ Apart

\* _levels.
JudgeLevels(k) ==
    LET t == Target(k) IN
    /\ AtEdition(k, "levels")
    /\ \/ Busy(t) /\ Wait(k, mem) /\ UNCHANGED <<job, begun>>
       \/ ~Busy(t) /\ ed[t].read /\ GoTo(k, "mend", mem) /\ UNCHANGED <<job, begun>>
       \/ ~Busy(t) /\ ~ed[t].read /\ Start(k, <<t, "analysis">>, Starts + 1, mem)
    /\ UNCHANGED <<ed, unreached>> /\ Apart

\* The tries _mend has made once it leaves chapter c of level t: both at every chapter above
\* the target before c, and these at c.
Through(t, c, tries) ==
    [x \in Chapters |-> IF x = c THEN tries
                        ELSE IF x \in ed[t].above /\ x < c THEN Tries
                        ELSE mem.mended[t][x]]
Mended(t, tries) ==
    IF tries = mem.mended[t] THEN mem ELSE Counted(t, [mem EXCEPT !.mended[t] = tries])

\* _mend with no chapter above the target, or without a reading of the text.
MendNothing(k) ==
    LET t == Target(k) IN
    /\ AtEdition(k, "mend") /\ ed[t].above = {}
    /\ IF ed[t].read THEN GoTo(k, "audit", mem) ELSE Close(k, "unread", mem)
    /\ Looks /\ Apart

\* Mutant: the rewritten chapter is not read again before the audit.
MendAudits(k) ==
    LET t == Target(k) IN
    /\ AtEdition(k, "mend")
    /\ \E c \in ed[t].above, try \in Tries :
          /\ try \notin mem.mended[t][c] /\ (try = "chapter" => c \notin TooLong)
          /\ GoTo(k, "audit", Mended(t, Through(t, c, mem.mended[t][c] \cup {try})))
    /\ ed' = [ed EXCEPT ![t] = Rewritten(@, FALSE)]
    /\ job' = Rejudged(t, FALSE)
    /\ begun' = begun \cup {t}
    /\ UNCHANGED unreached /\ Apart

\* _mend up to the first chapter whose paragraphs, or whose whole text, were rewritten.
Mend(k) ==
    LET t == Target(k) IN
    /\ AtEdition(k, "mend")
    /\ \E c \in ed[t].above, try \in Tries :
          /\ try \notin mem.mended[t][c] /\ (try = "chapter" => c \notin TooLong)
          /\ GoTo(k, "levels", Mended(t, Through(t, c, IF try = "chapter" THEN Tries
                                                       ELSE mem.mended[t][c] \cup {try})))
    /\ ed' = [ed EXCEPT ![t] = Rewritten(@, FALSE)]
    /\ job' = Rejudged(t, FALSE)
    /\ begun' = begun \cup {t}
    /\ UNCHANGED unreached /\ Apart

\* The adapter does not answer for a chapter.
MendBreaks(k) ==
    LET t == Target(k) IN
    /\ AtEdition(k, "mend") /\ breaks < MaxBreaks /\ Bearable
    /\ \E c \in ed[t].above : /\ mem.mended[t][c] # Tries
                              /\ Raise(k, Mended(t, Through(t, c, mem.mended[t][c])))
    /\ breaks' = breaks + 1
    /\ Looks /\ UNCHANGED <<row, source, hurt, torn, crashes, edits, stalls>>

\* The chapters above the target this call of _mend found too long for one pilot.
Unrewritable(t) == {c \in ed[t].above \cap TooLong : "chapter" \notin mem.mended[t][c]}

AllTried(t) == Mended(t, [x \in Chapters |-> IF x \in ed[t].above THEN Tries ELSE mem.mended[t][x]])

\* _mend after both tries at every chapter, none of which changed anything in this call.
MendEnds(k) ==
    LET t == Target(k) IN
    /\ AtEdition(k, "mend") /\ ed[t].above # {}
    /\ \/ ~ed[t].over /\ GoTo(k, "audit", AllTried(t))
       \/ ed[t].over /\ Unrewritable(t) # {} /\ Close(k, "too_long", AllTried(t))
    /\ Looks /\ Apart

\* purge_edition: the edition of level t goes, and its runs with it.
Purge(t) ==
    /\ ed' = [ed EXCEPT ![t] = NoEdition]
    /\ job' = [j \in Jobs |-> IF j[1] = t /\ j[2] # "probe" THEN "none" ELSE job[j]]

\* _mend that gives the level up, and _drop.
Drop(k) ==
    LET t == Target(k) IN
    /\ AtEdition(k, "mend") /\ ed[t].over /\ Unrewritable(t) = {}
    /\ Purge(t)
    /\ unreached' = unreached \cup {t}
    /\ Close(k, "not_reached", [AllTried(t) EXCEPT !.editions = @ \ {t}])
    /\ UNCHANGED begun /\ Apart

\* The worker dies when the tick's cursor has gone on and the text of the saved row's level, which
\* it may have rewritten, is not read and audited: the row may stand past a reading of another text.
LosesSight ==
    IF "levels" \in Tracks /\ mem.track["levels"] # row.track["levels"]
    THEN {t \in Names(Levels) : /\ row.track["levels"].index \in DOMAIN Levels
                                /\ t = Levels[row.track["levels"].index]
                                /\ ~(ed[t].read /\ ed[t].audited)}
    ELSE {}

\* The worker dies in _drop, after the purge has committed and before it is recorded.
DropDies(k) ==
    LET t == Target(k) IN
    /\ AtEdition(k, "mend") /\ ed[t].over /\ Unrewritable(t) = {} /\ crashes < MaxCrashes /\ Bearable
    /\ Purge(t)
    /\ crashes' = crashes + 1
    /\ mem' = row /\ tick' = Closed
    /\ torn' = torn \cup {t}
    /\ UNCHANGED <<row, source, unreached, begun, hurt, breaks, edits, stalls>>

\* _audit.
Audit(k) ==
    LET t == Target(k) IN
    /\ AtEdition(k, "audit")
    /\ \/ Busy(t) /\ Wait(k, mem) /\ UNCHANGED <<job, begun>>
       \/ ~Busy(t) /\ ed[t].audited /\ GoTo(k, "settle", mem) /\ UNCHANGED <<job, begun>>
       \/ ~Busy(t) /\ ~ed[t].audited /\ Start(k, <<t, "audit">>, Starts, mem)
    /\ UNCHANGED <<ed, unreached>> /\ Apart

\* The paragraphs serious agreed findings name that the adapter was not yet given.
Stuck(t) == ed[t].stuck \ mem.repaired[t]

\* A round of corrections of level t.
Round(t, p) == Counted(t, [p EXCEPT !.settled[t] = @ + 1])

\* _settle with nothing left to do, or no round left to do it in.
SettleNothing(k) ==
    LET t == Target(k) IN
    /\ AtEdition(k, "settle")
    /\ \/ mem.settled[t] >= SettleRounds
       \/ ed[t].fixes = {} /\ Stuck(t) = {}
    /\ GoTo(k, "verdict", mem)
    /\ Looks /\ Apart

\* apply_fidelity_findings: a correction that overlaps one already written in stays open.
Overlapping(fixes) == {left \in SUBSET fixes : left # fixes}

\* _settle that writes in what both auditors agree on.
Settle(k) ==
    LET t == Target(k) IN
    /\ AtEdition(k, "settle") /\ mem.settled[t] < SettleRounds /\ ed[t].fixes # {}
    /\ \E carried \in {FALSE, ed[t].read} :
          /\ \E left \in Overlapping(ed[t].fixes) :
                ed' = [ed EXCEPT ![t] = [Rewritten(@, carried) EXCEPT !.fixes = left]]
          /\ job' = Rejudged(t, carried)
    /\ GoTo(k, "levels", Round(t, mem))
    /\ UNCHANGED <<unreached, begun>> /\ Apart

\* _settle that gives the paragraphs of serious findings to the adapter, which may leave them all
\* as they are.
Repair(k) ==
    LET t == Target(k)
        p == [mem EXCEPT !.repaired[t] = @ \cup ed[t].stuck]
    IN
    /\ AtEdition(k, "settle") /\ mem.settled[t] < SettleRounds
    /\ ed[t].fixes = {} /\ Stuck(t) # {}
    /\ \/ GoTo(k, "verdict", p) /\ UNCHANGED <<ed, job>>
       \/ /\ GoTo(k, "levels", Round(t, p))
          /\ \E carried \in {FALSE, ed[t].read} :
                ed' = [ed EXCEPT ![t] = Rewritten(@, carried)] /\ job' = Rejudged(t, carried)
    /\ begun' = begun \cup {t}
    /\ UNCHANGED unreached /\ Apart

\* The adapter breaks at a later chapter, when the paragraphs of an earlier one are rewritten.
RepairBreaks(k) ==
    LET t == Target(k) IN
    /\ AtEdition(k, "settle") /\ mem.settled[t] < SettleRounds /\ breaks < MaxBreaks /\ Bearable
    /\ ed[t].fixes = {} /\ Stuck(t) # {}
    /\ \E some \in SUBSET Stuck(t) \ {Stuck(t), {}} :
          Raise(k, [mem EXCEPT !.repaired[t] = @ \cup some])
    /\ ed' = [ed EXCEPT ![t] = Rewritten(@, FALSE)]
    /\ job' = Rejudged(t, FALSE)
    /\ breaks' = breaks + 1
    /\ begun' = begun \cup {t} /\ torn' = torn \cup {t}
    /\ UNCHANGED <<row, source, unreached, hurt, crashes, edits, stalls>>

\* What follows a passed verdict: promotion, or the outcome.
Passed(k, p) == IF PromoteTo THEN GoTo(k, "promote", p) ELSE Close(k, "ready", p)

\* _sign_off, which holds the target when review items of another kind are open.
SignedOff(k, p) ==
    \/ Passed(k, p) /\ ed' = IF p.signOff THEN [ed EXCEPT ![Target(k)].text = "ready"] ELSE ed
    \/ p.signOff /\ Close(k, "review", p) /\ UNCHANGED ed

\* Mutant: only the difficulty gate is asked.
VerdictOnLevels(k) ==
    LET t == Target(k) IN
    /\ AtEdition(k, "verdict")
    /\ \/ ed[t].read /\ ~ed[t].over /\ SignedOff(k, mem)
       \/ ~(ed[t].read /\ ~ed[t].over)
             /\ Close(k, IF ed[t].read THEN "gates" ELSE "unread", mem) /\ UNCHANGED ed
    /\ UNCHANGED <<job, unreached, begun>> /\ Apart

\* _verdict.
Verdict(k) ==
    LET t == Target(k) IN
    /\ AtEdition(k, "verdict")
    /\ \/ Gates(t) /\ SignedOff(k, mem)
       \/ ~Gates(t) /\ Close(k, IF ed[t].read THEN "gates" ELSE "unread", mem) /\ UNCHANGED ed
    /\ UNCHANGED <<job, unreached, begun>> /\ Apart

\* _promote, before and after its promotion is queued.
Promote(k) ==
    LET t == Target(k)
        j == <<t, "promotion">>
    IN
    /\ AtEdition(k, "promote")
    /\ \/ /\ t \notin mem.promoted /\ ed[t].text # "ready"
          /\ Close(k, "promotion", mem) /\ UNCHANGED job
       \/ /\ t \notin mem.promoted /\ ed[t].text = "ready"
          /\ job' = [job EXCEPT ![j] = "active"]
          /\ Wait(k, [mem EXCEPT !.promoted = @ \cup {t}])
       \/ /\ t \in mem.promoted /\ UNCHANGED job
          /\ CASE job[j] = "done" -> Close(k, "ready", mem)
               [] job[j] \in {"failed", "refused"} -> Close(k, "promotion", mem)
               [] OTHER -> Wait(k, mem)
    /\ UNCHANGED <<ed, unreached, begun>> /\ Apart

--------------------------------------------------------------------------------
(* The steps of the languages' track.                                        *)

\* _translate: the translation that exists is taken, or one is made and its writing begun, again
\* whenever nobody is seen writing it.
Translate(k) ==
    LET t == Target(k)
        j == <<t, "translation">>
        here == [mem EXCEPT !.editions = @ \cup {t}]
    IN
    /\ At(k, "translate")
    /\ IF ed[t].text \in Standing
       THEN GoTo(k, "review", here) /\ UNCHANGED <<ed, job, begun>>
       ELSE /\ ed' = [ed EXCEPT ![t].text = "empty"]
            /\ IF job[j] = "active"
               THEN Wait(k, here) /\ UNCHANGED <<job, begun>>
               ELSE Start(k, j, Starts, here)
    /\ UNCHANGED unreached /\ Apart

\* _review.
Review(k) ==
    LET t == Target(k) IN
    /\ AtEdition(k, "review")
    /\ \/ Busy(t) /\ Wait(k, mem) /\ UNCHANGED <<job, begun>>
       \/ ~Busy(t) /\ ed[t].audited /\ GoTo(k, "corrections", mem) /\ UNCHANGED <<job, begun>>
       \/ ~Busy(t) /\ ~ed[t].audited /\ Start(k, <<t, "review">>, Starts, mem)
    /\ UNCHANGED <<ed, unreached>> /\ Apart

\* _corrections, the first time: what both editors agree on is written in.
Correct(k) ==
    LET t == Target(k) IN
    /\ AtEdition(k, "corrections") /\ mem.settled[t] = 0 /\ ed[t].fixes # {}
    /\ \E left \in Overlapping(ed[t].fixes) :
          ed' = [ed EXCEPT ![t].fixes = left, ![t].audited = FALSE]
    /\ GoTo(k, "corrections", [mem EXCEPT !.settled[t] = 1])
    /\ UNCHANGED <<job, unreached, begun>> /\ Apart

\* It raises, with the attempt already counted.
CorrectBreaks(k) ==
    LET t == Target(k) IN
    /\ AtEdition(k, "corrections") /\ mem.settled[t] = 0 /\ ed[t].fixes # {}
    /\ breaks < MaxBreaks /\ Bearable
    /\ Raise(k, [mem EXCEPT !.settled[t] = 1])
    /\ breaks' = breaks + 1
    /\ Looks /\ UNCHANGED <<row, source, hurt, torn, crashes, edits, stalls>>

\* Mutant: the round of corrections is not made before what is left is looked at.
CorrectionsFirst(k) ==
    LET t == Target(k) IN
    /\ AtEdition(k, "corrections")
    /\ \/ Gates(t) /\ SignedOff(k, mem)
       \/ ~Gates(t) /\ Close(k, "gates", mem) /\ UNCHANGED ed
    /\ UNCHANGED <<job, unreached, begun>> /\ Apart

\* _corrections, with nothing to write in any more.
Corrections(k) ==
    LET t == Target(k)
        p == [mem EXCEPT !.settled[t] = 1]
    IN
    /\ AtEdition(k, "corrections")
    /\ mem.settled[t] = 1 \/ ed[t].fixes = {}
    /\ \/ Gates(t) /\ SignedOff(k, p)
       \/ ~Gates(t) /\ Close(k, "gates", p) /\ UNCHANGED ed
    /\ UNCHANGED <<job, unreached, begun>> /\ Apart

--------------------------------------------------------------------------------
(* The tick.                                                                 *)

\* Track k is asked, and a job this production started was refused for a used-up allowance.
Refused(k) ==
    /\ tick.open /\ k \in tick.todo
    /\ k = "languages" => "levels" \notin tick.todo
    /\ \E j \in Watched(Target(k)) : job[j] = "refused"
    /\ Close(k, "refused", mem)
    /\ Looks /\ Apart

\* The edition the step names was purged.
EditionGone(k) ==
    /\ \E s \in Steps \ {"source", "probe", "write", "translate"} : At(k, s)
    /\ ed[Target(k)].text = "none"
    /\ Raise(k, mem)
    /\ Looks /\ Apart

\* A step raises before it has changed anything.
Break(k) ==
    /\ \E s \in Steps : At(k, s)
    /\ breaks < MaxBreaks /\ Bearable
    /\ breaks' = breaks + 1
    /\ Raise(k, mem)
    /\ Looks /\ UNCHANGED <<row, source, hurt, torn, crashes, edits, stalls>>

\* The first tick of a protected work: nothing is prepared, and the production is closed.
Protected ==
    LET first == (Levels \o Languages)[1] IN
    /\ ~tick.open /\ row.status = "queued"
    /\ row' = [row EXCEPT !.status = "failed",
                          !.outcome = [t \in Targets |-> IF t = first THEN "rights"
                                                         ELSE "not_attempted"],
                          !.track = [k \in Tracks |-> [@[k] EXCEPT !.index = Len(Lists[k]) + 1]]]
    /\ mem' = row'
    /\ UNCHANGED <<tick, world, happened>>

\* A tick begins, and asks each track that is not at its end.
Begin ==
    /\ ~tick.open /\ row.status \in {"queued", "running"}
    /\ mem' = [row EXCEPT !.status = "running", !.rights = TRUE]
    /\ tick' = [open |-> TRUE, todo |-> {k \in Tracks : ~Ended(row, k)}, moved |-> {}]
    /\ UNCHANGED <<row, world, happened>>

\* Mutant: the production is saved once, when the tick has nothing left to ask.
SaveLast ==
    /\ tick.open /\ tick.todo = {}
    /\ IF Finished(mem) \/ tick.moved = {}
       THEN /\ row' = IF Finished(mem) THEN [mem EXCEPT !.status = Promise!StatusOf(mem.outcome)]
                      ELSE mem
            /\ mem' = row' /\ tick' = Closed
       ELSE /\ tick' = [open |-> TRUE, moved |-> {},
                        todo |-> {k \in tick.moved : ~Ended(mem, k)}]
            /\ UNCHANGED <<row, mem>>
    /\ UNCHANGED <<world, happened>>

\* _advance_once has asked its tracks and saves; another round asks those that moved.
Save ==
    /\ tick.open /\ tick.todo = {}
    /\ row' = IF Finished(mem)
              THEN [mem EXCEPT !.status = Promise!StatusOf(mem.outcome)]
              ELSE mem
    /\ mem' = row'
    /\ tick' = IF Finished(mem) \/ tick.moved = {} THEN Closed
               ELSE [open |-> TRUE, moved |-> {}, todo |-> {k \in tick.moved : ~Ended(mem, k)}]
    /\ UNCHANGED <<world, happened>>

\* The worker dies; the tick is delivered again.
Crash ==
    /\ tick.open /\ crashes < MaxCrashes /\ Bearable
    /\ crashes' = crashes + 1
    /\ tick' = Closed /\ mem' = row
    /\ torn' = torn \cup LosesSight
    /\ UNCHANGED <<row, world, hurt, breaks, edits, stalls>>

\* A step has lasted longer than STEP_TIMEOUT.
TimePasses(k) ==
    /\ row.status = "running" /\ ~Ended(row, k) /\ ~row.track[k].old
    /\ row' = [row EXCEPT !.track[k].old = TRUE]
    /\ mem' = IF mem.track[k] = row.track[k] THEN [mem EXCEPT !.track[k].old = TRUE] ELSE mem
    /\ UNCHANGED <<tick, world, happened>>

--------------------------------------------------------------------------------
(* What happens elsewhere.                                                   *)

Elsewhere == UNCHANGED <<row, mem, tick, unreached, begun>>

\* A worker takes the message and makes the row the production looks for.
Taken(j) ==
    /\ job[j] = "sent"
    /\ job' = [job EXCEPT ![j] = "active"]
    /\ UNCHANGED <<source, ed>> /\ UNCHANGED happened /\ Elsewhere

\* What a finished job leaves behind.
Findings(e, fixes, stuck, alone) ==
    [e EXCEPT !.audited = TRUE, !.fixes = fixes, !.stuck = stuck, !.alone = alone]

Done(j) ==
    LET t == j[1] IN
    /\ job[j] = "active"
    /\ \/ /\ j = <<Source, "analysis">>
          /\ source' = [source EXCEPT !.read = TRUE]
          /\ job' = [job EXCEPT ![j] = "done"] /\ UNCHANGED ed
       \/ /\ j[2] = "probe"
          /\ \E verdict \in {"done", "declined"} : job' = [job EXCEPT ![j] = verdict]
          /\ UNCHANGED <<source, ed>>
       \/ /\ j[2] = "book"        \* and enrich_adapted_book asks for its reading
          /\ ed' = [ed EXCEPT ![t].text = "review"]
          /\ job' = [job EXCEPT ![j] = "done", ![<<t, "analysis">>] = "active"]
          /\ UNCHANGED source
       \/ /\ j[2] = "analysis" /\ t # Source
          /\ \E above \in SUBSET Chapters, over \in BOOLEAN :
                /\ over => above # {}
                /\ ed' = [ed EXCEPT ![t].read = TRUE, ![t].above = above, ![t].over = over]
          /\ job' = [job EXCEPT ![j] = "done"] /\ UNCHANGED source
       \/ /\ j[2] = "translation"
          /\ ed' = [ed EXCEPT ![t].text = "review"]
          /\ job' = [job EXCEPT ![j] = "done"] /\ UNCHANGED source
       \/ /\ j[2] \in {"audit", "review"}
          /\ \E fixes \in SUBSET Severities, stuck \in SUBSET Paras, alone \in BOOLEAN :
                ed' = [ed EXCEPT ![t] = Findings(@, fixes, stuck, alone)]
          /\ job' = [job EXCEPT ![j] = "done"] /\ UNCHANGED source
       \/ /\ j[2] = "promotion"
          /\ job' = [job EXCEPT ![j] = "done"] /\ UNCHANGED <<source, ed>>
    /\ UNCHANGED happened /\ Elsewhere

\* A job fails, in its own way or because the plan's allowance is used up.
Fails(j) ==
    /\ job[j] = "active"
    /\ \E how \in {"failed"} \cup (IF j[2] \in {"promotion", "translation"} THEN {} ELSE {"refused"}) :
          job' = [job EXCEPT ![j] = how]
    /\ hurt' = hurt \cup {j[1]}
    /\ UNCHANGED <<source, ed, torn, crashes, breaks, edits, stalls>> /\ Elsewhere

\* The worker of a job dies, and its row goes silent.
GoesSilent(j) ==
    /\ job[j] = "active" /\ stalls < MaxStalls /\ Bearable
    /\ job' = [job EXCEPT ![j] = "stalled"]
    /\ stalls' = stalls + 1
    /\ hurt' = hurt \cup {j[1]}
    /\ UNCHANGED <<source, ed, torn, crashes, breaks, edits>> /\ Elsewhere

\* close_abandoned_runs: a silent job of a kind one process works on is closed.
Abandoned(j) ==
    /\ job[j] = "stalled" /\ j[2] \in {"analysis", "probe", "book", "audit"}
    /\ job' = [job EXCEPT ![j] = "failed"]
    /\ UNCHANGED <<source, ed>> /\ UNCHANGED happened /\ Elsewhere

\* An audit or a review whose text changed under it ends without being the current text's.
EndsStale(j) ==
    /\ job[j] = "void"
    /\ job' = [job EXCEPT ![j] = "none"]
    /\ UNCHANGED <<source, ed>> /\ UNCHANGED happened /\ Elsewhere

\* A person edits a target's text.
HumanEdit(t) ==
    LET checks == {<<t, "audit">>, <<t, "review">>} IN
    /\ ed[t].text \in Standing /\ edits < MaxEdits /\ Bearable
    /\ edits' = edits + 1 /\ hurt' = hurt \cup {t} /\ torn' = torn \cup {t}
    /\ \E carried \in {FALSE, ed[t].read} :
          /\ ed' = [ed EXCEPT ![t] = Rewritten(@, carried)]
          /\ job' = [j \in Jobs |->
                       IF job[j] = "refused" THEN job[j]
                       ELSE IF j \in checks /\ job[j] \in {"active", "stalled"} THEN "void"
                       ELSE IF j \in checks THEN "none"
                       ELSE IF j = <<t, "analysis">> /\ ~carried /\ job[j] # "none" THEN "active"
                       ELSE job[j]]
    /\ UNCHANGED <<source, crashes, breaks, stalls>> /\ Elsewhere

--------------------------------------------------------------------------------
NewTrack(k) == [index |-> 1, step |-> IF k = "levels" THEN "source" ELSE "translate", old |-> FALSE]

\* queue_production, for a source whose levels may be read, with or without an edition of a
\* level that somebody wrote before.
Init ==
    /\ \E signOff \in SignOffs : row =
            [status |-> "queued", rights |-> FALSE, signOff |-> signOff,
             track |-> [k \in Tracks |-> NewTrack(k)],
             outcome |-> [t \in Targets |-> "open"], editions |-> {}, books |-> {},
             promoted |-> {}, starts |-> [j \in Jobs |-> 0],
             errors |-> [e \in Targets \X Steps |-> 0],
             mended |-> [t \in Names(Levels) |-> [c \in Chapters |-> {}]],
             settled |-> [t \in Targets |-> 0], repaired |-> [t \in Names(Levels) |-> {}]]
    /\ mem = row
    /\ tick = Closed
    /\ source \in [read : BOOLEAN,
                   rungs : {Names(SubSeq(Rungs, i, Len(Rungs))) : i \in 1 .. Len(Rungs) + 1}]
    /\ \E written \in SUBSET Names(Rungs) :
          ed = [t \in Names(Rungs) \cup Targets |->
                  IF t \in written THEN [NoEdition EXCEPT !.text = "review"] ELSE NoEdition]
    /\ job = [j \in Jobs |-> "none"]
    /\ unreached = {} /\ begun = {} /\ hurt = {} /\ torn = {}
    /\ crashes = 0 /\ breaks = 0 /\ edits = 0 /\ stalls = 0

Step(k) ==
    \/ ReadSource(k)
    \/ ProbeNotNeeded(k) \/ ProbeNotReached(k) \/ ProbeAdopts(k) \/ Probe(k)
    \/ WriteWaits(k) \/ Write(k) \/ JudgeLevels(k)
    \/ MendNothing(k) \/ Mend(k) \/ MendEnds(k) \/ Drop(k)
    \/ Audit(k) \/ SettleNothing(k) \/ Settle(k) \/ Repair(k) \/ Verdict(k) \/ Promote(k)
    \/ Translate(k) \/ Review(k) \/ Correct(k) \/ Corrections(k)
    \/ Refused(k) \/ EditionGone(k)

Fault(k) == MendBreaks(k) \/ DropDies(k) \/ RepairBreaks(k) \/ CorrectBreaks(k) \/ Break(k)

Outside(j) == Taken(j) \/ Done(j) \/ Fails(j) \/ GoesSilent(j) \/ Abandoned(j) \/ EndsStale(j)

Next ==
    \/ Protected \/ Begin \/ Save \/ Crash
    \/ \E k \in Tracks : Step(k) \/ Fault(k) \/ TimePasses(k)
    \/ \E j \in Jobs : Outside(j)
    \/ \E t \in Targets : HumanEdit(t)

Spec == Init /\ [][Next]_vars

\* The broker delivers the tick, the worker goes on with it, and time passes.  No job has to
\* end, and nobody has to edit.
Fairness ==
    /\ WF_vars(Begin) /\ WF_vars(Save)
    /\ \A k \in Tracks : WF_vars(Step(k)) /\ WF_vars(TimePasses(k))

FairSpec == Spec /\ Fairness

--------------------------------------------------------------------------------
\* How often a job may be started, and a target settled.
Limit(j) == IF j[2] = "analysis" /\ j[1] # Source THEN Starts + 1 ELSE Starts
Rounds(t) == IF t \in Names(Levels) THEN SettleRounds ELSE 1

\* The row, the tick's copy of it, the editions and the jobs are what the code can save: no job
\* is started more often than its limit (_started), no level is settled more often than
\* SETTLE_ROUNDS and no language more often than once.
TypeOK ==
    /\ row \in Productions /\ mem \in Productions
    /\ tick \in [open : BOOLEAN, todo : SUBSET Tracks, moved : SUBSET Tracks]
    /\ source.read \in BOOLEAN /\ source.rungs \subseteq Names(Rungs)
    /\ ed \in [Names(Rungs) \cup Targets -> Editions]
    /\ job \in [Jobs -> JobStates]
    /\ unreached \subseteq Names(Levels) /\ begun \subseteq Targets
    /\ hurt \subseteq Targets \cup Names(Rungs) \cup {Source} /\ torn \subseteq Targets
    /\ crashes \in 0 .. MaxCrashes /\ breaks \in 0 .. MaxBreaks
    /\ edits \in 0 .. MaxEdits /\ stalls \in 0 .. MaxStalls
    /\ \A p \in {row, mem} :
          /\ \A j \in Jobs : p.starts[j] <= Limit(j)
          /\ \A t \in Targets : p.settled[t] <= Rounds(t)

\* The production is a ladder descended a rung at a time whatever its ticks, jobs, failures and
\* restarts: nothing is spent below a level still undecided or held, no outcome is taken back,
\* and it closes with its last target, as failed exactly when one of them is held.
LadderKept == Promise!Spec

\* A target nobody edited is ready only while its text stands at both gates, and signed off when
\* the production was asked to (_verdict, _corrections, _sign_off).
ReadyIsEarned ==
    \A t \in Targets : row.outcome[t] = "ready" /\ edits = 0 =>
        Gates(t) /\ (row.signOff => ed[t].text = "ready")

\* A level is held by its gates or as unread for what the judges and the auditors said of its text
\* as it stands, never because nobody had read it ("it picks up where it was after a restart",
\* production.py:28), whatever else broke, died or was edited.  The production loses sight of a
\* text that a person edited, that a step rewrote before it broke, or that the worker rewrote
\* before it died, and goes on from the step it had saved.
NotHeldUnread ==
    \A t \in Names(Levels) \ torn :
        row.outcome[t] \in {"gates", "unread"} => ed[t].read /\ ed[t].audited

\* A level is held as started too often only after a job of it or of the source failed or went
\* silent, or its text was edited ("a failed step is started once more", production.py:17).
HeldAfterFailing ==
    \A t \in Names(Levels) : row.outcome[t] = "started" => {t, Source} \cap hurt # {}

\* A level is held only for what was read of its text or for a job that failed.
HeldForAReason == HeldAfterFailing /\ NotHeldUnread

\* When no step raised, a translation is not ready while its editors agree, of the text as it
\* stands, on a correction nobody tried to write in ("corrected where both stand behind a
\* correction, and signed off", production.py:12).
CorrectedBeforeReady ==
    \A t \in Names(Languages) :
        row.outcome[t] = "ready" /\ breaks = 0 => ~ed[t].audited \/ ed[t].fixes = {}

\* Every production ends, whatever its jobs do: a step nobody finishes is held.
Finishes == <>(row.status \in {"succeeded", "failed"})

----------------------------------------------------------------------------
(* What is said of the code and does not hold (README, departures).        *)

\* No level is held for a text nobody has read, after a restart either (production.py:28): the
\* row that was saved before the rewritten chapter goes on to the audit or the verdict.
PicksUpWhereItWas ==
    \A t \in Names(Levels) :
        row.outcome[t] \in {"gates", "unread"} /\ edits + breaks = 0 => ed[t].read /\ ed[t].audited

\* Not a language either is held as started too often unless a job of it failed: one whose message
\* waits has no row yet, and is started again (production.py:1042).
LanguageHeldAfterFailing ==
    \A t \in Names(Languages) : row.outcome[t] = "started" => t \in hurt

\* A level is given up only when the adapter could rewrite every chapter above it whole: one too
\* long for it holds the book (production.py:780).
DropIsEarned ==
    [][\A t \in unreached' \ unreached : ed[t].above \cap TooLong = {}]_vars

================================================================================
