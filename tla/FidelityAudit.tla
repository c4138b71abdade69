----------------------------- MODULE FidelityAudit -----------------------------
(***************************************************************************)
(* The fidelity audit of one adaptation: catalog/fidelity_audit.py, the     *)
(* task that runs it, and the decisions an editor takes on its findings     *)
(* (the revision and finding functions of catalog/services.py).             *)
(*                                                                          *)
(* An audit run is keyed by the text it is of.  A worker claims a queued    *)
(* run, reads the text window by window through a ledger of paid answers,   *)
(* and files a finding for every issue raised.  The gate passes when the    *)
(* text as it stands has a succeeded run and no serious finding is open.    *)
(* A suggestion written in verbatim carries the run to the new text: the    *)
(* run, its findings and its ledger rows are keyed anew without a reading.  *)
(*                                                                          *)
(* Every chapter is one paragraph read in one window.  An issue stands for  *)
(* its fingerprint: its quotes and explanation.                             *)
(***************************************************************************)
EXTENDS Naturals, Sequences, FiniteSets

CONSTANTS
    Blocks,       \* the paragraphs, numbered in the order of their ids
    Issues,       \* what an auditor may raise about them
    At,           \* [Issues -> Blocks]
    Material,     \* the issues an auditor calls material
    Suggested,    \* the issues whose correction can be written in as it stands
    Seats,        \* the choices of FIDELITY_AUDITORS, each a sequence of one auditor or two
    Sees,         \* [auditors -> SUBSET Issues], what each may raise
    Workers,      \* processes that take tasks from the broker
    Prompt,       \* TRUE when nobody finishes an audit, or writes suggestions in, between
                  \* another's last check and its filing
    Reverts,      \* whether a hand edit may restore the first wording
    MaxRuns, MaxAsks,                  \* bounds of the model, and three by the choice
    MaxEdits, MaxDecisions, MaxLosses  \* of auditors: [Seats -> Nat]

ASSUME InputAssumption ==
    /\ Blocks \subseteq Nat /\ Blocks # {}
    /\ At \in [Issues -> Blocks]
    /\ Material \subseteq Issues /\ Suggested \subseteq Issues
    /\ \A s \in Seats : /\ Len(s) \in {1, 2} /\ DOMAIN s = 1 .. Len(s)
                       /\ \A j \in DOMAIN s : Sees[s[j]] \subseteq Issues
    /\ Prompt \in BOOLEAN /\ Reverts \in BOOLEAN
    /\ MaxRuns \in Nat /\ MaxAsks \in Nat
    /\ MaxEdits \in [Seats -> Nat] /\ MaxDecisions \in [Seats -> Nat] /\ MaxLosses \in [Seats -> Nat]

VARIABLES
    text,       \* the wording of each paragraph
    seats,      \* the configured auditors
    run,        \* the audit runs, oldest first
    ledger,     \* the answered windows (AIRun), oldest first
    opinion,    \* the second opinions, as pairs of question and confirmed issues
    finding,    \* the fidelity findings (TextQualityFinding)
    msg,        \* the runs with a message in the broker
    worker,     \* what each worker is doing
    clock,      \* the decisions taken so far
    edits,      \* the hand edits so far
    asked,      \* the audits asked for so far
    lost        \* the workers that died or slept so far

vars == <<text, seats, run, ledger, opinion, finding, msg, worker, clock, edits, asked, lost>>

Gone == [hand |-> 0, done |-> {}, gone |-> TRUE]
First == [hand |-> 0, done |-> {}, gone |-> FALSE]

\* A wording: the hand edit it comes from and the suggestions written in since.
Words == [hand : 0 .. MaxEdits[seats], done : SUBSET Issues, gone : BOOLEAN]
Texts == [Blocks -> Words]
Auditors == UNION {{s[j] : j \in DOMAIN s} : s \in Seats}
Runs == [key : Texts, seats : Seats, status : {"queued", "running", "succeeded", "failed"},
         silent : BOOLEAN, results : SUBSET Nat,
         seen : Texts, raised : SUBSET Issues, blind : BOOLEAN]
Rows == [by : Auditors, at : Blocks, key : Words, read : Words, raised : SUBSET Issues,
         blind : BOOLEAN]
Findings == [of : Texts, issue : Issues, serious : BOOLEAN,
             status : {"open", "dismissed", "applied", "superseded"},
             place : {"fits", "moved", "none"}, at : 0 .. MaxDecisions[seats]]
Jobs == [at : {"idle", "read", "call", "record"}, run : 0 .. MaxRuns, plan : Texts,
         got : SUBSET Nat, serious : SUBSET Issues, kept : SUBSET Issues]

--------------------------------------------------------------------------------
(* State formulas.                                                           *)

Present(t) == {b \in Blocks : ~t[b].gone}

\* What edition_plan reads: every paragraph left, by every auditor.
Windows(t, s) == {s[j] : j \in DOMAIN s} \X Present(t)

\* The run of a text; idempotency_key is unique.
RunsOf(t) == {r \in DOMAIN run : run[r].key = t}

\* audit_context's state "current" for the text as it stands.
Current == {r \in RunsOf(text) : run[r].status = "succeeded"}

Open == {f \in finding : f.status = "open"}

\* fidelity_gate.
Gate == Current # {} /\ \A f \in Open : ~f.serious

\* The validated answers a window is served from, whichever run paid for them.
Answers(a, b, w) == {i \in DOMAIN ledger : ledger[i].by = a /\ ledger[i].at = b /\ ledger[i].key = w}

\* A finding another reading, or the removal of its paragraph, puts out of use.
Superseded(f) == [f EXCEPT !.status = "superseded", !.place = "none", !.at = 0]

\* Mutant: a dismissal is forgotten with the text it was taken in.
SettledByApplying(i) == {f \in finding : f.issue = i /\ f.status = "applied"}

\* The latest decision on an issue, in whatever text's finding it was taken.
Settled(i) ==
    LET decided == {f \in finding : f.issue = i /\ f.status \in {"dismissed", "applied"}}
    IN {f \in decided : \A g \in decided : g.at <= f.at}

IdleJob == [at |-> "idle", run |-> 0, plan |-> [b \in Blocks |-> First], got |-> {},
            serious |-> {}, kept |-> {}]

Init ==
    /\ text = [b \in Blocks |-> First]
    /\ seats \in Seats
    /\ run = <<>> /\ ledger = <<>> /\ opinion = {} /\ finding = {} /\ msg = {}
    /\ worker = [w \in Workers |-> IdleJob]
    /\ clock = 0 /\ edits = 0 /\ asked = 0 /\ lost = 0

--------------------------------------------------------------------------------
(* Queueing and running an audit.                                            *)

\* Mutant: the commit hook is forgotten.
NotSent(r) == msg

\* transaction.on_commit(audit_edition_fidelity.delay).
Sent(r) == msg \cup {r}

\* queue_edition_audit: one run for one text; a run that succeeded, or that was touched
\* within the lease, is left as it is.
Queue ==
    /\ asked < MaxAsks /\ Present(text) # {}
    /\ asked' = asked + 1
    /\ \/ /\ RunsOf(text) = {} /\ Len(run) < MaxRuns
          /\ run' = Append(run, [key |-> text, seats |-> seats, status |-> "queued",
                                 silent |-> FALSE, results |-> {}, seen |-> text,
                                 raised |-> {}, blind |-> FALSE])
          /\ msg' = Sent(Len(run) + 1)
       \/ \E r \in RunsOf(text) :
            /\ run[r].status # "succeeded" /\ (run[r].status = "running" => run[r].silent)
            /\ run' = [run EXCEPT ![r].status = "queued", ![r].silent = FALSE]
            /\ msg' = Sent(r)
    /\ UNCHANGED <<text, seats, opinion, ledger, finding, worker, clock, edits, lost>>

\* The broker delivers a message, for the last time or not (acks_late).  run_edition_audit
\* takes the run only when it is queued, and gives up when the text is not the run's.
Deliver(w, r) ==
    /\ worker[w].at = "idle" /\ r \in msg
    /\ msg' \in {msg, msg \ {r}}
    /\ IF run[r].status # "queued" THEN UNCHANGED <<run, worker>>
       ELSE IF run[r].key = text
       THEN /\ run' = [run EXCEPT ![r].status = "running", ![r].silent = FALSE]
            /\ worker' = [worker EXCEPT ![w] =
                             [IdleJob EXCEPT !.at = "read", !.run = r, !.plan = text]]
       ELSE /\ run' = [run EXCEPT ![r].status = "failed"]
            /\ UNCHANGED worker
    /\ UNCHANGED <<text, seats, opinion, ledger, finding, clock, edits, asked, lost>>

\* The answers of auditor a that worker w holds.
Held(w, a) == {i \in worker[w].got : ledger[i].by = a}
Read(w) == {<<ledger[i].by, ledger[i].at>> : i \in worker[w].got}
ToRead(w) == Windows(worker[w].plan, run[worker[w].run].seats) \ Read(w)

\* Chapter by chapter, one auditor after the other.
NextWindow(w) ==
    CHOOSE p \in ToRead(w) : \A q \in ToRead(w) :
        \/ p[2] < q[2]
        \/ p[2] = q[2] /\ (p[1] = run[worker[w].run].seats[1] \/ p = q)

\* Between two windows the run is saved: it counts as alive again, and an audit by one
\* auditor names the answers it holds so far (an audit by two does not).
Progress(w, got) ==
    /\ worker' = [worker EXCEPT ![w].at = "read", ![w].got = got]
    /\ run' = [run EXCEPT ![worker[w].run].silent = FALSE,
                          ![worker[w].run].results =
                              IF Len(run[worker[w].run].seats) = 1 THEN got ELSE @]

\* _audit_window: a validated answer is used again, otherwise the auditor is called.  There is
\* more than one known answer only when two workers called for it at the same time.
ReadWindow(w) ==
    /\ worker[w].at = "read" /\ ToRead(w) # {}
    /\ LET p == NextWindow(w)
           known == Answers(p[1], p[2], worker[w].plan[p[2]])
       IN IF known = {}
          THEN worker' = [worker EXCEPT ![w].at = "call"] /\ UNCHANGED run
          ELSE \E i \in known : Progress(w, worker[w].got \cup {i})
    /\ UNCHANGED <<text, seats, opinion, ledger, finding, msg, clock, edits, asked, lost>>

\* The auditor answers.  It read the words the run was planned with, and may have raised any
\* issue whose suggestion is not in them.
Answered(w) ==
    /\ worker[w].at = "call"
    /\ LET p == NextWindow(w)
           words == worker[w].plan[p[2]]
       IN \E raised \in SUBSET {i \in Sees[p[1]] : At[i] = p[2] /\ i \notin words.done} :
             ledger' = Append(ledger, [by |-> p[1], at |-> p[2], key |-> words, read |-> words,
                                       raised |-> raised, blind |-> FALSE])
    /\ Progress(w, worker[w].got \cup {Len(ledger) + 1})
    /\ UNCHANGED <<text, seats, opinion, finding, msg, clock, edits, asked, lost>>

Fails(w) ==
    /\ run' = [run EXCEPT ![worker[w].run].status = "failed"]
    /\ worker' = [worker EXCEPT ![w] = IdleJob]

SeatsOf(w) == {run[worker[w].run].seats[j] : j \in DOMAIN run[worker[w].run].seats}
RaisedBy(w, a) == UNION {ledger[i].raised : i \in Held(w, a)}

Raised(w) == UNION {RaisedBy(w, a) : a \in SeatsOf(w)}

\* _cross_checked: a material issue only one auditor raised is put to the other, chapter by
\* chapter, with the chapter's words; the answer is kept and used again.
Agreed(w) == {i \in Raised(w) : \A a \in SeatsOf(w) : i \in RaisedBy(w, a)}
Contested(w) == (Raised(w) \ Agreed(w)) \cap Material
Question(w, a, b) == [by |-> a, at |-> b, words |-> worker[w].plan[b],
                      items |-> {i \in Contested(w) : At[i] = b /\ i \notin RaisedBy(w, a)}]
Questions(w) == {q \in {Question(w, a, b) : a \in SeatsOf(w), b \in Blocks} : q.items # {}}

\* The second opinions that may come back: one that is known is not asked again.
Opinions(w) ==
    {o \in [Questions(w) -> SUBSET Contested(w)] :
        \A q \in Questions(w) : /\ o[q] \subseteq q.items
                                /\ \A known \in opinion : known[1] = q => known[2] = o[q]}

\* A call is out: for a window, or for a second opinion that is not known.
Calling(w) ==
    \/ worker[w].at = "call"
    \/ /\ worker[w].at = "read" /\ ToRead(w) = {}
       /\ \E q \in Questions(w) : \A known \in opinion : known[1] # q

\* A call fails or is refused: the whole run fails, its answered windows stay in the ledger.
CallFails(w) ==
    /\ Calling(w)
    /\ Fails(w)
    /\ UNCHANGED <<text, seats, opinion, ledger, finding, msg, clock, edits, asked, lost>>

\* The reading is done and cross-checked; the text must still be the one the run was queued for.
\* What both raised stays as strict as it was, what was not confirmed becomes uncertain.
Check(w) ==
    /\ worker[w].at = "read" /\ ToRead(w) = {}
    /\ Prompt => \A v \in Workers : worker[v].at # "record"
    /\ \E o \in Opinions(w) :
         /\ opinion' = opinion \cup {<<q, o[q]>> : q \in Questions(w)}
         /\ IF text # worker[w].plan THEN Fails(w)
            ELSE /\ worker' = [worker EXCEPT
                        ![w].at = "record", ![w].kept = Raised(w),
                        ![w].serious = (Agreed(w) \cap Material) \cup UNION {o[q] : q \in Questions(w)}]
                 /\ UNCHANGED run
    /\ UNCHANGED <<text, seats, ledger, finding, msg, clock, edits, asked, lost>>

\* _record_findings: older texts' open findings are superseded; an issue an editor applied is
\* left out, one they dismissed comes back dismissed, the rest is open.
Filed(key, raised, serious, placed) ==
    LET new == {i \in raised : \A f \in Settled(i) : f.status # "applied"}
        Of(i) == [of |-> key, issue |-> i, serious |-> i \in serious,
                  status |-> IF Settled(i) = {} THEN "open" ELSE "dismissed",
                  place |-> IF i \in placed THEN "fits" ELSE "none",
                  at |-> IF Settled(i) = {} THEN 0 ELSE (CHOOSE f \in Settled(i) : TRUE).at]
        Kept(f) == IF f.status = "open" /\ f.of # key
                   THEN Superseded(f) ELSE f
    IN {Kept(f) : f \in {g \in finding : ~(g.of = key /\ g.issue \in new)}} \cup {Of(i) : i \in new}

\* The transaction that files the findings and marks the run, in the text its plan was of.
Record(w) ==
    /\ worker[w].at = "record"
    /\ LET r == worker[w].run
           raised == {i \in worker[w].kept : ~text[At[i]].gone}
           Answer(b) == CHOOSE i \in Held(w, run[r].seats[1]) : ledger[i].at = b
       IN /\ \E placed \in SUBSET raised :
               finding' = Filed(worker[w].plan, raised, worker[w].serious, placed)
          /\ run' = [run EXCEPT
                 ![r].status = "succeeded", ![r].silent = FALSE,
                 ![r].results = IF Len(run[r].seats) = 1 THEN worker[w].got ELSE @,
                 \* what was read and raised, for the properties alone
                 ![r].raised = (IF run[r].status = "succeeded" THEN @ ELSE {})
                               \cup (raised \cap worker[w].serious),
                 ![r].blind = @ \/ \E i \in worker[w].got : ledger[i].blind,
                 ![r].seen = IF run[r].key # worker[w].plan THEN @
                             ELSE [b \in Blocks |-> IF worker[w].plan[b].gone THEN Gone
                                                    ELSE ledger[Answer(b)].read]]
          /\ worker' = [worker EXCEPT ![w] = IdleJob]
    /\ UNCHANGED <<text, seats, opinion, ledger, msg, clock, edits, asked, lost>>

--------------------------------------------------------------------------------
(* Losses.                                                                   *)

\* The process dies, or the machine sleeps: the heartbeat stops and the run falls silent.
Dies(w) ==
    /\ worker[w].at # "idle" /\ lost < MaxLosses[seats]
    /\ lost' = lost + 1
    /\ worker' = [worker EXCEPT ![w] = IdleJob]
    /\ run' = [run EXCEPT ![worker[w].run].silent = (@ \/ run[worker[w].run].status = "running")]
    /\ UNCHANGED <<text, seats, opinion, ledger, finding, msg, clock, edits, asked>>

Sleeps(w) ==
    /\ worker[w].at # "idle" /\ lost < MaxLosses[seats]
    /\ run[worker[w].run].status = "running" /\ ~run[worker[w].run].silent
    /\ lost' = lost + 1
    /\ run' = [run EXCEPT ![worker[w].run].silent = TRUE]
    /\ UNCHANGED <<text, seats, opinion, ledger, finding, msg, worker, clock, edits, asked>>

\* close_abandoned_runs: a run nobody touched for hours is failed.
Janitor ==
    /\ \E r \in DOMAIN run : run[r].status = "running" /\ run[r].silent
    /\ run' = [r \in DOMAIN run |-> IF run[r].status = "running" /\ run[r].silent
                                    THEN [run[r] EXCEPT !.status = "failed", !.silent = FALSE]
                                    ELSE run[r]]
    /\ UNCHANGED <<text, seats, opinion, ledger, finding, msg, worker, clock, edits, asked, lost>>

--------------------------------------------------------------------------------
(* The editor's decisions and edits, each one transaction.                   *)

\* A wording nobody has written yet, or the first one restored.
NewWords(b) == {[First EXCEPT !.hand = edits + 1]}
               \cup (IF Reverts THEN {First} \ {text[b]} ELSE {})

\* Mutant: a change of a paragraph drops its other findings.
ShakenOff(F, B, relocate) ==
    {{IF f.status = "open" /\ At[f.issue] \in B THEN Superseded(f) ELSE f : f \in F}}

\* The words of the paragraphs B moved: a finding that is still placed by its old offsets may
\* not fit.  relocate_fidelity_findings places the open ones again (as "none" where it cannot).
Placings(f, relocate) ==
    IF f.status = "open" /\ relocate THEN {"fits", "none"}
    ELSE IF f.status \in {"open", "dismissed"} /\ f.place # "none" THEN {"fits", "moved"}
    ELSE {f.place}

Shaken(F, B, relocate) ==
    LET on == {f \in F : At[f.issue] \in B}
    IN {(F \ on) \cup {[f EXCEPT !.place = place[f]] : f \in on} :
            place \in {p \in [on -> {"fits", "moved", "none"}] :
                          \A f \in on : p[f] \in Placings(f, relocate)}}

\* carry_audit_forward: the succeeded run of the findings' text follows them to the text that
\* now stands, its answers where the words changed, and every finding filed for the old text.
\* Two runs of one text are refused by the database.
CarryRun(f) == {r \in RunsOf(f.of) : run[r].status = "succeeded"}

CarriedLedger(r, new) ==
    [i \in DOMAIN ledger |->
        LET row == ledger[i]
            known == \E j \in DOMAIN ledger : /\ ledger[j].by = row.by /\ ledger[j].at = row.at
                                              /\ ledger[j].key = new[row.at]
        IN IF i \in run[r].results /\ ~new[row.at].gone /\ ~known
           THEN [row EXCEPT !.key = new[row.at], !.blind = @ \/ row.key # text[row.at]]
           ELSE row]

\* Mutant: the run goes to the new text and leaves its findings behind.
CarryAlone(r, new, F) ==
    /\ RunsOf(new) \subseteq {r}
    /\ run' = [run EXCEPT ![r].key = new, ![r].blind = @ \/ run[r].key # text]
    /\ ledger' = CarriedLedger(r, new)
    /\ finding' = F

Carry(r, new, F) ==
    /\ RunsOf(new) \subseteq {r}
    /\ run' = [run EXCEPT ![r].key = new, ![r].blind = @ \/ run[r].key # text]
    /\ ledger' = CarriedLedger(r, new)
    /\ LET moved == {f \in F : f.of = run[r].key}
       IN /\ \A f \in moved : \A g \in F \ moved : ~(g.of = new /\ g.issue = f.issue)
          /\ finding' = (F \ moved) \cup {[f EXCEPT !.of = new] : f \in moved}

Decided(f, status) == [f EXCEPT !.status = status, !.at = clock + 1,
                                !.place = IF status = "applied" THEN "none" ELSE @]

\* The text once the suggestions of F are written in.
Written(F) == [b \in Blocks |->
                  [text[b] EXCEPT !.done = @ \cup {f.issue : f \in {g \in F : At[g.issue] = b}}]]

\* can_apply, with a suggestion that is ready to be written in.
Applicable == {f \in Open : f.place # "none" /\ f.issue \in Suggested /\ ~text[At[f.issue]].gone}

\* apply_fidelity_findings: some of the suggestions that can be placed, none of them over words
\* that moved; the paragraphs' other findings are placed again.  (apply_text_quality_finding
\* with the suggestion as it stands is the case of one.)
ApplyFindings ==
    /\ clock < MaxDecisions[seats]
    /\ Prompt => \A v \in Workers : worker[v].at # "record"
    /\ \E F \in SUBSET Applicable, carry \in BOOLEAN :
         /\ F # {} /\ \A f \in F : f.place = "fits"
         /\ text' = Written(F)
         /\ LET after == (finding \ F) \cup {Decided(f, "applied") : f \in F}
                first == CHOOSE f \in F : \A g \in F : At[f.issue] <= At[g.issue]
            IN \E G \in Shaken(after, {At[f.issue] : f \in F}, TRUE) :
                 IF carry /\ CarryRun(first) # {}
                 THEN \E r \in CarryRun(first) : Carry(r, Written(F), G)
                 ELSE finding' = G /\ UNCHANGED <<run, ledger>>
    /\ clock' = clock + 1
    /\ UNCHANGED <<seats, opinion, msg, worker, edits, asked, lost>>

\* revise_block_text by an editor: nothing is placed again, no audit is asked for.
HandEdit ==
    /\ edits < MaxEdits[seats]
    /\ \E b \in Present(text) : \E words \in NewWords(b) :
         /\ text' = [text EXCEPT ![b] = words]
         /\ finding' \in Shaken(finding, {b}, FALSE)
    /\ edits' = edits + 1
    /\ UNCHANGED <<seats, opinion, run, ledger, msg, worker, clock, asked, lost>>

\* remove_block: the findings still open on it are superseded.
RemoveBlock ==
    /\ edits < MaxEdits[seats] /\ Cardinality(Present(text)) > 1
    /\ \E b \in Present(text) :
         /\ text' = [text EXCEPT ![b] = Gone]
         /\ finding' = {IF f \in Open /\ At[f.issue] = b
                        THEN Superseded(f) ELSE f : f \in finding}
    /\ edits' = edits + 1
    /\ UNCHANGED <<seats, opinion, run, ledger, msg, worker, clock, asked, lost>>

\* apply_finding_with_block_text, and apply_text_quality_finding with other words than the
\* suggestion: the finding is applied by a hand edit, which never carries.
CloseByHand ==
    /\ edits < MaxEdits[seats] /\ clock < MaxDecisions[seats]
    /\ \E f \in Open : LET b == At[f.issue] IN
         /\ ~text[b].gone
         /\ \E words \in NewWords(b) : text' = [text EXCEPT ![b] = words]
         /\ finding' \in Shaken((finding \ {f}) \cup {Decided(f, "applied")}, {b}, TRUE)
    /\ edits' = edits + 1 /\ clock' = clock + 1
    /\ UNCHANGED <<seats, opinion, run, ledger, msg, worker, asked, lost>>

\* dismiss_text_quality_finding, and dismiss_fidelity_findings of whole severities.
Dismiss ==
    /\ clock < MaxDecisions[seats]
    /\ \E F \in {{f} : f \in Open} \cup {{f \in Open : f.serious}, {f \in Open : ~f.serious}, Open} :
         /\ F # {}
         /\ finding' = (finding \ F) \cup {Decided(f, "dismissed") : f \in F}
    /\ clock' = clock + 1
    /\ UNCHANGED <<text, seats, opinion, run, ledger, msg, worker, edits, asked, lost>>

\* reopen_text_quality_finding: while the words it is about stand.
Reopen ==
    /\ clock < MaxDecisions[seats]
    /\ \E f \in finding :
         /\ f.status = "dismissed" /\ ~text[At[f.issue]].gone /\ f.place # "moved"
         /\ finding' = (finding \ {f}) \cup {Decided(f, "open")}
    /\ clock' = clock + 1
    /\ UNCHANGED <<text, seats, opinion, run, ledger, msg, worker, edits, asked, lost>>

--------------------------------------------------------------------------------
Work(w) == ReadWindow(w) \/ Answered(w) \/ Check(w) \/ Record(w)

Next ==
    \/ Queue \/ Janitor
    \/ ApplyFindings \/ HandEdit \/ RemoveBlock \/ CloseByHand \/ Dismiss \/ Reopen
    \/ \E w \in Workers : \/ \E r \in msg : Deliver(w, r)
                          \/ Work(w) \/ CallFails(w) \/ Dies(w) \/ Sleeps(w)

Spec == Init /\ [][Next]_vars

--------------------------------------------------------------------------------
(* Properties.                                                               *)

TypeOK ==
    /\ text \in Texts /\ seats \in Seats
    /\ run \in Seq(Runs) /\ ledger \in Seq(Rows)
    /\ \A o \in opinion : o[2] \subseteq o[1].items
    /\ finding \subseteq Findings
    /\ msg \subseteq DOMAIN run
    /\ worker \in [Workers -> Jobs]
    /\ clock \in 0 .. MaxDecisions[seats] /\ edits \in 0 .. MaxEdits[seats]
    /\ asked \in 0 .. MaxAsks /\ lost \in 0 .. MaxLosses[seats]

\* The words of a paragraph are those an auditor read, but for suggestions written in verbatim.
Covered(r) ==
    \A b \in Blocks : text[b].gone = run[r].seen[b].gone
                   /\ text[b].hand = run[r].seen[b].hand
                   /\ run[r].seen[b].done \subseteq text[b].done

\* The audit shown as current read the text that stands: no edit made while it ran, before its
\* findings were filed or since slips under it (fidelity_audit.py:756, 805, 816).  An audit that
\* was carried when it was already stale is excepted: see StaleNeverCarries.
CurrentIsRead == \A r \in Current : ~run[r].blind => Covered(r)

\* The gate opens only when somebody decided every serious issue the current audit raised, in
\* whichever text's finding: superseding, carrying, re-filing and removing lose none.
GateIsEarned ==
    Gate => \A r \in Current : run[r].blind \/ \A i \in run[r].raised :
        \/ text[At[i]].gone
        \/ \E f \in finding : f.issue = i /\ f.status \in {"applied", "dismissed"} /\ f.at > 0

\* The current audit read the text, and the gate opens only when its issues were decided.
GateIsRead == CurrentIsRead /\ GateIsEarned

\* Nobody waits for a message that will not come (janitor.py:66 leaves queued runs alone): a
\* queued run has its message in the broker, a running one has a worker or can be swept.
NothingStuck ==
    \A r \in DOMAIN run :
        /\ run[r].status = "queued" => r \in msg
        /\ run[r].status = "running" => run[r].silent \/ \E w \in Workers : worker[w].run = r

\* What an editor applied is done and what they dismissed stays dismissed (_record_findings):
\* an issue settled and not open comes back open only by being reopened.
SettledStays ==
    [][\A i \in Issues :
         /\ \E f \in finding : f.issue = i /\ f.status \in {"dismissed", "applied"}
         /\ ~\E f \in Open : f.issue = i
         => Reopen \/ ~\E f \in Open' : f.issue = i]_vars

\* A current audit that is carried is whole afterwards: it is of the text that now stands, and
\* every finding still open goes with it, so the gate does not open over one.
CarriedWhole ==
    [][\A r \in Current : run'[r].key # run[r].key =>
         /\ run'[r].key = text' /\ run'[r].status = "succeeded"
         /\ \A f \in Open : f.of = text => \E g \in finding' :
                g.of = text' /\ g.issue = f.issue /\ g.status \in {"open", "applied"}]_vars

----------------------------------------------------------------------------
(* What is said of the code and does not hold (README, departures).        *)

\* "A hand edit or a changed replacement never carries: that text is unread."
\* (fidelity_audit.py:1285): the audit shown as current has read every hand edit.
StaleNeverCarries == \A r \in Current : Covered(r)

================================================================================
