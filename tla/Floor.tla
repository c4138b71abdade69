------------------------------- MODULE Floor -------------------------------
(* How far down a work can be adapted: probes of the levels below its original, and what the  *)
(* work records of them (catalog/adaptation_floor.py, with the judged pilots of               *)
(* catalog/pilot_difficulty.py).                                                              *)
(*                                                                                            *)
(* A probe adapts a sample of chapters, asks the judges and the auditors of each, and passes  *)
(* or fails. A draft with its judges' reading is one answer, how far above the target it      *)
(* reads; an auditor's answer is 0 when the draft is faithful. Answers are kept by what they  *)
(* are of, and a chapter that is looked at again finds them. An edition of a level is there,  *)
(* with its gates closed or open; whoever moves a gate computes the work's floor in the same  *)
(* transaction. Standalone pilots, withdrawals and purges of records are left out.            *)
EXTENDS Naturals, Sequences, FiniteSets, SequencesExt, Functions

CONSTANTS
    Levels,         \* the rungs, highest first (PROBE_LEVELS)
    Sample,         \* how many chapters a probe reads
    Specs,          \* configurations of generator, judges and auditors
    Farthest,       \* how far above the target a draft may read
    Workers,
    Slow,           \* whether the janitor may take a live worker for dead
    Careful,        \* whether the floor is computed by one transaction at a time
    MaxRuns, MaxMoves, MaxTroubles

FloorConstants ==
    /\ Sample \in Nat \ {0} /\ Farthest \in Nat \ {0}
    /\ Slow \in BOOLEAN /\ Careful \in BOOLEAN
    /\ MaxRuns \in Nat /\ MaxMoves \in Nat /\ MaxTroubles \in Nat

VARIABLES
    spec,           \* the configuration in force
    words,          \* the text of the source's sample, a version
    probe,          \* a level's probe runs in the order they were created
    answer,         \* what judges and auditors said, by question
    message,        \* what the broker holds: pairs of a level and a run
    worker,
    edition,        \* a level's adaptation
    unreached,      \* levels recorded as not reached
    floor,          \* the work's adaptation_evidence, whose lowest reached level is adapts_to
    change,         \* open transactions and refreshes: what they move and what they computed
    moves,          \* editions generated and gates moved so far
    troubles        \* edits, deployments, deaths, failures and backfills so far

floorVars == <<spec, words, probe, answer, message, worker, edition, unreached, floor, change, moves, troubles>>

Rungs == DOMAIN Levels
Chapters == 1..Sample
Idle == [at |-> "idle"]
Question(l, c, s, v, draft, by) ==
    [level |-> l, chapter |-> c, spec |-> s, words |-> v, draft |-> draft, by |-> by]
Answers(q) == IF q.by = "judge" THEN 0..Farthest ELSE 0..1

Trouble == troubles < MaxTroubles /\ troubles' = troubles + 1

--------------------------------------------------------------------------------
(* A chapter: adapted, judged, revised once if it reads too hard, and audited.               *)

\* The draft that stands: a revision the judges read no easier is not an improvement.
Stands(l, c, s, v) ==
    LET judged(draft) == answer[Question(l, c, s, v, draft, "judge")]
    IN IF judged(1) > 0 /\ judged(2) < judged(1) THEN 2 ELSE 1

\* What is to be asked next of a chapter; the last of them may have been answered.
NextQuestion(l, c, s, v) ==
    LET judge(draft) == Question(l, c, s, v, draft, "judge")
    IN CASE judge(1) \notin DOMAIN answer -> judge(1)
         [] judge(1) \in DOMAIN answer /\ answer[judge(1)] > 0 /\ judge(2) \notin DOMAIN answer -> judge(2)
         [] OTHER -> Question(l, c, s, v, Stands(l, c, s, v), "auditor")

\* A result passes when its draft reads at the level and is faithful.
Good(l, s, c, r) ==
    \A by \in {"judge", "auditor"} : answer[Question(l, c, s, r.words, r.draft, by)] = 0
Verdict(l, s, results) ==
    IF \A c \in DOMAIN results : Good(l, s, c, results[c]) THEN "passed" ELSE "failed"

--------------------------------------------------------------------------------
(* The ladder and the floor.                                                                  *)

Succeeded(l, runs) == {i \in DOMAIN runs[l] : runs[l][i].status = "succeeded"}
Newest(S) == CHOOSE i \in S : \A j \in S : j <= i

\* What editions, outcomes and probes say of the levels, an open edition first.
Evidence(runs, eds, gone) ==
    [l \in Rungs |->
        IF eds[l] = "reached" THEN "reached"
        ELSE IF l \in gone THEN "not_reached"
        ELSE IF Succeeded(l, runs) # {} THEN runs[l][Newest(Succeeded(l, runs))].verdict
        ELSE "none"]

RungState(l) ==
    LET p == probe[l][Len(probe[l])]
    IN CASE floor[l] = "reached" \/ edition[l] = "reached" -> "reached"
         [] floor[l] = "not_reached" /\ edition[l] # "reached" -> "not_reached"
         [] OTHER ->
              IF Len(probe[l]) = 0 THEN IF edition[l] = "none" THEN "untried" ELSE "generated"
              ELSE IF p.status \in {"queued", "running"} THEN "probing"
              ELSE IF p.status = "failed" THEN "error"
              ELSE IF p.verdict = "passed" THEN "passed"
              ELSE IF p.spec = spec THEN "failed"
              ELSE IF edition[l] = "none" THEN "untried" ELSE "generated"

\* A rung is open below one that was reached or whose probe passed.
CanProbe(l) ==
    /\ RungState(l) \in {"untried", "error"}
    /\ l > 1 => RungState(l - 1) \in {"reached", "passed"}

Init ==
    /\ spec \in Specs /\ words = 1
    /\ probe = [l \in Rungs |-> <<>>] /\ answer = <<>> /\ message = {}
    /\ worker = [w \in Workers |-> Idle]
    /\ edition = [l \in Rungs |-> "none"] /\ unreached = {}
    /\ floor = [l \in Rungs |-> "none"]
    /\ change = {} /\ moves = 0 /\ troubles = 0

--------------------------------------------------------------------------------
(* Probes.                                                                                    *)

Same(l, p) == {i \in DOMAIN probe[l] : probe[l][i].spec = p.spec /\ probe[l][i].of = p.of}

\* queue_probe: a probe under way is returned, one of the same spec and text is taken up
\* again unless it has ended well.
QueueProbe(l) ==
    LET new == [spec |-> spec, of |-> words, backfilled |-> FALSE, status |-> "queued", verdict |-> "none", results |-> <<>>]
    IN /\ \A i \in DOMAIN probe[l] : probe[l][i].status \notin {"queued", "running"}
       /\ CanProbe(l)
       /\ \/ Same(l, new) = {} /\ Len(probe[l]) < MaxRuns
             /\ probe' = [probe EXCEPT ![l] = Append(@, new)]
             /\ message' = message \cup {<<l, Len(probe[l]) + 1>>}
          \/ \E i \in Same(l, new) :
                /\ probe[l][i].status # "succeeded"
                /\ probe' = [probe EXCEPT ![l][i].status = "queued"]
                /\ message' = message \cup {<<l, i>>}
       /\ UNCHANGED <<spec, words, answer, worker, edition, unreached, floor, change, moves, troubles>>

Fail(w, l, i) ==
    /\ probe' = [probe EXCEPT ![l][i].status = "failed"]
    /\ worker' = [worker EXCEPT ![w] = Idle]

\* run_probe takes a run that is queued, and refuses one of another configuration.
RunProbe(w) ==
    \E m \in message :
        LET l == m[1]
            i == m[2]
        IN /\ worker[w] = Idle
           /\ message' = message \ {m}
           /\ \/ /\ probe[l][i].status = "queued" /\ probe[l][i].spec = spec
                 /\ probe' = [probe EXCEPT ![l][i].status = "running"]
                 /\ worker' = [worker EXCEPT ![w] =
                       [at |-> "chapter", level |-> l, run |-> i, results |-> <<>>]]
              \/ probe[l][i].status = "queued" /\ probe[l][i].spec # spec /\ Fail(w, l, i)
              \/ probe[l][i].status # "queued" /\ UNCHANGED <<probe, worker>>
           /\ UNCHANGED <<spec, words, answer, edition, unreached, floor, change, moves, troubles>>

\* Mutant: judge_text reads beside another worker.
NeverUnderWay(q) == FALSE

\* A question a worker has asked and not had answered; a dead worker's is abandoned after a while.
UnderWay(q) == \E v \in Workers : worker[v].at = "call" /\ worker[v].ask = q

\* judged_pilot asks what is not known of the chapter yet; judge_text refuses a reading that
\* another worker has under way.
Ask(w) ==
    LET k == worker[w]
        q == NextQuestion(k.level, Len(k.results) + 1, spec, words)
    IN /\ k.at = "chapter" /\ Len(k.results) < Sample /\ q \notin DOMAIN answer
       /\ IF UnderWay(q) THEN Fail(w, k.level, k.run)
          ELSE /\ worker' = [worker EXCEPT ![w] =
                     [at |-> "call", level |-> k.level, run |-> k.run, results |-> k.results, ask |-> q]]
               /\ UNCHANGED probe
       /\ UNCHANGED <<spec, words, answer, message, edition, unreached, floor, change, moves, troubles>>

Answered(w) ==
    LET k == worker[w]
    IN /\ k.at = "call"
       /\ \E a \in Answers(k.ask) : answer' = (k.ask :> a) @@ answer
       /\ worker' = [worker EXCEPT ![w] =
             [at |-> "chapter", level |-> k.level, run |-> k.run, results |-> k.results]]
       /\ UNCHANGED <<spec, words, probe, message, edition, unreached, floor, change, moves, troubles>>

CallFails(w) ==
    /\ worker[w].at = "call" /\ Trouble
    /\ Fail(w, worker[w].level, worker[w].run)
    /\ UNCHANGED <<spec, words, answer, message, edition, unreached, floor, change, moves>>

\* A chapter whose draft was audited has its result.
ChapterEnds(w) ==
    LET k == worker[w]
        c == Len(k.results) + 1
        q == NextQuestion(k.level, c, spec, words)
    IN /\ k.at = "chapter" /\ Len(k.results) < Sample /\ q \in DOMAIN answer
       /\ worker' = [worker EXCEPT ![w].results = Append(@, [words |-> words, draft |-> q.draft])]
       /\ UNCHANGED <<spec, words, probe, answer, message, edition, unreached, floor, change, moves, troubles>>

\* The run is saved with its verdict, whatever became of its status in the meantime.
EndProbe(w) ==
    LET k == worker[w]
    IN /\ k.at = "chapter" /\ Len(k.results) = Sample
       /\ probe' = [probe EXCEPT ![k.level][k.run].status = "succeeded",
                                 ![k.level][k.run].verdict = Verdict(k.level, spec, k.results),
                                 ![k.level][k.run].results = k.results]
       /\ worker' = [worker EXCEPT ![w] = [at |-> "refresh"]]
       /\ UNCHANGED <<spec, words, answer, message, edition, unreached, floor, change, moves, troubles>>

\* backfill_probe makes a probe of pilots that were judged and audited by hand: of each chapter
\* that has one the newest, and of these none may be without its audit.
Backfill(l) ==
    LET judged(c) == {q \in DOMAIN answer : q.level = l /\ q.chapter = c /\ q.spec = spec /\ q.by = "judge"}
        newest(c) == CHOOSE q \in judged(c) : \A r \in judged(c) :
                        r.words < q.words \/ (r.words = q.words /\ r.draft <= q.draft)
        some == {c \in Chapters : judged(c) # {}}
        results == [c \in some |-> [words |-> newest(c).words, draft |-> newest(c).draft]]
        new == [spec |-> spec, of |-> 0, backfilled |-> TRUE, status |-> "succeeded",
                verdict |-> Verdict(l, spec, results), results |-> results]
    IN /\ Trouble /\ some # {} /\ Len(probe[l]) < MaxRuns
       /\ \A c \in some : [newest(c) EXCEPT !.by = "auditor"] \in DOMAIN answer
       /\ new \notin ToSet(probe[l])
       /\ Careful => change = {}
       /\ probe' = [probe EXCEPT ![l] = Append(@, new)]
       /\ floor' = Evidence(probe', edition, unreached)
       /\ UNCHANGED <<spec, words, answer, message, worker, edition, unreached, change, moves>>

--------------------------------------------------------------------------------
(* Editions, and the floor computed of them.                                                  *)

\* The full edition of a level whose probe passed is generated, with its gates closed.
Generate(l) ==
    /\ edition[l] = "none" /\ RungState(l) = "passed"
    /\ moves < MaxMoves /\ moves' = moves + 1
    /\ edition' = [edition EXCEPT ![l] = "generated"]
    /\ UNCHANGED <<spec, words, probe, answer, message, worker, unreached, floor, change, troubles>>

\* An edit of its text closes an edition's gates; the floor waits for the next reading.
EditEdition(l) ==
    /\ edition[l] = "reached" /\ \A x \in change : x.level # l
    /\ edition' = [edition EXCEPT ![l] = "edited"]
    /\ UNCHANGED <<spec, words, probe, answer, message, worker, unreached, floor, change, moves, troubles>>

\* A reading, an audit, an editor's decision or a purge moves an edition in a transaction that
\* holds it, and computes the floor of what the transaction sees.
Move(l, to) ==
    LET eds == [edition EXCEPT ![l] = to]
    IN /\ edition[l] # "none" /\ to # edition[l]
       /\ moves < MaxMoves /\ moves' = moves + 1
       /\ \A x \in change : x.level # l
       /\ Careful => change = {}
       /\ change' = change \cup
             {[level |-> l, to |-> to, view |-> Evidence(probe, eds, unreached),
               differs |-> Evidence(probe, eds, unreached) # floor]}
       /\ UNCHANGED <<spec, words, probe, answer, message, worker, edition, unreached, floor, troubles>>

\* A worker that has ended its probe, and a production that has recorded a level as not
\* reached, compute the floor too.
Refresh(w) ==
    /\ worker[w].at = "refresh"
    /\ Careful => change = {}
    /\ change' = change \cup
          {[level |-> 0, to |-> "none", view |-> Evidence(probe, edition, unreached),
            differs |-> Evidence(probe, edition, unreached) # floor]}
    /\ worker' = [worker EXCEPT ![w] = Idle]
    /\ UNCHANGED <<spec, words, probe, answer, message, edition, unreached, floor, moves, troubles>>

RecordUnreached(l) ==
    /\ edition[l] = "generated" /\ l \notin unreached /\ \A x \in change : x.level # l
    /\ Careful => change = {}
    /\ edition' = [edition EXCEPT ![l] = "none"]
    /\ unreached' = unreached \cup {l}
    /\ floor' = Evidence(probe, edition', unreached')
    /\ UNCHANGED <<spec, words, probe, answer, message, worker, change, moves, troubles>>

\* refresh_adaptation_floor writes the work's row if what it computed is not what it read.
Commit(x) ==
    /\ change' = change \ {x}
    /\ floor' = IF x.differs THEN x.view ELSE floor
    /\ edition' = IF x.level = 0 THEN edition ELSE [edition EXCEPT ![x.level] = x.to]
    /\ UNCHANGED <<spec, words, probe, answer, message, worker, unreached, moves, troubles>>

--------------------------------------------------------------------------------
(* What happens beside them.                                                                  *)

\* A deployment with other seats or prompts; it finds no worker in the middle of a probe.
Deploy ==
    /\ Trouble /\ \A w \in Workers : worker[w] = Idle
    /\ \E s \in Specs \ {spec} : spec' = s
    /\ UNCHANGED <<words, probe, answer, message, worker, edition, unreached, floor, change, moves>>

\* The source's sample is edited between two chapters of a probe.
EditSource ==
    /\ Trouble /\ \A w \in Workers : worker[w].at # "call"
    /\ words' = words + 1
    /\ UNCHANGED <<spec, probe, answer, message, worker, edition, unreached, floor, change, moves>>

\* A worker dies; its message is delivered again and finds the run under way.
Die(w) ==
    /\ worker[w].at \in {"chapter", "call"} /\ Trouble
    /\ worker' = [worker EXCEPT ![w] = Idle]
    /\ message' = message \cup {<<worker[w].level, worker[w].run>>}
    /\ UNCHANGED <<spec, words, probe, answer, edition, unreached, floor, change, moves>>

\* The janitor closes a run that nobody touches.
Sweep(l) ==
    \E i \in DOMAIN probe[l] :
        /\ probe[l][i].status = "running"
        /\ IF \E w \in Workers : worker[w].at \in {"chapter", "call"}
                                  /\ worker[w].level = l /\ worker[w].run = i
           THEN Slow /\ Trouble ELSE UNCHANGED troubles
        /\ probe' = [probe EXCEPT ![l][i].status = "failed"]
        /\ UNCHANGED <<spec, words, answer, message, worker, edition, unreached, floor, change, moves>>

Next ==
    \/ \E l \in Rungs :
          \/ QueueProbe(l)
          \/ Backfill(l)
          \/ Generate(l)
          \/ \E to \in {"generated", "reached", "none"} : Move(l, to)
          \/ EditEdition(l)
          \/ RecordUnreached(l)
          \/ Sweep(l)
    \/ \E w \in Workers :
          \/ RunProbe(w)
          \/ Ask(w)
          \/ Answered(w)
          \/ CallFails(w)
          \/ ChapterEnds(w)
          \/ EndProbe(w)
          \/ Refresh(w)
          \/ Die(w)
    \/ \E x \in change : Commit(x)
    \/ Deploy
    \/ EditSource

Spec == Init /\ [][Next]_floorVars

--------------------------------------------------------------------------------
(* What the floor promises.                                                                   *)

\* A probe's verdict is what the judges and auditors said of its chapters, whoever asked and
\* however often it was taken up again: nothing is asked again until it passes
\* (adaptation_floor.py:9).
VerdictIsEarned ==
    \A l \in Rungs : \A i \in Succeeded(l, probe) :
        LET p == probe[l][i]
        IN /\ \A c \in DOMAIN p.results : \A by \in {"judge", "auditor"} :
                 Question(l, c, p.spec, p.results[c].words, p.results[c].draft, by) \in DOMAIN answer
           /\ p.verdict = Verdict(l, p.spec, p.results)
           /\ ~ p.backfilled => DOMAIN p.results = Chapters

\* At rest the work says it adapts to the levels whose editions passed both gates, but for those
\* whose edited text has not been read again (adaptation_floor.py:437).
FloorIsTrue ==
    change = {} =>
        \A l \in Rungs : edition[l] # "edited" => (floor[l] = "reached" <=> edition[l] = "reached")

\* No level is tried before a probe of the one above it passed (adaptation_floor.py:4).
TriedInOrder ==
    \A l \in Rungs \ {1} : probe[l] # <<>> =>
        \E i \in DOMAIN probe[l - 1] : probe[l - 1][i].verdict = "passed"

FloorHolds == VerdictIsEarned /\ FloorIsTrue /\ TriedInOrder

(* Said of the code and not so: a probe's results are of the text it was queued for           *)
(* (adaptation_floor.py:161, "everything a verdict depends on"): run_probe reads the chapters *)
(* as they are when it comes to them (:289), and the spec has no text in it.                  *)
ProbeIsOfItsText ==
    \A l \in Rungs : \A i \in Succeeded(l, probe) :
        ~ probe[l][i].backfilled => \A c \in Chapters : probe[l][i].results[c].words = probe[l][i].of

(* A backfilled probe is what a probe would run today (adaptation_floor.py:610): one pilot is *)
(* enough for it, where a probe reads the whole sample (:624).                                *)
BackfillIsAProbe ==
    \A l \in Rungs : \A i \in Succeeded(l, probe) : DOMAIN probe[l][i].results = Chapters

(* What the ladder offers to probe can be probed: under a configuration that came back the    *)
(* newest probe is of another one, and queue_probe returns the old run as it is (:264).       *)
OfferIsTaken ==
    \A l \in Rungs : CanProbe(l) =>
        \A i \in Same(l, [spec |-> spec, of |-> words]) : probe[l][i].status # "succeeded"

=============================================================================
