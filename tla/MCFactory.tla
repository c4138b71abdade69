----------------------------- MODULE MCFactory -----------------------------
(* How books come in, for the model checker: the factory with two wanted books and a limit of *)
(* one, the functions that cut a file and judge its levels, and the floor of a work. Each      *)
(* behaviour is of one of them, and the others stay where they begin.                          *)
EXTENDS Factory, TLC

CONSTANTS b1, b2, w1, w2

VARIABLES
    which,   \* what the behaviour is of
    given, said,
    seats, sample, probe, opinion, order, prober, edition, unreached, floor, change, moves, upsets

inputVars == <<given, said>>
floorVars ==
    <<seats, sample, probe, opinion, order, prober, edition, unreached, floor, change, moves, upsets>>

TwoBooks == {b1, b2}
TwoWorkers == {w1, w2}
Symmetry == Permutations(TwoBooks) \cup Permutations(TwoWorkers)

--------------------------------------------------------------------------------
(* The instances.                                                               *)

\* One book, the other one made elsewhere: two troubles, of which one may be what people ask for.
A == INSTANCE Factory WITH MaxAsks <- 1, MaxTroubles <- 2
Alone == \E b \in Books : book = [c \in Books |-> IF c = b THEN [NotHere EXCEPT !.want = "reserved"]
                                                ELSE NotHere]

\* The probe of two chapters at one level in two configurations, and the floor of two levels.
OneLevel == <<"B2">>
TwoLevels == <<"B2", "B1">>
O == INSTANCE Floor WITH
    spec <- seats, words <- sample, answer <- opinion, message <- order, worker <- prober,
    troubles <- upsets, Levels <- OneLevel, Sample <- 2, Specs <- {1, 2}, Farthest <- 1, Slow <- TRUE,
    Careful <- TRUE, Workers <- TwoWorkers, MaxRuns <- 2, MaxMoves <- 1, MaxTroubles <- 1
F == INSTANCE Floor WITH
    spec <- seats, words <- sample, answer <- opinion, message <- order, worker <- prober,
    troubles <- upsets, Levels <- TwoLevels, Sample <- 1, Specs <- {1}, Farthest <- 1, Slow <- TRUE,
    Careful <- TRUE, Workers <- TwoWorkers, MaxRuns <- 1, MaxMoves <- 4, MaxTroubles <- 0

\* Files of up to four items, and stored cuts of up to three blocks against fresh ones of four.
X == INSTANCE ChapterCut WITH
    Most <- 4, ShortDocument <- 2, LongDocument <- 3, UnsplitDocument <- 5, SizeSplitTarget <- 2,
    RepeatedTimes <- 3
U == INSTANCE Recut WITH Most <- 4, Alphabets <- {{0, 1}, {1, 2}}, MaterialChange <- 40, NewText <- 50

\* Blocks of up to four sentences, and two rows against two.
C == INSTANCE Correspondence WITH Most <- 4, Scores <- {40, 60, 90}, Floor <- 55, Skip <- 15

\* Editions of four chapters of any kind, and of ten, where a share is more than one chapter.
Chapter(judges, body) == [judges |-> judges, analysis |-> 1, body |-> body]
Chapters ==
    {Chapter(j, TRUE) : j \in {<<0, 0>>, <<0, 1>>, <<1, 1>>, <<1, 2>>, <<>>}} \cup {Chapter(<<1, 1>>, FALSE)}
Ten(disputed, above, unjudged, matter) ==
    [i \in 1..10 |->
        IF i <= disputed THEN Chapter(<<0, 1>>, TRUE)
        ELSE IF i <= disputed + above THEN Chapter(<<1, 1>>, TRUE)
        ELSE IF i <= disputed + above + unjudged THEN Chapter(<<>>, TRUE)
        ELSE Chapter(<<0, 0>>, i > disputed + above + unjudged + matter)]
JudgedBooks ==
    [1..4 -> Chapters] \cup {Ten(d, a, u, m) : d \in 0..3, a \in 0..3, u \in 0..2, m \in 0..2}
V == INSTANCE LevelGate WITH
    MaxLevel <- 1, Readings <- 3, Windows <- 2, Library <- JudgedBooks, Target <- 0

\* Calls that report up to two tokens.
D == INSTANCE CliCalls WITH Most <- 2

ASSUME FloorAssumption == O!FloorConstants /\ F!FloorConstants

--------------------------------------------------------------------------------
(* One at a time.                                                               *)

NoInput == given = [what |-> "none"] /\ said = <<>>

IntakeInit ==
    /\ \/ which = "probe" /\ seats = 1 /\ O!Init /\ NoInput
       \/ which \in {"book", "alone", "floor"} /\ F!Init /\ NoInput
       \/ which = "input" /\ F!Init /\ (C!Init \/ V!Init \/ X!Init \/ U!Init) /\ said = <<>>
       \/ which = "call" /\ F!Init /\ given = [what |-> "none"] /\ D!Init
    /\ IF which = "alone" THEN Alone /\ Quiet ELSE Init

\* The others stay where they are.
OfBook == which = "book" /\ UNCHANGED <<which, inputVars, floorVars>>
OfAlone == which = "alone" /\ UNCHANGED <<which, inputVars, floorVars>>
OfProbe == which = "probe" /\ UNCHANGED <<which, inputVars, vars>>
OfFloor == which = "floor" /\ UNCHANGED <<which, inputVars, vars>>

BookNext ==
    \/ OfBook /\ TickStep
    \/ OfBook /\ WorkerStep
    \/ OfBook /\ WorkerDies
    \/ OfBook /\ TickDies
    \/ OfBook /\ People
    \/ \E b \in Books : OfBook /\ ProductionEnds(b)
    \/ OfAlone /\ A!TickStep
    \/ OfAlone /\ A!WorkerStep
    \/ OfAlone /\ A!WorkerDies
    \/ OfAlone /\ A!TickDies
    \/ OfAlone /\ A!People
    \/ \E b \in Books : OfAlone /\ A!ProductionEnds(b)

ProbeNext ==
    \/ \E l \in 1..1 :
          \/ OfProbe /\ O!QueueProbe(l)
          \/ OfProbe /\ O!Backfill(l)
          \/ OfProbe /\ O!Sweep(l)
    \/ \E w \in TwoWorkers :
          \/ OfProbe /\ O!RunProbe(w)
          \/ OfProbe /\ O!Ask(w)
          \/ OfProbe /\ O!Answered(w)
          \/ OfProbe /\ O!CallFails(w)
          \/ OfProbe /\ O!ChapterEnds(w)
          \/ OfProbe /\ O!EndProbe(w)
          \/ OfProbe /\ O!Refresh(w)
          \/ OfProbe /\ O!Die(w)
    \/ \E x \in change : OfProbe /\ O!Commit(x)
    \/ OfProbe /\ O!Deploy
    \/ OfProbe /\ O!EditSource

FloorNext ==
    \/ \E l \in 1..2 :
          \/ OfFloor /\ F!QueueProbe(l)
          \/ OfFloor /\ F!Generate(l)
          \/ \E to \in {"generated", "reached", "none"} : OfFloor /\ F!Move(l, to)
          \/ OfFloor /\ F!EditEdition(l)
          \/ OfFloor /\ F!RecordUnreached(l)
    \/ \E w \in TwoWorkers :
          \/ OfFloor /\ F!RunProbe(w)
          \/ OfFloor /\ F!Ask(w)
          \/ OfFloor /\ F!Answered(w)
          \/ OfFloor /\ F!ChapterEnds(w)
          \/ OfFloor /\ F!EndProbe(w)
          \/ OfFloor /\ F!Refresh(w)
    \/ \E x \in change : OfFloor /\ F!Commit(x)

IntakeNext == BookNext \/ ProbeNext \/ FloorNext

IntakeSpec == IntakeInit /\ [][IntakeNext]_<<which, inputVars, floorVars, vars>>

--------------------------------------------------------------------------------
(* The properties of the instances.                                             *)

\* The floor of a work (Floor): a probe's verdict is what its judges and auditors said, whoever
\* asked them; the work says it adapts to the levels whose editions passed their gates; and no level
\* is tried before a probe of the one above it passed.
FloorHolds ==
    /\ which = "probe" => O!FloorHolds
    /\ which = "floor" => F!FloorHolds

\* The functions of their input (Correspondence, LevelGate, ChapterCut, Recut, CliCalls): every
\* sentence has a partner and no other choice of candidates is worth more; the evidence shown is of
\* the level and what passes the gate reads at the target; a file that is cut keeps its text, its
\* chapters and its story, and one that is cut again moves no word; the ledger has the tokens of
\* every process that was run.
InputsFit ==
    /\ which = "input" =>
          /\ C!CoversBothSides /\ C!BestCandidates /\ V!LevelsHold
          /\ X!CutKeepsTheBook /\ X!StoryIsRead /\ U!RecutKeepsReading
    /\ which = "call" => D!CostsAreCarried
=============================================================================
