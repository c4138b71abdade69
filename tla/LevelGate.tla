----------------------------- MODULE LevelGate -----------------------------
(* The level of an adaptation: what a panel of judges reads in a text                         *)
(* (catalog/pilot_difficulty.py) and what the readings of its chapters make of the edition    *)
(* (catalog/adaptation_quality.py). Levels are numbers; a reading is the level of each window *)
(* of the text.                                                                               *)
EXTENDS Naturals, Sequences, FiniteSets, SequencesExt, FiniteSetsExt

CONSTANTS
    MaxLevel,       \* CEFR levels are 0..MaxLevel
    Readings,       \* how often a judge reads where the panel disagrees
    Windows,        \* the windows of a text, at most
    Library,        \* editions: sequences of chapters as the gate sees them
    Target

VARIABLE given      \* the input: what the judges read in each window, or an edition's chapters

Levels == 0..MaxLevel
Texts(j, r, w) == [1..j -> [1..r -> [1..w -> Levels]]]

Init ==
    \/ \E w \in 1..Windows : \E judges \in Texts(1, Readings, w) \cup Texts(2, Readings, w) :
          given = [what |-> "judges", judges |-> judges]
    \/ \E book \in Library : given = [what |-> "levels", book |-> book]

Highest(s) == Max(ToSet(s))

--------------------------------------------------------------------------------
(* The panel.                                                                                 *)

\* The middle reading; of an even number the higher of the two in the middle.
Middle(levels) == SortSeq(levels, <)[(Len(levels) \div 2) + 1]

\* judge_text: every window is read in each reading; the judge's level is that of the middle
\* reading, and its runs are listed reading by reading.
Judged(readings) ==
    LET levels == [r \in DOMAIN readings |-> Highest(readings[r])]
    IN [level |-> Middle(levels), levels |-> levels, windows |-> Len(readings[1]),
        runs |-> FlattenSeq([r \in DOMAIN readings |->
                     [w \in DOMAIN readings[r] |-> [reading |-> r, window |-> w]]])]

Agreed(verdicts) == Len(verdicts) > 1 /\ \A j \in DOMAIN verdicts : verdicts[j].level = verdicts[1].level

\* panel_readings: each judge reads once, and only where they differ as often as it is asked to.
Panel(judges) ==
    LET first == [j \in DOMAIN judges |-> Judged(SubSeq(judges[j], 1, 1))]
    IN IF Agreed(first) THEN first ELSE [j \in DOMAIN judges |-> Judged(judges[j])]

\* panel_verdict: the strictest judge decides, the first of them.
Decisive(verdicts) ==
    Min({j \in DOMAIN verdicts : \A k \in DOMAIN verdicts : verdicts[k].level <= verdicts[j].level})

\* decisive_runs: the runs of the reading that stands for the decisive judge.
DecisiveRuns(verdicts) ==
    LET v == verdicts[Decisive(verdicts)]
        kept == SelectInSeq(v.levels, LAMBDA x : x = v.level)
    IN SubSeq(v.runs, (kept - 1) * v.windows + 1, kept * v.windows)

--------------------------------------------------------------------------------
(* The gate. A chapter is what its judges read (none, where the library's own reading stands), *)
(* that reading, and whether it is of the story.                                               *)

LevelOf(c) == IF c.judges = <<>> THEN c.analysis ELSE Highest(c.judges)
Body(book) == {i \in DOMAIN book : book[i].body}
AboveTarget(book) == {i \in Body(book) : LevelOf(book[i]) > Target}
Disputed(c) ==
    /\ Len(c.judges) > 1
    /\ Min(ToSet(c.judges)) <= Target /\ Highest(c.judges) = Target + 1

\* A tenth of the chapters may be disputed; more of them count as above.
Split(book) ==
    LET split == {i \in AboveTarget(book) : Disputed(book[i])}
    IN IF Cardinality(split) > Cardinality(Body(book)) \div 10 THEN {} ELSE split
Above(book) == AboveTarget(book) \ Split(book)
Far(book) == {i \in AboveTarget(book) : LevelOf(book[i]) >= Target + 2}

\* adaptation_quality: a fifth of the chapters may read one level above, none two.
Blocked(book) ==
    Above(book) # {} /\ (Far(book) # {} \/ Cardinality(Above(book)) > Cardinality(Body(book)) \div 5)

--------------------------------------------------------------------------------
(* What is promised.                                                                          *)

\* The runs that stand for a chapter are one judge's one reading of all its windows, and what
\* they read is the panel's level (pilot_difficulty.py:118): the passages shown as evidence are
\* those of the level.
EvidenceIsOfLevel(judges) ==
    LET verdicts == Panel(judges)
        j == Decisive(verdicts)
        runs == DecisiveRuns(verdicts)
    IN /\ \E r \in DOMAIN judges[j] : runs = [w \in DOMAIN judges[j][r] |-> [reading |-> r, window |-> w]]
       /\ Max({judges[j][runs[k].reading][runs[k].window] : k \in DOMAIN runs}) = verdicts[j].level
       /\ \A k \in DOMAIN verdicts : verdicts[k].level <= verdicts[j].level

\* What passes is the target's: no chapter of the story reads two levels above, for a fifth of
\* them at most every judge reads more than the target, and for three tenths at most any does.
PassIsOfLevel(book) ==
    LET n == Cardinality(Body(book))
        all == {i \in AboveTarget(book) : ~ Disputed(book[i])}
    IN ~ Blocked(book) =>
           /\ \A i \in Body(book) : LevelOf(book[i]) <= Target + 1
           /\ 5 * Cardinality(all) <= n
           /\ 10 * Cardinality(AboveTarget(book)) <= 3 * n

LevelsHold ==
    /\ given.what = "judges" => EvidenceIsOfLevel(given.judges)
    /\ given.what = "levels" => PassIsOfLevel(given.book)

(* Not so: that a book which reads easier passes where it passed before. A chapter that one    *)
(* judge no longer reads above the target becomes a disputed one, and one disputed chapter too *)
(* many counts all of them as above (adaptation_quality.py:114).                               *)
EasierPasses ==
    given.what = "levels" =>
        \A i \in DOMAIN given.book : \A j \in DOMAIN given.book[i].judges :
            given.book[i].judges[j] > 0 /\ ~ Blocked(given.book)
                => ~ Blocked([given.book EXCEPT ![i].judges[j] = @ - 1])

=============================================================================
