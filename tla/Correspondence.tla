---------------------------- MODULE Correspondence ----------------------------
(* Two algorithms of the alignments, as functions of their input: the best monotonic           *)
(* candidates of two sequences (processing/nlp.py, align_embeddings) and the groups that give  *)
(* every sentence of a pair of blocks a partner (processing/sentence_correspondence.py).       *)
(* An interval of positions is <<from, to>>; confidences are hundredths.                       *)
EXTENDS Integers, Sequences, SequencesExt, FiniteSets, FiniteSetsExt, Functions

CONSTANTS
    Most,          \* the longest side of a pair to be covered
    Scores,        \* confidences a group may have
    Floor, Skip    \* minimum_confidence, skip_penalty

VARIABLE given     \* the input: [what, ...]

Intervals(n) == {i \in (1..n) \X (1..n) : i[1] <= i[2]}

\* The matched groups: disjoint, in order on both sides, at most two of them.
Matches(n, m) == {[p |-> p, s |-> s, certain |-> TRUE] : p \in Intervals(n), s \in Intervals(m)}
Anchors(n, m) ==
    {<<>>} \cup {<<g>> : g \in Matches(n, m)}
    \cup {<<g, h>> : g \in Matches(n, m), h \in {h \in Matches(n, m) : h.p[1] > 1 /\ h.s[1] > 1}}
Ordered(groups) ==
    \A i \in 1..Len(groups) - 1 : groups[i].p[2] < groups[i + 1].p[1] /\ groups[i].s[2] < groups[i + 1].s[1]

\* Two rows and two columns: the confidence of each 1:1, 1:2 and 2:1 group.
Sides == {1, 2}
Groups == {<<<<i, i>>, <<j, j>>>> : i, j \in Sides}
          \cup {<<<<i, i>>, <<1, 2>>>> : i \in Sides} \cup {<<<<1, 2>>, <<j, j>>>> : j \in Sides}

Init ==
    \/ \E n, m \in 1..Most : \E anchors \in Anchors(n, m) :
          Ordered(anchors) /\ given = [what |-> "cover", n |-> n, m |-> m, anchors |-> anchors]
    \/ \E score \in [Groups -> Scores] : given = [what |-> "align", score |-> score]

--------------------------------------------------------------------------------
(* _cover_groups.                                                               *)

Length(from, to) == to - from + 1
Slice(from, length, count, i) == <<from + ((i - 1) * length) \div count, from + (i * length) \div count - 1>>

\* Positional groups for what lies between two matches on both sides.
Positional(p, s) ==
    LET count == Min({Length(p[1], p[2]), Length(s[1], s[2])}) IN
    [i \in 1..count |-> [p |-> Slice(p[1], Length(p[1], p[2]), count, i),
                         s |-> Slice(s[1], Length(s[1], s[2]), count, i), certain |-> FALSE]]

\* Mutant: the last group keeps its own end.
StretchOne(group, p, s) == [group EXCEPT !.p = <<@[1], p[2]>>, !.certain = FALSE]

\* What is left on one side goes to the group before it.
Stretch(group, p, s) == [p |-> <<group.p[1], p[2]>>, s |-> <<group.s[1], s[2]>>, certain |-> FALSE]

\* The gap before a match, or before the end; at is the first position of each side not covered.
\* Before the first match, what is left on one side goes to that match.
Filled(made, p, s) ==
    LET at == made.at IN
    IF at.p <= p /\ at.s <= s THEN [made EXCEPT !.out = @ \o Positional(<<at.p, p>>, <<at.s, s>>)]
    ELSE IF at.p > p /\ at.s > s THEN made
    ELSE IF made.out # <<>>
         THEN [made EXCEPT !.out = SubSeq(@, 1, Len(@) - 1) \o <<Stretch(Last(@), <<at.p, p>>, <<at.s, s>>)>>]
         ELSE [made EXCEPT !.early = TRUE]

Placed(made, anchor) ==
    LET filled == Filled(made, anchor.p[1] - 1, anchor.s[1] - 1)
        group == IF filled.early
                 THEN [p |-> <<made.at.p, anchor.p[2]>>, s |-> <<made.at.s, anchor.s[2]>>, certain |-> FALSE]
                 ELSE anchor IN
    [out |-> Append(filled.out, group), early |-> FALSE,
     at |-> [p |-> anchor.p[2] + 1, s |-> anchor.s[2] + 1]]

CoverGroups(n, m, anchors) ==
    LET made == FoldLeft(Placed, [out |-> <<>>, early |-> FALSE, at |-> [p |-> 1, s |-> 1]], anchors)
    IN Filled(made, n, m).out

--------------------------------------------------------------------------------
(* align_embeddings.                                                            *)

Moves == {[i |-> 1, j |-> 1], [i |-> 1, j |-> 2], [i |-> 2, j |-> 1]}
Group(i, j, move) == <<<<i, i + move.i - 1>>, <<j, j + move.j - 1>>>>

\* The moves that can begin at a cell with enough confidence.
Usable(score, i, j) ==
    {move \in Moves : i + move.i <= 3 /\ j + move.j <= 3 /\ score[Group(i, j, move)] >= Floor}

\* Twice the value of a match: confidence times the mean of the positions it consumes.
Worth(score, group) ==
    score[group] * (Length(group[1][1], group[1][2]) + Length(group[2][1], group[2][2]))

\* A step over one position of one side.
Skips == {[i |-> 1, j |-> 0], [i |-> 0, j |-> 1]}

\* The table from the last cell to the first: the best value and the groups it takes.
Table(score) ==
    LET best[c \in (1..3) \X (1..3)] ==
            IF c = <<3, 3>> THEN [value |-> 0, groups |-> {}]
            ELSE LET i == c[1]
                     j == c[2]
                     skips == {[best[<<i + k.i, j + k.j>>] EXCEPT !.value = @ - 2 * Skip] :
                                  k \in {k \in Skips : i + k.i <= 3 /\ j + k.j <= 3}}
                     takes == IF i > 2 \/ j > 2 THEN {}
                              ELSE {[value |-> best[<<i + v.i, j + v.j>>].value + Worth(score, Group(i, j, v)),
                                     groups |-> best[<<i + v.i, j + v.j>>].groups \cup {Group(i, j, v)}] :
                                       v \in Usable(score, i, j)}
                 IN CHOOSE b \in skips \cup takes : \A o \in skips \cup takes : o.value <= b.value
    IN best[<<1, 1>>]

--------------------------------------------------------------------------------
(* Properties.                                                                  *)

Flat(groups, side) == FoldLeft(LAMBDA seen, g : seen \o [i \in 1..Length(g[side][1], g[side][2]) |-> g[side][1] + i - 1],
                               <<>>, groups)

\* "Sentence correspondence does not cover both sides" (offline_sentence_alignment.py:147) is never
\* raised of two blocks that have sentences: every sentence is in one group, in order, and every
\* group has both sides; a group is certain only as it was matched.
CoversBothSides ==
    given.what = "cover" =>
    LET groups == CoverGroups(given.n, given.m, given.anchors) IN
    /\ Flat(groups, "p") = [i \in 1..given.n |-> i]
    /\ Flat(groups, "s") = [i \in 1..given.m |-> i]
    /\ \A g \in ToSet(groups) :
          g.p[1] <= g.p[2] /\ g.s[1] <= g.s[2] /\ (g.certain => g \in ToSet(given.anchors))

\* The sets of groups that use a position once and keep the order.
Monotonic(groups) ==
    \A g, h \in groups : g # h => \/ g[1][2] < h[1][1] /\ g[2][2] < h[2][1]
                                  \/ h[1][2] < g[1][1] /\ h[2][2] < g[2][1]
Used(groups, side) == UNION {g[side][1]..g[side][2] : g \in groups}
Total(score, groups) ==
    MapThenSumSet(LAMBDA g : Worth(score, g), groups)
    - 2 * Skip * (4 - Cardinality(Used(groups, 1)) - Cardinality(Used(groups, 2)))

\* "Return monotonic 1:1, 1:2, and 2:1 candidates" (nlp.py:201): the candidates keep the reading
\* order, use a block once, and no other choice of groups is worth more.
BestCandidates ==
    given.what = "align" =>
    LET found == Table(given.score)
        choices == {c \in SUBSET {g \in Groups : given.score[g] >= Floor} : Monotonic(c)} IN
    /\ found.groups \in choices /\ found.value = Total(given.score, found.groups)
    /\ \A c \in choices : Total(given.score, c) <= found.value
================================================================================
