-------------------------------- MODULE Recut --------------------------------
(* A source cut again into chapters without rewriting a word (catalog/recut.py): every stored   *)
(* block is looked up by its text in a fresh cut of the file and moves to the chapter found     *)
(* there, the blocks of the editions made from it move with theirs. Texts are numbers, 0 a      *)
(* block without words (a separator, an image); shares are hundredths.                          *)
EXTENDS Integers, Sequences, SequencesExt, FiniteSets, FiniteSetsExt, Functions

CONSTANTS
    Most,                          \* the most blocks of a cut
    Alphabets,                     \* the texts of the blocks, as sets of which each book has one
    MaterialChange, NewText        \* MATERIAL_CHANGE_SHARE, NEW_TEXT_SHARE

VARIABLE given     \* the input: the stored blocks and the fresh ones, [text, chapter] each

InChapters(texts) ==
    {[i \in DOMAIN texts |-> [text |-> texts[i], chapter |-> c[i]]] :
        c \in {c \in [DOMAIN texts -> 0..Len(texts) - 1] :
                  /\ c[1] = 0
                  /\ \A i \in 2..Len(texts) : c[i] - c[i - 1] \in {0, 1}}}
Cuts(n, alphabet) == UNION {InChapters(texts) : texts \in [1..n -> alphabet]}

Init == \E n \in 1..Most - 1, m \in 1..Most, alphabet \in Alphabets :
        \E stored \in Cuts(n, alphabet), fresh \in Cuts(m, alphabet) :
            given = [what |-> "recut", stored |-> stored, fresh |-> fresh]

--------------------------------------------------------------------------------
(* _match.                                                                      *)

Words(blocks) == {i \in DOMAIN blocks : blocks[i].text # 0}

\* The unused places of a text, the first at or after the last match before the others.
Place(fresh, text, found) ==
    LET places == {p \in Words(fresh) : fresh[p].text = text} \ found.used
        next == {p \in places : p >= found.cursor} IN
    IF places = {} THEN 0 ELSE IF next # {} THEN Min(next) ELSE Min(places)

\* A block without words, or one that is not found, stays with the block before it.
Matched(fresh, found, block) ==
    LET p == IF block.text = 0 THEN 0 ELSE Place(fresh, block.text, found) IN
    IF p = 0
    THEN [found EXCEPT !.place = Append(@, 0), !.chapter = Append(@, found.current)]
    ELSE [used |-> found.used \cup {p}, cursor |-> p + 1, current |-> fresh[p].chapter,
          place |-> Append(found.place, p), chapter |-> Append(found.chapter, fresh[p].chapter)]

Plan(stored, fresh) ==
    FoldLeft(LAMBDA found, block : Matched(fresh, found, block),
             [used |-> {}, cursor |-> 1, current |-> fresh[1].chapter, place |-> <<>>, chapter |-> <<>>],
             stored)

ChaptersOf(blocks) == {blocks[i].chapter : i \in DOMAIN blocks}
Unmatched(stored, plan) == {i \in Words(stored) : plan.place[i] = 0}

\* RecutPlan.material_change and .unchanged: what a re-cut refuses, and where it has nothing to do.
Material(stored, fresh, plan) ==
    \/ 100 * Cardinality(Unmatched(stored, plan)) > MaterialChange * Max({Cardinality(Words(stored)), 1})
    \/ 100 * Cardinality(Words(fresh) \ plan.used) > NewText * Max({Cardinality(Words(fresh)), 1})
Unchanged(stored, fresh, plan) ==
    Cardinality(ChaptersOf(stored)) = Cardinality(ChaptersOf(fresh)) /\ Unmatched(stored, plan) = {}

--------------------------------------------------------------------------------
(* apply_recut: an edition's blocks in their order, each to the chapter of its source's block    *)
(* (0 is a block the source has not), or of the block before it.                                 *)

Moved(plan, fresh, ids) ==
    FoldLeft(LAMBDA moved, id :
                 LET c == IF id # 0 THEN plan.chapter[id] ELSE moved.last IN
                 [last |-> c, rows |-> Append(moved.rows, [id |-> id, chapter |-> c])],
             [last |-> fresh[1].chapter, rows |-> <<>>], ids).rows

\* The edition as it reads then: chapter by chapter, each in the order the blocks had.
Read(rows) ==
    FlattenSeq([c \in 1..Len(rows) + Most |-> SelectSeq(rows, LAMBDA r : r.chapter = c - 1)])

--------------------------------------------------------------------------------
(* Properties.                                                                  *)

TextsOf(blocks) == [i \in DOMAIN blocks |-> blocks[i].text]
Spoken(blocks) == SelectSeq(TextsOf(blocks), LAMBDA t : t # 0)
IsSubsequence(s, t) ==
    \E places \in SUBSET DOMAIN t :
        LET at == SetToSortSeq(places, LAMBDA a, b : a < b) IN [i \in DOMAIN at |-> t[at[i]]] = s

\* "Without rewriting a word" (recut.py:1): where the fresh cut has the stored paragraphs in their
\* order, with others between them or none, each is found, in the chapter of its own text, and the
\* source and every edition made from it read as before, a derived block in the chapter its source's
\* is in. A paragraph is never matched to two places.
RecutKeepsReading ==
    given.what = "recut" =>
    LET stored == given.stored
        fresh == given.fresh
        plan == Plan(stored, fresh)
        ids == [i \in DOMAIN stored |-> i]
        placed == {i \in DOMAIN stored : plan.place[i] # 0} IN
    /\ \A i \in placed : fresh[plan.place[i]].text = stored[i].text
    /\ \A i, j \in placed : plan.place[i] = plan.place[j] => i = j
    /\ IsSubsequence(Spoken(stored), Spoken(fresh)) =>
          /\ Unmatched(stored, plan) = {}
          /\ \A dropped \in SUBSET DOMAIN stored, at \in 0..Len(stored) :
                LET derived == SelectSeq(SubSeq(ids, 1, at), LAMBDA i : i \notin dropped) \o <<0>>
                               \o SelectSeq(SubSeq(ids, at + 1, Len(ids)), LAMBDA i : i \notin dropped)
                    rows == Moved(plan, fresh, derived) IN
                /\ Read(rows) = rows
                /\ \A k \in DOMAIN rows : rows[k].id # 0 => rows[k].chapter = plan.chapter[rows[k].id]

\* "same cut already" (recut_source.py:38) is said of a book that is cut as the fresh one. The code
\* compares the number of the chapters.
SameCut ==
    given.what = "recut" =>
    LET plan == Plan(given.stored, given.fresh) IN
    Unchanged(given.stored, given.fresh, plan) /\ TextsOf(given.stored) = TextsOf(given.fresh)
    => given.stored = given.fresh
================================================================================
