------------------------------ MODULE ChapterCut ------------------------------
(* How an EPUB becomes chapters, as functions of the file: a document is cut at its chapter     *)
(* headings and a long part by size (ingest/chapter_split.py), chapters are counted over the    *)
(* documents (ingest/epub.py), a chapter that is only a heading joins the next (common.py,      *)
(* fold_heading_only_chapters), and its title says whether a chapter is the story               *)
(* (catalog/front_matter.py). A document is a sequence of items in reading order.               *)
EXTENDS Naturals, Sequences, SequencesExt, FiniteSets, FiniteSetsExt, Functions

CONSTANTS
    Most,                                  \* the most items of a book
    ShortDocument, LongDocument,           \* SHORT_DOCUMENT_CHARS, LONG_DOCUMENT_CHARS
    UnsplitDocument, SizeSplitTarget,      \* UNSPLIT_DOCUMENT_CHARS, SIZE_SPLIT_TARGET_CHARS
    RepeatedTimes                          \* REPEATED_HEADING_TIMES

VARIABLE given     \* the input: [what, ...]

\* A heading element, a paragraph that is a chapter label, prose, and a printed page number.
Heading(level, title) == [kind |-> "heading", level |-> level, title |-> title, size |-> 1]
Label == [kind |-> "label", level |-> 7, title |-> "numbered", size |-> 1]
Prose == [kind |-> "prose", level |-> 0, title |-> "", size |-> 2]
PageNumber == [kind |-> "number", level |-> 0, title |-> "", size |-> 1]
Items == {Heading(2, "story"), Heading(3, "matter"), Label, Prose, PageNumber}

\* What a chapter's title can be: none, a numbered one, the book's own or its author's, a word for
\* the matter around a story (a closing word too), any other.
Titles == {"", "numbered", "own", "matter", "story"}

Init ==
    \/ \E n \in 1..Most : \E items \in [1..n -> Items], first \in 1..n :
          given = [what |-> "file",
                   documents |-> IF first = n THEN <<items>>
                                 ELSE <<SubSeq(items, 1, first), SubSeq(items, first + 1, n)>>]
    \/ \E n \in 1..Most : \E titles \in [1..n -> Titles], bySize \in SUBSET (1..n) :
          given = [what |-> "titles", titles |-> titles, bySize |-> bySize]

--------------------------------------------------------------------------------
(* One document: split_at_chapter_headings.                                     *)

DocumentLength(root) == FoldLeft(LAMBDA sum, item : sum + item.size, 0, root)

\* The elements a chapter may start at; a text that comes back this often names a speaker.
ChapterHeadings(root) ==
    LET found == {i \in DOMAIN root : root[i].kind \in {"heading", "label"}} IN
    {i \in found : Cardinality({j \in found : root[j].title = root[i].title}) < RepeatedTimes}

IsBodyText(item) == item.kind # "heading"

\* One string of the walk: a heading starts a chapter when something else was written since the last.
Walked(root, headings, walk, i) ==
    IF i \in headings
    THEN [walk EXCEPT !.starts = IF ~walk.seen \/ walk.body THEN Append(@, i) ELSE @,
                      !.body = FALSE, !.seen = TRUE]
    ELSE IF IsBodyText(root[i])
    THEN [walk EXCEPT !.preamble = @ \/ ~walk.seen, !.body = TRUE]
    ELSE walk

\* A trailing heading closes the chapter before it.
ChapterStarts(root, headings) ==
    LET walk == FoldLeft(LAMBDA w, i : Walked(root, headings, w, i),
                         [starts |-> <<>>, body |-> FALSE, preamble |-> FALSE, seen |-> FALSE],
                         [i \in DOMAIN root |-> i]) IN
    [starts |-> IF walk.starts # <<>> /\ ~walk.body THEN Front(walk.starts) ELSE walk.starts,
     preamble |-> walk.preamble]

\* The level most of the chapters use, the shallowest of several, and any shallower one.
AtChapterLevel(root, starts) ==
    LET Times(level) == Cardinality({k \in DOMAIN starts : root[starts[k]].level = level})
        levels == {root[starts[k]].level : k \in DOMAIN starts}
        dominant == Min({l \in levels : \A other \in levels : Times(other) <= Times(l)}) IN
    SelectSeq(starts, LAMBDA i : root[i].level <= dominant)

\* What stands before the first heading is a chapter of its own when it has words, or the first's.
Segments(root, starts, preamble) ==
    LET cuts == IF preamble THEN <<1>> \o starts ELSE <<1>> \o Tail(starts) IN
    [k \in DOMAIN cuts |-> SubSeq(root, cuts[k], IF k = Len(cuts) THEN Len(root) ELSE cuts[k + 1] - 1)]

SplitAtChapterHeadings(root) ==
    LET headings == ChapterHeadings(root)
        found == ChapterStarts(root, headings)
        starts == IF found.starts = <<>> THEN <<>> ELSE AtChapterLevel(root, found.starts)
        chapters == Len(starts) + (IF found.preamble THEN 1 ELSE 0)
        \* label paragraphs become headings
        named == [i \in DOMAIN root |-> IF i \in headings THEN [root[i] EXCEPT !.kind = "heading"] ELSE root[i]] IN
    IF \/ DocumentLength(root) < ShortDocument \/ headings = {} \/ chapters < 2
       \/ DocumentLength(root) <= LongDocument /\ Len(starts) < 2
    THEN <<root>>
    ELSE Segments(named, starts, found.preamble)

\* split_by_size: parts of about the target, cut between blocks. (Text that is in no element of its
\* own is cut only at a blank line.)
SplitBySize(root) ==
    LET Put(made, item) ==
            IF Last(made.parts) # <<>> /\ made.size + item.size > SizeSplitTarget
            THEN [parts |-> Append(made.parts, <<item>>), size |-> item.size]
            ELSE [parts |-> Front(made.parts) \o <<Append(Last(made.parts), item)>>,
                  size |-> made.size + item.size] IN
    IF DocumentLength(root) < 2 * SizeSplitTarget THEN <<root>>
    ELSE FoldLeft(Put, [parts |-> <<<<>>>>, size |-> 0], root).parts

\* The document's parts, and whether each was cut by size.
PartsOf(segment) ==
    LET parts == IF DocumentLength(segment) > UnsplitDocument THEN SplitBySize(segment) ELSE <<segment>> IN
    [p \in DOMAIN parts |-> [items |-> parts[p], bySize |-> Len(parts) > 1]]
Parts(root) ==
    FoldLeft(LAMBDA parts, segment : parts \o PartsOf(segment), <<>>, SplitAtChapterHeadings(root))

OpensWithoutHeading(root) == root # <<>> /\ root[1].kind \in {"prose", "number"}

--------------------------------------------------------------------------------
(* The file: ingest_epub.                                                       *)

\* extract_blocks: every item is a block, but for a page number.
Blocks(part, chapter) ==
    LET items == SelectSeq(part.items, LAMBDA item : item.kind # "number") IN
    [k \in DOMAIN items |-> [item |-> items[k], chapter |-> chapter, bySize |-> part.bySize, part |-> FALSE]]

\* One part: the opening of a file that continues a chapter goes to that chapter, and a part without
\* blocks is no chapter.
PutPart(book, part, continued) ==
    LET blocks == Blocks(part, IF continued THEN book.chapter - 1 ELSE book.chapter) IN
    [book EXCEPT !.blocks = @ \o blocks,
                 !.chapter = IF blocks # <<>> /\ ~continued THEN @ + 1 ELSE @]

PutDocument(book, root) ==
    LET parts == Parts(root)
        continues == book.long /\ book.chapter > 0 /\ OpensWithoutHeading(root)
        Put(made, k) == PutPart(made, parts[k], continues /\ k = 1) IN
    [FoldLeft(Put, book, [k \in DOMAIN parts |-> k]) EXCEPT !.long = DocumentLength(root) > LongDocument]

Ingested(documents) ==
    FoldLeft(PutDocument, [blocks |-> <<>>, chapter |-> 0, long |-> FALSE], documents).blocks

ChapterNumbers(blocks) == {blocks[i].chapter : i \in DOMAIN blocks}
OfChapter(blocks, c) == SelectSeq(blocks, LAMBDA b : b.chapter = c)

\* A chapter with headings and no text.
IsHeading(block) == block.item.kind = "heading"
HeadingOnly(group) == \A k \in DOMAIN group : IsHeading(group[k])

\* fold_heading_only_chapters: such a chapter opens the one after it, or closes the last one.
Carried(made, group) ==
    IF HeadingOnly(group)
    THEN [made EXCEPT !.carry = @ \o [k \in DOMAIN group |-> [group[k] EXCEPT !.part = TRUE]]]
    ELSE [groups |-> Append(made.groups, made.carry \o group), carry |-> <<>>]

Closed(made) ==
    IF made.carry = <<>> THEN made.groups
    ELSE IF made.groups = <<>> THEN <<made.carry>>
    ELSE Front(made.groups) \o <<Last(made.groups) \o made.carry>>

Numbered(groups) ==
    FlattenSeq([c \in DOMAIN groups |->
        [k \in DOMAIN groups[c] |-> [groups[c][k] EXCEPT !.chapter = c - 1]]])

Fold(blocks) ==
    Numbered(Closed(FoldLeft(LAMBDA made, c : Carried(made, OfChapter(blocks, c)),
                             [groups |-> <<>>, carry |-> <<>>],
                             SetToSortSeq(ChapterNumbers(blocks), LAMBDA a, b : a < b))))

\* The chapters' titles, in order: the first heading of each that is no part label.
TitlesOf(blocks) ==
    [n \in 1..Cardinality(ChapterNumbers(blocks)) |->
        LET own == SelectSeq(OfChapter(blocks, n - 1), LAMBDA b : IsHeading(b) /\ ~b.part) IN
        IF own = <<>> THEN "" ELSE own[1].item.title]
CutBySize(blocks) == {blocks[i].chapter + 1 : i \in {i \in DOMAIN blocks : blocks[i].bySize}}

--------------------------------------------------------------------------------
(* Which chapters are the story: chapter_roles.                                 *)

IsStory(title) == title \in {"numbered", "own", "story"}

\* A title page: chapters named after the book or its author, ahead of the story.
TitlePages(titles, bySize) ==
    {i \in DOMAIN titles : /\ i \notin bySize /\ titles[i] = "own"
                           /\ \A j \in 1..i - 1 : j \notin bySize /\ titles[j] \notin {"numbered", "story"}}

\* Where no title is a story's, the untitled chapters are, if there are titled ones besides.
StoryChapters(titles, bySize) ==
    LET story == {i \in DOMAIN titles : i \in bySize \/ IsStory(titles[i])} \ TitlePages(titles, bySize)
        untitled == {i \in DOMAIN titles : titles[i] = ""} IN
    IF story # {} THEN story ELSE untitled

\* An untitled chapter after the last titled one is the story's too.
EndOfStory(titles, story, bySize, first) ==
    Max(story \cup {i \in DOMAIN titles : i > first /\ i \notin bySize /\ titles[i] = ""})

Roles(titles, first, last) ==
    [i \in DOMAIN titles |->
        IF i < first \/ (i <= last /\ titles[i] = "matter" /\ 2 * i < first + last) THEN "front"
        ELSE IF i > last \/ titles[i] = "matter" THEN "back" ELSE "body"]

\* The story begins with its first numbered chapter, where it has one.
Begins(story, numbered, bySize) ==
    Min((IF numbered = {} THEN {Min(story)} ELSE {Min(numbered)}) \cup bySize)

RolesAround(titles, bySize, story, first) ==
    IF story = {} \/ \A i \in DOMAIN titles : titles[i] = "" /\ i \notin bySize
    THEN [i \in DOMAIN titles |-> "body"]
    ELSE Roles(titles, first, EndOfStory(titles, story, bySize, first))

ChapterRoles(titles, bySize) ==
    LET story == StoryChapters(titles, bySize) IN
    RolesAround(titles, bySize, story, Begins(story, {i \in story : titles[i] = "numbered"}, bySize))

--------------------------------------------------------------------------------
(* Properties.                                                                  *)

Kept(items) == SelectSeq(items, LAMBDA item : item.kind # "number")
Same(item) == IF item.kind = "label" THEN [item EXCEPT !.kind = "heading"] ELSE item

\* The blocks before and after the chapters of mere headings joined their neighbours.
KeepsTheBook(documents, cut, blocks) ==
    LET read == Kept(FlattenSeq(documents)) IN
    /\ Len(blocks) = Len(read)
    /\ \A i \in DOMAIN blocks :
          /\ Same(blocks[i].item) = Same(read[i])
          /\ i = 1 => blocks[i].chapter = 0
          /\ i > 1 => blocks[i].chapter - blocks[i - 1].chapter \in {0, 1}
    /\ (\E i \in DOMAIN blocks : ~IsHeading(blocks[i])) =>
          \A c \in ChapterNumbers(blocks) : ~HeadingOnly(OfChapter(blocks, c))
    /\ Len(documents) = 2 =>
          LET before == Len(Kept(documents[1])) IN
          /\ DocumentLength(documents[1]) > LongDocument /\ before > 0
          /\ documents[2][1].kind = "prose"
          => cut[before + 1].chapter = cut[before].chapter

\* However a book is cut (chapter_split.py:95: moved in document order), its paragraphs come in the order
\* they were read in, in chapters numbered from 0 that hold text; where a long file breaks off in a
\* chapter, the prose that opens the next file ends that chapter.
CutKeepsTheBook ==
    given.what = "file" =>
        KeepsTheBook(given.documents, Ingested(given.documents), Fold(Ingested(given.documents)))

\* A book's story is read: some chapter is body, unless every part of it that is story was cut by
\* size under a title for other matter; a numbered chapter is body, an untitled one once the story
\* has begun too, a part cut by size whatever is around it; before the first numbered chapter only such
\* parts are.
RolesFit(titles, bySize, body) ==
    /\ body # {} \/ \A i \in bySize : titles[i] = "matter"
    /\ \A i \in DOMAIN titles : titles[i] = "numbered" => i \in body
    /\ \A i \in bySize : i \in body \/ titles[i] = "matter"
    /\ \A i \in body, j \in DOMAIN titles : i < j /\ titles[j] = "" => j \in body
    /\ \A i \in body, j \in DOMAIN titles :
          titles[j] = "numbered" /\ i < j => \E k \in 1..i : k \in bySize \/ titles[k] = "numbered"

Body(titles, bySize) == {i \in DOMAIN titles : ChapterRoles(titles, bySize)[i] = "body"}
RolesOf(titles, bySize) == RolesFit(titles, bySize, Body(titles, bySize))
RolesOfBook(blocks) == blocks # <<>> => RolesOf(TitlesOf(blocks), CutBySize(blocks))

StoryIsRead ==
    /\ given.what = "titles" => RolesOf(given.titles, given.bySize)
    /\ given.what = "file" => RolesOfBook(Fold(Ingested(given.documents)))
================================================================================
