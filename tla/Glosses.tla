-------------------------------- MODULE Glosses --------------------------------
(* Contextual glosses (catalog/glosses.py, gloss_views.py): a chapter's notes are asked for,  *)
(* generated window by window, filed as drafts, reviewed and added by hand, while the         *)
(* chapter is edited, workers die and the janitor closes what nobody touched.                 *)
(* A passage stands for a quote with its place in a block; a version for the text of a        *)
(* chapter with the hints it is read with.                                                    *)
EXTENDS Naturals, FiniteSets, TLC

CONSTANTS
    Chapters,    \* numbered in the order of the book
    Windows,     \* [Chapters -> how many windows]
    Passages,    \* records [chapter, window, term, from, to]
    Versions,    \* the texts a chapter can have
    Workers, Editors,
    Prompt,      \* no request is older than ABANDONED_AFTER while its worker lives
    MaxAgain,    \* bound on regenerations of one text
    MaxAsks,     \* bound on requests
    MaxTroubles  \* bound on edits, losses, failures and notes by hand together

GlossConstants ==
    /\ Chapters \subseteq Nat /\ Windows \in [Chapters -> Nat \ {0}]
    /\ \A p \in Passages : p.chapter \in Chapters /\ p.window \in 1 .. Windows[p.chapter]
    /\ Prompt \in BOOLEAN

VARIABLES
    prose,       \* [Chapters -> Versions]
    generation,  \* the PipelineRuns by key [chapter, of, again]: their status
    answer,      \* the windows' AIRuns that succeeded: <<key, window>> -> kept notes
    charged,     \* how often a usable answer was paid for
    post,        \* keys of the messages in the broker
    writer,      \* [Workers -> what the worker is at]
    notes,       \* the GlossNotes: records [no, at, of, status]
    desk,        \* [Editors -> what the editor's request is at]
    spent        \* [asks, troubles]: bounded

glossVars == <<prose, generation, answer, charged, post, writer, notes, desk, spent>>

Free == [at |-> "idle"]
Trouble == spent.troubles < MaxTroubles /\ spent' = [spent EXCEPT !.troubles = @ + 1]

Init ==
    /\ prose = [c \in Chapters |-> CHOOSE v \in Versions : TRUE]
    /\ generation = <<>> /\ answer = <<>> /\ charged = <<>> /\ post = {}
    /\ writer = [w \in Workers |-> Free] /\ notes = {} /\ desk = [e \in Editors |-> Free]
    /\ spent = [asks |-> 0, troubles |-> 0]

--------------------------------------------------------------------------------
(* Asking: queue_chapter.                                                       *)

Has(key, statuses) == key \in DOMAIN generation /\ generation[key] \in statuses

\* The runs of the chapter's text as it stands, whose keys begin alike.
Earlier(c) == {k \in DOMAIN generation : k.chapter = c /\ k.of = prose[c]}

\* Which run a request is for: the one of the text, or a fresh one when somebody
\* regenerates what was generated and none is under way.
Again(c, regenerate) ==
    IF regenerate /\ \E k \in Earlier(c) : generation[k] = "succeeded"
    THEN Cardinality(Earlier(c)) ELSE 0

Queue(key) ==
    IF Has(key, {"queued", "running", "succeeded"})
    THEN UNCHANGED <<generation, post>>
    ELSE /\ generation' = (key :> "queued") @@ generation
         /\ post' = post \cup {key}

Ask(c, regenerate) ==
    /\ spent.asks < MaxAsks /\ spent' = [spent EXCEPT !.asks = @ + 1]
    /\ IF regenerate /\ \E k \in Earlier(c) : generation[k] \in {"queued", "running"}
       THEN UNCHANGED <<generation, post>>
       ELSE /\ Again(c, regenerate) <= MaxAgain
            /\ Queue([chapter |-> c, of |-> prose[c], again |-> Again(c, regenerate)])
    /\ UNCHANGED <<prose, answer, charged, writer, notes, desk>>

--------------------------------------------------------------------------------
(* Generating: run_chapter.                                                     *)

\* What a reader has met by then: the notes of the chapters before, but for rejected ones.
ExplainedBefore(c) == {n.at.term : n \in {m \in notes : m.at.chapter < c /\ m.status # "rejected"}}

Fail(key) == generation' = [generation EXCEPT ![key] = "failed"]

\* Mutant: the message's worker takes a run that another one has.
ClaimRunning(w, key) ==
    /\ writer[w].at = "idle" /\ key \in post /\ post' = post \ {key}
    /\ IF Has(key, {"queued", "running"})
       THEN /\ generation' = [generation EXCEPT ![key] = "running"]
            /\ writer' = [writer EXCEPT ![w] = [at |-> "look", key |-> key, next |-> 1,
                  found |-> {}, explained |-> ExplainedBefore(key.chapter)]]
       ELSE UNCHANGED <<generation, writer>>
    /\ UNCHANGED <<prose, answer, charged, notes, desk, spent>>

\* A message is taken: only a queued run is run, and only of the text it was asked for.  The
\* claim does not touch updated_at, nor does the progress.
Claim(w, key) ==
    /\ writer[w].at = "idle" /\ key \in post /\ post' = post \ {key}
    /\ \/ ~Has(key, {"queued"}) /\ UNCHANGED <<generation, writer>>
       \/ Has(key, {"queued"}) /\ prose[key.chapter] # key.of /\ Fail(key) /\ UNCHANGED writer
       \/ /\ Has(key, {"queued"}) /\ prose[key.chapter] = key.of
          /\ generation' = [generation EXCEPT ![key] = "running"]
          /\ writer' = [writer EXCEPT ![w] = [at |-> "look", key |-> key, next |-> 1,
                found |-> {}, explained |-> ExplainedBefore(key.chapter)]]
    /\ UNCHANGED <<prose, answer, charged, notes, desk, spent>>

Window(w) == <<writer[w].key, writer[w].next>>

Keep(w, kept) ==
    writer' = [writer EXCEPT ![w].at = "look", ![w].next = @ + 1, ![w].found = @ \cup kept,
                             ![w].explained = @ \cup {p.term : p \in kept}]

\* The next window: an answer in the ledger is used, another is asked for.
Look(w) ==
    /\ writer[w].at = "look" /\ writer[w].next <= Windows[writer[w].key.chapter]
    /\ IF Window(w) \in DOMAIN answer THEN Keep(w, answer[Window(w)])
       ELSE writer' = [writer EXCEPT ![w].at = "call"]
    /\ UNCHANGED <<generation, answer, charged, post, prose, notes, desk, spent>>

\* What can be left of an answer: passages of the window, each term once and none that was
\* explained before (_unusable, explained).
Usable(w) ==
    {kept \in SUBSET {p \in Passages : /\ p.chapter = writer[w].key.chapter
                                      /\ p.window = writer[w].next
                                      /\ p.term \notin writer[w].explained} :
        \A p, q \in kept : p.term = q.term => p = q}

\* The call: its answer goes into the ledger, or is of no use and fails the run.
Call(w) ==
    /\ writer[w].at = "call"
    /\ \/ \E kept \in Usable(w) :
            /\ answer' = (Window(w) :> kept) @@ answer
            /\ charged' = (Window(w) :> IF Window(w) \in DOMAIN charged THEN charged[Window(w)] + 1
                                         ELSE 1) @@ charged
            /\ Keep(w, kept) /\ UNCHANGED <<generation, spent>>
       \/ /\ Trouble
          /\ answer' = [k \in DOMAIN answer \ {Window(w)} |-> answer[k]]
          /\ Fail(writer[w].key) /\ writer' = [writer EXCEPT ![w] = Free]
          /\ UNCHANGED charged
    /\ UNCHANGED <<post, prose, notes, desk>>

\* The last look at the text before anything is filed.
Check(w) ==
    /\ writer[w].at = "look" /\ writer[w].next > Windows[writer[w].key.chapter]
    /\ IF prose[writer[w].key.chapter] = writer[w].key.of
       THEN writer' = [writer EXCEPT ![w].at = "file"] /\ UNCHANGED generation
       ELSE Fail(writer[w].key) /\ writer' = [writer EXCEPT ![w] = Free]
    /\ UNCHANGED <<answer, charged, post, prose, notes, desk, spent>>

Rows(p, of) == {n \in notes : n.at = p /\ n.of = of}
Draft(p, of, no) == [no |-> no, at |-> p, of |-> of, status |-> "draft"]

\* The candidates there is no note of, whatever became of it (get_or_create).
Filed(w) == {p \in writer[w].found : Rows(p, writer[w].key.of) = {}}

\* The filing is one transaction; get_or_create raises over two notes at one place.
File(w) ==
    /\ writer[w].at = "file" /\ writer' = [writer EXCEPT ![w] = Free]
    /\ IF \A p \in writer[w].found : Cardinality(Rows(p, writer[w].key.of)) <= 1
       THEN /\ notes' = notes \cup {Draft(p, writer[w].key.of, 1) : p \in Filed(w)}
            /\ generation' = [generation EXCEPT ![writer[w].key] = "succeeded"]
       ELSE UNCHANGED notes /\ Fail(writer[w].key)
    /\ UNCHANGED <<answer, charged, post, prose, desk, spent>>

--------------------------------------------------------------------------------
(* Losses: the broker delivers what a dead worker had, the janitor sweeps.       *)

Busy(key) == \E w \in Workers : writer[w].at # "idle" /\ writer[w].key = key

\* A worker is restarted; its message was not acknowledged.
Die(w) ==
    /\ writer[w].at # "idle" /\ Trouble
    /\ writer' = [writer EXCEPT ![w] = Free] /\ post' = post \cup {writer[w].key}
    /\ UNCHANGED <<prose, generation, answer, charged, notes, desk>>

\* A message is delivered again while its worker lives (the broker's visibility timeout).
Redeliver(w) ==
    /\ writer[w].at # "idle" /\ Trouble
    /\ post' = post \cup {writer[w].key}
    /\ UNCHANGED <<prose, generation, writer, answer, charged, notes, desk>>

\* close_abandoned_runs: a running generation nothing has touched for long.  What was touched
\* last is the request: neither the claim nor a window sets updated_at.
Sweep(key) ==
    /\ Has(key, {"running"}) /\ (Prompt => ~Busy(key))
    /\ Fail(key)
    /\ UNCHANGED <<prose, writer, post, answer, charged, notes, desk, spent>>

--------------------------------------------------------------------------------
(* Editors: the text, reviews and notes of their own.                           *)

Edit(c, of) ==
    /\ of # prose[c] /\ Trouble
    /\ prose' = [prose EXCEPT ![c] = of]
    /\ UNCHANGED <<generation, answer, charged, post, writer, notes, desk>>

Overlap(p, q) == p.chapter = q.chapter /\ p.from < q.to /\ q.from < p.to

\* An approved note of the same text already covers part of the phrase.
CoveredBy(n) ==
    \E m \in notes \ {n} : m.status = "approved" /\ m.of = n.of /\ Overlap(m.at, n.at)

\* review: its row is locked, the other notes are read.
OpenReview(e, n, approve) ==
    /\ desk[e].at = "idle" /\ n \in notes
    /\ \A o \in Editors : desk[o].at = "review" => desk[o].note # n
    /\ prose[n.at.chapter] = n.of /\ (approve => ~CoveredBy(n))
    /\ n.status # (IF approve THEN "approved" ELSE "rejected")
    /\ desk' = [desk EXCEPT ![e] = [at |-> "review", note |-> n, approve |-> approve]]
    /\ UNCHANGED <<prose, generation, answer, charged, post, writer, notes, spent>>

SaveReview(e) ==
    /\ desk[e].at = "review" /\ desk' = [desk EXCEPT ![e] = Free]
    /\ notes' = (notes \ {desk[e].note}) \cup {[desk[e].note EXCEPT !.status =
                    IF desk[e].approve THEN "approved" ELSE "rejected"]}
    /\ UNCHANGED <<prose, generation, answer, charged, post, writer, spent>>

\* add_manual: a passage without a note that may still be shown.
OpenAdd(e, p) ==
    /\ desk[e].at = "idle" /\ Trouble
    /\ \A n \in Rows(p, prose[p.chapter]) : n.status = "rejected"
    /\ desk' = [desk EXCEPT ![e] = [at |-> "add", passage |-> p, of |-> prose[p.chapter]]]
    /\ UNCHANGED <<prose, generation, answer, charged, post, writer, notes>>

SaveAdd(e) ==
    /\ desk[e].at = "add" /\ desk' = [desk EXCEPT ![e] = Free]
    /\ notes' = notes \cup {Draft(desk[e].passage, desk[e].of,
                    1 + Cardinality(Rows(desk[e].passage, desk[e].of)))}
    /\ UNCHANGED <<prose, generation, answer, charged, post, writer, spent>>

Next ==
    \/ \E c \in Chapters, regenerate \in BOOLEAN : Ask(c, regenerate)
    \/ \E w \in Workers : \/ \E key \in post : Claim(w, key)
                         \/ Look(w) \/ Call(w) \/ Check(w) \/ File(w)
                         \/ Die(w) \/ Redeliver(w)
    \/ \E key \in DOMAIN generation : Sweep(key)
    \/ \E c \in Chapters, v \in Versions : Edit(c, v)
    \/ \E e \in Editors : \/ \E n \in notes, approve \in BOOLEAN : OpenReview(e, n, approve)
                         \/ SaveReview(e)
                         \/ \E p \in Passages : OpenAdd(e, p)
                         \/ SaveAdd(e)

Spec == Init /\ [][Next]_glossVars

--------------------------------------------------------------------------------
(* Properties.                                                                  *)

\* A generated chapter is not charged again (queue_chapter, CONTEXTUAL_GLOSSES.md:6): whatever
\* is delivered again, dies, fails or is asked for twice, a window's usable answer is paid for
\* once in a run, and a text has a second run only after one succeeded.
ChargedOnce ==
    /\ \A k \in DOMAIN charged : charged[k] = 1
    /\ \A key \in DOMAIN generation : key.again > 0 =>
          \E k \in DOMAIN generation : /\ k.chapter = key.chapter /\ k.of = key.of
                                        /\ k.again < key.again /\ generation[k] = "succeeded"

\* "Approval rejects overlapping notes" (CONTEXTUAL_GLOSSES.md:23): no two notes a reader of one
\* text would see cover the same words, though texts come back and notes are decided again.
ApprovedApart ==
    \A m, n \in notes : m # n /\ m.status = "approved" /\ n.status = "approved" /\ m.of = n.of
                           => ~Overlap(m.at, n.at)

\* What an editor rejected is not offered again by a generation, also not by the next one.
RejectedStays ==
    [][\A n \in notes' \ notes :
         /\ n.status = "draft"
         /\ \E m \in notes : m.at = n.at /\ m.of = n.of /\ m.status = "rejected"
         => \E e \in Editors : desk[e].at = "add" /\ desk[e].passage = n.at]_glossVars

----------------------------------------------------------------------------
(* What is said of the code and does not hold (README, departures).        *)

\* "a term is explained once, where the reader first meets it" (CONTEXTUAL_GLOSSES.md:21).
TermOnce ==
    \A m, n \in notes : /\ m.status # "rejected" /\ n.status # "rejected" /\ m.no = 1 /\ n.no = 1
                          /\ m.of = prose[m.at.chapter] /\ n.of = prose[n.at.chapter]
                          => m.at.term # n.at.term \/ m.at.chapter = n.at.chapter

\* A chapter can always be generated: get_or_create of a note finds at most one.
OnePlace == \A m, n \in notes : m.at = n.at /\ m.of = n.of => m = n

================================================================================
