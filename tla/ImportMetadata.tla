---------------------------- MODULE ImportMetadata ----------------------------
(* The metadata of an uploaded book (catalog/metadata.py) from the upload to the shelf: the    *)
(* header fills what the owner left blank, a model's proposal fills what is open, the owner    *)
(* confirms, the text is split into sentences for the language it has (tasks.py) and what is   *)
(* doubtful of it is reviewed (services.py).                                                   *)
(* Title, author, blurb and year are one field; the language is one of its own.                *)
EXTENDS Naturals, TLC

CONSTANTS
    Words,        \* values of the first field, numbered; 0 is blank
    Languages,    \* numbered
    MaxConfirms, MaxReruns, MaxTroubles, MaxSteps   \* bounds, the last on all three together

ImportConstants ==
    /\ Words \subseteq Nat \ {0} /\ Languages \subseteq Nat \ {0}

VARIABLES
    book,       \* [word, language, status, slug]: the edition and its work; slug 0 is provisional,
                \* and a book is "queued" until its text is in
    label,      \* metadata_provenance of word and language: none, source, user or ai
    spans,      \* the language its sentences are split for, 0 before
    astray,     \* why they may be for another than the book's: none, unsent or returned
    split,      \* the languages a SENTENCES run succeeded for
    detection,  \* the METADATA runs by the owner's input: their status
    proposal,   \* the AIRuns that succeeded: the owner's input -> what the model proposed
    billed,     \* how often a usable proposal was paid for and kept
    tasks,      \* messages: upload, rerun, split
    labour,     \* what the worker is at, and what it has read
    steps       \* [confirms, reruns, troubles]: bounded

importVars == <<book, label, spans, astray, split, detection, proposal, billed, tasks, labour, steps>>

Resting == [at |-> "rest"]
Go(what, limit) ==
    /\ steps[what] < limit /\ steps.confirms + steps.reruns + steps.troubles < MaxSteps
    /\ steps' = [steps EXCEPT ![what] = @ + 1]
Trouble == Go("troubles", MaxTroubles)
Typed(value) == IF value = 0 THEN "none" ELSE "user"

\* An upload: what the owner typed is theirs (initial_provenance), the rest is open.
Init ==
    /\ \E word \in Words \cup {0}, language \in Languages \cup {0} :
          /\ book = [word |-> word, language |-> language, status |-> "queued", slug |-> 0]
          /\ label = [word |-> Typed(word), language |-> Typed(language)]
    /\ spans = 0 /\ astray = "none" /\ split = {} /\ detection = <<>> /\ proposal = <<>> /\ billed = <<>>
    /\ tasks = {"upload"} /\ labour = Resting
    /\ steps = [confirms |-> 0, reruns |-> 0, troubles |-> 0]

--------------------------------------------------------------------------------
(* The worker.                                                                  *)

\* What a worker has read of the book, and whether the owner confirmed something since.
Read(task) == [task |-> task, book |-> book, label |-> label, crossed |-> FALSE]

\* process_book_pipeline begins with the text, once; a rerun begins with the detection and a
\* new split with the sentences.
Take(task) ==
    /\ labour.at = "rest" /\ task \in tasks
    /\ labour' = IF task = "split" THEN [at |-> "split", task |-> task]
                 ELSE IF task = "upload" /\ book.status = "queued" THEN [at |-> "ingest"] @@ Read(task)
                 ELSE [at |-> "detect", task |-> task]
    /\ UNCHANGED <<book, label, spans, astray, split, detection, proposal, billed, tasks, steps>>

\* process_source_edition: the header fills the blanks (adopt_source_metadata) of what was read,
\* and the book is on the shelf or, with an actionable warning, in review (persist_artifact).
Ingest ==
    /\ labour.at = "ingest"
    /\ \E word \in Words \cup {0}, language \in Languages, status \in {"ready", "review"} :
          LET was == labour.book IN
          /\ book' = [book EXCEPT !.status = status,
                         !.word = IF was.word = 0 THEN word ELSE was.word,
                         !.language = IF was.language = 0 THEN language ELSE was.language]
          /\ label' = [word |-> IF was.word = 0 /\ word # 0 THEN "source" ELSE labour.label.word,
                       language |-> IF was.language = 0 THEN "source" ELSE labour.label.language]
    /\ labour' = [at |-> "detect", task |-> labour.task]
    /\ UNCHANGED <<spans, astray, split, detection, proposal, billed, tasks, steps>>

Rerun == labour.task = "rerun"
Detected == labour' = IF Rerun THEN Resting ELSE [at |-> "split", task |-> labour.task]

\* The run's key: what the owner typed (_owner_supplied).
Supplied == [word |-> IF label.word = "user" THEN book.word ELSE 0,
             language |-> IF label.language = "user" THEN book.language ELSE 0]

\* The fields that are open: those without an owner's value, but not the language in a rerun.
Open == {f \in {"word", "language"} : (label[f] # "user" \/ book[f] = 0)
                                      /\ ~(f = "language" /\ Rerun /\ book.language # 0)}

\* An answer to the owner's input is in the ledger.
Answered == Supplied \in DOMAIN proposal

\* detect_metadata begins: the book is read, and what is open is asked of the model, unless
\* it answered for the owner's input before.
Detect ==
    /\ labour.at = "detect"
    /\ LET read == [of |-> Supplied, open |-> Open] @@ Read(labour.task) IN
       IF ~Rerun /\ Supplied \in DOMAIN detection /\ detection[Supplied] = "succeeded"
       THEN Detected /\ UNCHANGED <<detection, tasks>>
       ELSE /\ detection' = (Supplied :> "running") @@ detection
            /\ labour' = IF Open = {} THEN [at |-> "write", with |-> FALSE] @@ read
                         ELSE IF Answered
                              THEN [at |-> "write", with |-> TRUE] @@ read
                              ELSE [at |-> "call"] @@ read
    /\ tasks' = IF labour'.at = "rest" THEN tasks \ {labour.task} ELSE tasks
    /\ UNCHANGED <<book, label, spans, astray, split, proposal, billed, steps>>

\* _propose_with_ai: the model proposes, or its answer is of no use and the header stays.
Propose ==
    /\ labour.at = "call"
    /\ \/ \E word \in Words, language \in Languages :
             /\ proposal' = (labour.of :> [word |-> word, language |-> language]) @@ proposal
             /\ billed' = (labour.of :> IF labour.of \in DOMAIN billed THEN billed[labour.of] + 1
                                        ELSE 1) @@ billed
             /\ labour' = [labour EXCEPT !.at = "write"] @@ [with |-> TRUE] /\ UNCHANGED steps
       \/ /\ Trouble /\ labour' = [labour EXCEPT !.at = "write"] @@ [with |-> FALSE]
          /\ UNCHANGED <<proposal, billed>>
    /\ UNCHANGED <<book, label, spans, astray, split, detection, tasks>>

Proposed(f) == labour.with /\ f \in labour.open
Value(f) == IF Proposed(f) THEN proposal[labour.of][f] ELSE labour.book[f]

\* _apply_proposal, _finalize_slugs: what was read is written back with what was proposed, and
\* the slug is made of the title once there is one.
Write ==
    /\ labour.at = "write"
    /\ book' = [book EXCEPT !.word = Value("word"), !.language = Value("language"),
                            !.slug = IF labour.book.slug = 0 THEN Value("word") ELSE labour.book.slug]
    /\ label' = [f \in {"word", "language"} |->
                    IF Proposed(f) /\ Value(f) # labour.book[f] THEN "ai" ELSE labour.label[f]]
    /\ detection' = (labour.of :> "succeeded") @@ detection
    /\ Detected /\ tasks' = IF Rerun THEN tasks \ {"rerun"} ELSE tasks
    /\ UNCHANGED <<spans, astray, split, proposal, billed, steps>>

\* process_normalized_edition reads the language.
Split ==
    /\ labour.at = "split"
    /\ labour' = [at |-> "finish", task |-> labour.task, language |-> book.language]
    /\ book' = [book EXCEPT !.status = "processing"]
    /\ UNCHANGED <<label, spans, astray, split, detection, proposal, billed, tasks, steps>>

\* split_edition_sentences: the sentences are cut and saved, unless they were for that text and
\* language before.  _finish_normalized_pipeline puts the book on the shelf, or in review when a
\* warning is open.
Finish ==
    /\ labour.at = "finish" /\ labour' = Resting /\ tasks' = tasks \ {labour.task}
    /\ spans' = IF labour.language \in split THEN spans ELSE labour.language
    /\ astray' = IF spans' # labour.language THEN "returned"
                 ELSE IF spans' = book.language THEN "none" ELSE astray
    /\ split' = split \cup {labour.language}
    /\ \E status \in {"ready", "review"} : book' = [book EXCEPT !.status = status]
    /\ UNCHANGED <<label, detection, proposal, billed, steps>>

\* The worker is restarted, an answer it waited for is lost; the message comes again.
Die ==
    /\ labour.at # "rest" /\ Trouble /\ labour' = Resting
    /\ UNCHANGED <<book, label, spans, astray, split, detection, proposal, billed, tasks>>

--------------------------------------------------------------------------------
(* The owner or an editor.                                                      *)

AskAgain ==
    /\ book.status # "queued" /\ Go("reruns", MaxReruns)
    /\ tasks' = tasks \cup {"rerun"}
    /\ UNCHANGED <<book, label, spans, astray, split, detection, proposal, billed, labour>>

\* Another language sends a ready book back to be split.
SplitAgain(language) == language # book.language /\ book.status = "ready"

\* No split of the new language is to come: the book is not ready, and none waits or the worker
\* has read the language that was.
NotSent(language) ==
    /\ language # book.language /\ book.status # "ready"
    /\ labour.at = "finish" \/ tasks \cap {"upload", "split"} = {}

\* confirm_metadata: what was typed is the owner's, a blank hands the field back.
Confirm(word, language) ==
    /\ Go("confirms", MaxConfirms)
    /\ book' = [book EXCEPT !.word = word, !.language = language,
                            !.status = IF SplitAgain(language) THEN "processing" ELSE @]
    /\ tasks' = IF SplitAgain(language) THEN tasks \cup {"split"} ELSE tasks
    /\ astray' = IF NotSent(language) THEN "unsent" ELSE astray
    /\ label' = [word |-> Typed(word),
                 language |-> IF language # book.language THEN "user" ELSE label.language]
    /\ labour' = IF "crossed" \in DOMAIN labour THEN [labour EXCEPT !.crossed = TRUE] ELSE labour
    /\ UNCHANGED <<spans, split, detection, proposal, billed>>

\* complete_review: what was found is resolved, and the book goes on the shelf as it is.
CompleteReview ==
    /\ book.status = "review" /\ book' = [book EXCEPT !.status = "ready"]
    /\ UNCHANGED <<label, spans, astray, split, detection, proposal, billed, tasks, labour, steps>>

Next ==
    \/ \E task \in tasks : Take(task)
    \/ Ingest \/ Detect \/ Propose \/ Write \/ Split \/ Finish \/ Die \/ AskAgain \/ CompleteReview
    \/ \E word \in Words \cup {0}, language \in Languages : Confirm(word, language)

Spec == Init /\ [][Next]_importVars

--------------------------------------------------------------------------------
(* Properties.                                                                  *)

\* "Values the owner typed ... are never overridden" (metadata.py:6): no worker that read the book
\* after the owner's last word changes a field that holds an owner's value, and no model's word
\* passes for the owner's.
OwnerKept ==
    [][labour'.at # labour.at /\ ~("crossed" \in DOMAIN labour /\ labour.crossed) =>
          \A f \in {"word", "language"} :
             /\ label[f] = "user" /\ book[f] # 0 => book'[f] = book[f] /\ label'[f] = "user"
             /\ label[f] # "user" => label'[f] # "user"]_importVars

\* Nothing is at the book or on its way to it that splits it.
Through == tasks \cap {"upload", "split"} = {}

\* "the edition's sentences and vocabulary were built for it" (metadata.py:169): a book on the shelf
\* is split for the language it has, whatever was confirmed, asked again or lost meanwhile, but for
\* a language that was changed in review or in a split's hands, and one the book came back to.
SplitForLanguage ==
    book.status = "ready" /\ Through => spans = book.language \/ astray # "none"

\* "a finished model call for those inputs is reused rather than paid for again"
\* (metadata.py:167).
ProposalPaidOnce == \A input \in DOMAIN billed : billed[input] = 1

--------------------------------------------------------------------------------
(* What is said of the code and does not hold (README, departures).             *)

\* "A changed language invalidates sentence splitting ..., so a ready edition is sent back"
\* (metadata.py:285): a book on the shelf is split for the language it has.
ReadyIsSplit == book.status = "ready" /\ Through => spans = book.language

\* "Values the owner typed ... are never overridden" (metadata.py:6), by any worker.
NeverOverridden ==
    [][labour'.at # labour.at => \A f \in {"word", "language"} :
          label[f] = "user" /\ book[f] # 0 => book'[f] = book[f]]_importVars

================================================================================
