---------------------------- MODULE BookWriting ----------------------------
(***************************************************************************)
(* Writing a whole book at a level (book_adaptation.py:116-526), window by *)
(* window as pilots (adaptation.py:57-349, 401-501), with the janitor that *)
(* closes what a dead worker left (janitor.py) and the heartbeat that      *)
(* keeps it off a live one (heartbeat.py).                                 *)
(*                                                                         *)
(* The identity of a book is the plan, that is the source with its titles; *)
(* a pilot's is its text and titles, in the edition it is for; an answer's *)
(* is the text alone.  A mangled answer is asked for again over halves.    *)
(* The windows of a batch, which are made beside each other, are made here *)
(* in any order one after the other.  Chapters a probe has written are     *)
(* left out, as are changes of the generation's configuration.             *)
(***************************************************************************)
EXTENDS Integers, Sequences, FiniteSets, SequencesExt

CONSTANTS Windows,     \* the batches of windows of a plan: sequence of sets of sets of blocks
          SplitDepth,  \* how often a window is halved before the book gives up on it
          Workers,
          Nothing,     \* a worker without a book, a batch without a pilot in hand
          MaxAsks,     \* bound on requests to write the book
          MaxEdits,    \* bound on changes of the source
          MaxTroubles, \* bound on answers that cannot be used
          MaxFaults    \* bound on crashes, doubled and lost messages, workers that hang

Blocks == UNION UNION Range(Windows)

ASSUME BlocksAssumption ==
  /\ Windows \in Seq(SUBSET SUBSET Blocks) /\ IsFiniteSet(Blocks)
  /\ Blocks = 1..Cardinality(Blocks) /\ Blocks # {}
ASSUME NothingAssumption ==
  \A part \in SUBSET Blocks :
    Nothing \notin [edition : Nat, part : {part}, title : 0..MaxEdits, text : [part -> 0..MaxEdits]]
ASSUME SplitAssumption == SplitDepth \in Nat
ASSUME BoundsAssumption == {MaxAsks, MaxEdits, MaxTroubles, MaxFaults} \subseteq Nat

VARIABLES
  source,    \* its titles and the text of its blocks, each a version
  editions,  \* those made for this level: status, the source's text they were written from, and
             \* whether a reviewer has corrected what was written
  books,     \* the runs that write a book: plan, edition, status
  pilots,    \* the run of each window asked for
  answered,  \* texts a pilot that succeeded has an answer to
  rebought,  \* whether the provider was asked for one of those
  queue,     \* messages: books to write
  job,       \* what each worker is doing
  used       \* asks, edits, troubles, crashes, doubles, losses, hangs so far

vars == <<source, editions, books, pilots, answered, rebought, queue, job, used>>

NoText == <<>>
Fresh == [status |-> "failed", raw |-> "none", error |-> "none"]
Free == [book |-> Nothing, step |-> "free", batch |-> 1, todo |-> {}, asked |-> <<>>,
         now |-> Nothing, results |-> [b \in Blocks |-> -1]]

Statuses == {"queued", "running", "succeeded", "failed"}
Versions == 0..MaxEdits
Sources == [title : Versions, text : [Blocks -> Versions]]
Editions == [status : {"queued", "processing", "failed", "review", "published"},
             text : {NoText} \cup [Blocks -> Versions], corrected : BOOLEAN]
Books(ofEditions) == [plan : Sources, edition : ofEditions, status : Statuses]
Pilots == [status : Statuses, raw : {"none", "usable", "mangled", "bad"}, error : {"none", "mangled", "other"}]
IsKey(k, ofEditions) ==
  /\ k = [edition |-> k.edition, part |-> k.part, title |-> k.title, text |-> k.text]
  /\ k.edition \in ofEditions /\ k.part \subseteq Blocks
  /\ k.title \in Versions /\ k.text \in [k.part -> Versions]
Asked(keys) == [key : keys, depth : Nat]
Jobs(ofBooks, keys) ==
  [book : ofBooks \cup {Nothing},
   step : {"free", "check", "queue", "run", "call", "finish", "materialize"},
   batch : Nat, todo : SUBSET keys, asked : Seq(Asked(keys)), now : keys \cup {Nothing},
   results : [Blocks -> -1..MaxEdits]]
Counts == [asks : Nat, edits : Versions, troubles : Nat, crashes : Nat, doubles : Nat,
           losses : Nat, hangs : Nat]
JobOK(j, ofBooks, keys) ==
  /\ j \in Jobs(ofBooks, keys)
  /\ j.step = "free" => j = Free
  /\ j.step # "free" => j.book \in ofBooks
  /\ j.step \notin {"free", "materialize"} => j.batch \in DOMAIN Windows
  /\ j.step \in {"call", "finish"} => j.now \in keys

TypeOK ==
  /\ source \in Sources
  /\ editions \in Seq(Editions) /\ books \in Seq(Books(DOMAIN editions))
  /\ \A k \in DOMAIN pilots : IsKey(k, DOMAIN editions) /\ pilots[k] \in Pilots
  /\ rebought \in BOOLEAN
  /\ queue \in Seq(DOMAIN books)
  /\ job = [w \in Workers |-> job[w]]
  /\ \A w \in Workers : JobOK(job[w], DOMAIN books, DOMAIN pilots)
  /\ used \in Counts

----------------------------------------------------------------------------
(* State formulae. *)

\* book_plan: what a book's identity is made of.
Plan == source

\* source_snapshot: what a window asks for, and the text its answer depends on.
Snapshot(part) == [b \in part |-> source.text[b]]
Key(e, part) == [edition |-> e, part |-> part, title |-> source.title, text |-> Snapshot(part)]
Current(k) == k = Key(k.edition, k.part)

\* _paid_answer.
PaidAnswer(text) == text \in answered

\* What queue_pilot makes of a pilot: one that failed is queued again, with the answer it
\* or another pilot has got.
Queued(k) ==
  LET old == IF k \in DOMAIN pilots THEN pilots[k] ELSE Fresh
  IN IF old.status # "failed" THEN old
     ELSE [status |-> "queued", error |-> "none",
           raw |-> IF old.raw = "usable" \/ PaidAnswer(k.text) THEN "usable" ELSE "none"]

QueuePilots(keys) ==
  pilots' = [k \in DOMAIN pilots \cup keys |-> IF k \in keys THEN Queued(k) ELSE pilots[k]]

\* The halves of a window, in the order of its blocks.
Halves(part) ==
  LET first == {b \in part : Cardinality({c \in part : c < b}) < Cardinality(part) \div 2}
  IN <<first, part \ first>>

\* _stranded: the newest edition without a text whose writing failed.
Stranded ==
  {i \in DOMAIN editions :
     /\ editions[i].status = "failed" /\ editions[i].text = NoText
     /\ \E b \in DOMAIN books : books[b].edition = i
     /\ ~\E b \in DOMAIN books : books[b].edition = i /\ books[b].status = "succeeded"}

WorkedOn(b) == \E w \in Workers : job[w].book = b
InHand(k) == \E w \in Workers : job[w].now = k

Happens(kind, bound) == used[kind] < bound /\ used' = [used EXCEPT ![kind] = @ + 1]
Fault(kind) ==
  /\ used.crashes + used.doubles + used.losses + used.hangs < MaxFaults
  /\ used' = [used EXCEPT ![kind] = @ + 1]
SetJob(w, j) == job' = [job EXCEPT ![w] = j]

----------------------------------------------------------------------------
Init ==
  /\ source = [title |-> 0, text |-> [b \in Blocks |-> 0]]
  /\ editions = <<>> /\ books = <<>> /\ pilots = [k \in {} |-> Fresh]
  /\ answered = {} /\ rebought = FALSE
  /\ queue = <<>>
  /\ job = [w \in Workers |-> Free]
  /\ used = [asks |-> 0, edits |-> 0, troubles |-> 0, crashes |-> 0, doubles |-> 0,
             losses |-> 0, hangs |-> 0]

----------------------------------------------------------------------------
(* People. *)

\* queue_book of a plan no run was made for: a new run, in an edition that was stranded or a
\* new one ...
Begin ==
  \E e \in 1..Len(editions) + 1 :
    /\ IF Stranded = {} THEN e = Len(editions) + 1
       ELSE e \in Stranded /\ \A i \in Stranded : i <= e
    /\ \A b \in DOMAIN books : books[b].plan # Plan
    /\ Happens("asks", MaxAsks)
    /\ books' = Append(books, [plan |-> Plan, edition |-> e, status |-> "queued"])
    /\ editions' = IF Stranded = {}
                     THEN Append(editions, [status |-> "queued", text |-> NoText, corrected |-> FALSE])
                   ELSE [editions EXCEPT ![e].status = "queued"]
    /\ queue' = Append(queue, Len(books) + 1)
    /\ UNCHANGED <<source, pilots, answered, rebought, job>>

\* ... or the one that was, unless it is at work, done, or its edition has a text.
Resume ==
  \E b \in DOMAIN books :
    /\ books[b].plan = Plan
    /\ books[b].status \in {"queued", "failed"}
    /\ editions[books[b].edition].text = NoText
    /\ Happens("asks", MaxAsks)
    /\ books' = [books EXCEPT ![b].status = "queued"]
    /\ editions' = [editions EXCEPT ![books[b].edition].status = "queued"]
    /\ queue' = Append(queue, b)
    /\ UNCHANGED <<source, pilots, answered, rebought, job>>

\* A title is corrected, or a paragraph.
Edit ==
  /\ Happens("edits", MaxEdits)
  /\ \/ source' = [source EXCEPT !.title = @ + 1]
     \/ \E b \in Blocks : source' = [source EXCEPT !.text[b] = used.edits + 1]
  /\ UNCHANGED <<editions, books, pilots, answered, rebought, queue, job>>

\* A reviewer corrects what was written.
Correct ==
  \E i \in DOMAIN editions :
    /\ editions[i].status = "review" /\ ~editions[i].corrected
    /\ editions' = [editions EXCEPT ![i].corrected = TRUE]
    /\ UNCHANGED <<source, books, pilots, answered, rebought, queue, job, used>>

\* An edition that was reviewed goes out.
Publish ==
  \E i \in DOMAIN editions :
    /\ editions[i].status = "review"
    /\ editions' = [editions EXCEPT ![i].status = "published"]
    /\ UNCHANGED <<source, books, pilots, answered, rebought, queue, job, used>>

----------------------------------------------------------------------------
(* A worker writes a book: run_book. *)

\* A message starts a book that is queued and is dropped otherwise.
Claim(w) ==
  /\ job[w] = Free /\ queue # <<>>
  /\ queue' = Tail(queue)
  /\ LET b == Head(queue)
     IN IF books[b].status = "queued"
          THEN /\ books' = [books EXCEPT ![b].status = "running"]
               /\ editions' = [editions EXCEPT ![books[b].edition].status = "processing"]
               /\ SetJob(w, [Free EXCEPT !.book = b, !.step = "check"])
          ELSE UNCHANGED <<books, editions, job>>
  /\ UNCHANGED <<source, pilots, answered, rebought, used>>

\* Any error: the run failed, and so did the edition unless it was published.
Fail(w) ==
  LET b == job[w].book
      e == books[b].edition
  IN /\ books' = [books EXCEPT ![b].status = "failed"]
     /\ editions' = [editions EXCEPT ![e].status = IF @ = "published" THEN @ ELSE "failed"]
     /\ SetJob(w, Free)
     /\ UNCHANGED pilots

Check(w) ==
  LET j == job[w]
  IN /\ j.step = "check"
     /\ IF Plan # books[j.book].plan THEN Fail(w)
        ELSE SetJob(w, [j EXCEPT !.step = "queue"]) /\ UNCHANGED <<books, editions, pilots>>
     /\ UNCHANGED <<source, answered, rebought, queue, used>>

\* The windows of the batch; those that have an answer are not asked again.
QueueBatch(w) ==
  LET j == job[w]
      e == books[j.book].edition
      keys == {Key(e, part) : part \in Windows[j.batch]}
  IN /\ j.step = "queue"
     /\ IF editions[e].status = "published" THEN Fail(w)
        ELSE /\ QueuePilots(keys)
             /\ SetJob(w, [j EXCEPT !.step = "run", !.todo = keys,
                             !.asked = SetToSeq({[key |-> k, depth |-> 0] : k \in keys})])
             /\ UNCHANGED <<books, editions>>
     /\ UNCHANGED <<source, answered, rebought, queue, used>>

\* run_pilot: only a pilot that is queued is run, and only on the text it was queued for.
PilotClaim(w) ==
  LET j == job[w]
  IN /\ j.step = "run"
     /\ \E k \in j.todo :
          IF pilots[k].status # "queued"
            THEN SetJob(w, [j EXCEPT !.todo = @ \ {k}]) /\ UNCHANGED pilots
          ELSE IF ~Current(k)
            THEN /\ pilots' = [pilots EXCEPT ![k] = [@ EXCEPT !.status = "failed", !.error = "other"]]
                 /\ SetJob(w, [j EXCEPT !.todo = @ \ {k}])
          ELSE /\ pilots' = [pilots EXCEPT ![k].status = "running"]
               /\ SetJob(w, [j EXCEPT !.step = "call", !.now = k])
     /\ UNCHANGED <<source, editions, books, answered, rebought, queue, used>>

\* The provider is asked unless there is an answer, and its answer recorded as it came.
PilotCall(w) ==
  LET j == job[w]
      k == j.now
  IN /\ j.step = "call"
     /\ SetJob(w, [j EXCEPT !.step = "finish"])
     /\ IF pilots[k].raw = "usable" THEN UNCHANGED <<pilots, rebought, used>>
        ELSE /\ rebought' = (rebought \/ k.text \in answered)
             /\ \E raw \in {"usable", "mangled", "bad"} :
                  /\ pilots' = [pilots EXCEPT ![k].raw = raw]
                  /\ IF raw = "usable" THEN UNCHANGED used ELSE Happens("troubles", MaxTroubles)
     /\ UNCHANGED <<source, editions, books, answered, queue>>

\* The answer is validated and kept, if the source is still what it was asked for.
PilotFinish(w) ==
  LET j == job[w]
      k == j.now
      raw == pilots[k].raw
  IN /\ j.step = "finish"
     /\ IF raw = "usable" /\ Current(k)
          THEN /\ pilots' = [pilots EXCEPT ![k] = [@ EXCEPT !.status = "succeeded", !.error = "none"]]
               /\ answered' = answered \cup {k.text}
          ELSE /\ pilots' = [pilots EXCEPT ![k] = [@ EXCEPT !.status = "failed",
                                !.error = IF raw = "mangled" THEN "mangled" ELSE "other"]]
               /\ UNCHANGED answered
     /\ SetJob(w, [j EXCEPT !.step = "run", !.now = Nothing, !.todo = @ \ {k}])
     /\ UNCHANGED <<source, editions, books, rebought, queue, used>>

\* _collect: an answer is taken, a mangled window asked for over its halves, and anything
\* else that did not succeed, a pilot still running included, fails the book.
Collect(w) ==
  LET j == job[w]
      k == Head(j.asked).key
      depth == Head(j.asked).depth
      halves == Halves(k.part)
      keys == [h \in 1..2 |-> Key(books[j.book].edition, halves[h])]
  IN /\ j.step = "run" /\ j.todo = {} /\ j.asked # <<>>
     /\ CASE pilots[k].status = "succeeded" ->
               /\ SetJob(w, [j EXCEPT !.asked = Tail(@),
                               !.results = [b \in Blocks |-> IF b \in k.part THEN k.text[b] ELSE @[b]]])
               /\ UNCHANGED <<books, editions, pilots>>
          [] /\ pilots[k].status = "failed" /\ pilots[k].error = "mangled"
             /\ Cardinality(k.part) > 1 /\ depth < SplitDepth
             /\ editions[books[j.book].edition].status # "published" ->
               /\ QueuePilots(Range(keys))
               /\ SetJob(w, [j EXCEPT !.todo = Range(keys),
                     !.asked = [h \in 1..2 |-> [key |-> keys[h], depth |-> depth + 1]] \o Tail(@)])
               /\ UNCHANGED <<books, editions>>
          [] OTHER -> Fail(w)
     /\ UNCHANGED <<source, answered, rebought, queue, used>>

EndBatch(w) ==
  LET j == job[w]
  IN /\ j.step = "run" /\ j.todo = {} /\ j.asked = <<>>
     /\ SetJob(w, [j EXCEPT !.batch = @ + 1,
                     !.step = IF j.batch = Len(Windows) THEN "materialize" ELSE "check"])
     /\ UNCHANGED <<source, editions, books, pilots, answered, rebought, queue, used>>

\* _materialize: in one transaction, unless the source or the target is no longer what it was.
\* Mutant: the source is not looked at again.
MaterializeUnchecked(w) ==
  LET j == job[w]
      e == books[j.book].edition
  IN /\ j.step = "materialize"
     /\ IF editions[e].text = NoText
          THEN /\ editions' = [editions EXCEPT ![e] = [status |-> "review", text |-> j.results,
                                                     corrected |-> FALSE]]
               /\ books' = [books EXCEPT ![j.book].status = "succeeded"]
               /\ SetJob(w, Free) /\ UNCHANGED pilots
          ELSE Fail(w)
     /\ UNCHANGED <<source, answered, rebought, queue, used>>

\* Mutant: the target is not looked at again.
MaterializeOver(w) ==
  LET j == job[w]
      e == books[j.book].edition
  IN /\ j.step = "materialize"
     /\ IF Plan = books[j.book].plan
          THEN /\ editions' = [editions EXCEPT ![e] = [status |-> "review", text |-> j.results,
                                                     corrected |-> FALSE]]
               /\ books' = [books EXCEPT ![j.book].status = "succeeded"]
               /\ SetJob(w, Free) /\ UNCHANGED pilots
          ELSE Fail(w)
     /\ UNCHANGED <<source, answered, rebought, queue, used>>

Materialize(w) ==
  LET j == job[w]
      e == books[j.book].edition
  IN /\ j.step = "materialize"
     /\ IF /\ Plan = books[j.book].plan
           /\ editions[e].text = NoText /\ editions[e].status # "published"
           /\ \A b \in Blocks : j.results[b] # -1
          THEN /\ editions' = [editions EXCEPT ![e] = [status |-> "review", text |-> j.results,
                                                     corrected |-> FALSE]]
               /\ books' = [books EXCEPT ![j.book].status = "succeeded"]
               /\ SetJob(w, Free) /\ UNCHANGED pilots
          ELSE Fail(w)
     /\ UNCHANGED <<source, answered, rebought, queue, used>>

----------------------------------------------------------------------------
(* The janitor, and what goes wrong with workers and messages. *)

Closed(r) == [r EXCEPT !.status = "failed"]
LeftBehind(k) == pilots[k].status = "running" /\ ~InHand(k)

\* close_abandoned_runs, hours later: books and pilots alike.
\* Mutant: only books are closed.
SweepBooks ==
  /\ \E b \in DOMAIN books : books[b].status = "running" /\ ~WorkedOn(b)
  /\ books' = [b \in DOMAIN books |-> IF books[b].status = "running" /\ ~WorkedOn(b)
                                        THEN Closed(books[b]) ELSE books[b]]
  /\ UNCHANGED <<source, editions, pilots, answered, rebought, queue, job, used>>

Sweep ==
  /\ \/ \E b \in DOMAIN books : books[b].status = "running" /\ ~WorkedOn(b)
     \/ \E k \in DOMAIN pilots : LeftBehind(k)
  /\ books' = [b \in DOMAIN books |-> IF books[b].status = "running" /\ ~WorkedOn(b)
                                        THEN Closed(books[b]) ELSE books[b]]
  /\ pilots' = [k \in DOMAIN pilots |->
                  IF LeftBehind(k) THEN [Closed(pilots[k]) EXCEPT !.error = "other"] ELSE pilots[k]]
  /\ UNCHANGED <<source, editions, answered, rebought, queue, job, used>>

\* A worker that hangs with its heartbeat is taken for dead: its book is closed, and the
\* pilot it has in hand.
Hang(w) ==
  LET j == job[w]
  IN /\ j # Free /\ books[j.book].status = "running"
     /\ Fault("hangs")
     /\ books' = [books EXCEPT ![j.book] = Closed(@)]
     /\ pilots' = [k \in DOMAIN pilots |->
                     IF k = j.now THEN [Closed(pilots[k]) EXCEPT !.error = "other"] ELSE pilots[k]]
     /\ UNCHANGED <<source, editions, answered, rebought, queue, job>>

\* The message of a worker that dies is delivered again, and that of one that is long at it.
Crash(w) ==
  /\ job[w] # Free
  /\ Fault("crashes")
  /\ queue' = Append(queue, job[w].book)
  /\ SetJob(w, Free)
  /\ UNCHANGED <<source, editions, books, pilots, answered, rebought>>

Redeliver(w) ==
  /\ job[w] # Free
  /\ Fault("doubles")
  /\ queue' = Append(queue, job[w].book)
  /\ UNCHANGED <<source, editions, books, pilots, answered, rebought, job>>

Lose ==
  /\ queue # <<>>
  /\ Fault("losses")
  /\ queue' = Tail(queue)
  /\ UNCHANGED <<source, editions, books, pilots, answered, rebought, job>>

----------------------------------------------------------------------------
Work(w) ==
  \/ Claim(w) \/ Check(w) \/ QueueBatch(w) \/ PilotClaim(w) \/ PilotCall(w) \/ PilotFinish(w)
  \/ Collect(w) \/ EndBatch(w) \/ Materialize(w)

Next ==
  \/ Begin \/ Resume \/ Edit \/ Correct \/ Publish \/ Sweep \/ Lose
  \/ \E w \in Workers : Work(w) \/ Hang(w) \/ Crash(w) \/ Redeliver(w)

Spec == Init /\ [][Next]_vars

----------------------------------------------------------------------------
(* Properties. *)

\* A written book has every block, from the one revision of the source its run was planned on,
\* though the source is edited between a check and the window asked for after it (_materialize).
OneRevision ==
  \A i \in DOMAIN editions : editions[i].text # NoText =>
    \E b \in DOMAIN books : books[b].edition = i /\ books[b].plan.text = editions[i].text

\* A text that was written is not written over, nor its reviewer's corrections with it, whoever
\* else was writing into its edition (_materialize: "Never overwrite source or a prior result.").
TextIsKept ==
  [][\A i \in DOMAIN editions : editions[i].text # NoText =>
       /\ editions'[i].text = editions[i].text
       /\ editions[i].corrected => editions'[i].corrected]_vars

\* A book that was written is not taken for a failure, though its message comes twice and its
\* worker may have died, unless a hanging worker was taken for dead (run_book, queue_book).
WrittenStays ==
  used.hangs = 0 =>
    \A i \in DOMAIN editions : editions[i].text # NoText => editions[i].status \in {"review", "published"}

\* An answer a pilot has got is not bought again, also under a new plan, unless two editions
\* are being written from one source or a hanging worker was taken for dead (_paid_answer).
PaidOnce == rebought => Len(editions) > 1 \/ used.hangs > 0

\* A book that failed can be written by starting it again: no pilot of its edition is left
\* running by a dead worker once the janitor has closed the book (_collect, janitor.py).
Resumable ==
  used.hangs = 0 =>
    \A k \in DOMAIN pilots : LeftBehind(k) =>
      \E b \in DOMAIN books : books[b].edition = k.edition /\ books[b].status = "running"

\* A written book is whole, of one revision, and stays written.
WrittenWhole == OneRevision /\ WrittenStays

\* A failed book can be started again, and what was answered for it is not bought again.
StartsAgain == PaidOnce /\ Resumable

----------------------------------------------------------------------------
(* What is said of the code and does not hold (README, departures).        *)

UnderWay(b) == b \in DOMAIN books /\ books[b].status \in {"queued", "running"}

\* No second edition is made beside one without a text, unless that one is being written: a
\* write that was begun and not finished is written into again (_stranded).
NoTwin ==
  [][Len(editions') > Len(editions) =>
       \A i \in DOMAIN editions : editions[i].text = NoText =>
         \E b \in DOMAIN books : books[b].edition = i /\ UnderWay(b)]_vars
=============================================================================
