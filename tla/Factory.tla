------------------------------ MODULE Factory ------------------------------
(***************************************************************************)
(* The factory and the shelf: books that readers want, from the reservation*)
(* at Almonium over the download, the ingest and the normalization to the  *)
(* production and the last report (factory.py:46-235, tasks.py:239-545,    *)
(* services.py:216-279, 353-458, reingest.py:27-87, views.py:2175-2225).   *)
(*                                                                         *)
(* One worker takes the messages of the container's queue, one timer runs  *)
(* the ticks; a tick, a worker and people interleave between transactions. *)
(* A book's text is whether it has one; what a production does is the      *)
(* module Production, how an edition is published the module Publication.  *)
(* A tick reads its editions once, so it reports what it saw then, and the *)
(* productions as they are when it reports.                                *)
(***************************************************************************)
EXTENDS Integers, FiniteSets

CONSTANTS Books,        \* works Almonium may want
          MaxBooks,     \* FACTORY_MAX_PRODUCTIONS
          Retries,      \* DOWNLOAD_RETRIES
          Promote,      \* FACTORY_PROMOTE_TO is set
          Nobody,       \* no book
          MaxAsks,      \* bound on retries, re-ingests and restarted productions
          MaxCrashes,   \* bound on workers and ticks that die
          MaxLosses,    \* bound on posts to Almonium that fail
          MaxTroubles   \* bound on all of these together, and on productions that are refused

ASSUME FactoryAssumption ==
  /\ MaxBooks \in Nat \ {0} /\ {Retries, MaxAsks, MaxCrashes, MaxLosses, MaxTroubles} \subseteq Nat
  /\ Promote \in BOOLEAN /\ Nobody \notin Books

VARIABLES
  book,    \* each book: the want at Almonium, its download, edition, runs and reports
  mail,    \* its messages: downloads by their retries, pipelines
  worker,  \* what the worker is at
  tick,    \* what the tick is at
  past     \* what happened so far

vars == <<book, mail, worker, tick, past>>

NotHere == [want |-> "wanted", dl |-> "none", st |-> "none", text |-> FALSE, open |-> FALSE,
            ingest |-> "none", prod |-> "none", final |-> FALSE, told |-> "nothing", bare |-> FALSE]
Free == [at |-> "free", on |-> Nobody, tries |-> 0]
Off == [at |-> "off", todo |-> {}, on |-> Nobody, seen |-> <<>>,
        phase |-> "nothing"]

Shelf == {"review", "ready"}
Phases == {"downloading", "ingesting", "producing", "failed", "published"} \cup Shelf

TypeOK ==
  /\ book \in [Books -> [want : {"wanted", "reserved"},
                         dl : {"none", "pending", "downloaded", "failed"},
                         st : {"none", "queued", "processing", "failed"} \cup Shelf,
                         text : BOOLEAN, open : BOOLEAN,
                         ingest : {"none", "running", "failed", "succeeded"},
                         prod : {"none", "active", "failed", "succeeded"},
                         final : BOOLEAN, told : Phases \cup {"nothing"}, bare : BOOLEAN]]
  /\ mail \in [Books -> [down : SUBSET (0..Retries), pipe : Nat]]
  /\ worker.at \in {"free", "download", "send", "ingest", "persist", "normalize", "split", "continue",
                    "ack"}
  /\ (worker.on = Nobody) = (worker = Free)
  /\ tick.at \in {"off", "report", "settle", "start", "create", "send", "tell"}
  /\ tick.todo \subseteq Books /\ tick.on \in Books \cup {Nobody}
  /\ \A b \in Books : book[b].dl = "failed" => book[b].st = "failed"

----------------------------------------------------------------------------
(* State formulae. *)

\* library_ingest_status and preparation_status: what Almonium is told of an edition as it was
\* read, and of its production as it is.
IngestPhase(e) ==
  CASE e.dl = "pending" -> "downloading"
    [] e.dl # "pending" /\ e.st \in Shelf \cup {"failed"} -> e.st
    [] OTHER -> "ingesting"

Phase(e, prod) ==
  CASE prod = "none" -> IngestPhase(e)
    [] prod = "active" -> "producing"
    [] prod = "succeeded" -> IF Promote THEN "published" ELSE "ready"
    [] prod = "failed" -> "failed"

\* _done, of a book with something to make of it.
Done(e, prod) == e.dl # "pending" /\ e.st \in Shelf /\ prod \in {"failed", "succeeded"}

\* under_way.
UnderWay ==
  {b \in Books : /\ book[b].dl # "none"
                 /\ book[b].st # "failed"
                 /\ ~Done(book[b], book[b].prod)}

Set(b, f) == book' = [book EXCEPT ![b] = f]
Sending(b) == tick.at = "send" /\ tick.on = b
AtRest(b) == mail[b] = [down |-> {}, pipe |-> 0] /\ worker.on # b /\ ~Sending(b)

Bearable == past.asks + past.crashes + past.losses + past.refusals < MaxTroubles

Quiet ==
  /\ mail = [b \in Books |-> [down |-> {}, pipe |-> 0]]
  /\ worker = Free /\ tick = Off
  /\ past = [asks |-> 0, crashes |-> 0, losses |-> 0, refusals |-> 0, again |-> {}, left |-> {},
             missed |-> {}, untold |-> {}]

Init == book = [b \in Books |-> NotHere] /\ Quiet

----------------------------------------------------------------------------
(* The tick. *)

LosePost == past.losses < MaxLosses /\ Bearable

\* tick, report_preparations: the books whose end has not been reported.
TickStarts ==
  /\ tick.at = "off"
  /\ LET todo == {b \in Books : book[b].dl # "none" /\ ~book[b].final}
     IN tick' = [Off EXCEPT !.at = "report", !.todo = todo,
                            !.seen = [b \in todo |-> [dl |-> book[b].dl, st |-> book[b].st]]]
  /\ UNCHANGED <<book, mail, worker, past>>

Reported(b) ==
  LET left == tick.todo \ {b}
  IN [Off EXCEPT !.at = "report", !.todo = left, !.seen = [c \in left |-> tick.seen[c]]]

\* report: the post, which may fail before or after Almonium has it.
Report(b) ==
  LET phase == Phase(tick.seen[b], book[b].prod) IN
  /\ tick.at = "report" /\ b \in tick.todo
  /\ \/ /\ Set(b, [book[b] EXCEPT !.told = phase])
        /\ tick' = [tick EXCEPT !.at = "settle", !.on = b, !.phase = phase]
        /\ UNCHANGED past
     \/ /\ LosePost
        /\ past' = [past EXCEPT !.losses = @ + 1]
        /\ \E heard \in {book[b].told, phase} : Set(b, [book[b] EXCEPT !.told = heard])
        /\ tick' = Reported(b)
  /\ UNCHANGED <<mail, worker>>

\* ... and reported_final, once the end has been told.
\* Mutant: whatever phase was told last.
SettleDone ==
  LET b == tick.on IN
  /\ tick.at = "settle"
  /\ Set(b, [book[b] EXCEPT !.final = @ \/ Done(tick.seen[b], book[b].prod)
                                        \/ tick.phase \in {"published", "failed", "ready"}])
  /\ tick' = Reported(b)
  /\ UNCHANGED <<mail, worker, past>>

Settle ==
  LET b == tick.on IN
  /\ tick.at = "settle"
  /\ Set(b, [book[b] EXCEPT !.final = @ \/ /\ tick.phase \in {"published", "failed", "ready"}
                                           /\ Done(tick.seen[b], book[b].prod)])
  /\ tick' = Reported(b)
  /\ UNCHANGED <<mail, worker, past>>

\* The tick goes on to the queue only below the limit, with room on the plans and an answer.
Count ==
  /\ tick.at = "report" /\ tick.todo = {}
  /\ \/ tick' = Off
     \/ /\ Cardinality(UnderWay) < MaxBooks
        /\ tick' = [Off EXCEPT !.at = "start",
                               !.todo = {b \in Books : book[b].want = "wanted"}]
  /\ UNCHANGED <<book, mail, worker, past>>

\* A row without a text the processor reads, or whose reservation is refused, is passed over; an
\* answer that is lost leaves the work reserved.
PassOver(b) ==
  /\ tick.at = "start" /\ b \in tick.todo
  /\ tick' = [tick EXCEPT !.todo = @ \ {b}]
  /\ \/ UNCHANGED <<book, past>>
     \/ /\ LosePost
        /\ past' = [past EXCEPT !.losses = @ + 1]
        /\ Set(b, [book[b] EXCEPT !.want = "reserved"])
  /\ UNCHANGED <<mail, worker>>

\* start: the reservation,
Reserve(b) ==
  /\ tick.at = "start" /\ b \in tick.todo
  /\ Set(b, [book[b] EXCEPT !.want = "reserved"])
  /\ tick' = [tick EXCEPT !.at = "create", !.on = b, !.todo = @ \ {b}]
  /\ UNCHANGED <<mail, worker, past>>

NothingLeft ==
  /\ tick.at = "start" /\ tick.todo = {}
  /\ tick' = Off
  /\ UNCHANGED <<book, mail, worker, past>>

\* create_source_ingest: the edition is committed,
Create ==
  LET b == tick.on IN
  /\ tick.at = "create"
  /\ Set(b, [book[b] EXCEPT !.dl = "pending", !.st = "queued"])
  /\ tick' = [tick EXCEPT !.at = "send"]
  /\ UNCHANGED <<mail, worker, past>>

\* its download is sent (on_commit),
SendDownload ==
  /\ tick.at = "send"
  /\ mail' = [mail EXCEPT ![tick.on].down = @ \cup {0}]
  /\ tick' = [tick EXCEPT !.at = "tell"]
  /\ UNCHANGED <<book, worker, past>>

\* and the first report, after which the tick is over; when it fails, the tick takes the book for
\* one it could not start and goes on to the next row.
TellStarted ==
  LET b == tick.on IN
  /\ tick.at = "tell"
  /\ \/ /\ Set(b, [book[b] EXCEPT !.told = "downloading"])
        /\ tick' = Off
        /\ UNCHANGED past
     \/ /\ LosePost
        /\ past' = [past EXCEPT !.losses = @ + 1, !.untold = @ \cup {b}]
        /\ \E heard \in {"nothing", "downloading"} : Set(b, [book[b] EXCEPT !.told = heard])
        /\ tick' = [tick EXCEPT !.at = "start", !.on = Nobody]
  /\ UNCHANGED <<mail, worker>>

TickStep ==
  \/ TickStarts \/ Settle \/ Count \/ NothingLeft \/ Create \/ SendDownload \/ TellStarted
  \/ \E b \in Books : Report(b) \/ PassOver(b) \/ Reserve(b)

----------------------------------------------------------------------------
(* The worker. *)

At(step) == worker.at = step
Goto(step) == worker' = [worker EXCEPT !.at = step]
Acked == worker' = Free

\* download_source_edition: a message of a book that is not waiting for its file is dropped.
TakeDownload(b, n) ==
  /\ At("free") /\ n \in mail[b].down
  /\ mail' = [mail EXCEPT ![b].down = @ \ {n}]
  /\ IF book[b].dl = "pending" THEN worker' = [at |-> "download", on |-> b, tries |-> n] ELSE Acked
  /\ UNCHANGED <<book, tick, past>>

\* What download may come to: the file; a library that does not answer, while there are tries
\* left; or a link that cannot become a book, or the last try.
Fetched(n) == {"file", "failed"} \cup (IF n < Retries THEN {"later"} ELSE {})

\* The file is committed, and its pipeline sent afterwards (on_commit).
Downloaded ==
  LET b == worker.on IN
  /\ At("download") /\ "file" \in Fetched(worker.tries)
  /\ Set(b, [book[b] EXCEPT !.dl = "downloaded"])
  /\ Goto("send")
  /\ UNCHANGED <<mail, tick, past>>

SendPipeline ==
  /\ At("send")
  /\ mail' = [mail EXCEPT ![worker.on].pipe = @ + 1]
  /\ Acked
  /\ UNCHANGED <<book, tick, past>>

DownloadLater ==
  /\ At("download") /\ "later" \in Fetched(worker.tries)
  /\ mail' = [mail EXCEPT ![worker.on].down = @ \cup {worker.tries + 1}]
  /\ Acked
  /\ UNCHANGED <<book, tick, past>>

\* Refused, broken, or unavailable for the last time (_fail_download).
FailDownload ==
  LET b == worker.on IN
  /\ At("download")
  /\ Set(b, [book[b] EXCEPT !.dl = "failed", !.st = "failed"])
  /\ Acked
  /\ UNCHANGED <<mail, tick, past>>

\* process_book_pipeline.
TakePipeline(b) ==
  /\ At("free") /\ mail[b].pipe > 0
  /\ mail' = [mail EXCEPT ![b].pipe = @ - 1]
  /\ worker' = [at |-> "ingest", on |-> b, tries |-> 0]
  /\ UNCHANGED <<book, tick, past>>

\* process_source_edition: an ingest of this file that succeeded is not repeated.
Ingest ==
  LET b == worker.on IN
  /\ At("ingest")
  /\ IF book[b].ingest = "succeeded" THEN Goto("normalize") /\ UNCHANGED book
     ELSE Goto("persist") /\ Set(b, [book[b] EXCEPT !.st = "processing", !.ingest = "running"])
  /\ UNCHANGED <<mail, tick, past>>

ShelfStatus(open) == IF open THEN "review" ELSE "ready"

\* persist_artifact and the end of the run, which must still be there, in one transaction.
Persist ==
  LET b == worker.on IN
  /\ At("persist") /\ book[b].ingest = "running"
  /\ \E open \in BOOLEAN :
       Set(b, [book[b] EXCEPT !.text = TRUE, !.open = open, !.st = ShelfStatus(open),
                              !.ingest = "succeeded", !.bare = FALSE])
  /\ Goto("normalize")
  /\ UNCHANGED <<mail, tick, past>>

PersistFails ==
  LET b == worker.on IN
  /\ At("persist")
  /\ Set(b, [book[b] EXCEPT !.st = "failed", !.ingest = IF @ = "none" THEN @ ELSE "failed"])
  /\ Acked
  /\ UNCHANGED <<mail, tick, past>>

\* process_normalized_edition: the sentences are cut,
Normalize ==
  LET b == worker.on IN
  /\ At("normalize")
  /\ Set(b, [book[b] EXCEPT !.st = "processing"])
  /\ Goto("split")
  /\ UNCHANGED <<mail, tick, past>>

\* What fails in between fails the edition, a production that could not be sent as well.
NormalizeFails ==
  LET b == worker.on IN
  /\ \/ At("split") /\ Set(b, [book[b] EXCEPT !.st = "failed"])
     \/ /\ At("continue")
        /\ \E prod \in {book[b].prod, "active"} :
             Set(b, [book[b] EXCEPT !.st = "failed", !.prod = prod])
  /\ Acked
  /\ UNCHANGED <<mail, tick, past>>

\* the edition goes to the shelf (_finish_normalized_pipeline),
\* Mutant: an editor's items are forgotten, and the production with them.
FinishQuietly ==
  LET b == worker.on IN
  /\ At("split")
  /\ Set(b, [book[b] EXCEPT !.st = ShelfStatus(book[b].open)])
  /\ Goto(IF book[b].open THEN "ack" ELSE "continue")
  /\ UNCHANGED <<mail, tick, past>>

Finish ==
  LET b == worker.on IN
  /\ At("split")
  /\ Set(b, [book[b] EXCEPT !.st = ShelfStatus(book[b].open)])
  /\ Goto("continue")
  /\ UNCHANGED <<mail, tick, past>>

\* and its production is queued, unless one is under way (continue_production, queue_production).
\* What it asks for may be refused, a translation into the language the text turned out to be in.
Continue ==
  LET b == worker.on IN
  /\ At("continue")
  /\ \/ Set(b, [book[b] EXCEPT !.prod = "active"]) /\ UNCHANGED past
     \/ /\ Bearable
        /\ UNCHANGED book
        /\ past' = [past EXCEPT !.refusals = @ + 1, !.left = @ \cup {b}]
  /\ Goto("ack")
  /\ UNCHANGED <<mail, tick>>

Ack == At("ack") /\ Acked /\ UNCHANGED <<book, mail, tick, past>>

WorkerStep ==
  \/ \E b \in Books : TakePipeline(b) \/ \E n \in 0..Retries : TakeDownload(b, n)
  \/ Downloaded \/ SendPipeline \/ DownloadLater \/ FailDownload \/ Ingest \/ Persist \/ PersistFails
  \/ Normalize \/ NormalizeFails \/ Finish \/ Continue \/ Ack

----------------------------------------------------------------------------
(* The production, people and what goes wrong. *)

ProductionEnds(b) ==
  /\ book[b].prod = "active"
  /\ \E end \in {"failed", "succeeded"} : Set(b, [book[b] EXCEPT !.prod = end])
  /\ past' = IF tick.at = "settle" /\ tick.on = b THEN [past EXCEPT !.missed = @ \cup {b}] ELSE past
  /\ UNCHANGED <<mail, worker, tick>>

Asks == past.asks < MaxAsks /\ Bearable
Asked(b) == [past EXCEPT !.asks = @ + 1, !.again = @ \cup {b}]

\* What people ask for is committed, and then sent unless the process dies in between.
Sends(b, m) ==
  \/ mail' = [mail EXCEPT ![b] = m] /\ past' = Asked(b)
  \/ UNCHANGED mail /\ past' = [Asked(b) EXCEPT !.left = @ \cup {b}]

\* retry_source_download.
Redownload(b) ==
  /\ Set(b, [book[b] EXCEPT !.dl = "pending", !.st = "queued"])
  /\ Sends(b, [mail[b] EXCEPT !.down = @ \cup {0}])

\* retry_failed_edition: the download, or the pipeline of the file that is there.
Retry(b) ==
  /\ book[b].st = "failed" /\ Asks
  /\ IF book[b].dl = "failed" THEN Redownload(b)
     ELSE /\ mail' = [mail EXCEPT ![b].pipe = @ + 1]
          /\ past' = Asked(b)
          /\ UNCHANGED book
  /\ UNCHANGED <<worker, tick>>

\* requeue_held.
Requeue(b) ==
  /\ book[b].prod = "failed" /\ Asks
  /\ Set(b, [book[b] EXCEPT !.prod = "active"])
  /\ past' = Asked(b)
  /\ UNCHANGED <<mail, worker, tick>>

\* A worker is about to put the book on the shelf without asking for its text.
Shelving(b) == worker.on = b /\ worker.at \in {"normalize", "split"}

Emptied(b) ==
  [book[b] EXCEPT !.text = FALSE, !.open = FALSE, !.ingest = "none", !.prod = "none",
                  !.final = FALSE, !.bare = @ \/ Shelving(b)]

\* reset_for_reingest, whatever is under way.
\* Mutant: the edition stays on the shelf.
ReingestInPlace(b) ==
  /\ book[b].dl = "downloaded" /\ Asks
  /\ Set(b, Emptied(b))
  /\ Sends(b, [mail[b] EXCEPT !.pipe = @ + 1])
  /\ UNCHANGED <<worker, tick>>

Reingest(b) ==
  /\ book[b].dl = "downloaded" /\ Asks
  /\ Set(b, [Emptied(b) EXCEPT !.st = "queued"])
  /\ Sends(b, [mail[b] EXCEPT !.pipe = @ + 1])
  /\ UNCHANGED <<worker, tick>>

\* resolve_review_warnings and complete_review.
Review(b) ==
  /\ book[b].st = "review"
  /\ Set(b, [book[b] EXCEPT !.open = FALSE, !.st = "ready"])
  /\ UNCHANGED <<mail, worker, tick, past>>

Crashes == past.crashes < MaxCrashes /\ Bearable

\* A worker that is restarted gives its message back, which is of no use to a pipeline that was not
\* sent; one that is killed has acknowledged it.
WorkerDies ==
  LET b == worker.on
      back == IF worker.at \in {"download", "send"}
              THEN [mail[b] EXCEPT !.down = @ \cup {worker.tries}]
              ELSE [mail[b] EXCEPT !.pipe = @ + 1] IN
  /\ ~At("free") /\ Crashes
  /\ Acked
  /\ \/ /\ mail' = [mail EXCEPT ![b] = back]
        /\ past' = [past EXCEPT !.crashes = @ + 1, !.again = @ \cup {b},
                                !.left = IF At("send") THEN @ \cup {b} ELSE @]
     \/ /\ UNCHANGED mail
        /\ past' = [past EXCEPT !.crashes = @ + 1, !.left = @ \cup {b}]
  /\ UNCHANGED <<book, tick>>

TickDies ==
  /\ tick.at # "off" /\ Crashes
  /\ tick' = Off
  /\ past' = [past EXCEPT !.crashes = @ + 1,
                          !.left = IF tick.at = "send" THEN @ \cup {tick.on} ELSE @]
  /\ UNCHANGED <<book, mail, worker>>

People == \E b \in Books : Retry(b) \/ Requeue(b) \/ Reingest(b) \/ Review(b)

Next ==
  \/ TickStep \/ WorkerStep \/ WorkerDies \/ TickDies \/ People
  \/ \E b \in Books : ProductionEnds(b)

Spec == Init /\ [][Next]_vars

----------------------------------------------------------------------------
(* Properties. *)

\* Not more than MaxBooks books are between the reservation and the end of the production
\* (factory.py:6), not counting the ones that were taken up again, and the ones whose first report
\* Almonium did not answer, which the tick takes for not started.
WithinLimit == Cardinality(UnderWay \ (past.again \cup past.untold)) <= MaxBooks

\* A book on the shelf has its text, except the one whose text a re-ingest took away under the
\* worker that was about to shelve it, until the pipeline it asked for puts the text back.
ShelfHasText == \A b \in Books : book[b].st \in Shelf => book[b].text \/ book[b].bare

\* A book that takes up a place always has a message, a worker or a production that will bring it
\* to its end.  The ones left to themselves are the ones whose message went with a worker that was
\* killed, whose message was not sent because its sender died after the commit, and whose
\* production was refused: these keep their place.
Attended == \A b \in UnderWay \ past.left : ~AtRest(b) \/ book[b].prod = "active"

\* Places are kept to the limit, and none is kept by a book that nobody will bring to its end,
\* except for the cases WithinLimit and Attended name.
PlacesMove == WithinLimit /\ Attended

\* Whose end counts as reported, Almonium was told how it ended, although posts are lost and ticks
\* die ("Whether Almonium has been told the book is finished", models.py:356); unless the book was
\* taken up again, or ended between the post of a report and the look at its production.
ToldAsEnded ==
  \A b \in Books :
    book[b].final => \/ book[b].told = Phase(book[b], book[b].prod)
                     \/ b \in past.again \cup past.missed
=============================================================================
