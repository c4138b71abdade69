---------------------------- MODULE Publication ----------------------------
(***************************************************************************)
(* What Almonium serves of the editions kept here: publication, the update *)
(* of its metadata, unpublishing, withdrawal and purge (tasks.py:546-802,  *)
(* purge.py, publication.py), the page that asks for them (views.py:       *)
(* 199-235, 2081-2172) and the bundle another environment pushes           *)
(* (promotion.py:620-842).                                                 *)
(*                                                                         *)
(* Almonium is another service: a call to it may be lost before or after   *)
(* it took effect, and the worker may die around it.  What a task read of  *)
(* the edition before the call is what it works with after it, while the   *)
(* web processes write the same rows.  A publication's message is given    *)
(* back when its worker dies; an unpublishing's and a withdrawal's is not. *)
(*                                                                         *)
(* An edition's metadata is a value, which may come back; a publish run is *)
(* kept per value, as its key is a hash of it (publication_input_hash).    *)
(* What is sent beside it and is in no key (the levels of the work, the    *)
(* register, the number of chapters) is one value, facts.  An import is    *)
(* one transaction; the other conditions of publication_blocker hold.      *)
(* Nobody is asked to leave an edition alone that is being handed over:    *)
(* the steps that lose track of what Almonium serves are remembered in     *)
(* torn, doubt and back, and the properties name them.                     *)
(***************************************************************************)
EXTENDS Integers, Sequences, FiniteSets

CONSTANTS Editions,    \* of one work
          Source,      \* the edition each was generated from, or None
          None,
          MaxMeta,     \* values of an edition's metadata, beside the first
          MaxOrigin,   \* bound on changes the other environment makes of an edition
          MaxFacts,    \* bound on changes of what else is sent
          MaxAsks,     \* bound on what people ask for
          MaxRetries,  \* retries of a withdrawal, five in the code
          MaxLost,     \* bound on calls whose answer is lost
          MaxCrashes   \* bound on workers that die

ASSUME SourceAssumption ==
  /\ Source \in [Editions -> Editions \cup {None}] /\ None \notin Editions
  /\ \A e \in Editions : Source[e] # None => Source[Source[e]] = None
ASSUME BoundsAssumption ==
  {MaxMeta, MaxOrigin, MaxFacts, MaxAsks, MaxRetries, MaxLost, MaxCrashes} \subseteq Nat

\* Having been told nothing is not a thing told.
ASSUME NoneAssumption == None \notin [meta : 0..MaxMeta, facts : 0..MaxFacts]

VARIABLES
  status,     \* of each edition; "absent" once purged
  meta,       \* its metadata
  facts,      \* what else is sent of the work
  print,      \* the origin's version its text was promoted at
  origin,     \* the version the other environment has
  runs,       \* its publish runs, by metadata sent
  served,     \* what Almonium was told of it, or None
  queue,      \* messages waiting, each with the number of its like
  job,        \* what the worker is doing
  form,       \* an edition a person's request has read and not yet written
  used,       \* asks, losses, crashes so far
  torn,       \* editions whose status a form wrote over with one it had read before
  doubt,      \* purged at once, though torn or with a publication whose end is not known
  back        \* editions whose metadata was put back to what had been sent before

vars == <<status, meta, facts, print, origin, runs, served, queue, job, form, used,
          torn, doubt, back>>
past == <<torn, doubt, back>>

Chains == {<<e>> : e \in Editions} \cup {<<d, e>> : d \in Editions, e \in Editions}
Messages ==
  [task : {"publish"}, chain : Chains, tries : {0}]
  \cup [task : {"unpublish", "withdraw"}, chain : {<<e>> : e \in Editions}, tries : 0..MaxRetries]
NoMessage == [task |-> "none", chain |-> <<>>, tries |-> 0]
Idle == [msg |-> NoMessage, step |-> "idle", seen |-> 0]
NoForm == [page |-> "none", edition |-> None, seen |-> "absent"]
Statuses == {"absent", "ready", "published"}

Values == 0..MaxMeta
Told == [meta : Values, facts : 0..MaxFacts]

TypeOK ==
  /\ status \in [Editions -> Statuses]
  /\ meta \in [Editions -> Values] /\ facts \in 0..MaxFacts
  /\ origin \in [Editions -> 0..MaxOrigin] /\ print \in [Editions -> 0..MaxOrigin]
  /\ DOMAIN runs = Editions
  /\ \A e \in Editions : DOMAIN runs[e] \subseteq Values
       /\ \A v \in DOMAIN runs[e] : runs[e][v] \in {"running", "failed", "succeeded"}
  /\ served \in [Editions -> Told \cup {None}]
  /\ DOMAIN queue \subseteq Messages
  /\ job \in [msg : Messages, step : {"call", "save", "settle"}, seen : Values] \cup {Idle}
  /\ form \in [page : {"confirm", "remove"}, edition : Editions, seen : Statuses] \cup {NoForm}
  /\ torn \subseteq Editions /\ doubt \subseteq Editions /\ back \subseteq Editions

----------------------------------------------------------------------------
(* State formulae. *)

Here(e) == status[e] # "absent"
Derived(e) == {d \in Editions : Source[d] = e /\ Here(d)}

\* publication_blocker.
PublicationBlocked(e) ==
  \/ status[e] \notin {"ready", "published"}
  \/ Source[e] # None /\ status[Source[e]] # "published"

\* unpublish_blocker; removal_blocker, and what purge_edition asks once more.
UnpublishBlocked(e) ==
  \/ status[e] # "published"
  \/ \E d \in Derived(e) : status[d] = "published"

RemovalBlocked(e) == Derived(e) # {}

\* publication_stale.
\* Mutant: any successful publication counts, whatever it sent.
Sent(e) == {v \in DOMAIN runs[e] : runs[e][v] = "succeeded"}
StaleIfNeverSent(e) == status[e] = "published" /\ Sent(e) = {}
Stale(e) == status[e] = "published" /\ Sent(e) # {} /\ meta[e] \notin Sent(e)

NoRuns == [v \in {} |-> "failed"]
Put(f, k, v) == [x \in DOMAIN f \cup {k} |-> IF x = k THEN v ELSE f[x]]
SetRun(e, v, to) == runs' = [runs EXCEPT ![e] = Put(@, v, to)]

Add(q, m) == Put(q, m, IF m \in DOMAIN q THEN q[m] + 1 ELSE 1)
Take(q, m) == IF q[m] = 1 THEN [x \in DOMAIN q \ {m} |-> q[x]] ELSE [q EXCEPT ![m] = @ - 1]
Publish(chain) == [task |-> "publish", chain |-> chain, tries |-> 0]

\* The publications of which it is not known here that Almonium took them.
Unsettled(e) == \E v \in DOMAIN runs[e] : runs[e][v] # "succeeded"

Asked == used.asks < MaxAsks /\ used' = [used EXCEPT !.asks = @ + 1]
Lost == used.lost < MaxLost /\ used' = [used EXCEPT !.lost = @ + 1]

----------------------------------------------------------------------------
Init ==
  /\ status = [e \in Editions |-> "ready"]
  /\ meta = [e \in Editions |-> 0]
  /\ facts = 0
  /\ print = [e \in Editions |-> 0]
  /\ origin = [e \in Editions |-> 0]
  /\ runs = [e \in Editions |-> NoRuns]
  /\ served = [e \in Editions |-> None]
  /\ queue = NoRuns
  /\ job = Idle
  /\ form = NoForm
  /\ used = [asks |-> 0, lost |-> 0, crashes |-> 0]
  /\ torn = {} /\ doubt = {} /\ back = {}

----------------------------------------------------------------------------
(* The pages. *)

\* publish_edition_to_almonium: an update only when Almonium is behind.
AskPublish(e) ==
  /\ status[e] = "published" => Stale(e)
  /\ ~PublicationBlocked(e)
  /\ queue' = Add(queue, Publish(<<e>>))
  /\ Asked
  /\ UNCHANGED <<status, meta, facts, print, origin, runs, served, job, form, past>>

\* unpublish_edition_view.
AskUnpublish(e) ==
  /\ ~UnpublishBlocked(e)
  /\ queue' = Add(queue, [task |-> "unpublish", chain |-> <<e>>, tries |-> 0])
  /\ Asked
  /\ UNCHANGED <<status, meta, facts, print, origin, runs, served, job, form, past>>

\* confirm_edition_metadata and purge_edition_view read the edition ...
OpenForm(e, page) ==
  /\ form = NoForm /\ Here(e)
  /\ page = "remove" => ~RemovalBlocked(e)
  /\ form' = [page |-> page, edition |-> e, seen |-> status[e]]
  /\ Asked
  /\ UNCHANGED <<status, meta, facts, print, origin, runs, served, queue, job, past>>

\* purge_edition: the row and its runs go.
Purge(e) ==
  /\ status' = [status EXCEPT ![e] = "absent"]
  /\ runs' = [runs EXCEPT ![e] = NoRuns]

\* ... purge_edition_view: what was read as published is withdrawn first, anything else goes
\* at once.
\* Mutant: every edition goes at once.
Doubtful(e) == e \in torn \/ Unsettled(e) \/ status[e] # form.seen
RemoveAtOnce ==
  LET e == form.edition
  IN /\ form.page = "remove"
     /\ form' = NoForm
     /\ IF Here(e) /\ ~RemovalBlocked(e)
          THEN /\ Purge(e)
               /\ doubt' = IF Doubtful(e) THEN doubt \cup {e} ELSE doubt
          ELSE UNCHANGED <<status, runs, doubt>>
     /\ UNCHANGED <<meta, facts, print, origin, served, queue, job, used, torn, back>>

Remove ==
  LET e == form.edition
  IN /\ form.page = "remove"
     /\ form' = NoForm
     /\ \/ /\ form.seen = "published"
           /\ queue' = Add(queue, [task |-> "withdraw", chain |-> <<e>>, tries |-> 0])
           /\ UNCHANGED <<status, runs, doubt>>
        \/ /\ form.seen # "published" /\ Here(e) /\ ~RemovalBlocked(e)
           /\ Purge(e)
           /\ doubt' = IF Doubtful(e) THEN doubt \cup {e} ELSE doubt
           /\ UNCHANGED queue
        \/ /\ form.seen # "published" /\ ~(Here(e) /\ ~RemovalBlocked(e))
           /\ UNCHANGED <<status, runs, doubt, queue>>
     /\ UNCHANGED <<meta, facts, print, origin, served, job, used, torn, back>>

\* Metadata that was sent once and comes back is found sent.
Returns(e, v) == v # meta[e] /\ v \in Sent(e)

\* ... and confirm_metadata writes it back with the status it read; a published edition
\* that is now behind is sent again.  An edition that is gone makes the request fail.
Confirm ==
  LET e == form.edition
      blocked == Source[e] # None /\ status[Source[e]] # "published"
  IN /\ form.page = "confirm"
     /\ form' = NoForm
     /\ \/ ~Here(e) /\ UNCHANGED <<status, meta, queue, torn, back>>
        \/ \E v \in Values :
             /\ Here(e)
             /\ status' = [status EXCEPT ![e] = form.seen]
             /\ meta' = [meta EXCEPT ![e] = v]
             /\ queue' = IF form.seen = "published" /\ Sent(e) # {} /\ v \notin Sent(e) /\ ~blocked
                           THEN Add(queue, Publish(<<e>>)) ELSE queue
             /\ torn' = IF status[e] # form.seen THEN torn \cup {e} ELSE torn
             /\ back' = IF Returns(e, v) THEN back \cup {e} ELSE back
     /\ UNCHANGED <<facts, print, origin, runs, served, job, used, doubt>>

\* A level of the work is reached, its floor moves, a chapter is cut anew.
FactsMove ==
  /\ facts < MaxFacts
  /\ facts' = facts + 1
  /\ Asked
  /\ UNCHANGED <<status, meta, print, origin, runs, served, queue, job, form, past>>

\* The other environment changes its copy.
OriginEdits(e) ==
  /\ origin[e] < MaxOrigin
  /\ origin' = [origin EXCEPT ![e] = @ + 1]
  /\ Asked
  /\ UNCHANGED <<status, meta, facts, print, runs, served, queue, job, form, past>>

\* The bundle of an edition carries its source; what is here at the same version is skipped.
Bundle(e) == IF Source[e] = None THEN <<e>> ELSE <<Source[e], e>>
Current(e) == Here(e) /\ print[e] = origin[e]

\* The slugs of the answer: what was imported, then what was skipped.
Slugs(e) ==
  IF Source[e] # None /\ Current(Source[e]) /\ ~Current(e) THEN <<e, Source[e]>> ELSE Bundle(e)

\* queue_publications: the slugs in the order given, those not published here.
Pending(slugs, after) ==
  LET left == {i \in DOMAIN slugs : after[slugs[i]] # "published"}
  IN CASE left = DOMAIN slugs -> slugs
       [] left = {} -> <<>>
       [] OTHER -> <<slugs[CHOOSE i \in left : TRUE]>>

\* PromotionImportView: the bundle lands, then its publication is queued.
Import(e, publish) ==
  LET fresh == {x \in {e, Source[e]} \cap Editions : ~Current(x)}
      after == [x \in Editions |->
                  IF x \in fresh /\ status[x] # "published" THEN "ready" ELSE status[x]]
      pending == Pending(Slugs(e), after)
  IN /\ fresh # {} \/ publish
     /\ Asked
     /\ status' = after
     /\ \E new \in [fresh -> Values] :
          /\ meta' = [x \in Editions |-> IF x \in fresh THEN new[x] ELSE meta[x]]
          /\ back' = back \cup {x \in fresh : Returns(x, new[x])}
     /\ print' = [x \in Editions |-> IF x \in fresh THEN origin[x] ELSE print[x]]
     /\ queue' = IF publish /\ pending # <<>> THEN Add(queue, Publish(pending)) ELSE queue
     /\ UNCHANGED <<facts, origin, runs, served, job, form, torn, doubt>>

----------------------------------------------------------------------------
(* The worker: one process. *)

Edition == job.msg.chain[1]

\* What is left of a chain is sent on when its first task ends well.
Rest(m) == IF Len(m.chain) > 1 THEN Add(queue, Publish(Tail(m.chain))) ELSE queue

\* publish_edition up to the call: gone or blocked it raises, which ends the chain; a run of
\* the same metadata that succeeded makes it return.
BeginPublish ==
  \E m \in DOMAIN queue :
    LET e == m.chain[1]
        left == Take(queue, m)
    IN /\ job = Idle /\ m.task = "publish"
       /\ \/ /\ PublicationBlocked(e)
             /\ queue' = left
             /\ UNCHANGED <<runs, job, back>>
          \/ /\ ~PublicationBlocked(e) /\ meta[e] \in Sent(e)
             /\ queue' = IF Len(m.chain) > 1 THEN Add(left, Publish(Tail(m.chain))) ELSE left
             /\ UNCHANGED <<runs, job, back>>
          \/ /\ ~PublicationBlocked(e) /\ meta[e] \notin Sent(e)
             /\ SetRun(e, meta[e], "running")
             /\ queue' = left
             /\ job' = [msg |-> m, step |-> "call", seen |-> meta[e]]
             /\ back' = back \ {e}
       /\ UNCHANGED <<status, meta, facts, print, origin, served, form, used, torn, doubt>>

\* A run's row went with its edition, if that was purged, and does not come back with it.
HasRun(e, v) == v \in DOMAIN runs[e]
EndRun(e, v, to) == IF HasRun(e, v) THEN SetRun(e, v, to) ELSE UNCHANGED runs

\* publish_to_almonium: it takes what was read, and the facts as they are; the answer may be
\* lost, or the request.
CallPublish ==
  LET e == Edition
      told == [served EXCEPT ![e] = [meta |-> job.seen, facts |-> facts]]
  IN /\ job.step = "call" /\ job.msg.task = "publish"
     /\ \/ /\ served' = told
           /\ job' = [job EXCEPT !.step = "save"]
           /\ UNCHANGED <<runs, used>>
        \/ /\ Lost
           /\ served' \in {served, told}
           /\ EndRun(e, job.seen, "failed")
           /\ job' = Idle
     /\ UNCHANGED <<status, meta, facts, print, origin, queue, form, past>>

\* The edition is saved, whatever became of it; one that is gone makes the task raise ...
SavePublish ==
  LET e == Edition
  IN /\ job.step = "save" /\ job.msg.task = "publish"
     /\ status' = [status EXCEPT ![e] = IF Here(e) THEN "published" ELSE @]
     /\ job' = IF Here(e) THEN [job EXCEPT !.step = "settle"] ELSE Idle
     /\ UNCHANGED <<meta, facts, print, origin, runs, served, queue, form, used, past>>

\* ... and then its run, which has gone if the edition was purged and brought back meanwhile.
SettlePublish ==
  LET e == Edition
  IN /\ job.step = "settle" /\ job.msg.task = "publish"
     /\ EndRun(e, job.seen, "succeeded")
     /\ queue' = IF HasRun(e, job.seen) THEN Rest(job.msg) ELSE queue
     /\ job' = Idle
     /\ UNCHANGED <<status, meta, facts, print, origin, served, form, used, past>>

\* A withdrawal that ends in any error is tried again, so often.
Retry(m, q) == IF m.tries < MaxRetries THEN Add(q, [m EXCEPT !.tries = @ + 1]) ELSE q

\* unpublish_edition and withdraw_edition up to the call.  A withdrawal that is blocked, or
\* whose edition is gone, is an error like any other; an unpublishing is not tried again.
BeginRecall ==
  \E m \in DOMAIN queue :
    LET e == m.chain[1]
        left == Take(queue, m)
        refused == IF m.task = "unpublish" THEN UnpublishBlocked(e)
                   ELSE RemovalBlocked(e) \/ ~Here(e)
    IN /\ job = Idle /\ m.task \in {"unpublish", "withdraw"}
       /\ IF refused
            THEN /\ queue' = IF m.task = "withdraw" THEN Retry(m, left) ELSE left
                 /\ UNCHANGED job
            ELSE /\ queue' = left
                 /\ job' = [msg |-> m, step |-> "call", seen |-> 0]
       /\ UNCHANGED <<status, meta, facts, print, origin, runs, served, form, used, past>>

\* withdraw_from_almonium: an edition Almonium does not know is as withdrawn as it can be.
\* Mutant: an edition Almonium does not know is an error.
CallRecallKnown ==
  LET e == Edition
  IN /\ job.step = "call" /\ job.msg.task \in {"unpublish", "withdraw"}
     /\ \/ /\ served[e] # None
           /\ served' = [served EXCEPT ![e] = None]
           /\ job' = [job EXCEPT !.step = "save"]
           /\ UNCHANGED <<used, queue>>
        \/ /\ served[e] = None
           /\ queue' = Retry(job.msg, queue)
           /\ job' = Idle
           /\ UNCHANGED <<used, served>>
        \/ /\ Lost
           /\ served' \in {served, [served EXCEPT ![e] = None]}
           /\ queue' = Retry(job.msg, queue)
           /\ job' = Idle
     /\ UNCHANGED <<status, meta, facts, print, origin, runs, form, past>>

CallRecall ==
  LET e == Edition
  IN /\ job.step = "call" /\ job.msg.task \in {"unpublish", "withdraw"}
     /\ \/ /\ served' = [served EXCEPT ![e] = None]
           /\ job' = [job EXCEPT !.step = "save"]
           /\ UNCHANGED <<used, queue>>
        \/ /\ Lost
           /\ served' \in {served, [served EXCEPT ![e] = None]}
           /\ queue' = Retry(job.msg, queue)
           /\ job' = Idle
     /\ UNCHANGED <<status, meta, facts, print, origin, runs, form, past>>

\* The status is put back, whatever it has become.
SaveUnpublish ==
  LET e == Edition
  IN /\ job.step = "save" /\ job.msg.task = "unpublish"
     /\ status' = [status EXCEPT ![e] = IF Here(e) THEN "ready" ELSE @]
     /\ job' = Idle
     /\ UNCHANGED <<meta, facts, print, origin, runs, served, queue, form, used, past>>

\* The content goes, unless an edition has been made from it in the meantime.
PurgeWithdrawn ==
  LET e == Edition
  IN /\ job.step = "save" /\ job.msg.task = "withdraw"
     /\ job' = Idle
     /\ IF RemovalBlocked(e)
          THEN queue' = Retry(job.msg, queue) /\ UNCHANGED <<status, runs>>
          ELSE Purge(e) /\ UNCHANGED queue
     /\ UNCHANGED <<meta, facts, print, origin, served, form, used, past>>

\* The worker dies: only a publication's message comes back.
Crash ==
  /\ job # Idle
  /\ used.crashes < MaxCrashes
  /\ used' = [used EXCEPT !.crashes = @ + 1]
  /\ queue' = IF job.msg.task = "publish" THEN Add(queue, job.msg) ELSE queue
  /\ job' = Idle
  /\ UNCHANGED <<status, meta, facts, print, origin, runs, served, form, past>>

----------------------------------------------------------------------------
Work ==
  \/ BeginPublish \/ CallPublish \/ SavePublish \/ SettlePublish
  \/ BeginRecall \/ CallRecall \/ SaveUnpublish \/ PurgeWithdrawn

Next ==
  \/ \E e \in Editions :
       \/ AskPublish(e) \/ AskUnpublish(e) \/ OriginEdits(e)
       \/ \E page \in {"confirm", "remove"} : OpenForm(e, page)
       \/ \E publish \in BOOLEAN : Import(e, publish)
  \/ Confirm \/ Remove \/ FactsMove
  \/ Work \/ Crash

\* The worker runs; nobody has to ask for anything.
Spec == Init /\ [][Next]_vars /\ WF_vars(Work)

----------------------------------------------------------------------------
(* Properties. *)

\* What Almonium serves has its text here, which Almonium reads live (withdraw_edition,
\* tasks.py:745-751), unless the edition was purged at once while the end of one of its
\* publications was not known here or its status was not what the page had read (doubt).
LiveHasText == \A e \in Editions : served[e] # None => Here(e) \/ e \in doubt

\* An edition made from another counts as published only while the other does
\* (publication_blocker, unpublish_blocker, removal_blocker), unless a form wrote an older
\* status over one of the two or it was purged in doubt.
Astray == torn \cup doubt
DerivedHasSource ==
  \A e \in Editions :
    status[e] = "published" /\ Source[e] # None
      => status[Source[e]] = "published" \/ e \in Astray \/ Source[e] \in Astray

\* Nothing that is shown loses what it stands on: its text here, and the edition it was made
\* of, but for the editions that torn and doubt name.
ShownIsBacked == LiveHasText /\ DerivedHasSource

\* A published edition that was sent from here and is not said to be behind is served with
\* the metadata it has here (publication_stale), unless its metadata has come back to a value
\* that was sent before (back).
StaleIsSeen ==
  \A e \in Editions :
    status[e] = "published" /\ served[e] # None /\ Sent(e) # {} /\ ~Stale(e) /\ e \notin back
      => served[e].meta = meta[e]

\* A removal that was asked for of a published edition comes to an end, though answers are
\* lost: the text goes, unless an edition made from it is here or the worker died with it.
RemovalEnds ==
  \A e \in Editions :
    [task |-> "withdraw", chain |-> <<e>>, tries |-> 0] \in DOMAIN queue
      ~> (~Here(e) \/ Derived(e) # {} \/ used.crashes > 0)

----------------------------------------------------------------------------
(* What is said of the code and does not hold (README, departures).        *)

\* Nobody can be reading what is not published here (purge_edition_view, views.py:2130-2132),
\* so that what is purged is not served.
PurgedIsNotServed == \A e \in Editions : served[e] # None => Here(e)

\* The key of a publication holds everything Almonium is told (publication_input_hash,
\* tasks.py:604), so that what is not said to be behind is served as it is.
ToldIsCurrent ==
  \A e \in Editions :
    status[e] = "published" /\ served[e] # None /\ Sent(e) # {} /\ ~Stale(e)
      => served[e] = [meta |-> meta[e], facts |-> facts]

\* A publication that ends without an error leaves its edition published, also when the
\* edition was unpublished in between (unpublish_edition, tasks.py:786).
ReturnIsPublished ==
  [][\A m \in DOMAIN queue :
        LET e == m.chain[1]
        IN job = Idle /\ m.task = "publish" /\ ~PublicationBlocked(e) /\ BeginPublish
           /\ m \notin DOMAIN queue' /\ job' = Idle => status'[e] = "published"]_vars

\* A chain of publications names an edition before what was made from it
\* (queue_publications, promotion.py:816-824).
SourcesFirst ==
  \A m \in DOMAIN queue :
    \A i, j \in DOMAIN m.chain : i < j => Source[m.chain[i]] # m.chain[j]
=============================================================================
