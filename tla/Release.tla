------------------------------ MODULE Release ------------------------------
(* Where editions stand at another environment: bundles that carry an edition with its        *)
(* sources there, and what the pages say is current (catalog/release_state.py, with           *)
(* promote_edition of catalog/tasks.py and the bundles of catalog/promotion.py).              *)
(*                                                                                            *)
(* One target, public editions that have passed review, each generated from the one before    *)
(* it. What the pages count, corrections and new artifacts, is a version, and what travels    *)
(* uncounted is another. A moment is a number: runs and changes are compared by when they     *)
(* were created. What a bundle may be refused for, publication at the target and its own      *)
(* edits are left out.                                                                        *)
EXTENDS Naturals, Sequences, FiniteSets, SequencesExt, TLC

CONSTANTS
    Editions,       \* how many; edition e was generated from e - 1
    Senders,        \* how many workers send bundles at a time
    MaxRuns, MaxChanges, MaxTroubles

ReleaseConstants ==
    /\ Editions \in Nat \ {0} /\ Senders \in Nat \ {0}
    /\ MaxRuns \in Nat /\ MaxChanges \in Nat /\ MaxTroubles \in Nat

VARIABLES
    content,        \* [counted, rest]: an edition here, by version
    open,           \* changes that are not committed: [edition, created]
    changed,        \* when the last counted change was created
    sent,           \* the promotion runs, in the order they were created
    flight,         \* bundles on their way to the target
    held,           \* what the target holds, version 0 for nothing
    by,             \* the run whose bundle it holds
    missed,         \* <<edition, run>>: a change created before the run, committed after it was sent
    moment,
    mishaps

releaseVars == <<content, open, changed, sent, flight, held, by, missed, moment, mishaps>>
settled == <<held, by>>

Books == 1..Editions
\* promotion_chain: the edition and everything it was generated from.
Chain(e) == 1..e
UnderWay == {i \in DOMAIN sent : sent[i].status \in {"queued", "running"}}

--------------------------------------------------------------------------------
(* What the pages say.                                                                        *)

RunsOf(e) == {i \in DOMAIN sent : sent[i].edition = e}
Landed(e) == {i \in RunsOf(e) : sent[i].status = "succeeded"}
Latest(S) == CHOOSE i \in S : \A j \in S : j <= i

\* Mutant: the page counts the changes of the edition alone.
PanelOfItself(e) ==
    IF RunsOf(e) \cap UnderWay # {} THEN "running"
    ELSE IF Landed(e) = {} THEN "never"
    ELSE IF changed[e] > sent[Latest(Landed(e))].created THEN "behind"
    ELSE "current"

\* release_rows: the edition's own page counts the changes of the whole chain since the run
\* that succeeded last was created.
Panel(e) ==
    IF RunsOf(e) \cap UnderWay # {} THEN "running"
    ELSE IF Landed(e) = {} THEN "never"
    ELSE IF \E x \in Chain(e) : changed[x] > sent[Latest(Landed(e))].created THEN "behind"
    ELSE "current"

\* _token: the catalogue looks at the newest run first, and at the direct source only.
Token(e) ==
    IF RunsOf(e) = {} THEN "never"
    ELSE IF Latest(RunsOf(e)) \in UnderWay THEN "queued"
    ELSE IF sent[Latest(RunsOf(e))].status = "failed" THEN "failed"
    ELSE IF \E x \in Chain(e) \cap {e - 1, e} : changed[x] > sent[Latest(Landed(e))].created THEN "behind"
    ELSE "current"

\* editions_behind, sources first.
Behind == SetToSortSeq({e \in Books : Token(e) \in {"behind", "failed"}}, <)

--------------------------------------------------------------------------------

Init ==
    /\ content = [e \in Books |-> [counted |-> 1, rest |-> 1]] /\ changed = [e \in Books |-> 0]
    /\ open = {} /\ missed = {}
    /\ sent = <<>> /\ flight = {} /\ by = [e \in Books |-> 0]
    /\ held = [e \in Books |-> [counted |-> 0, rest |-> 0]]
    /\ moment = 1 /\ mishaps = 0

\* The changes of all editions so far, counted or not.
Made == FoldFunction(LAMBDA c, n : n + c.counted + c.rest - 2, 0, content)

\* A correction or a new current artifact begins: its row has the moment (auto_now_add).
Begin(e) ==
    /\ Made + Cardinality(open) < MaxChanges /\ \A o \in open : o.edition # e
    /\ open' = open \cup {[edition |-> e, created |-> moment]}
    /\ moment' = moment + 1
    /\ UNCHANGED <<content, changed, sent, flight, settled, missed, mishaps>>

\* And is committed: the pages find it from now on.
Commit(o) ==
    /\ open' = open \ {o}
    /\ content' = [content EXCEPT ![o.edition].counted = @ + 1]
    /\ changed' = [changed EXCEPT ![o.edition] = o.created]
    /\ missed' = missed \cup
           {<<o.edition, i>> : i \in {j \in DOMAIN sent :
                sent[j].status # "queued" /\ sent[j].created > o.created}}
    /\ UNCHANGED <<sent, flight, settled, moment, mishaps>>

\* What travels and is not counted: a gloss is reviewed, a warning resolved, the edition named, or
\* an artifact that was retired serves again, with the moment it was first made.
Review(e) ==
    /\ Made + Cardinality(open) < MaxChanges
    /\ content' = [content EXCEPT ![e].rest = @ + 1]
    /\ UNCHANGED <<open, changed, sent, flight, settled, missed, moment, mishaps>>

Queued(e) == [edition |-> e, status |-> "queued", created |-> moment]

\* promote_edition_view, and a production that promotes what it made.
Promote(e) ==
    /\ Len(sent) < MaxRuns
    /\ sent' = Append(sent, Queued(e))
    /\ moment' = moment + 1
    /\ UNCHANGED <<content, open, changed, flight, settled, missed, mishaps>>

\* promote_behind_view: one run for each edition the target is behind on.
CatchUp ==
    /\ Behind # <<>> /\ Len(sent) + Len(Behind) <= MaxRuns
    /\ sent' = sent \o [k \in DOMAIN Behind |-> Queued(Behind[k])]
    /\ moment' = moment + 1
    /\ UNCHANGED <<content, open, changed, flight, settled, missed, mishaps>>

\* A worker builds the bundle of what the edition and its sources are now, and sends it.
Send(i) ==
    /\ sent[i].status = "queued"
    /\ Cardinality({j \in DOMAIN sent : sent[j].status = "running"}) < Senders
    /\ sent' = [sent EXCEPT ![i].status = "running"]
    /\ flight' = flight \cup {[run |-> i, texts |-> [x \in Chain(sent[i].edition) |-> content[x]]]}
    /\ UNCHANGED <<content, open, changed, settled, missed, moment, mishaps>>

\* import_bundle writes each edition of the bundle over what the target holds.
Land(b) ==
    /\ flight' = flight \ {b}
    /\ held' = b.texts @@ held
    /\ by' = [e \in DOMAIN b.texts |-> b.run] @@ by
    /\ UNCHANGED <<content, open, changed, missed, sent, moment, mishaps>>

InFlight(i) == \E b \in flight : b.run = i

Arrived(i) ==
    /\ sent[i].status = "running" /\ ~ InFlight(i)
    /\ sent' = [sent EXCEPT ![i].status = "succeeded"]
    /\ UNCHANGED <<content, open, changed, flight, settled, missed, moment, mishaps>>

\* The call fails and the bundle is lost, or only its answer is and the bundle lands all the same.
GivenUp(i) ==
    /\ sent[i].status = "running" /\ mishaps < MaxTroubles
    /\ mishaps' = mishaps + 1
    /\ sent' = [sent EXCEPT ![i].status = "failed"]
    /\ flight' \in {flight, {b \in flight : b.run # i}}
    /\ UNCHANGED <<content, open, changed, settled, missed, moment>>

Next ==
    \/ \E e \in Books : Begin(e) \/ Review(e)
    \/ \E o \in open : Commit(o)
    \/ \E e \in Books : Promote(e)
    \/ CatchUp
    \/ \E i \in DOMAIN sent : Send(i)
    \/ \E b \in flight : Land(b)
    \/ \E i \in DOMAIN sent : Arrived(i)
    \/ \E i \in DOMAIN sent : GivenUp(i)

Spec == Init /\ [][Next]_releaseVars

--------------------------------------------------------------------------------
(* Properties.                                                                                *)

\* The target holds what was counted of x, when a page goes by run i; but for a change that was
\* created before the run and committed after its bundle, and a bundle landed over a later run's.
Astray(x, i) == <<x, by[x]>> \in missed \/ by[x] < i
Counted(x, i) == held[x].counted = content[x].counted \/ Astray(x, i)

\* What an edition's page calls current the target holds, with all it was generated from: every
\* correction and every new artifact (release_state.py:6), over promotions at the same time,
\* bundles that are lost and bundles that land after their sender gave up.
CurrentIsHeld ==
    \A e \in Books : Panel(e) = "current" => \A x \in Chain(e) : Counted(x, Latest(Landed(e)))

\* What the catalogue calls current was sent there as it is.
TokenIsHeld == \A e \in Books : Token(e) = "current" => Counted(e, Latest(Landed(e)))

ReleaseHolds == CurrentIsHeld /\ TokenIsHeld

--------------------------------------------------------------------------------
(* What is said of the code and does not hold (README, departures).                           *)

\* "every correction, artifact and review after that bundle is invisible there until the edition
\* is promoted again" (release_state.py:7): what the page calls current the target holds whole.
CurrentIsWhole ==
    \A e \in Books : Panel(e) = "current" =>
        \A x \in Chain(e) : held[x] = content[x] \/ Astray(x, Latest(Landed(e)))

\* The catalogue's catch-up finds every edition the target is behind on (release_state.py:277).  It
\* looks at the direct source only (:267): an edition whose sources travelled in its own bundles
\* alone is not found when the first of them changes.
CatchUpIsWhole == \A e \in Books : Panel(e) = "behind" => e \in ToSet(Behind) \/ Token(e) = "queued"

=============================================================================
