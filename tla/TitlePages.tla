------------------------------ MODULE TitlePages ------------------------------
(* The title page and the contents of a parallel translation (catalog/metadata_translation.py): *)
(* a run translates the source's name and chapter descriptions, call by call, and lands them     *)
(* together, while the source is renamed and analysed again, the page is edited by hand, a       *)
(* worker dies and the janitor sweeps.  A name stands for title, author and blurb.               *)
EXTENDS Naturals, TLC

CONSTANTS
    Chapters,     \* those of the translation, numbered as they are translated
    Names,        \* how many names the source has had at most
    Readings,     \* how many descriptions a chapter has had at most
    Workers,
    Reverts,      \* the source may get a former name back
    Prompt,       \* no run is older than ABANDONED_AFTER while its worker lives
    MaxAsks,      \* bound on requests
    MaxTroubles   \* bound on changes by people, refused calls and losses

TitleConstants ==
    /\ Chapters \subseteq Nat \ {0} /\ Names \in Nat \ {0} /\ Readings \in Nat \ {0}
    /\ Reverts \in BOOLEAN /\ Prompt \in BOOLEAN

VARIABLES
    source,    \* its name and, of each chapter, its description
    page,      \* what the edition is named from: a name of the source, 0 before, or ByHand
    contents,  \* the chapter descriptions that are current: <<chapter, description>>
    naming,    \* the PipelineRuns by what they translate: their status
    paid,      \* the AIRuns with a usable answer: what was asked -> how often it was paid for
    letter,    \* the runs whose messages wait
    hand,      \* [Workers -> the worker's run and the calls it has left]
    warned,    \* whether the review item of the title page is open
    toil       \* [asks, troubles]: bounded

titleVars == <<source, page, contents, naming, paid, letter, hand, warned, toil>>

ByHand == Names + 1
Away == [at |-> "away"]
Trouble == toil.troubles < MaxTroubles /\ toil' = [toil EXCEPT !.troubles = @ + 1]

Init ==
    /\ source = [name |-> 1, says |-> [c \in Chapters |-> 1]]
    /\ page = 0 /\ contents = {} /\ naming = <<>> /\ paid = <<>> /\ letter = {}
    /\ hand = [w \in Workers |-> Away] /\ warned = FALSE
    /\ toil = [asks |-> 0, troubles |-> 0]

--------------------------------------------------------------------------------
(* Asking: queue_metadata_translation.                                          *)

\* What a run translates is all of the source that is shown: its key.
Plan == source
Is(plan, statuses) == plan \in DOMAIN naming /\ naming[plan] \in statuses

\* A run that succeeded or is under way stands; any other is queued, again if need be.
Queue(plan) ==
    IF Is(plan, {"running", "succeeded"})
    THEN UNCHANGED <<naming, letter>>
    ELSE naming' = (plan :> "queued") @@ naming /\ letter' = letter \cup {plan}

\* The translation was completed, or an editor asks.
Ask ==
    /\ toil.asks < MaxAsks /\ toil' = [toil EXCEPT !.asks = @ + 1]
    /\ Queue(Plan)
    /\ UNCHANGED <<source, page, contents, paid, hand, warned>>

\* The source's analysis was made anew and queue_for_translations_of asks for its translations.
Analysed(c) ==
    /\ source.says[c] < Readings
    /\ source' = [source EXCEPT !.says[c] = @ + 1]
    /\ Queue(source')
    /\ UNCHANGED <<page, contents, paid, hand, warned, toil>>

--------------------------------------------------------------------------------
(* Translating: run_metadata_translation.                                       *)

\* Whether the edition is named from its source as that is: some run of the name succeeded.
TitlePageCurrent(runs) == \E p \in DOMAIN runs : p.name = source.name /\ runs[p] = "succeeded"

\* The run failed, by its id; the page says so unless it is current.
Fail(plan) ==
    /\ naming' = (plan :> "failed") @@ naming
    /\ warned' = (warned \/ ~TitlePageCurrent(naming'))

\* The calls of a run: the title page first, then chapter by chapter.
Calls(plan) == {<<0, plan.name>>} \cup {<<c, plan.says[c]>> : c \in Chapters}
Begun(plan) == [at |-> "look", plan |-> plan, left |-> Calls(plan)]

\* A message is taken: a queued run is run, if the source is still what it was asked for.
Claim(w, plan) ==
    /\ hand[w].at = "away" /\ plan \in letter /\ letter' = letter \ {plan}
    /\ \/ ~Is(plan, {"queued"}) /\ UNCHANGED <<naming, hand, warned>>
       \/ Is(plan, {"queued"}) /\ plan # Plan /\ Fail(plan) /\ UNCHANGED hand
       \/ /\ Is(plan, {"queued"}) /\ plan = Plan
          /\ naming' = (plan :> "running") @@ naming
          /\ hand' = [hand EXCEPT ![w] = Begun(plan)] /\ UNCHANGED warned
    /\ UNCHANGED <<source, page, contents, paid, toil>>

Next1(w) == CHOOSE call \in hand[w].left : \A other \in hand[w].left : call[1] <= other[1]
Had(w) == hand' = [hand EXCEPT ![w].at = "look", ![w].left = @ \ {Next1(w)}]

\* _call: a usable answer is reused, in this run or a later one.
Look(w) ==
    /\ hand[w].at = "look" /\ hand[w].left # {}
    /\ IF Next1(w) \in DOMAIN paid THEN Had(w) ELSE hand' = [hand EXCEPT ![w].at = "call"]
    /\ UNCHANGED <<source, page, contents, naming, paid, letter, warned, toil>>

\* The provider answers; a chapter's descriptions become an artifact that is not current yet.
Answer(w) ==
    /\ hand[w].at = "call" /\ Had(w)
    /\ paid' = (Next1(w) :> IF Next1(w) \in DOMAIN paid THEN paid[Next1(w)] + 1 ELSE 1) @@ paid
    /\ UNCHANGED <<source, page, contents, naming, letter, warned, toil>>

\* The call is refused after its retries, or its answer is in another language or of another
\* length: the run fails, and keeps what it has.
Refuse(w) ==
    /\ hand[w].at = "call" /\ Trouble /\ Fail(hand[w].plan)
    /\ hand' = [hand EXCEPT ![w] = Away]
    /\ UNCHANGED <<source, page, contents, paid, letter>>

\* Everything is there: the name and the contents change in one transaction, whatever the
\* source is by now.
Land(w) ==
    /\ hand[w].at = "look" /\ hand[w].left = {}
    /\ page' = hand[w].plan.name
    /\ contents' = {call \in Calls(hand[w].plan) : call[1] # 0}
    /\ naming' = (hand[w].plan :> "succeeded") @@ naming /\ warned' = FALSE
    /\ hand' = [hand EXCEPT ![w] = Away]
    /\ UNCHANGED <<source, paid, letter, toil>>

--------------------------------------------------------------------------------
(* Losses and people.                                                           *)

\* A worker is restarted, with its answer if it waited for one; the message is delivered again.
Die(w) ==
    /\ hand[w].at # "away" /\ Trouble
    /\ letter' = letter \cup {hand[w].plan} /\ hand' = [hand EXCEPT ![w] = Away]
    /\ UNCHANGED <<source, page, contents, naming, paid, warned>>

\* The janitor closes a running run nobody touched; a call does not touch it.
Sweep(plan) ==
    /\ Is(plan, {"running"})
    /\ Prompt => \A w \in Workers : hand[w].at = "away" \/ hand[w].plan # plan
    /\ naming' = [naming EXCEPT ![plan] = "failed"]
    /\ UNCHANGED <<source, page, contents, paid, letter, hand, warned, toil>>

\* The source is renamed in its form; nothing is queued.
Rename(name) ==
    /\ name > source.name \/ (Reverts /\ name < source.name)
    /\ Trouble /\ source' = [source EXCEPT !.name = name]
    /\ UNCHANGED <<page, contents, naming, paid, letter, hand, warned>>

\* The translation's own name is set in its form.
NameByHand ==
    /\ page # ByHand /\ Trouble /\ page' = ByHand
    /\ UNCHANGED <<source, contents, naming, paid, letter, hand, warned>>

Next ==
    \/ Ask \/ NameByHand
    \/ \E c \in Chapters : Analysed(c)
    \/ \E w \in Workers : \/ \E plan \in letter : Claim(w, plan)
                         \/ Look(w) \/ Answer(w) \/ Refuse(w) \/ Land(w) \/ Die(w)
    \/ \E plan \in DOMAIN naming : Sweep(plan)
    \/ \E name \in 1 .. Names : Rename(name)

Spec == Init /\ [][Next]_titleVars

--------------------------------------------------------------------------------
(* Properties.                                                                  *)

\* "Whether the edition's name and blurb come from its source's current ones"
\* (title_page_current, metadata_translation.py:172), which publication asks (tasks.py:591): a
\* page that passes for current is of the name the source has, or somebody wrote it.
NamedFromSource == TitlePageCurrent(naming) => page \in {source.name, ByHand}

\* The name and the contents are of one run (metadata_translation.py:393), and of each chapter
\* there is one description at most: a failed or killed run shows no part of itself.
LandedTogether ==
    \/ contents = {} /\ page \in {0, ByHand}
    \/ \E p \in DOMAIN naming : /\ contents = {call \in Calls(p) : call[1] # 0}
                               /\ page \in {p.name, ByHand}

\* "Every call is keyed by what it translates, so a retry or a repeat run costs nothing"
\* (metadata_translation.py:8).
CallsPaidOnce == \A call \in DOMAIN paid : paid[call] = 1

----------------------------------------------------------------------------
(* What is said of the code and does not hold (README, departures).        *)

\* "The source changed; a new run was queued for it." (metadata_translation.py:437).
NewRunQueued ==
    [][\A p \in DOMAIN naming : naming[p] = "queued" /\ naming'[p] = "failed" =>
          source \in DOMAIN naming]_titleVars

================================================================================
