--------------------------- MODULE TranslationReview ---------------------------
(* The review of a machine translation (catalog/translation_review.py): two editors read every *)
(* window, what one raises alone is put to the other, and what comes of it is filed as findings *)
(* to apply or dismiss (fidelity_audit._record_findings) while the text is corrected.           *)
(* A chapter is one window; an issue stands for its fingerprint and can be found in any text.   *)
EXTENDS Naturals, FiniteSets, TLC

CONSTANTS
    Windows,
    Issues,       \* [Windows -> the issues an editor may raise there]
    Panel,        \* the two editors, numbered as they are asked
    Scopes,       \* the sets of windows a review may be asked of; Windows is the whole book
    Workers,
    Slow,         \* the calls of a window may last longer than REVIEW_STALL
    Reverts,      \* a text may come back
    MaxText,      \* bound on the texts of a window
    MaxAsks,      \* bound on requests
    MaxMishaps    \* bound on failures and losses

ReviewConstants ==
    /\ Cardinality(Panel) = 2 /\ Windows \in Scopes /\ \A s \in Scopes : s \subseteq Windows
    /\ Slow \in BOOLEAN /\ Reverts \in BOOLEAN

VARIABLES
    wording,      \* [Windows -> the number of the text it has]
    review,       \* the PipelineRuns by the texts they read: their status
    reading,      \* the AIRuns that succeeded: question -> answers, sets of issues
    bought,       \* questions -> how often an answer was paid for
    request,      \* how many messages wait
    reviewer,     \* [Workers -> the worker's plan, window, questions asked, findings]
    remark,       \* the TextQualityFindings: <<plan, issue>> -> [status, usable]
    crossed,      \* whether two workers were ever at reviews at one time
    mishaps, asks

reviewVars == <<wording, review, reading, bought, request, reviewer, remark, crossed, mishaps, asks>>

Away == [at |-> "away"]
Trouble == mishaps < MaxMishaps /\ mishaps' = mishaps + 1

\* A review's hash: the texts of the windows it is asked of.
Plan(scope) == [k \in scope |-> wording[k]]
IsOf(plan, status) == plan \in DOMAIN review /\ review[plan] = status

Init ==
    /\ wording = [k \in Windows |-> 0]
    /\ review = <<>> /\ reading = <<>> /\ bought = <<>> /\ request = 0 /\ remark = <<>>
    /\ reviewer = [w \in Workers |-> Away] 
    /\ crossed = FALSE /\ mishaps = 0 /\ asks = 0

--------------------------------------------------------------------------------
(* The review: review_translation.                                              *)

\* production._review, or a person, asks for a review of the whole book.
Ask ==
    /\ asks < MaxAsks /\ asks' = asks + 1 /\ request' = request + 1
    /\ UNCHANGED <<wording, review, reading, bought, reviewer, remark, crossed, mishaps>>

\* Nobody is seen at the review: its row was not touched for REVIEW_STALL.
Silent(plan) == Slow \/ \A w \in Workers : reviewer[w].at = "away" \/ reviewer[w].plan # plan

\* A review that failed or was never begun, or one whose worker is taken for dead.
Claimable(plan) == ~IsOf(plan, "succeeded") /\ (IsOf(plan, "running") => Silent(plan))

\* The plan is made of the text as it stands and the review claimed, or left to who has it.
Start(w, scope) ==
    /\ reviewer[w].at = "away"
    /\ LET plan == Plan(scope) IN
       IF Claimable(plan)
       THEN /\ review' = (plan :> "running") @@ review
            /\ reviewer' = [reviewer EXCEPT ![w] = [at |-> "window", plan |-> plan,
                   left |-> scope, raised |-> <<>>, agreed |-> <<>>, found |-> {}, backed |-> {}]]
            /\ crossed' = (crossed \/ \E v \in Workers : reviewer[v].at # "away")
       ELSE UNCHANGED <<review, reviewer, crossed>>
    /\ UNCHANGED <<wording, reading, bought, remark, mishaps>>

\* The task of a request.
Take(w) == request > 0 /\ request' = request - 1 /\ Start(w, Windows) /\ UNCHANGED asks

\* The command reviews some chapters.
Command(w, scope) ==
    /\ scope # Windows /\ asks < MaxAsks /\ asks' = asks + 1
    /\ Start(w, scope) /\ UNCHANGED request

\* The window a worker is at, its text, and who raised an issue of it in the two readings.
At(w) == CHOOSE k \in reviewer[w].left : \A j \in reviewer[w].left : k <= j
RaisedBy(w, i) == {e \in DOMAIN reviewer[w].raised : i \in reviewer[w].raised[e]}
Raised(w) == {i \in Issues[At(w)] : RaisedBy(w, i) # {}}

\* What is put to editor e: every issue of the window the other raised alone.
Doubts(w, e) == {i \in Raised(w) : RaisedBy(w, i) = Panel \ {e}}

\* The questions of a window: both editors read it, then each is asked about what the other
\* raised alone, when there is any.  An answer is found again by its question: the text, and
\* for an opinion the findings put.
Question(e, w, what, about) ==
    [editor |-> e, window |-> At(w), text |-> reviewer[w].plan[At(w)], what |-> what, about |-> about]
Unread(w) == Panel \ DOMAIN reviewer[w].raised
Unasked(w) == {e \in Panel \ DOMAIN reviewer[w].agreed : Doubts(w, e) # {}}
First(S) == CHOOSE e \in S : \A d \in S : e <= d
NextQuestion(w) ==
    IF Unread(w) # {} THEN Question(First(Unread(w)), w, "read", {})
    ELSE LET e == First(Unasked(w)) IN Question(e, w, "opinion", Doubts(w, e))

Noted(w, q, answer) ==
    reviewer' = [reviewer EXCEPT ![w] =
        [IF q.what = "read" THEN [@ EXCEPT !.raised = (q.editor :> answer) @@ @]
                            ELSE [@ EXCEPT !.agreed = (q.editor :> answer) @@ @]
         EXCEPT !.at = "window"]]

\* _review_window, _ask: an answer paid for is used again.
LookUp(w) ==
    /\ reviewer[w].at = "window" /\ reviewer[w].left # {} /\ Unread(w) \cup Unasked(w) # {}
    /\ LET q == NextQuestion(w) IN
       IF q \in DOMAIN reading THEN \E answer \in reading[q] : Noted(w, q, answer)
       ELSE reviewer' = [reviewer EXCEPT ![w].at = "call"]
    /\ UNCHANGED <<wording, review, reading, bought, request, remark, crossed, mishaps, asks>>

Bought(q) == IF q \in DOMAIN reading THEN reading[q] ELSE {}

\* The call comes back with the issues raised or agreed with, and is saved and used.
Answer(w) ==
    /\ reviewer[w].at = "call"
    /\ LET q == NextQuestion(w) IN
       \E answer \in SUBSET (IF q.what = "read" THEN Issues[At(w)] ELSE q.about) :
          /\ reading' = (q :> {answer} \cup Bought(q)) @@ reading
          /\ bought' = (q :> IF q \in DOMAIN bought THEN bought[q] + 1 ELSE 1) @@ bought
          /\ Noted(w, q, answer)
    /\ UNCHANGED <<wording, review, request, remark, crossed, mishaps, asks>>

\* The call fails, or its answer is no review: so does the run, whoever has it by now.
Fail(w) ==
    /\ reviewer[w].at = "call" /\ Trouble
    /\ review' = (reviewer[w].plan :> "failed") @@ review
    /\ reviewer' = [reviewer EXCEPT ![w] = Away]
    /\ UNCHANGED <<wording, reading, bought, request, remark, crossed, asks>>

\* Mutant: an opinion that was given counts as agreement.
BackedOrAsked(w, i) ==
    \A e \in Panel : e \in RaisedBy(w, i) \/ e \in DOMAIN reviewer[w].agreed

\* merge and second_opinions: an issue is backed when both raised it or the other agreed.
Backed(w, i) ==
    \A e \in Panel : \/ e \in RaisedBy(w, i)
                     \/ e \in DOMAIN reviewer[w].agreed /\ i \in reviewer[w].agreed[e]

\* Every question of the window is answered.
Conclude(w) ==
    /\ reviewer[w].at = "window" /\ reviewer[w].left # {} /\ Unread(w) \cup Unasked(w) = {}
    /\ reviewer' = [reviewer EXCEPT ![w] =
          [@ EXCEPT !.left = @ \ {At(w)}, !.raised = <<>>, !.agreed = <<>>,
                    !.found = @ \cup Raised(w),
                    !.backed = @ \cup {i \in Raised(w) : Backed(w, i)}]]
    /\ UNCHANGED <<wording, review, reading, bought, request, remark, crossed, mishaps, asks>>

Where(i) == CHOOSE k \in Windows : i \in Issues[k]
Settled(i, status) == \E f \in DOMAIN remark : f.issue = i /\ remark[f].status = status

\* _record_findings: other reviews' open findings are superseded; an issue found is filed, as
\* dismissed if it was dismissed and not at all if it was applied.  What can be applied is
\* backed, and its quote is found in the text as it stands.
Filed(w, placed) ==
    LET new == {[plan |-> reviewer[w].plan, issue |-> i] :
                   i \in {j \in reviewer[w].found : ~Settled(j, "applied")}}
    IN  [f \in DOMAIN remark \cup new |->
            IF f \in new
            THEN [status |-> IF Settled(f.issue, "dismissed") THEN "dismissed" ELSE "open",
                  usable |-> f.issue \in reviewer[w].backed \cap placed]
            ELSE [remark[f] EXCEPT !.status = IF @ = "open" /\ f.plan # reviewer[w].plan
                                              THEN "superseded" ELSE @]]

\* The findings and the run's end are one transaction; the text is not looked at again.
File(w) ==
    /\ reviewer[w].at = "window" /\ reviewer[w].left = {}
    /\ LET moved == {i \in reviewer[w].found : wording[Where(i)] # reviewer[w].plan[Where(i)]} IN
       \E lost \in SUBSET moved : remark' = Filed(w, reviewer[w].found \ lost)
    /\ review' = (reviewer[w].plan :> "succeeded") @@ review
    /\ reviewer' = [reviewer EXCEPT ![w] = Away]
    /\ UNCHANGED <<wording, reading, bought, request, crossed, mishaps, asks>>

\* The worker is restarted: the message of a task comes again, for the text of that time.
Die(w) ==
    /\ reviewer[w].at # "away" /\ Trouble
    /\ reviewer' = [reviewer EXCEPT ![w] = Away]
    /\ request' = IF DOMAIN reviewer[w].plan = Windows THEN request + 1 ELSE request
    /\ UNCHANGED <<wording, review, reading, bought, remark, crossed, asks>>

--------------------------------------------------------------------------------
(* What people and productions do with the findings and the text.               *)

Settle(f, status) == remark' = [remark EXCEPT ![f].status = status]

Dismiss(f) ==
    /\ remark[f].status = "open" /\ Settle(f, "dismissed")
    /\ UNCHANGED <<wording, review, reading, bought, request, reviewer, crossed, mishaps, asks>>

\* apply_fidelity_findings: the suggestion is written in.
Apply(f) ==
    /\ remark[f].status = "open" /\ remark[f].usable /\ wording[Where(f.issue)] < MaxText
    /\ Settle(f, "applied")
    /\ wording' = [wording EXCEPT ![Where(f.issue)] = @ + 1]
    /\ UNCHANGED <<review, reading, bought, request, reviewer, crossed, mishaps, asks>>

Edit(k, text) ==
    /\ text > wording[k] \/ (Reverts /\ text < wording[k])
    /\ Trouble
    /\ wording' = [wording EXCEPT ![k] = text]
    /\ UNCHANGED <<review, reading, bought, request, reviewer, remark, crossed, asks>>

Next ==
    \/ Ask
    \/ \E w \in Workers : \/ Take(w) \/ \E scope \in Scopes : Command(w, scope)
                         \/ LookUp(w) \/ Answer(w) \/ Fail(w) \/ Conclude(w) \/ File(w) \/ Die(w)
    \/ \E f \in DOMAIN remark : Dismiss(f) \/ Apply(f)
    \/ \E k \in Windows, text \in 0 .. MaxText : Edit(k, text)

Spec == Init /\ [][Next]_reviewVars

--------------------------------------------------------------------------------
(* Properties.                                                                  *)

Says(e, plan, i) ==
    \E q \in DOMAIN reading : /\ q.editor = e /\ q.window = Where(i) /\ q.text = plan[Where(i)]
                              /\ \E answer \in reading[q] : i \in answer

\* "nothing one model alone believes can be applied with a click" (translation_review.py:7):
\* both editors said so of the text the finding is of, whatever was failed, reused or taken over.
ApplicableIsBacked ==
    \A f \in DOMAIN remark : remark[f].status = "open" /\ remark[f].usable =>
        \A e \in Panel : Says(e, f.plan, f.issue)

\* "an answer already paid for is reused" (translation_review.py:452): a question is paid for
\* once, also after a failed review, in another review of the book or after an edit elsewhere.
\* Two reviews at one time may both buy an answer.
AnswersBoughtOnce == ~crossed => \A q \in DOMAIN bought : bought[q] = 1

\* What both editors say of the text as it stands holds the translation until it is decided
\* (production.py:1078): once its review ended, the finding is open or somebody settled it.  Two
\* reviews at one time, and a review of some chapters only, are excepted (README, departures).
SeriousStands ==
    ~crossed /\ (\A p \in DOMAIN review : DOMAIN p = Windows) /\ IsOf(Plan(Windows), "succeeded") =>
        \A k \in Windows : \A i \in Issues[k] :
            (\A e \in Panel : Says(e, Plan(Windows), i)) =>
                \/ Settled(i, "applied") \/ Settled(i, "dismissed")
                \/ \E f \in DOMAIN remark : f.issue = i /\ remark[f].status = "open"

================================================================================
