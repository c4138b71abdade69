------------------------- MODULE TranslationProofs -------------------------
(***************************************************************************)
(* A translation is billed once and a cancelled one stays in, for every    *)
(* book, pool of workers and number of failures.                           *)
(*                                                                         *)
(* The argument: as long as no slow worker is taken for dead and nothing   *)
(* is ordered again after a cancellation, the translation of an edition is *)
(* one message or one worker, which has the edition to itself (Alone), and *)
(* there is none when it has failed (GivenUp).  So what a direct attempt   *)
(* holds is what its run has saved and what came and is not saved yet, and *)
(* what was billed and not counted yet is in its hands (Directly); a batch *)
(* never meets a direct call (InBatches).  A publication on its way that   *)
(* nothing crossed is the last thing to happen to its edition: what could  *)
(* make the edition ready again is over, so that a cancellation turns it   *)
(* into nothing (LastOfAll).                                               *)
(***************************************************************************)
EXTENDS Translation, FiniteSetTheorems, SequenceTheorems, WellFoundedInduction, TLAPS

----------------------------------------------------------------------------
(* The shape of the state. *)

Statuses == {"processing", "failed", "review", "ready", "published"}
Translating == {"begin", "submit", "save", "call", "complete", "poll", "after"}
Steps == Translating \cup {"hand", "normalize"}
Rows == [status : Statuses, text : {{}, Chapters}, auto : BOOLEAN, cancelled : BOOLEAN,
         crossed : BOOLEAN, aside : BOOLEAN, again : BOOLEAN]
RunRows == [status : {"absent", "queued", "submitted", "succeeded", "failed"},
            how : {"none", "batch", "direct"}, lines : Lines, batch : Nat, silent : BOOLEAN]
Jobs == [msg : Messages, step : Steps, of : Sources, lines : Lines, todo : SUBSET Chapters,
         came : SUBSET Chapters, good : SUBSET Chapters, round : {1, 2}, batch : Nat]
Counters == [asks : Nat, edits : Nat, troubles : Nat, delays : Nat, crashes : Nat]
Calls == [Sources -> [Chapters -> Nat]]

Shape ==
  /\ edition \in Rows
  /\ source \in Sources
  /\ runs \in [Sources -> RunRows]
  /\ batches \in Seq({"running", "whole", "partial", "ended"})
  /\ billed \in Calls /\ usable \in Calls /\ counted \in Calls /\ lost \in Calls
  /\ queue \in Seq(Messages)
  /\ job \in [Workers -> Jobs \cup {Free}]
  /\ cancel \in [open : BOOLEAN, of : Sources \cup {-1}]
  /\ used \in Counters

\* What a worker has at its step, and of what message.
Tasks == {"batch", "direct", "poll"}
Seated(j, n) ==
  /\ j.step = "save" => j.batch \in 1..n
  /\ j.step = "call" => j.todo # {}
  /\ j # Free =>
       /\ j.msg.task # "split"
       /\ j.step = "hand" <=> j.msg.task = "publish"
       /\ j.step = "normalize" <=> j.msg.task = "normalize"

\* What a run has to do with the n batches.
Sound(r, n) ==
  /\ r.batch <= n
  /\ r.status = "submitted" => r.how # "none"
  /\ r.how = "batch" => r.batch > 0

Numbered ==
  /\ \A v \in Sources : Sound(runs[v], Len(batches))
  /\ \A w \in Workers : Seated(job[w], Len(batches))

----------------------------------------------------------------------------
(* The invariant. *)

\* Nothing took a live worker for dead, and nothing was ordered again beside its cancelled attempt.
Steady == used.delays = 0 /\ ~edition.again

Busy(w) == job[w] # Free
AtIt(w) == job[w].step \in Translating

\* What is said of the edition by its own fields, and by what is done with it once it has its text.
Marked ==
  /\ edition.auto => ~edition.cancelled
  /\ edition.again => edition.cancelled
  /\ edition.status \in {"review", "ready", "published"} => edition.text = Chapters
  /\ \A i \in DOMAIN queue : queue[i].task \notin Tasks => edition.text = Chapters
  /\ \A w \in Workers : job[w].step \in {"hand", "normalize"} => edition.text = Chapters

\* No translation waits or is made; or it is the one message, or the one worker's.
NoTranslation ==
  /\ \A i \in DOMAIN queue : queue[i].task \notin Tasks
  /\ \A w \in Workers : ~AtIt(w)
Sole ==
  /\ Len(queue) <= 1
  /\ queue # <<>> => \A w \in Workers : ~Busy(w)
  /\ \A w, x \in Workers : Busy(w) /\ Busy(x) => w = x
Alone == NoTranslation \/ Sole

\* A translation that failed has come to its end.
GivenUp == edition.status = "failed" /\ ~edition.cancelled => NoTranslation

\* While a publication is on its way nothing else is, and what was cancelled has failed.
OnlyOut ==
  /\ \A i \in DOMAIN queue : queue[i].task \in {"split", "publish"}
  /\ \A w \in Workers : Busy(w) => job[w].step = "hand"
LastOfAll ==
  OnItsWay /\ ~edition.crossed =>
    OnlyOut /\ (edition.cancelled => edition.status = "failed" /\ ~Handing)
StaysIn == edition.cancelled /\ ~edition.crossed => edition.status # "published"

\* A direct attempt.
Trying(w) == job[w].step \in {"begin", "call", "complete"}
Holding(w) == job[w].step \in {"call", "complete"}

\* What was paid for and not lost is kept with its run until that has succeeded, or came and is
\* to be kept.
Carried(v, c) == \E w \in Workers : job[w].step = "call" /\ job[w].of = v /\ c \in job[w].good
Paid(v, c) == runs[v].status = "succeeded" \/ runs[v].lines[c].ok \/ Carried(v, c)
Saved ==
  \A v \in Sources, c \in Chapters :
    /\ usable[v][c] <= 1 + lost[v][c]
    /\ ~Paid(v, c) => usable[v][c] <= lost[v][c]

\* What it holds is what its run has, and what it is to ask for it has not got.
InHand ==
  \A w \in Workers :
    /\ Trying(w) => runs[job[w].of].status # "succeeded"
    /\ Holding(w) => job[w].lines = runs[job[w].of].lines
    /\ job[w].step = "begin" => job[w].came = {} /\ job[w].good = {}
    /\ job[w].step = "call" =>
         /\ job[w].todo \subseteq Unusable(job[w].lines)
         /\ job[w].came \subseteq job[w].todo /\ job[w].good \subseteq job[w].came
         /\ job[w].round = 1 => \A c \in job[w].todo : job[w].lines[c] = NoLine

\* What was billed is in the ledger, or in the hands of a worker who will put it there.
InLines(w, c) ==
  job[w].lines[c].calls + IF job[w].step = "call" /\ c \in job[w].came THEN 1 ELSE 0
Accounted ==
  used.crashes = 0 =>
    \A v \in Sources, c \in Chapters :
      /\ (\A w \in Workers : Holding(w) => job[w].of # v) => billed[v][c] <= counted[v][c]
      /\ \A w \in Workers : Holding(w) /\ job[w].of = v =>
           billed[v][c] <= counted[v][c] + InLines(w, c)

\* An edition that is translated by direct calls has no batch.
DirectRuns == \A v \in Sources : runs[v].how # "batch"
DirectMessages == \A i \in DOMAIN queue : queue[i].task \notin {"batch", "poll"}
DirectJobs ==
  \A w \in Workers : AtIt(w) =>
    job[w].msg.task = "direct" /\ job[w].step \in {"begin", "call", "complete", "after"}

Directly ==
  ~cancel.open /\ DirectRuns /\ DirectMessages /\ DirectJobs /\ Saved /\ InHand /\ Accounted

\* One that is translated by batches is billed no call, and its batch is the newest run's.
Newest(v) == runs[v].status # "absent" /\ \A x \in Existing : x <= v

Unbilled == \A v \in Sources, c \in Chapters : billed[v][c] = 0 /\ usable[v][c] = 0
BatchRuns == \A v \in Sources : runs[v].how # "direct" /\ (runs[v].status # "absent" => v <= source)
BatchMessages ==
  \A i \in DOMAIN queue :
    /\ queue[i].task # "direct"
    /\ queue[i].task = "poll" => Newest(queue[i].of) /\ runs[queue[i].of].how = "batch"
BatchJobs ==
  \A w \in Workers : AtIt(w) =>
    /\ job[w].msg.task \in {"batch", "poll"} /\ job[w].step \notin {"begin", "call"}
    /\ Newest(job[w].of)
    /\ job[w].step \in {"poll", "complete"} => job[w].msg.task = "poll"
    /\ job[w].msg.task = "poll" => job[w].msg.of = job[w].of /\ runs[job[w].of].how = "batch"
BatchFailed ==
  edition.status = "failed" /\ ~edition.cancelled /\ edition.text = {} =>
    \E v \in Sources : Newest(v) /\ runs[v].how = "batch"

InBatches ==
  /\ cancel.open => cancel.of \in Existing
  /\ Unbilled /\ BatchRuns /\ BatchMessages /\ BatchJobs /\ BatchFailed

Inv ==
  /\ Shape /\ Numbered /\ Marked
  /\ Steady => Alone /\ GivenUp /\ (Directly \/ InBatches)
  /\ used.delays = 0 => LastOfAll /\ StaysIn

----------------------------------------------------------------------------
(* Lemmas about rows, messages and numbers. *)

LEMMA Numbers ==
    Chapters \subseteq Nat /\ Chapters # {} /\ MaxSource \in Nat /\ Sources \subseteq Nat /\ 0 \in Sources
<1>1. Cardinality(Chapters) \in Nat
  BY FS_CardinalityType, ChaptersAssumption
<1>2. Chapters \subseteq Nat /\ Chapters # {}
  <2> DEFINE n == Cardinality(Chapters)
  <2>1. 1 .. n \subseteq Nat
    BY <1>1
  <2> QED BY <2>1, ChaptersAssumption
<1>3. MaxSource \in Nat
  BY BoundsAssumption
<1> QED BY <1>2, <1>3 DEF Sources

LEMMA LinesFacts == NoLine \in [ok : BOOLEAN, calls : Nat] /\ NoLines \in Lines
  BY DEF NoLines, Lines, NoLine

\* A set of numbers has a least one.
LEMMA LeastNumber ==
  ASSUME NEW T, T \subseteq Nat, T # {}
  PROVE  \E x \in T : \A y \in T : x <= y
<1>1. \E x \in T : \A y \in T : <<y, x>> \notin OpToRel(<, Nat)
  BY WFMin, NatLessThanWellFounded, Zenon
<1>2. PICK x \in T : \A y \in T : <<y, x>> \notin {ss \in Nat \X Nat : ss[1] < ss[2]}
  BY <1>1, Zenon DEF OpToRel
<1>3. ASSUME NEW y \in T PROVE x <= y
  <2>1. <<y, x>> \in Nat \X Nat
    OBVIOUS
  <2>2. ~(y < x)
    BY <1>2, <2>1
  <2> QED BY <2>2
<1> QED BY <1>3

LEMMA MinIsIn ==
  ASSUME NEW T, T \subseteq Chapters, T # {} PROVE Min(T) \in T
<1>1. T \subseteq Nat
  BY Numbers
<1>2. \E x \in T : \A y \in T : x <= y
  BY <1>1, LeastNumber
<1> QED BY <1>2 DEF Min

LEMMA LatestIsNewest ==
  ASSUME Existing # {}
  PROVE  Latest \in Existing /\ Latest \in Sources /\ \A x \in Existing : x <= Latest
<1> DEFINE T == {MaxSource - x : x \in Existing}
<1>1. T \subseteq Nat /\ T # {} /\ Existing \subseteq 0 .. MaxSource
  BY Numbers DEF Existing, Sources
<1>2. PICK t \in T : \A y \in T : t <= y
  <2> HIDE DEF T
  <2> QED BY <1>1, LeastNumber
<1>3. PICK z \in Existing : t = MaxSource - z
  OBVIOUS
<1>4. \A x \in Existing : x <= z
  <2> TAKE x \in Existing
  <2>1. MaxSource - x \in T
    OBVIOUS
  <2>2. t <= MaxSource - x
    BY <1>2, <2>1
  <2> QED BY <2>2, <1>1, <1>3, Numbers
<1>5. \A x \in Existing : z >= x
  BY <1>1, <1>4
<1>6. Max(Existing) \in Existing /\ \A x \in Existing : Max(Existing) >= x
  BY <1>5 DEF Max
<1> QED BY <1>1, <1>6 DEF Latest, Sources

LEMMA StoppableIs ==
  ASSUME Stoppable # -1
  PROVE  Stoppable \in Sources /\ runs[Stoppable].status \in {"queued", "submitted"}
<1>1. Existing # {} /\ runs[Latest].status \in {"queued", "submitted"} /\ Stoppable = Latest
  BY DEF Stoppable
<1> QED BY <1>1, LatestIsNewest

LEMMA MessageFacts ==
  ASSUME NEW m \in Messages
  PROVE  /\ m.task \in {"batch", "direct", "split", "publish", "normalize", "poll"}
         /\ m.of \in Sources /\ (m.task # "poll" => m.of = 0)
  BY Numbers DEF Messages

LEMMA SentIsMessage ==
  /\ \A task \in {"batch", "direct", "split", "publish", "normalize"} : Send(task, 0) \in Messages
  /\ \A v \in Sources : Send("poll", v) \in Messages
  /\ Send(LastMode, 0) \in Messages
  BY DEF Send, Messages, LastMode

----------------------------------------------------------------------------
(* Every action keeps the shape. *)

LEMMA StartIs ==
  ASSUME NEW w \in Workers, NEW m \in Messages, NEW step \in Steps, NEW v \in Sources
  PROVE  Start(w, m, step, v) = [job EXCEPT ![w] = Taken(m, step, v)] /\ Taken(m, step, v) \in Jobs
<1>1. Taken(m, step, v) \in Jobs
  BY LinesFacts DEF Taken, Jobs
<1> QED BY <1>1 DEF Start

LEMMA FreeIsNoJob ==
  /\ Free.step = "free" /\ Free \notin Jobs
  /\ \A j \in Jobs : j.step \in Steps /\ j.step # "free" /\ j # Free
                     /\ j.msg \in Messages /\ j.of \in Sources /\ j.lines \in Lines
                     /\ j.todo \in SUBSET Chapters /\ j.round \in {1, 2} /\ j.batch \in Nat
                     /\ j.came \in SUBSET Chapters /\ j.good \in SUBSET Chapters
  BY DEF Free, Taken, Jobs, Steps, Translating

\* A worker that is at some step has a job.
LEMMA AtWork ==
  ASSUME NEW w \in Workers, Shape, job[w].step # "free"
  PROVE  Busy(w) /\ job[w] \in Jobs
  BY FreeIsNoJob DEF Shape, Busy

LEMMA InitShape == Init => Shape /\ Numbered
<1> SUFFICES ASSUME Init PROVE Shape /\ Numbered
  OBVIOUS
<1>1. NoRun \in RunRows
  BY LinesFacts DEF NoRun, RunRows
<1>2. [v \in Sources |-> [c \in Chapters |-> 0]] \in Calls
  BY DEF Calls
<1>3. \A mode \in Modes : Send(mode, 0) \in Messages
  BY ModesAssumption, SentIsMessage
<1>4. queue \in Seq(Messages)
  <2>1. PICK mode \in Modes : queue = <<Send(mode, 0)>>
    BY DEF Init
  <2> QED BY <1>3, <2>1
<1>5. Shape
  BY <1>1, <1>2, <1>4, Numbers DEF Init, Shape, Rows, Statuses, NoCancel, Counters
<1>6. Numbered
  BY FreeIsNoJob DEF Init, Numbered, Sound, NoRun, Seated
<1> QED BY <1>5, <1>6

LEMMA StopShape ==
  ASSUME Shape, Numbered, NEW v \in Sources \cup {-1}, Stop(v)
  PROVE  /\ edition' \in Rows
         /\ runs' \in [Sources -> RunRows]
         /\ \A x \in Sources :
              /\ runs'[x].batch = runs[x].batch /\ runs'[x].how = runs[x].how
              /\ runs'[x].status = "submitted" => runs[x].status = "submitted"
<1>1. edition' \in Rows
  BY DEF Stop, Shape, Rows, Statuses, Handing
<1>2. CASE v = -1
  BY <1>1, <1>2 DEF Stop, Shape
<1>3. CASE v \in Sources
  <2>1. v # -1
    BY <1>3, Numbers
  <2>2. runs' = [runs EXCEPT ![v].status = "failed"]
    BY <2>1 DEF Stop
  <2>3. runs' \in [Sources -> RunRows]
    BY <2>2, <1>3, ZenonT(60) DEF Shape, RunRows
  <2> QED BY <1>1, <1>3, <2>2, <2>3 DEF Shape, RunRows
<1> QED BY <1>2, <1>3

LEMMA CountersGrow ==
  ASSUME Shape, NEW kind \in Bounded,
         used' = [used EXCEPT ![kind] = @ + 1]
  PROVE  used' \in Counters
  BY DEF Shape, Counters, Bounded

\* The kinds of what happens.
LEMMA Kinds == {"asks", "edits", "troubles", "delays", "crashes"} = Bounded
  BY DEF Bounded

LEMMA PeopleShape ==
  ASSUME Shape, Numbered, Cancel \/ OpenCancel \/ WriteCancel \/ Retry \/ TouchSource
  PROVE  Shape' /\ Numbered'
<1>1. CASE Cancel
  <2>1. Stoppable \in Sources \cup {-1}
    BY StoppableIs
  <2>2. used' \in Counters
    BY <1>1, CountersGrow, Kinds DEF Cancel, Happens
  <2> QED BY <1>1, <2>1, <2>2, StopShape DEF Cancel, Shape, Numbered, Sound
<1>2. CASE OpenCancel
  <2>1. Stoppable \in Sources
    BY <1>2, StoppableIs DEF OpenCancel, BatchUnderWay
  <2>2. used' \in Counters
    BY <1>2, CountersGrow, Kinds DEF OpenCancel, Happens
  <2>3. batches' \in Seq({"running", "whole", "partial", "ended"}) /\ Len(batches') = Len(batches)
    <3> DEFINE i == runs[Stoppable].batch
    <3>1. i \in DOMAIN batches
      BY <1>2, <2>1 DEF OpenCancel, BatchUnderWay, Shape, RunRows, Numbered, Sound
    <3>2. batches' = [batches EXCEPT ![i] = IF @ = "running" THEN "ended" ELSE @] \/ batches' = batches
      BY <1>2 DEF OpenCancel
    <3>3. batches[i] \in {"running", "whole", "partial", "ended"}
      BY <3>1 DEF Shape
    <3>4. CASE batches' = [batches EXCEPT ![i] = IF @ = "running" THEN "ended" ELSE @]
      BY <3>1, <3>3, <3>4, ExceptSeq DEF Shape
    <3> QED BY <3>2, <3>4 DEF Shape
  <2> QED BY <1>2, <2>1, <2>2, <2>3 DEF OpenCancel, Shape, Numbered, Sound
<1>3. CASE WriteCancel
  <2>1. cancel.of \in Sources \cup {-1} /\ cancel' \in [open : BOOLEAN, of : Sources \cup {-1}]
    BY <1>3 DEF Shape, WriteCancel, NoCancel
  <2> QED BY <1>3, <2>1, StopShape DEF WriteCancel, Shape, Numbered, Sound
<1>4. CASE Retry
  <2>1. used' \in Counters
    BY <1>4, CountersGrow, Kinds DEF Retry, Happens
  <2>2. queue' \in Seq(Messages)
    <3>1. queue' = Append(queue, Send(LastMode, 0)) \/ queue' = Append(queue, Send("normalize", 0))
      BY <1>4, ZenonT(40) DEF Retry
    <3>2. PICK m \in Messages : queue' = Append(queue, m)
      BY <3>1, SentIsMessage, ZenonT(40)
    <3> QED BY <3>2 DEF Shape
  <2>3. edition' \in Rows
    <3>1. edition \in Rows /\ OnItsWay \in BOOLEAN
      BY DEF Shape, OnItsWay, Handing
    <3>2. PICK a \in BOOLEAN, b \in BOOLEAN :
            \/ edition' = [edition EXCEPT !.status = "processing", !.again = a]
            \/ edition' = [edition EXCEPT !.crossed = b, !.aside = TRUE, !.again = a]
      <4>1. (edition.again \/ edition.cancelled) \in BOOLEAN /\ (edition.crossed \/ OnItsWay) \in BOOLEAN
        OBVIOUS
      <4> QED BY <1>4, <4>1, ZenonT(40) DEF Retry
    <3> QED BY <3>1, <3>2 DEF Rows, Statuses
  <2> QED BY <1>4, <2>1, <2>2, <2>3 DEF Retry, Shape, Numbered, Sound
<1>5. CASE TouchSource
  <2>1. source' \in Sources
    BY <1>5, Numbers DEF TouchSource, Shape, Sources
  <2>2. used' \in Counters
    BY <1>5, CountersGrow, Kinds DEF TouchSource, Happens
  <2> QED BY <1>5, <2>1, <2>2 DEF TouchSource, Shape, Numbered, Sound
<1> QED BY <1>1, <1>2, <1>3, <1>4, <1>5

\* A worker's job and one row change.
LEMMA JobShape ==
  ASSUME NEW w \in Workers, Shape, NEW x \in Jobs \cup {Free}, job' = [job EXCEPT ![w] = x]
  PROVE  job' \in [Workers -> Jobs \cup {Free}] /\ job'[w] = x /\ \A y \in Workers \ {w} : job'[y] = job[y]
  BY DEF Shape

LEMMA RowShape ==
  ASSUME NEW v \in Sources, Shape, NEW r \in RunRows, runs' = [runs EXCEPT ![v] = r]
  PROVE  runs' \in [Sources -> RunRows] /\ runs'[v] = r /\ \A x \in Sources \ {v} : runs'[x] = runs[x]
  BY DEF Shape

\* The rows that are written.
LEMMA RunForms ==
  ASSUME NEW r \in RunRows, NEW lines \in Lines, NEW b \in Nat
  PROVE  /\ [r EXCEPT !.status = "failed"] \in RunRows
         /\ [r EXCEPT !.silent = TRUE] \in RunRows
         /\ [r EXCEPT !.lines = lines, !.silent = FALSE] \in RunRows
         /\ [r EXCEPT !.status = "succeeded", !.lines = lines] \in RunRows
         /\ [r EXCEPT !.status = "queued", !.how = "none", !.silent = FALSE] \in RunRows
         /\ [r EXCEPT !.status = "submitted", !.how = "direct", !.lines = lines, !.batch = 0,
                      !.silent = FALSE] \in RunRows
         /\ [r EXCEPT !.status = "submitted", !.how = "batch", !.batch = b, !.lines = lines] \in RunRows
  BY DEF RunRows

LEMMA QueueShape ==
  ASSUME Shape, NEW m \in Messages
  PROVE  /\ Append(queue, m) \in Seq(Messages)
         /\ Len(Append(queue, m)) = Len(queue) + 1
         /\ \A i \in DOMAIN Append(queue, m) : Append(queue, m)[i] = m \/ (i \in DOMAIN queue /\ Append(queue, m)[i] = queue[i])
  BY DEF Shape

LEMMA Delivered ==
  ASSUME Shape, queue # <<>>
  PROVE  /\ queue[1] \in Messages /\ Tail(queue) \in Seq(Messages) /\ Len(Tail(queue)) = Len(queue) - 1
         /\ \A i \in DOMAIN Tail(queue) : i + 1 \in DOMAIN queue /\ Tail(queue)[i] = queue[i + 1]
  BY DEF Shape

\* A step of a worker, as it changes its job and one run.
LEMMA StepShape ==
  ASSUME Shape, Numbered, NEW w \in Workers, NEW k \in Jobs \cup {Free}, NEW v \in Sources, NEW p \in RunRows,
         Seated(k, Len(batches)), Sound(p, Len(batches)),
         job' = [job EXCEPT ![w] = k], runs' = [runs EXCEPT ![v] = p], batches' = batches
  PROVE  /\ runs' \in [Sources -> RunRows] /\ runs'[v] = p /\ \A x \in Sources \ {v} : runs'[x] = runs[x]
         /\ job' \in [Workers -> Jobs \cup {Free}] /\ job'[w] = k /\ \A y \in Workers \ {w} : job'[y] = job[y]
         /\ Numbered'
<1>1. runs' \in [Sources -> RunRows] /\ runs'[v] = p /\ \A x \in Sources \ {v} : runs'[x] = runs[x]
  BY RowShape
<1>2. job' \in [Workers -> Jobs \cup {Free}] /\ job'[w] = k /\ \A y \in Workers \ {w} : job'[y] = job[y]
  BY JobShape
<1> QED BY <1>1, <1>2 DEF Numbered

\* A row written over itself.
LEMMA SameRow ==
  ASSUME Shape, NEW v \in Sources PROVE runs = [runs EXCEPT ![v] = runs[v]] /\ runs[v] \in RunRows
  BY DEF Shape

LEMMA FreeIsSeated == \A n \in Nat : Seated(Free, n)
  BY FreeIsNoJob DEF Seated

LEMMA FailedRow ==
  ASSUME NEW r \in RunRows, NEW n \in Nat, Sound(r, n)
  PROVE  /\ [r EXCEPT !.status = "failed"] \in RunRows /\ Sound([r EXCEPT !.status = "failed"], n)
         /\ [r EXCEPT !.status = "failed"].status = "failed"
         /\ [r EXCEPT !.status = "failed"].how = r.how /\ [r EXCEPT !.status = "failed"].lines = r.lines
  BY DEF RunRows, Sound

\* What is put at the end after the first message is taken.
LEMMA Moved ==
  ASSUME Shape, queue # <<>>, NEW m \in Messages
  PROVE  /\ Append(Tail(queue), m) \in Seq(Messages)
         /\ \A i \in DOMAIN Append(Tail(queue), m) :
              \/ Append(Tail(queue), m)[i] = m
              \/ i + 1 \in DOMAIN queue /\ Append(Tail(queue), m)[i] = queue[i + 1]
<1>1. PICK s \in Seq(Messages) : s = Tail(queue)
  BY Delivered
<1>2. \A i \in DOMAIN s : i + 1 \in DOMAIN queue /\ s[i] = queue[i + 1]
  BY <1>1, Delivered
<1>3. /\ Append(s, m) \in Seq(Messages)
      /\ \A i \in DOMAIN Append(s, m) : Append(s, m)[i] = m \/ (i \in DOMAIN s /\ Append(s, m)[i] = s[i])
  OBVIOUS
<1> QED BY <1>1, <1>2, <1>3

\* What a taken message of the translation starts: a job k of the run p.
Started(w, m, v, k, p) ==
  /\ m.task \in Tasks /\ edition' = edition /\ used' = used /\ queue' = Tail(queue)
  /\ job' = [job EXCEPT ![w] = k] /\ runs' = [runs EXCEPT ![v] = p]
  /\ k.msg = m /\ k.of = v /\ k.came = {} /\ k.good = {}
  /\ k.step \in {"after", "submit", "begin", "poll"} /\ k.step # "free"
  /\ \/ m.task = "poll" /\ v = m.of /\ k.step = "poll" /\ p = runs[v]
     \/ m.task # "poll" /\ v = source /\ k.step = "after" /\ p = runs[v] /\ p.status # "absent"
     \/ /\ m.task # "poll" /\ v = source /\ k.step = IF m.task = "batch" THEN "submit" ELSE "begin"
        /\ runs[v].status # "succeeded"
        /\ p = [runs[v] EXCEPT !.status = "queued", !.how = "none", !.silent = FALSE]

\* What a taken message of the rest does.
Followed(w, m) ==
  /\ runs' = runs
  /\ \/ /\ m.task = "split" /\ job' = job
        /\ \/ queue' = Append(Tail(queue), Send("publish", 0)) /\ UNCHANGED <<edition, used>>
           \/ /\ used' = [used EXCEPT !["troubles"] = @ + 1]
              /\ edition' = [edition EXCEPT !.aside = TRUE] /\ queue' = Tail(queue)
     \/ /\ m.task = "publish" /\ queue' = Tail(queue) /\ UNCHANGED <<edition, used>>
        /\ \/ job' = job
           \/ edition.status = "ready" /\ job' = [job EXCEPT ![w] = Taken(m, "hand", source)]
     \/ /\ m.task = "normalize" /\ queue' = Tail(queue) /\ used' = used
        /\ edition' = [edition EXCEPT !.status = "processing"]
        /\ job' = [job EXCEPT ![w] = Taken(m, "normalize", source)]

LEMMA DeliverIs ==
  ASSUME Shape, NEW w \in Workers, Deliver(w)
  PROVE  \E m \in Messages :
           /\ m = queue[1] /\ queue # <<>> /\ job[w] = Free
           /\ \/ Followed(w, m)
              \/ /\ m.task = "poll" /\ queue' = Tail(queue) /\ UNCHANGED <<runs, job, edition, used>>
              \/ \E v \in Sources, k \in Jobs, p \in RunRows : Started(w, m, v, k, p)
<1>1. PICK m \in Messages : m = queue[1] /\ queue # <<>> /\ job[w] = Free
  BY Delivered DEF Deliver
<1>2. PICK v \in Sources : v = IF m.task = "poll" THEN m.of ELSE source
  BY MessageFacts DEF Shape
<1>3. PICK r \in RunRows : r = runs[v] /\ runs = [runs EXCEPT ![v] = r]
  BY SameRow
<1>4. \A step \in Steps : /\ Taken(m, step, v) \in Jobs /\ Taken(m, step, v).msg = m
                          /\ Taken(m, step, v).of = v /\ Taken(m, step, v).step = step
                          /\ Taken(m, step, v).came = {} /\ Taken(m, step, v).good = {}
  <2> TAKE step \in Steps
  <2>1. Taken(m, step, v) \in Jobs
    BY StartIs
  <2> QED BY <2>1 DEF Taken
<1>5. CASE BeginOther(w, 1) /\ UNCHANGED runs
  <2>1. CASE m.task = "split"
    BY <1>1, <1>5, <2>1, ZenonT(40) DEF BeginOther, Followed, Happens
  <2>2. CASE m.task = "publish"
    <3>1. job' = (IF edition.status = "ready" THEN Start(w, m, "hand", source) ELSE job)
          /\ queue' = Tail(queue) /\ UNCHANGED <<edition, used>>
      BY <1>1, <1>5, <2>2, ZenonT(40) DEF BeginOther
    <3>2. Start(w, m, "hand", source) = [job EXCEPT ![w] = Taken(m, "hand", source)]
      BY DEF Start
    <3>3. Followed(w, m)
      BY <1>5, <2>2, <3>1, <3>2, ZenonT(40) DEF Followed
    <3> QED BY <1>1, <3>3
  <2>3. CASE m.task = "normalize"
    <3>1. /\ edition' = [edition EXCEPT !.status = "processing"] /\ job' = Start(w, m, "normalize", source)
          /\ queue' = Tail(queue) /\ used' = used
      BY <1>1, <1>5, <2>3, ZenonT(40) DEF BeginOther
    <3>2. Followed(w, m)
      BY <1>5, <2>3, <3>1 DEF Followed, Start
    <3> QED BY <1>1, <3>2
  <2>4. m.task \in {"split", "publish", "normalize"}
    BY <1>1, <1>5 DEF BeginOther
  <2> QED BY <2>1, <2>2, <2>3, <2>4
<1>6. CASE BeginPoll(w, 1) /\ queue' = Tail(queue) /\ UNCHANGED <<edition, used>>
  <2>1. m.task = "poll" /\ v = m.of /\ runs' = runs
    BY <1>1, <1>2, <1>6 DEF BeginPoll
  <2>2. job' = job \/ job' = [job EXCEPT ![w] = Taken(m, "poll", v)]
    BY <1>1, <1>6, <2>1 DEF BeginPoll, Start
  <2>3. PICK k \in Jobs : /\ k = Taken(m, "poll", v) /\ k.msg = m /\ k.of = v /\ k.step = "poll"
                          /\ k.came = {} /\ k.good = {}
    BY <1>4 DEF Steps, Translating
  <2>4. job' = [job EXCEPT ![w] = k] => Started(w, m, v, k, r)
    BY <1>3, <1>6, <2>1, <2>3 DEF Started, Tasks
  <2> QED BY <1>1, <1>6, <2>1, <2>2, <2>3, <2>4
<1>7. CASE Prepare(w, 1) /\ queue' = Tail(queue) /\ UNCHANGED <<edition, used>>
  <2>1. m.task \in {"batch", "direct"} /\ v = source
    BY <1>1, <1>2, <1>7 DEF Prepare
  <2>2. CASE Settled(r)
    <3>1. PICK k \in Jobs : /\ k = Taken(m, "after", v) /\ k.msg = m /\ k.of = v /\ k.step = "after"
                            /\ k.came = {} /\ k.good = {}
      BY <1>4 DEF Steps, Translating
    <3>2. job' = [job EXCEPT ![w] = k] /\ runs' = runs
      BY <1>1, <1>3, <1>7, <2>1, <2>2, <3>1 DEF Prepare, Start
    <3>3. r.status # "absent"
      BY <2>2 DEF Settled
    <3>4. Started(w, m, v, k, r)
      BY <1>3, <1>7, <2>1, <3>1, <3>2, <3>3 DEF Started, Tasks
    <3> QED BY <1>1, <3>4
  <2>3. CASE ~Settled(r)
    <3>1. PICK step \in {"submit", "begin"} : step = IF m.task = "batch" THEN "submit" ELSE "begin"
      OBVIOUS
    <3>2. PICK k \in Jobs : /\ k = Taken(m, step, v) /\ k.msg = m /\ k.of = v /\ k.step = step
                            /\ k.came = {} /\ k.good = {}
      BY <1>4 DEF Steps, Translating
    <3>3. PICK p \in RunRows : p = [r EXCEPT !.status = "queued", !.how = "none", !.silent = FALSE]
      <4>1. [r EXCEPT !.status = "queued", !.how = "none", !.silent = FALSE] \in RunRows
        BY DEF RunRows
      <4> QED BY <4>1
    <3>4. job' = [job EXCEPT ![w] = k] /\ runs' = [runs EXCEPT ![v] = p]
      BY <1>1, <1>3, <1>7, <2>1, <2>3, <3>1, <3>2, <3>3 DEF Prepare, Start
    <3>5. r.status # "succeeded"
      BY <2>3 DEF Settled
    <3>6. Started(w, m, v, k, p)
      BY <1>3, <1>7, <2>1, <3>1, <3>2, <3>3, <3>4, <3>5 DEF Started, Tasks
    <3> QED BY <1>1, <3>6
  <2> QED BY <2>2, <2>3
<1> QED BY <1>5, <1>6, <1>7 DEF Deliver

\* Jobs of messages that are no translation's.
LEMMA OtherJobs ==
  ASSUME NEW m \in Messages, NEW n \in Nat, NEW v \in Sources
  PROVE  /\ Taken(m, "hand", v) \in Jobs /\ Taken(m, "normalize", v) \in Jobs
         /\ m.task = "publish" => Seated(Taken(m, "hand", v), n)
         /\ m.task = "normalize" => Seated(Taken(m, "normalize", v), n)
         /\ Taken(m, "hand", v).step = "hand" /\ Taken(m, "normalize", v).step = "normalize"
<1>1. /\ Taken(m, "hand", v) \in Jobs /\ Taken(m, "normalize", v) \in Jobs
  BY LinesFacts DEF Steps, Taken, Jobs
<1>2. /\ Taken(m, "hand", v).step = "hand" /\ Taken(m, "hand", v).msg = m
      /\ Taken(m, "normalize", v).step = "normalize" /\ Taken(m, "normalize", v).msg = m
  BY <1>1 DEF Taken
<1> QED BY <1>1, <1>2 DEF Seated

LEMMA DeliverShape ==
  ASSUME Shape, Numbered, NEW w \in Workers, Deliver(w) PROVE Shape' /\ Numbered'
<1>1. PICK m \in Messages :
        /\ m = queue[1] /\ queue # <<>> /\ job[w] = Free
        /\ \/ Followed(w, m)
           \/ /\ m.task = "poll" /\ queue' = Tail(queue) /\ UNCHANGED <<runs, job, edition, used>>
           \/ \E v \in Sources, k \in Jobs, p \in RunRows : Started(w, m, v, k, p)
  BY DeliverIs
<1>2. UNCHANGED <<source, batches, billed, usable, counted, lost, cancel>>
  BY DEF Deliver
<1>3. Tail(queue) \in Seq(Messages) /\ Append(Tail(queue), Send("publish", 0)) \in Seq(Messages)
  BY <1>1, Delivered, Moved, SentIsMessage
<1>4. CASE Followed(w, m)
  <2>1. queue' \in Seq(Messages)
    BY <1>3, <1>4 DEF Followed
  <2>2. used' \in Counters
    BY <1>4, CountersGrow, Kinds DEF Followed, Shape
  <2>3. edition' \in Rows
    <3>1. edition \in Rows
      BY DEF Shape
    <3>2. \/ edition' = edition \/ edition' = [edition EXCEPT !.aside = TRUE]
          \/ edition' = [edition EXCEPT !.status = "processing"]
      BY <1>4 DEF Followed
    <3> QED BY <3>1, <3>2 DEF Rows, Statuses
  <2>4. \/ job' = job
        \/ \E k \in Jobs : job' = [job EXCEPT ![w] = k] /\ Seated(k, Len(batches))
    <3>1. Len(batches) \in Nat /\ source \in Sources
      BY DEF Shape
    <3> QED BY <1>4, <3>1, OtherJobs DEF Followed
  <2>5. job' \in [Workers -> Jobs \cup {Free}] /\ \A y \in Workers : job'[y] = job[y] \/ Seated(job'[y], Len(batches))
    BY <2>4, JobShape DEF Shape
  <2>6. runs' = runs
    BY <1>4 DEF Followed
  <2>7. Shape'
    BY <1>2, <2>1, <2>2, <2>3, <2>5, <2>6 DEF Shape
  <2>8. Numbered'
    BY <1>2, <2>5, <2>6 DEF Numbered
  <2> QED BY <2>7, <2>8
<1>5. CASE m.task = "poll" /\ queue' = Tail(queue) /\ UNCHANGED <<runs, job, edition, used>>
  BY <1>2, <1>3, <1>5 DEF Shape, Numbered
<1>6. CASE \E v \in Sources, k \in Jobs, p \in RunRows : Started(w, m, v, k, p)
  <2>1. PICK v \in Sources, k \in Jobs, p \in RunRows : Started(w, m, v, k, p)
    BY <1>6
  <2>2. Len(batches) \in Nat /\ runs[v] \in RunRows /\ Sound(runs[v], Len(batches))
    BY DEF Shape, Numbered
  <2>3. Seated(k, Len(batches))
    BY <2>1, <2>2 DEF Started, Seated, Tasks
  <2>4. Sound(p, Len(batches))
    BY <2>1, <2>2 DEF Started, Sound, RunRows
  <2>5. runs' \in [Sources -> RunRows] /\ job' \in [Workers -> Jobs \cup {Free}] /\ Numbered'
    <3>1. job' = [job EXCEPT ![w] = k] /\ runs' = [runs EXCEPT ![v] = p] /\ batches' = batches
      BY <1>2, <2>1 DEF Started
    <3> QED BY <2>3, <2>4, <3>1, StepShape
  <2>6. UNCHANGED <<edition, used>> /\ queue' \in Seq(Messages)
    BY <1>3, <2>1 DEF Started
  <2> QED BY <1>2, <2>5, <2>6 DEF Shape
<1> QED BY <1>1, <1>4, <1>5, <1>6


LEMMA KeptIsLines ==
  ASSUME NEW lines \in Lines
  PROVE  /\ Kept(lines) \in Lines
         /\ \A c \in Chapters : lines[c].ok => Kept(lines)[c] = lines[c]
         /\ \A c \in Chapters : ~Kept(lines)[c].ok => Kept(lines)[c] = NoLine
  BY LinesFacts DEF Kept, Lines, NoLine

LEMMA BeginShape ==
  ASSUME Shape, Numbered, NEW w \in Workers, Begin(w)
  PROVE  /\ Shape' /\ Numbered' /\ job[w] \in Jobs
         /\ \E kept \in Lines, step \in {"complete", "call"} :
              /\ kept = Kept(runs[job[w].of].lines)
              /\ step = "complete" <=> Unusable(kept) = {}
              /\ job'[w] \in Jobs /\ job'[w].msg = job[w].msg /\ job'[w].of = job[w].of
              /\ job'[w].step = step
              /\ job'[w].lines = kept /\ job'[w].todo = Unusable(kept) /\ job'[w].round = job[w].round
              /\ job'[w].came = job[w].came /\ job'[w].good = job[w].good
              /\ \A y \in Workers \ {w} : job'[y] = job[y]
              /\ runs'[job[w].of] = [runs[job[w].of] EXCEPT !.status = "submitted", !.how = "direct",
                     !.lines = kept, !.batch = 0, !.silent = FALSE]
              /\ \A x \in Sources \ {job[w].of} : runs'[x] = runs[x]
<1>1. PICK j \in Jobs : j = job[w] /\ j.step = "begin" /\ j.of \in Sources /\ j.lines \in Lines
  BY AtWork, FreeIsNoJob DEF Begin
<1>2. PICK r \in RunRows : r = runs[j.of]
  BY <1>1 DEF Shape
<1>3. PICK kept \in Lines : kept = Kept(r.lines)
  BY <1>2, KeptIsLines DEF RunRows
<1>4. PICK p \in RunRows : p = [r EXCEPT !.status = "submitted", !.how = "direct", !.lines = kept, !.batch = 0,
                                !.silent = FALSE]
  BY RunForms
<1>5. Unusable(kept) \in SUBSET Chapters
  BY DEF Unusable
<1>6. PICK step \in {"complete", "call"} : step = IF Unusable(kept) = {} THEN "complete" ELSE "call"
  OBVIOUS
<1>7. PICK k \in Jobs : k = [j EXCEPT !.step = step, !.lines = kept, !.todo = Unusable(kept)]
  BY <1>5 DEF Jobs, Steps, Translating
<1>8. job' = [job EXCEPT ![w] = k] /\ runs' = [runs EXCEPT ![j.of] = p]
  BY <1>1, <1>2, <1>3, <1>4, <1>6, <1>7 DEF Begin
<1>9. runs' \in [Sources -> RunRows] /\ runs'[j.of] = p /\ \A x \in Sources \ {j.of} : runs'[x] = runs[x]
  BY <1>1, <1>8, RowShape
<1>10. job' \in [Workers -> Jobs \cup {Free}] /\ job'[w] = k /\ \A y \in Workers \ {w} : job'[y] = job[y]
  BY <1>8, JobShape
<1>11. /\ k.msg = j.msg /\ k.of = j.of /\ k.step = step /\ k.lines = kept /\ k.todo = Unusable(kept)
       /\ k.round = j.round /\ k.came = j.came /\ k.good = j.good
  BY <1>7 DEF Jobs
<1>12. p.status = "submitted" /\ p.how = "direct" /\ p.batch = 0
  BY <1>4 DEF RunRows
<1>13. Shape'
  BY <1>9, <1>10 DEF Begin, Shape
<1>14. Numbered'
  <2>1. batches' = batches /\ Len(batches) \in Nat
    BY DEF Begin, Shape
  <2>2. Seated(k, Len(batches))
    BY <1>1, <1>6, <1>11, FreeIsNoJob DEF Numbered, Sound, Seated
  <2> QED BY <1>1, <1>9, <1>10, <1>12, <2>1, <2>2 DEF Numbered, Sound
<1> QED BY ZenonT(60), <1>1, <1>2, <1>3, <1>4, <1>6, <1>9, <1>10, <1>11, <1>13, <1>14

\* A step of a worker that leaves the runs alone.
LEMMA LeaveShape ==
  ASSUME Shape, Numbered, NEW w \in Workers, NEW k \in Jobs \cup {Free}, Seated(k, Len(batches)),
         job' = [job EXCEPT ![w] = k], UNCHANGED <<runs, batches>>
  PROVE  /\ job' \in [Workers -> Jobs \cup {Free}] /\ job'[w] = k /\ \A y \in Workers \ {w} : job'[y] = job[y]
         /\ Numbered'
<1>1. job' \in [Workers -> Jobs \cup {Free}] /\ job'[w] = k /\ \A y \in Workers \ {w} : job'[y] = job[y]
  BY JobShape
<1> QED BY <1>1 DEF Numbered

\* What an answer does: it is one of those that are asked for, and is held until it is kept.
Answered(w, j, k, v, c, ok) ==
  /\ j = job[w] /\ j.step = "call" /\ v = j.of /\ c \in j.todo \ j.came
  /\ k.msg = j.msg /\ k.of = j.of /\ k.step = "call" /\ k.lines = j.lines /\ k.todo = j.todo
  /\ k.round = j.round
  /\ k.came = j.came \cup {c} /\ k.good = IF ok THEN j.good \cup {c} ELSE j.good
  /\ job' = [job EXCEPT ![w] = k]
  /\ billed' = [billed EXCEPT ![v][c] = @ + 1]
  /\ usable' = [usable EXCEPT ![v][c] = IF ok THEN @ + 1 ELSE @]

LEMMA AnswerShape ==
  ASSUME Shape, Numbered, NEW w \in Workers, Answer(w)
  PROVE  /\ Shape' /\ Numbered'
         /\ \E j \in Jobs, k \in Jobs, v \in Sources, c \in Chapters, ok \in BOOLEAN :
              Answered(w, j, k, v, c, ok)
<1>1. PICK j \in Jobs : j = job[w] /\ j.step = "call" /\ j.todo \in SUBSET Chapters /\ j.todo # {}
                        /\ j.came \in SUBSET Chapters /\ j.good \in SUBSET Chapters
  BY AtWork, FreeIsNoJob DEF Answer, Numbered, Seated
<1>2. PICK v \in Sources : v = j.of
  BY FreeIsNoJob
<1>3. PICK c \in Asking(j), ok \in BOOLEAN :
        /\ IF ok THEN UNCHANGED used ELSE Happens("troubles")
        /\ billed' = [billed EXCEPT ![v][c] = @ + 1]
        /\ usable' = [usable EXCEPT ![v][c] = IF ok THEN @ + 1 ELSE @]
        /\ job' = [job EXCEPT ![w] = [j EXCEPT !.came = @ \cup {c},
                                                !.good = IF ok THEN @ \cup {c} ELSE @]]
  BY <1>1, <1>2 DEF Answer
<1>4. c \in Chapters /\ c \in j.todo \ j.came
  BY <1>1 DEF Asking
<1>5. PICK good \in SUBSET Chapters : good = IF ok THEN j.good \cup {c} ELSE j.good
  BY <1>1, <1>4
<1>6. PICK came \in SUBSET Chapters : came = j.came \cup {c}
  BY <1>1, <1>4
<1>7. PICK k \in Jobs : k = [j EXCEPT !.came = came, !.good = good]
  BY DEF Jobs
<1>8. job' = [job EXCEPT ![w] = k]
  <2>1. [j EXCEPT !.came = @ \cup {c}, !.good = IF ok THEN @ \cup {c} ELSE @] = k
    BY <1>5, <1>6, <1>7
  <2> QED BY <1>3, <2>1
<1>9. /\ k.msg = j.msg /\ k.of = j.of /\ k.step = "call" /\ k.lines = j.lines /\ k.todo = j.todo
      /\ k.round = j.round /\ k.came = came /\ k.good = good /\ k.batch = j.batch
  BY <1>1, <1>7 DEF Jobs
<1>10. billed' \in Calls /\ usable' \in Calls
  <2>1. billed[v][c] + 1 \in Nat /\ usable[v][c] + 1 \in Nat /\ usable[v][c] \in Nat
    BY <1>4 DEF Shape, Calls
  <2> QED BY <1>3, <1>4, <2>1 DEF Shape, Calls
<1>11. used' \in Counters
  BY <1>3, CountersGrow, Kinds DEF Happens, Shape
<1>12. job' \in [Workers -> Jobs \cup {Free}] /\ Numbered'
  <2>1. Seated(k, Len(batches))
    <3>1. Seated(j, Len(batches)) /\ j # Free
      BY <1>1, FreeIsNoJob DEF Numbered
    <3> QED BY <1>1, <1>9, <3>1, FreeIsNoJob DEF Seated
  <2> QED BY <1>8, <2>1, LeaveShape DEF Answer
<1>13. Shape'
  BY <1>10, <1>11, <1>12 DEF Answer, Shape
<1>14. Answered(w, j, k, v, c, ok)
  BY <1>1, <1>2, <1>3, <1>4, <1>5, <1>6, <1>8, <1>9 DEF Answered
<1> QED BY <1>4, <1>12, <1>13, <1>14

\* What keeping an answer does: it is the next one's, and is saved as the attempt has it.
KeptAs(w, j, k, v, c) ==
  /\ j = job[w] /\ j.step = "call" /\ v = j.of /\ c \in j.todo /\ c \in j.came
  /\ k.msg = j.msg /\ k.of = j.of
  /\ k.lines[c].ok = (c \in j.good)
  /\ k.lines[c].calls = IF j.round = 1 THEN 1 ELSE j.lines[c].calls + 1
  /\ \A x \in Chapters \ {c} : k.lines[x] = j.lines[x]
  /\ k.came = j.came \ {c} /\ k.good = j.good \ {c}
  /\ k.step \in {"call", "complete"}
  /\ k.step = IF k.todo = {} THEN "complete" ELSE "call"
  /\ IF k.round = j.round THEN k.todo = j.todo \ {c}
     ELSE /\ k.round = 2 /\ j.todo \ {c} = {}
          /\ k.todo = Unusable(k.lines) \/ k.todo = {}
  /\ runs'[v].lines = k.lines /\ runs'[v].status = runs[v].status /\ runs'[v].how = runs[v].how
  /\ runs'[v].batch = runs[v].batch
  /\ \A x \in Sources \ {v} : runs'[x] = runs[x]
  /\ job' = [job EXCEPT ![w] = k]

LEMMA KeepShape ==
  ASSUME Shape, Numbered, NEW w \in Workers, Keep(w)
  PROVE  /\ Shape' /\ Numbered'
         /\ \E j \in Jobs, k \in Jobs, v \in Sources, c \in Chapters : KeptAs(w, j, k, v, c)
<1>1. PICK j \in Jobs : j = job[w] /\ j.step = "call" /\ j.of \in Sources /\ j.lines \in Lines
                        /\ j.todo \in SUBSET Chapters /\ j.round \in {1, 2} /\ j.todo # {}
                        /\ j.came \in SUBSET Chapters /\ j.good \in SUBSET Chapters
  BY AtWork, FreeIsNoJob DEF Keep, Numbered, Seated
<1>2. PICK v \in Sources : v = j.of
  BY <1>1
<1>3. PICK c \in Chapters : c = Min(j.todo) /\ c \in j.todo
  BY <1>1, MinIsIn
<1>3a. PICK ok \in BOOLEAN : ok = (c \in j.good)
  <2>1. (c \in j.good) \in BOOLEAN
    OBVIOUS
  <2> QED BY <2>1, Zenon
<1>4. LET line == IF j.round = 1 THEN [ok |-> ok, calls |-> 1] ELSE SecondAnswer(j.lines[c], ok)
          lines == [j.lines EXCEPT ![c] = line]
          rest == j.todo \ {c}
          todo == IF rest = {} /\ j.round = 1 THEN Unusable(lines) ELSE rest
      IN /\ c \in j.came
         /\ runs' = [runs EXCEPT ![v] = [@ EXCEPT !.lines = lines, !.silent = FALSE]]
         /\ job' = [job EXCEPT ![w] = [j EXCEPT !.lines = lines, !.todo = todo,
                           !.came = @ \ {c}, !.good = @ \ {c},
                           !.round = IF rest = {} THEN 2 ELSE j.round,
                           !.step = IF todo = {} THEN "complete" ELSE "call"]]
  BY <1>1, <1>2, <1>3, <1>3a, ZenonT(60) DEF Keep
<1>5. PICK line : line = IF j.round = 1 THEN [ok |-> ok, calls |-> 1] ELSE SecondAnswer(j.lines[c], ok)
  OBVIOUS
<1>5a. /\ line \in [ok : BOOLEAN, calls : Nat]
       /\ line.ok = ok /\ line.calls = IF j.round = 1 THEN 1 ELSE j.lines[c].calls + 1
  <2>1. j.lines[c].calls + 1 \in Nat
    BY <1>1 DEF Lines
  <2>2. CASE j.round = 1
    BY <1>5, <2>2
  <2>3. CASE j.round # 1
    BY <1>5, <2>1, <2>3 DEF SecondAnswer
  <2> QED BY <2>2, <2>3
<1>6. PICK lines \in Lines : /\ lines = [j.lines EXCEPT ![c] = line] /\ lines[c] = line
                             /\ \A x \in Chapters \ {c} : lines[x] = j.lines[x]
  <2>1. [j.lines EXCEPT ![c] = line] \in Lines
    BY <1>1, <1>5a DEF Lines
  <2>2. j.lines \in [Chapters -> [ok : BOOLEAN, calls : Nat]]
    BY <1>1 DEF Lines
  <2> QED BY <2>1, <2>2
<1>7. PICK rest \in SUBSET Chapters : rest = j.todo \ {c}
  BY <1>1
<1>8. PICK todo \in SUBSET Chapters : todo = IF rest = {} /\ j.round = 1 THEN Unusable(lines) ELSE rest
  BY DEF Unusable
<1>9. PICK r \in RunRows : r = runs[v]
  BY DEF Shape
<1>10. PICK p \in RunRows : p = [r EXCEPT !.lines = lines, !.silent = FALSE]
  BY RunForms
<1>11. PICK step \in {"call", "complete"} : step = IF todo = {} THEN "complete" ELSE "call"
  OBVIOUS
<1>12. PICK round \in {1, 2} : round = IF rest = {} THEN 2 ELSE j.round
  BY <1>1
<1>12a. PICK came \in SUBSET Chapters, good \in SUBSET Chapters : came = j.came \ {c} /\ good = j.good \ {c}
  BY <1>1
<1>13. PICK k \in Jobs : k = [j EXCEPT !.lines = lines, !.todo = todo, !.came = came, !.good = good,
                                       !.round = round, !.step = step]
  <2>1. step \in Steps
    BY DEF Steps, Translating
  <2>2. [j EXCEPT !.lines = lines, !.todo = todo, !.came = came, !.good = good,
                  !.round = round, !.step = step] \in Jobs
    BY <2>1 DEF Jobs
  <2> QED BY <2>2
<1>14. job' = [job EXCEPT ![w] = k] /\ runs' = [runs EXCEPT ![v] = p] /\ c \in j.came
  <2>1. job' = [job EXCEPT ![w] = [j EXCEPT !.lines = lines, !.todo = todo,
                             !.came = @ \ {c}, !.good = @ \ {c},
                             !.round = IF rest = {} THEN 2 ELSE j.round,
                             !.step = IF todo = {} THEN "complete" ELSE "call"]]
    BY <1>4, <1>5, <1>6, <1>7, <1>8
  <2>2. runs' = [runs EXCEPT ![v] = [@ EXCEPT !.lines = lines, !.silent = FALSE]]
    BY <1>4, <1>5, <1>6
  <2>3. [j EXCEPT !.lines = lines, !.todo = todo, !.came = @ \ {c}, !.good = @ \ {c},
                  !.round = IF rest = {} THEN 2 ELSE j.round,
                  !.step = IF todo = {} THEN "complete" ELSE "call"] = k
    <3>1. /\ (IF rest = {} THEN 2 ELSE j.round) = round
          /\ (IF todo = {} THEN "complete" ELSE "call") = step
      BY <1>11, <1>12
    <3>2. j.came \ {c} = came /\ j.good \ {c} = good
      BY <1>12a
    <3> QED BY <1>13, <3>1, <3>2
  <2>4. runs' = [runs EXCEPT ![v] = [r EXCEPT !.lines = lines, !.silent = FALSE]]
    BY <2>2, <1>9
  <2>5. c \in j.came
    BY <1>4
  <2> QED BY <2>1, <2>3, <2>4, <2>5, <1>10
<1>15. runs' \in [Sources -> RunRows] /\ runs'[v] = p /\ \A x \in Sources \ {v} : runs'[x] = runs[x]
  BY <1>14, RowShape
<1>16. job' \in [Workers -> Jobs \cup {Free}] /\ job'[w] = k /\ \A y \in Workers \ {w} : job'[y] = job[y]
  BY <1>14, JobShape
<1>17. /\ k.msg = j.msg /\ k.of = j.of /\ k.step = step /\ k.lines = lines /\ k.todo = todo /\ k.round = round
       /\ k.came = came /\ k.good = good
       /\ p.lines = lines /\ p.status = r.status /\ p.how = r.how /\ p.batch = r.batch
  BY <1>10, <1>13 DEF Jobs, RunRows
<1>20. Shape'
  BY <1>15, <1>16 DEF Keep, Shape
<1>21. Numbered'
  <2>1. batches' = batches
    BY DEF Keep
  <2>2. Seated(k, Len(batches))
    <3>1. Seated(j, Len(batches)) /\ j # Free
      BY <1>1, FreeIsNoJob DEF Numbered
    <3> QED BY <1>1, <1>11, <1>17, <3>1, FreeIsNoJob DEF Seated
  <2> QED BY <1>9, <1>15, <1>16, <1>17, <2>1, <2>2 DEF Numbered, Sound
<1>22. KeptAs(w, j, k, v, c)
  <2>1. IF k.round = j.round THEN k.todo = j.todo \ {c}
        ELSE k.round = 2 /\ j.todo \ {c} = {} /\ (k.todo = Unusable(k.lines) \/ k.todo = {})
    BY <1>1, <1>7, <1>8, <1>12, <1>17
  <2>2. k.lines[c].ok = (c \in j.good)
    BY <1>3a, <1>5a, <1>6, <1>17
  <2>3. k.step = IF k.todo = {} THEN "complete" ELSE "call"
    BY <1>11, <1>17
  <2> QED BY <1>1, <1>2, <1>3, <1>5a, <1>6, <1>9, <1>11, <1>12a, <1>14, <1>15, <1>17, <2>1, <2>2, <2>3
          DEF KeptAs
<1> QED BY <1>20, <1>21, <1>22


\* A finished attempt: the run had succeeded, succeeds, or has failed.
Completed(w, j, v, k, p) ==
  /\ j = job[w] /\ v = j.of /\ j.step = "complete"
  /\ job' = [job EXCEPT ![w] = k] /\ runs' = [runs EXCEPT ![v] = p]
  /\ \A f \in {"auto", "cancelled", "crossed", "aside", "again"} : edition'[f] = edition[f]
  /\ \/ /\ runs[v].status = "succeeded"
        /\ k = [j EXCEPT !.step = "after"] /\ p = runs[v] /\ edition' = edition /\ counted' = counted
     \/ /\ runs[v].status # "succeeded"
        /\ k = [j EXCEPT !.step = "after"]
        /\ p = [runs[v] EXCEPT !.status = "succeeded", !.lines = NoLines]
        /\ edition'.status \in {"review", "ready"} /\ edition'.text = Chapters
        /\ counted' = [counted EXCEPT ![v] = [c \in Chapters |-> @[c] + j.lines[c].calls]]
     \/ /\ runs[v].status # "succeeded"
        /\ k = Free
        /\ p = [runs[v] EXCEPT !.status = "failed"]
        /\ edition'.status = "failed" /\ edition'.text = edition.text
        /\ counted' = [counted EXCEPT ![v] = [c \in Chapters |-> @[c] + j.lines[c].calls]]

LEMMA CompleteShape ==
  ASSUME Shape, Numbered, NEW w \in Workers, Complete(w)
  PROVE  /\ Shape' /\ Numbered'
         /\ \E j \in Jobs, v \in Sources, k \in Jobs \cup {Free}, p \in RunRows : Completed(w, j, v, k, p)
<1>1. PICK j \in Jobs : j = job[w] /\ j.step = "complete" /\ j.of \in Sources /\ j.lines \in Lines
  BY AtWork, FreeIsNoJob DEF Complete
<1>2. PICK v \in Sources : v = j.of
  BY <1>1
<1>3. PICK r \in RunRows : r = runs[v]
  BY DEF Shape
<1>4. PICK next \in Jobs : next = [j EXCEPT !.step = "after"] /\ next.step = "after" /\ next.msg = j.msg /\ next # Free
  <2>1. [j EXCEPT !.step = "after"] \in Jobs
    BY DEF Jobs, Steps, Translating
  <2> QED BY <2>1, FreeIsNoJob DEF Jobs
<1>5. edition \in Rows
  BY DEF Shape
<1>6. Seated(next, Len(batches)) /\ Seated(Free, Len(batches))
  <2>1. Len(batches) \in Nat
    BY DEF Shape
  <2> QED BY <1>1, <1>4, <2>1, FreeIsSeated, FreeIsNoJob DEF Numbered, Seated
<1>7. \E k \in Jobs \cup {Free}, p \in RunRows :
        Completed(w, j, v, k, p) /\ Seated(k, Len(batches)) /\ Sound(p, Len(batches))
  <2>1. CASE r.status = "succeeded"
    <3>1. job' = [job EXCEPT ![w] = next] /\ edition' = edition /\ runs' = runs /\ counted' = counted
      BY <1>1, <1>2, <1>3, <1>4, <2>1 DEF Complete
    <3>2. runs' = [runs EXCEPT ![v] = r] /\ Sound(r, Len(batches))
      BY <1>3, <3>1, SameRow DEF Numbered
    <3> WITNESS next \in Jobs \cup {Free}, r \in RunRows
    <3> QED BY <1>1, <1>2, <1>3, <1>4, <1>6, <2>1, <3>1, <3>2 DEF Completed
  <2>2. CASE r.status # "succeeded" /\ Unusable(j.lines) = {}
    <3>1. PICK p \in RunRows : p = [r EXCEPT !.status = "succeeded", !.lines = NoLines]
      BY RunForms, LinesFacts
    <3>2. /\ job' = [job EXCEPT ![w] = next]
          /\ runs' = [runs EXCEPT ![v] = p]
          /\ counted' = [counted EXCEPT ![v] = [c \in Chapters |-> @[c] + j.lines[c].calls]]
      BY <1>1, <1>2, <1>3, <1>4, <2>2, <3>1 DEF Complete
    <3>3. PICK status \in {"review", "ready"} : edition' = [edition EXCEPT !.status = status, !.text = Chapters]
      BY <1>1, <1>2, <1>3, <2>2 DEF Complete
    <3>4. /\ edition'.status = status /\ edition'.text = Chapters
          /\ \A f \in {"auto", "cancelled", "crossed", "aside", "again"} : edition'[f] = edition[f]
      BY <1>5, <3>3 DEF Rows
    <3>5. Sound(p, Len(batches))
      <4>1. Sound(r, Len(batches))
        BY <1>3 DEF Numbered
      <4> QED BY <3>1, <4>1 DEF Sound, RunRows
    <3> WITNESS next \in Jobs \cup {Free}, p \in RunRows
    <3> QED BY <1>1, <1>2, <1>3, <1>4, <1>6, <2>2, <3>1, <3>2, <3>4, <3>5 DEF Completed
  <2>3. CASE r.status # "succeeded" /\ Unusable(j.lines) # {}
    <3>1. Sound(r, Len(batches)) /\ Len(batches) \in Nat
      BY <1>3 DEF Numbered, Shape
    <3>2. PICK p \in RunRows : p = [r EXCEPT !.status = "failed"] /\ Sound(p, Len(batches))
      BY <3>1, FailedRow
    <3>3. /\ job' = [job EXCEPT ![w] = Free]
          /\ runs' = [runs EXCEPT ![v] = p]
          /\ counted' = [counted EXCEPT ![v] = [c \in Chapters |-> @[c] + j.lines[c].calls]]
          /\ edition' = [edition EXCEPT !.status = "failed"]
      BY <1>1, <1>2, <1>3, <2>3, <3>2 DEF Complete
    <3>4. /\ edition'.status = "failed" /\ edition'.text = edition.text
          /\ \A f \in {"auto", "cancelled", "crossed", "aside", "again"} : edition'[f] = edition[f]
      BY <1>5, <3>3 DEF Rows
    <3> WITNESS Free \in Jobs \cup {Free}, p \in RunRows
    <3> QED BY <1>1, <1>2, <1>3, <1>6, <2>3, <3>2, <3>3, <3>4 DEF Completed
  <2> QED BY <2>1, <2>2, <2>3
<1>8. PICK k \in Jobs \cup {Free}, p \in RunRows :
        Completed(w, j, v, k, p) /\ Seated(k, Len(batches)) /\ Sound(p, Len(batches))
  BY <1>7
<1>9. counted' \in Calls
  <2>1. \A c \in Chapters : counted[v][c] + j.lines[c].calls \in Nat
    BY <1>1, SMTT(30) DEF Shape, Calls, Lines
  <2>2. counted \in Calls
    BY DEF Shape
  <2>3. CASE counted' = [counted EXCEPT ![v] = [c \in Chapters |-> @[c] + j.lines[c].calls]]
    BY <2>1, <2>2, <2>3 DEF Calls
  <2> QED BY <1>8, <2>2, <2>3 DEF Completed
<1>10. edition' \in Rows
  <2>1. \/ edition' = edition
        \/ \E status \in {"review", "ready"} : edition' = [edition EXCEPT !.status = status, !.text = Chapters]
        \/ edition' = [edition EXCEPT !.status = "failed"]
    BY DEF Complete
  <2> QED BY <1>5, <2>1 DEF Rows, Statuses
<1>11. /\ runs' \in [Sources -> RunRows] /\ job' \in [Workers -> Jobs \cup {Free}]
       /\ Numbered'
  <2>1. job' = [job EXCEPT ![w] = k] /\ runs' = [runs EXCEPT ![v] = p]
    BY <1>8 DEF Completed
  <2>2. batches' = batches
    BY DEF Complete
  <2> QED BY <1>8, <2>1, <2>2, StepShape
<1>12. Shape'
  BY <1>9, <1>10, <1>11 DEF Complete, Shape
<1> QED BY <1>8, <1>11, <1>12

LEMMA AfterShape ==
  ASSUME Shape, Numbered, NEW w \in Workers, After(w)
  PROVE  /\ Shape' /\ Numbered'
         /\ job[w] \in Jobs /\ job'[w] = Free /\ \A y \in Workers \ {w} : job'[y] = job[y]
         /\ \/ queue' = queue
            \/ /\ job[w].msg.task = "batch" /\ runs[job[w].of].status = "submitted"
               /\ queue' = Append(queue, Send("poll", job[w].of))
            \/ /\ edition.auto /\ edition.status = "ready"
               /\ queue' = Append(queue, Send("split", 0))
<1>1. PICK j \in Jobs : j = job[w] /\ j.step = "after" /\ j.of \in Sources
  BY AtWork, FreeIsNoJob DEF After
<1>2. Seated(Free, Len(batches))
  BY FreeIsSeated DEF Shape
<1>3. job' = [job EXCEPT ![w] = Free] /\ UNCHANGED <<runs, batches>>
  BY DEF After
<1>4. job' \in [Workers -> Jobs \cup {Free}] /\ job'[w] = Free /\ (\A y \in Workers \ {w} : job'[y] = job[y]) /\ Numbered'
  BY <1>2, <1>3, LeaveShape
<1>5. \/ queue' = queue
      \/ /\ j.msg.task = "batch" /\ runs[j.of].status = "submitted"
         /\ queue' = Append(queue, Send("poll", j.of))
      \/ edition.auto /\ edition.status = "ready" /\ queue' = Append(queue, Send("split", 0))
  BY <1>1 DEF After
<1>6. queue' \in Seq(Messages)
  <2>1. Send("poll", j.of) \in Messages /\ Send("split", 0) \in Messages
    BY <1>1, SentIsMessage
  <2> QED BY <1>5, <2>1, QueueShape, ZenonT(60) DEF Shape
<1>7. Shape'
  BY <1>4, <1>6 DEF After, Shape
<1> QED BY <1>1, <1>4, <1>5, <1>7

LEMMA SubmitShape ==
  ASSUME Shape, Numbered, NEW w \in Workers, Submit(w)
  PROVE  /\ Shape' /\ Numbered'
         /\ job[w] \in Jobs /\ \A y \in Workers \ {w} : job'[y] = job[y]
         /\ \/ /\ runs' = runs
               /\ job'[w] \in Jobs /\ job'[w].msg = job[w].msg /\ job'[w].of = job[w].of /\ job'[w].step = "save"
            \/ /\ runs' = [runs EXCEPT ![job[w].of] = [runs[job[w].of] EXCEPT !.status = "failed"]]
               /\ job'[w] = Free
<1>1. PICK j \in Jobs : j = job[w] /\ j.step = "submit" /\ j.of \in Sources
  BY AtWork, FreeIsNoJob DEF Submit
<1>2. PICK r \in RunRows : r = runs[j.of] /\ Sound(r, Len(batches))
  BY <1>1 DEF Shape, Numbered
<1>3. CASE /\ batches' = Append(batches, "running")
           /\ job' = [job EXCEPT ![w] = [@ EXCEPT !.step = "save", !.batch = Len(batches')]]
           /\ UNCHANGED <<runs, used>>
  <2>1. PICK n \in Nat : n = Len(batches') /\ n = Len(batches) + 1
    BY <1>3 DEF Shape
  <2>2. PICK k \in Jobs : /\ k = [j EXCEPT !.step = "save", !.batch = n]
                          /\ k.msg = j.msg /\ k.of = j.of /\ k.step = "save" /\ k.batch = n
    <3>1. [j EXCEPT !.step = "save", !.batch = n] \in Jobs
      BY DEF Jobs, Steps, Translating
    <3> QED BY <3>1 DEF Jobs
  <2>3. job' = [job EXCEPT ![w] = k]
    BY <1>1, <1>3, <2>1, <2>2
  <2>4. job' \in [Workers -> Jobs \cup {Free}] /\ job'[w] = k /\ \A y \in Workers \ {w} : job'[y] = job[y]
    BY <2>3, JobShape
  <2>5. batches' \in Seq({"running", "whole", "partial", "ended"})
    BY <1>3 DEF Shape
  <2>6. Shape'
    BY <1>3, <2>4, <2>5 DEF Submit, Shape
  <2>7. Numbered'
    <3>1. Len(batches) \in Nat
      BY DEF Shape
    <3>2. \A v \in Sources : Sound(runs[v], n)
      <4>1. \A v \in Sources : runs[v].batch \in Nat
        BY DEF Shape, RunRows
      <4> QED BY <2>1, <3>1, <4>1 DEF Numbered, Sound
    <3>3. Seated(k, n)
      BY <1>1, <2>1, <2>2, FreeIsNoJob DEF Numbered, Seated
    <3>4. \A y \in Workers : Seated(job[y], n)
      BY <2>1, <3>1 DEF Numbered, Seated
    <3> QED BY <1>3, <2>1, <2>4, <3>2, <3>3, <3>4 DEF Numbered
  <2> QED BY <1>1, <1>3, <2>2, <2>4, <2>6, <2>7
<1>4. CASE /\ Happens("troubles")
           /\ runs' = [runs EXCEPT ![j.of].status = "failed"]
           /\ job' = [job EXCEPT ![w] = Free]
           /\ UNCHANGED batches
  <2>1. Len(batches) \in Nat
    BY DEF Shape
  <2>2. PICK p \in RunRows : p = [r EXCEPT !.status = "failed"] /\ Sound(p, Len(batches))
    BY <1>2, <2>1, FailedRow
  <2>3. runs' = [runs EXCEPT ![j.of] = p]
    BY <1>2, <1>4, <2>2
  <2>4. Seated(Free, Len(batches))
    BY <2>1, FreeIsSeated
  <2>5. /\ runs' \in [Sources -> RunRows]
        /\ job' \in [Workers -> Jobs \cup {Free}] /\ job'[w] = Free /\ \A y \in Workers \ {w} : job'[y] = job[y]
        /\ Numbered'
    BY <1>1, <1>4, <2>2, <2>3, <2>4, StepShape
  <2>6. used' \in Counters
    BY <1>4, CountersGrow, Kinds DEF Happens
  <2>7. Shape'
    BY <1>4, <2>5, <2>6 DEF Submit, Shape
  <2> QED BY <1>1, <1>2, <2>2, <2>3, <2>5, <2>7
<1> QED BY <1>1, <1>3, <1>4 DEF Submit

LEMMA SaveSubmitShape ==
  ASSUME Shape, Numbered, NEW w \in Workers, SaveSubmit(w)
  PROVE  /\ Shape' /\ Numbered'
         /\ job[w] \in Jobs /\ \A y \in Workers \ {w} : job'[y] = job[y]
         /\ job'[w] \in Jobs /\ job'[w].msg = job[w].msg /\ job'[w].of = job[w].of /\ job'[w].step = "after"
         /\ runs'[job[w].of].status = "submitted" /\ runs'[job[w].of].how = "batch"
         /\ \A x \in Sources \ {job[w].of} : runs'[x] = runs[x]
<1>1. PICK j \in Jobs : j = job[w] /\ j.step = "save" /\ j.of \in Sources /\ j.batch \in 1 .. Len(batches)
  BY AtWork, FreeIsNoJob DEF SaveSubmit, Numbered, Seated
<1>2. PICK r \in RunRows : r = runs[j.of]
  BY <1>1 DEF Shape
<1>3. PICK p \in RunRows : /\ p = [r EXCEPT !.status = "submitted", !.how = "batch", !.batch = j.batch, !.lines = NoLines]
                           /\ p.status = "submitted" /\ p.how = "batch" /\ p.batch = j.batch
  <2>1. j.batch \in Nat
    BY <1>1, FreeIsNoJob
  <2>2. [r EXCEPT !.status = "submitted", !.how = "batch", !.batch = j.batch, !.lines = NoLines] \in RunRows
    BY <2>1, RunForms, LinesFacts
  <2> QED BY <2>2 DEF RunRows
<1>4. PICK k \in Jobs : /\ k = [j EXCEPT !.step = "after"]
                        /\ k.msg = j.msg /\ k.of = j.of /\ k.step = "after"
  <2>1. [j EXCEPT !.step = "after"] \in Jobs
    BY DEF Jobs, Steps, Translating
  <2> QED BY <2>1 DEF Jobs
<1>5. job' = [job EXCEPT ![w] = k] /\ runs' = [runs EXCEPT ![j.of] = p] /\ batches' = batches
  BY <1>1, <1>2, <1>3, <1>4 DEF SaveSubmit
<1>6. Seated(k, Len(batches)) /\ Sound(p, Len(batches))
  BY <1>1, <1>3, <1>4, FreeIsNoJob DEF Numbered, Seated, Sound, Shape
<1>7. /\ runs' \in [Sources -> RunRows] /\ runs'[j.of] = p /\ \A x \in Sources \ {j.of} : runs'[x] = runs[x]
      /\ job' \in [Workers -> Jobs \cup {Free}] /\ job'[w] = k /\ \A y \in Workers \ {w} : job'[y] = job[y]
      /\ Numbered'
  BY <1>1, <1>5, <1>6, StepShape
<1>8. Shape'
  BY <1>7 DEF SaveSubmit, Shape
<1> QED BY <1>1, <1>3, <1>4, <1>7, <1>8

\* A poll asks again, fails the run and its edition, or has the batch's lines.
Polled(w, j, k) ==
  /\ j = job[w] /\ j.step = "poll" /\ job' = [job EXCEPT ![w] = k]
  /\ \/ k = Free /\ queue' = Append(queue, j.msg) /\ UNCHANGED <<edition, runs>>
     \/ /\ k = Free /\ queue' = queue
        /\ runs' = [runs EXCEPT ![j.of] = [runs[j.of] EXCEPT !.status = "failed"]]
        /\ edition' = [edition EXCEPT !.status = "failed"]
     \/ /\ k \in Jobs /\ k.msg = j.msg /\ k.of = j.of /\ k.step = "complete"
        /\ UNCHANGED <<queue, edition, runs>>

LEMMA PollShape ==
  ASSUME Shape, Numbered, NEW w \in Workers, Poll(w)
  PROVE  Shape' /\ Numbered' /\ \E j \in Jobs, k \in Jobs \cup {Free} : Polled(w, j, k)
<1>1. PICK j \in Jobs : j = job[w] /\ j.step = "poll" /\ j.of \in Sources /\ j.msg \in Messages
  BY AtWork, FreeIsNoJob DEF Poll
<1>2. PICK r \in RunRows : r = runs[j.of] /\ Sound(r, Len(batches))
  BY <1>1 DEF Shape, Numbered
<1>3. batches' = batches /\ Len(batches) \in Nat
  BY DEF Poll, Shape
<1>4. PICK p \in RunRows : p = [r EXCEPT !.status = "failed"] /\ Sound(p, Len(batches))
  BY <1>2, <1>3, FailedRow
<1>5. PICK state : state = IF r.batch = 0 THEN "ended" ELSE batches[r.batch]
  OBVIOUS
<1>6. PICK k \in Jobs : /\ k = [j EXCEPT !.step = "complete", !.lines = BatchLines(state)]
                        /\ k.msg = j.msg /\ k.of = j.of /\ k.step = "complete"
  <2>1. BatchLines(state) \in Lines
    BY DEF BatchLines, Lines
  <2>2. [j EXCEPT !.step = "complete", !.lines = BatchLines(state)] \in Jobs
    BY <2>1 DEF Jobs, Steps, Translating
  <2> QED BY <2>2 DEF Jobs
<1>7. Seated(k, Len(batches)) /\ Seated(Free, Len(batches))
  BY <1>1, <1>3, <1>6, FreeIsSeated, FreeIsNoJob DEF Numbered, Seated
<1>8. used' \in Counters
  BY CountersGrow, Kinds DEF Poll, Happens, Shape
<1>9. \/ queue' = Append(queue, j.msg) /\ job' = [job EXCEPT ![w] = Free] /\ UNCHANGED <<edition, runs>>
      \/ /\ queue' = queue /\ job' = [job EXCEPT ![w] = Free]
         /\ runs' = [runs EXCEPT ![j.of] = p] /\ edition' = [edition EXCEPT !.status = "failed"]
      \/ job' = [job EXCEPT ![w] = k] /\ UNCHANGED <<edition, runs, queue>>
  BY <1>1, <1>2, <1>4, <1>5, <1>6 DEF Poll
<1>10. CASE queue' = Append(queue, j.msg) /\ job' = [job EXCEPT ![w] = Free] /\ UNCHANGED <<edition, runs>>
  <2>1. queue' \in Seq(Messages)
    BY <1>1, <1>10, QueueShape
  <2>2. job' \in [Workers -> Jobs \cup {Free}] /\ Numbered'
    BY <1>3, <1>7, <1>10, LeaveShape
  <2>3. Shape'
    BY <1>8, <1>10, <2>1, <2>2 DEF Poll, Shape
  <2>4. Polled(w, j, Free)
    BY <1>1, <1>10 DEF Polled
  <2> QED BY <2>2, <2>3, <2>4
<1>11. CASE /\ queue' = queue /\ job' = [job EXCEPT ![w] = Free]
            /\ runs' = [runs EXCEPT ![j.of] = p] /\ edition' = [edition EXCEPT !.status = "failed"]
  <2>1. edition' \in Rows
    BY <1>11 DEF Shape, Rows, Statuses
  <2>2. runs' \in [Sources -> RunRows] /\ job' \in [Workers -> Jobs \cup {Free}] /\ Numbered'
    BY <1>1, <1>3, <1>4, <1>7, <1>11, StepShape
  <2>3. Shape'
    BY <1>8, <1>11, <2>1, <2>2 DEF Poll, Shape
  <2>4. Polled(w, j, Free)
    BY <1>1, <1>2, <1>4, <1>11 DEF Polled
  <2> QED BY <2>2, <2>3, <2>4
<1>12. CASE job' = [job EXCEPT ![w] = k] /\ UNCHANGED <<edition, runs, queue>>
  <2>1. job' \in [Workers -> Jobs \cup {Free}] /\ Numbered'
    BY <1>3, <1>7, <1>12, LeaveShape
  <2>2. Shape'
    BY <1>8, <1>12, <2>1 DEF Poll, Shape
  <2>3. Polled(w, j, k)
    BY <1>1, <1>6, <1>12 DEF Polled
  <2> QED BY <2>1, <2>2, <2>3
<1> QED BY <1>9, <1>10, <1>11, <1>12

LEMMA BatchEndsShape == ASSUME Shape, Numbered, BatchEnds PROVE Shape' /\ Numbered'
<1>1. PICK i \in DOMAIN batches, end \in {"whole", "partial", "ended"} : batches' = [batches EXCEPT ![i] = end]
  BY DEF BatchEnds
<1>2. batches' \in Seq({"running", "whole", "partial", "ended"}) /\ Len(batches') = Len(batches)
  BY <1>1, ExceptSeq DEF Shape
<1>3. used' \in Counters
  BY CountersGrow, Kinds DEF BatchEnds, Happens, Shape
<1>4. UNCHANGED <<edition, source, runs, billed, usable, counted, lost, queue, job, cancel>>
  BY DEF BatchEnds
<1> QED BY <1>2, <1>3, <1>4 DEF Shape, Numbered

LEMMA FallSilentShape ==
  ASSUME Shape, Numbered, FallSilent
  PROVE  /\ Shape' /\ Numbered'
         /\ \E v \in Sources : runs[v].how = "direct"
         /\ \A x \in Sources : /\ runs'[x].status = runs[x].status /\ runs'[x].how = runs[x].how
                               /\ runs'[x].lines = runs[x].lines
<1>1. PICK v \in Sources : /\ runs[v].how = "direct" /\ runs' = [runs EXCEPT ![v].silent = TRUE]
                           /\ used' = used \/ used' = [used EXCEPT !["delays"] = @ + 1]
  BY DEF FallSilent, Happens
<1>2. PICK r \in RunRows : r = runs[v] /\ Sound(r, Len(batches))
  BY DEF Shape, Numbered
<1>3. PICK p \in RunRows : p = [r EXCEPT !.silent = TRUE]
  <2>1. [r EXCEPT !.silent = TRUE] \in RunRows
    BY DEF RunRows
  <2> QED BY <2>1
<1>4. runs' = [runs EXCEPT ![v] = p]
  BY <1>1, <1>2, <1>3
<1>5. runs' \in [Sources -> RunRows] /\ runs'[v] = p /\ \A x \in Sources \ {v} : runs'[x] = runs[x]
  BY <1>4, RowShape
<1>6. p.status = r.status /\ p.how = r.how /\ p.lines = r.lines /\ p.batch = r.batch
  BY <1>3 DEF RunRows
<1>7. used' \in Counters
  BY <1>1, CountersGrow, Kinds DEF Shape
<1>8. UNCHANGED <<edition, source, batches, billed, usable, counted, lost, queue, job, cancel>>
  BY DEF FallSilent
<1>9. Shape'
  BY <1>5, <1>7, <1>8 DEF Shape
<1>10. Numbered'
  BY <1>2, <1>5, <1>6, <1>8 DEF Numbered, Sound
<1> QED BY <1>1, <1>2, <1>5, <1>6, <1>9, <1>10

LEMMA RedeliverShape == ASSUME Shape, Numbered, NEW w \in Workers, Redeliver(w) PROVE Shape' /\ Numbered'
<1>1. job[w] \in Jobs /\ job[w].msg \in Messages
  BY FreeIsNoJob DEF Redeliver, Shape
<1>2. queue' \in Seq(Messages)
  BY <1>1, QueueShape DEF Redeliver
<1>3. used' \in Counters
  BY CountersGrow, Kinds DEF Redeliver, Happens
<1> QED BY <1>2, <1>3 DEF Redeliver, Shape, Numbered

LEMMA CrashShape ==
  ASSUME Shape, Numbered, NEW w \in Workers, Crash(w)
  PROVE  /\ Shape' /\ Numbered' /\ job[w] \in Jobs /\ job[w].msg \in Messages /\ used'.crashes > 0
         /\ job'[w] = Free /\ \A y \in Workers \ {w} : job'[y] = job[y]
         /\ \A x \in Sources, c \in Chapters :
              lost'[x][c] = IF x = job[w].of /\ c \in job[w].good THEN lost[x][c] + 1 ELSE lost[x][c]
<1>1. job[w] \in Jobs /\ job[w].msg \in Messages
  BY FreeIsNoJob DEF Crash, Shape
<1>2. queue' \in Seq(Messages)
  BY <1>1, QueueShape DEF Crash
<1>3. used' = [used EXCEPT !["crashes"] = @ + 1]
  BY DEF Crash, Happens
<1>4. used' \in Counters /\ used'.crashes > 0
  BY <1>3, CountersGrow, Kinds DEF Shape, Counters
<1>5. Seated(Free, Len(batches))
  BY FreeIsSeated DEF Shape
<1>6. job' = [job EXCEPT ![w] = Free] /\ UNCHANGED <<runs, batches>>
  BY DEF Crash
<1>7. /\ job' \in [Workers -> Jobs \cup {Free}] /\ job'[w] = Free /\ \A y \in Workers \ {w} : job'[y] = job[y]
      /\ Numbered'
  BY <1>5, <1>6, LeaveShape
<1>9. PICK j \in Jobs, v \in Sources : j = job[w] /\ v = j.of
  BY <1>1, FreeIsNoJob
<1>10. lost \in [Sources -> [Chapters -> Nat]]
  BY DEF Shape, Calls
<1>11. PICK row \in [Chapters -> Nat] : row = [c \in Chapters |-> IF c \in j.good THEN lost[v][c] + 1 ELSE lost[v][c]]
  <2>1. \A c \in Chapters : lost[v][c] \in Nat /\ lost[v][c] + 1 \in Nat
    BY <1>10
  <2> QED BY <2>1
<1>12. lost' = [lost EXCEPT ![v] = row]
  BY <1>9, <1>10, <1>11 DEF Crash
<1>13. lost' \in Calls /\ lost'[v] = row /\ \A x \in Sources \ {v} : lost'[x] = lost[x]
  BY <1>10, <1>12 DEF Calls
<1>14. \A x \in Sources, c \in Chapters :
        lost'[x][c] = IF x = job[w].of /\ c \in job[w].good THEN lost[x][c] + 1 ELSE lost[x][c]
  BY <1>9, <1>11, <1>13
<1>8. Shape'
  BY <1>2, <1>4, <1>7, <1>13 DEF Crash, Shape
<1> QED BY <1>1, <1>4, <1>7, <1>8, <1>14

\* The end of a publication, or of finishing an edition again.
LEMMA FinishShape ==
  ASSUME Shape, Numbered, NEW w \in Workers, Hand(w) \/ Normalize(w)
  PROVE  /\ Shape' /\ Numbered' /\ Busy(w) /\ job[w].step \in {"hand", "normalize"}
         /\ job'[w] = Free /\ \A y \in Workers \ {w} : job'[y] = job[y]
         /\ UNCHANGED <<source, runs, batches, billed, usable, counted, lost, queue, cancel>>
         /\ used' = used \/ used' = [used EXCEPT !["troubles"] = @ + 1]
         /\ edition'.text = edition.text
         /\ \A f \in {"auto", "cancelled", "crossed", "again"} : edition'[f] = edition[f]
         /\ \/ edition'.status = edition.status
            \/ job[w].step = "hand" /\ edition'.status = "published"
            \/ job[w].step = "normalize" /\ edition'.status \in {"review", "ready", "failed"}
<1>1. /\ job[w].step \in {"hand", "normalize"} /\ job' = [job EXCEPT ![w] = Free]
      /\ UNCHANGED <<source, runs, batches, billed, usable, counted, lost, queue, cancel>>
  BY DEF Hand, Normalize
<1>2. Seated(Free, Len(batches))
  BY FreeIsSeated DEF Shape
<1>3. /\ job' \in [Workers -> Jobs \cup {Free}] /\ job'[w] = Free
      /\ (\A y \in Workers \ {w} : job'[y] = job[y]) /\ Numbered'
  BY <1>1, <1>2, LeaveShape
<1>4. used' = used \/ used' = [used EXCEPT !["troubles"] = @ + 1]
  BY DEF Hand, Normalize, Happens
<1>5. used' \in Counters
  BY <1>4, CountersGrow, Kinds DEF Shape
<1>6. edition \in Rows
  BY DEF Shape
<1>7. \/ job[w].step = "hand" /\ edition' = [edition EXCEPT !.status = "published"]
      \/ edition' = [edition EXCEPT !.aside = TRUE]
      \/ /\ job[w].step = "normalize"
         /\ \E status \in {"review", "ready", "failed"} : edition' = [edition EXCEPT !.status = status]
  BY DEF Hand, Normalize
<1>8. edition' \in Rows
  BY <1>6, <1>7 DEF Rows, Statuses
<1>9. /\ edition'.text = edition.text
      /\ \A f \in {"auto", "cancelled", "crossed", "again"} : edition'[f] = edition[f]
      /\ \/ edition'.status = edition.status
         \/ job[w].step = "hand" /\ edition'.status = "published"
         \/ job[w].step = "normalize" /\ edition'.status \in {"review", "ready", "failed"}
  BY <1>6, <1>7 DEF Rows
<1>10. Shape'
  BY <1>1, <1>3, <1>5, <1>8 DEF Shape
<1>11. Busy(w)
  BY <1>1, FreeIsNoJob DEF Busy
<1> QED BY <1>1, <1>3, <1>4, <1>9, <1>10, <1>11

----------------------------------------------------------------------------
(* Every action keeps the invariant: people. *)

\* What was counted stays counted, and what was ordered again stays so.
LEMMA UsedGrows ==
  ASSUME Shape,
         used' = used \/ \E kind \in Bounded : used' = [used EXCEPT ![kind] = @ + 1],
         edition.again => edition'.again
  PROVE  /\ used'.delays = 0 => used.delays = 0
         /\ used'.crashes = 0 => used.crashes = 0
         /\ Steady' => Steady
<1>1. used.delays \in Nat /\ used.crashes \in Nat
  BY DEF Shape, Counters
<1>2. /\ used'.delays \in {used.delays, used.delays + 1}
      /\ used'.crashes \in {used.crashes, used.crashes + 1}
  BY DEF Shape, Counters, Bounded
<1> QED BY <1>1, <1>2 DEF Steady

LEMMA StopIs ==
  ASSUME Shape, NEW v \in Sources \cup {-1}, Stop(v)
  PROVE  /\ edition'.status = "failed" /\ edition'.auto = FALSE /\ edition'.cancelled = TRUE
         /\ edition'.text = edition.text /\ edition'.again = edition.again
         /\ ~edition'.crossed => ~edition.crossed /\ ~Handing
         /\ \A x \in Sources : /\ runs'[x].how = runs[x].how /\ runs'[x].lines = runs[x].lines
                               /\ \/ runs'[x].status = runs[x].status
                                  \/ x = v /\ runs'[x].status = "failed"
<1>1. /\ edition'.status = "failed" /\ edition'.auto = FALSE /\ edition'.cancelled = TRUE
      /\ edition'.text = edition.text /\ edition'.again = edition.again
      /\ edition'.crossed = (edition.crossed \/ Handing)
  BY DEF Stop, Shape, Rows
<1>2. runs' = runs \/ (v \in Sources /\ runs' = [runs EXCEPT ![v].status = "failed"])
  BY DEF Stop
<1>3. \A x \in Sources : /\ runs'[x].how = runs[x].how /\ runs'[x].lines = runs[x].lines
                          /\ \/ runs'[x].status = runs[x].status
                             \/ x = v /\ runs'[x].status = "failed"
  <2>1. runs \in [Sources -> RunRows]
    BY DEF Shape
  <2>2. CASE v \in Sources /\ runs' = [runs EXCEPT ![v].status = "failed"]
    BY <2>1, <2>2 DEF RunRows
  <2> QED BY <1>2, <2>2
<1> QED BY <1>1, <1>3

\* Runs that exist go on existing, and no others come to be.
LEMMA NewestKept ==
  ASSUME \A x \in Sources : runs'[x].status = "absent" <=> runs[x].status = "absent"
  PROVE  /\ Existing' = Existing
         /\ \A v \in Sources : Newest(v) => Newest(v)'
<1>1. Existing' = Existing
  BY DEF Existing
<1> QED BY <1>1 DEF Newest

\* Where nobody and nothing moves.
LEMMA Standing ==
  ASSUME UNCHANGED <<queue, job>>
  PROVE  /\ NoTranslation' <=> NoTranslation
         /\ Alone' <=> Alone
         /\ OnItsWay' <=> OnItsWay
         /\ Handing' <=> Handing
         /\ OnlyOut' <=> OnlyOut
  BY DEF NoTranslation, Alone, Sole, AtIt, Busy, OnItsWay, Handing, OnlyOut

\* A worker at a translation has a run, and its message one.
LEMMA Sourced ==
  ASSUME Shape
  PROVE  /\ \A i \in DOMAIN queue : queue[i].of \in Sources
         /\ \A w \in Workers : AtIt(w) => Busy(w) /\ job[w] \in Jobs /\ job[w].of \in Sources /\ job[w].msg.of \in Sources
         /\ \A w \in Workers : Trying(w) \/ Holding(w) \/ job[w].step = "call" => AtIt(w)
<1>1. \A i \in DOMAIN queue : queue[i].of \in Sources
  BY MessageFacts DEF Shape
<1>2. \A w \in Workers : AtIt(w) => Busy(w) /\ job[w] \in Jobs
  BY AtWork DEF AtIt, Translating
<1>3. \A w \in Workers : AtIt(w) => job[w].of \in Sources /\ job[w].msg.of \in Sources
  BY <1>2, FreeIsNoJob, MessageFacts
<1> QED BY <1>1, <1>2, <1>3 DEF Trying, Holding, AtIt, Translating

\* People or time move the edition and the runs: nothing is begun, and a run at most fails.
LEMMA StandingKeeps ==
  ASSUME Inv, Shape', Numbered', Marked', UNCHANGED <<billed, usable, counted, lost, queue, job>>,
         \A x \in Sources :
           /\ runs'[x].how = runs[x].how /\ runs'[x].lines = runs[x].lines
           /\ \/ runs'[x].status = runs[x].status
              \/ /\ runs'[x].status = "failed"
                 /\ Steady => runs[x].status \in {"queued", "submitted"} \/ (cancel.open /\ x = cancel.of),
         used' = used \/ \E kind \in Bounded : used' = [used EXCEPT ![kind] = @ + 1],
         edition.again => edition'.again,
         \/ edition' = edition
         \/ edition'.cancelled /\ edition'.status = "failed" /\ (~edition'.crossed => ~edition.crossed /\ ~Handing),
         source <= source',
         cancel' = cancel \/ ~cancel'.open \/ (Steady => cancel'.of \in Existing /\ runs[cancel'.of].how = "batch")
  PROVE  Inv'
<1>1. Shape /\ Numbered /\ Marked
  BY DEF Inv
<1>2. (used'.delays = 0 => used.delays = 0) /\ (Steady' => Steady) /\ (used'.crashes = 0 => used.crashes = 0)
  BY <1>1, UsedGrows
<1>3. ASSUME Steady' PROVE Alone' /\ GivenUp' /\ (Directly \/ InBatches)'
  <2>1. Steady /\ Alone /\ GivenUp /\ (Directly \/ InBatches)
    BY <1>2, <1>3 DEF Inv
  <2>2. Alone' /\ GivenUp'
    BY <2>1, Standing DEF GivenUp
  <2>3. CASE Directly
    <3>1. Saved'
      <4> SUFFICES ASSUME NEW v \in Sources, NEW c \in Chapters
                   PROVE  usable[v][c] <= 1 + lost[v][c] /\ (~Paid(v, c)' => usable[v][c] <= lost[v][c])
        BY DEF Saved
      <4>1. usable[v][c] <= 1 + lost[v][c] /\ (~Paid(v, c) => usable[v][c] <= lost[v][c])
        BY <2>3 DEF Directly, Saved
      <4>2. Paid(v, c) => Paid(v, c)'
        BY <2>1, <2>3 DEF Paid, Carried, Directly
      <4> QED BY <4>1, <4>2
    <3>2. InHand'
      <4>1. \A w \in Workers : Trying(w) \/ Holding(w) => job[w].of \in Sources
        BY <1>1, Sourced
      <4> QED BY <2>3, <4>1 DEF Directly, InHand, Trying, Holding
    <3>3. Accounted'
      BY <1>2, <2>3 DEF Directly, Accounted, Holding, InLines
    <3>4. DirectRuns' /\ DirectMessages' /\ DirectJobs'
      BY <2>3 DEF Directly, DirectRuns, DirectMessages, DirectJobs, AtIt
    <3>5. ~cancel'.open
      BY <2>1, <2>3 DEF Directly, DirectRuns, Existing
    <3> QED BY <2>2, <3>1, <3>2, <3>3, <3>4, <3>5 DEF Directly
  <2>4. CASE InBatches
    <3>1. \A x \in Sources : runs'[x].status = "absent" <=> runs[x].status = "absent"
      BY <2>1, <2>4 DEF InBatches, Existing
    <3>2. Existing' = Existing /\ \A x \in Sources : Newest(x) => Newest(x)'
      BY <3>1, NewestKept
    <3>3. Unbilled' /\ BatchFailed'
      BY <2>4, <3>2 DEF InBatches, Unbilled, BatchFailed
    <3>4. BatchRuns'
      <4>1. source \in Nat /\ source' \in Nat /\ Sources \subseteq Nat
        BY <1>1, Numbers DEF Shape
      <4> QED BY <2>4, <3>1, <4>1 DEF InBatches, BatchRuns
    <3>5. BatchMessages' /\ BatchJobs'
      <4>1. /\ \A i \in DOMAIN queue : queue[i].of \in Sources
            /\ \A w \in Workers : AtIt(w) => job[w].of \in Sources /\ job[w].msg.of \in Sources
        BY <1>1, Sourced
      <4> QED BY <2>4, <3>2, <4>1 DEF InBatches, BatchMessages, BatchJobs, AtIt
    <3>6. cancel'.open => cancel'.of \in Existing'
      BY <2>1, <2>4, <3>2 DEF InBatches
    <3> QED BY <2>2, <3>3, <3>4, <3>5, <3>6 DEF InBatches
  <2> QED BY <2>1, <2>2, <2>3, <2>4
<1>4. ASSUME used'.delays = 0 PROVE LastOfAll' /\ StaysIn'
  <2>1. LastOfAll /\ StaysIn
    BY <1>2, <1>4 DEF Inv
  <2> QED BY <2>1, Standing DEF LastOfAll, StaysIn
<1> QED BY <1>3, <1>4 DEF Inv

LEMMA CancelKeeps == ASSUME Inv, Cancel PROVE Inv'
<1>1. Shape /\ Numbered /\ Marked /\ Shape' /\ Numbered'
  BY PeopleShape DEF Inv
<1>2. PICK s \in Sources \cup {-1} : s = Stoppable /\ (s # -1 => runs[s].status \in {"queued", "submitted"})
  BY StoppableIs
<1>3. Stop(s) /\ UNCHANGED <<source, billed, usable, counted, lost, queue, job, cancel>>
  BY <1>2 DEF Cancel
<1>4. /\ edition'.status = "failed" /\ edition'.auto = FALSE /\ edition'.cancelled = TRUE
      /\ edition'.text = edition.text /\ edition'.again = edition.again
      /\ ~edition'.crossed => ~edition.crossed /\ ~Handing
      /\ \A x \in Sources : /\ runs'[x].how = runs[x].how /\ runs'[x].lines = runs[x].lines
                            /\ \/ runs'[x].status = runs[x].status
                               \/ x = s /\ runs'[x].status = "failed"
  BY <1>1, <1>3, StopIs
<1>5. \A x \in Sources : x = s => runs[x].status \in {"queued", "submitted"}
  BY <1>2, Numbers
<1>6. Marked'
  BY <1>1, <1>3, <1>4 DEF Marked
<1>7. source <= source'
  BY <1>1, <1>3, Numbers DEF Shape
<1>8. \E kind \in Bounded : used' = [used EXCEPT ![kind] = @ + 1]
  BY Kinds DEF Cancel, Happens
<1> QED BY <1>1, <1>3, <1>4, <1>5, <1>6, <1>7, <1>8, StandingKeeps

LEMMA WriteCancelKeeps == ASSUME Inv, WriteCancel PROVE Inv'
<1>1. Shape /\ Numbered /\ Marked /\ Shape' /\ Numbered'
  BY PeopleShape DEF Inv
<1>2. PICK s \in Sources \cup {-1} : s = cancel.of
  BY <1>1 DEF Shape
<1>3. /\ Stop(s) /\ UNCHANGED <<source, billed, usable, counted, lost, queue, job, used>>
      /\ cancel.open /\ ~cancel'.open
  BY <1>2 DEF WriteCancel, NoCancel
<1>4. /\ edition'.status = "failed" /\ edition'.auto = FALSE /\ edition'.cancelled = TRUE
      /\ edition'.text = edition.text /\ edition'.again = edition.again
      /\ ~edition'.crossed => ~edition.crossed /\ ~Handing
      /\ \A x \in Sources : /\ runs'[x].how = runs[x].how /\ runs'[x].lines = runs[x].lines
                            /\ \/ runs'[x].status = runs[x].status
                               \/ x = s /\ runs'[x].status = "failed"
  BY <1>1, <1>3, StopIs
<1>5. Marked'
  BY <1>1, <1>3, <1>4 DEF Marked
<1>6. source <= source'
  BY <1>1, <1>3, Numbers DEF Shape
<1> QED BY <1>1, <1>2, <1>3, <1>4, <1>5, <1>6, StandingKeeps

LEMMA OpenCancelKeeps == ASSUME Inv, OpenCancel PROVE Inv'
<1>1. Shape /\ Numbered /\ Marked /\ Shape' /\ Numbered'
  BY PeopleShape DEF Inv
<1>2. Stoppable \in Sources /\ runs[Stoppable].status \in {"queued", "submitted"} /\ runs[Stoppable].how = "batch"
  BY StoppableIs DEF OpenCancel, BatchUnderWay
<1>3. cancel'.of \in Existing /\ runs[cancel'.of].how = "batch"
  BY <1>2 DEF OpenCancel, Existing
<1>4. UNCHANGED <<edition, source, runs, billed, usable, counted, lost, queue, job>>
  BY DEF OpenCancel
<1>5. source <= source' /\ Marked'
  BY <1>1, <1>4, Numbers DEF Shape, Marked
<1>6. \E kind \in Bounded : used' = [used EXCEPT ![kind] = @ + 1]
  BY Kinds DEF OpenCancel, Happens
<1> QED BY <1>1, <1>3, <1>4, <1>5, <1>6, StandingKeeps

LEMMA TouchSourceKeeps == ASSUME Inv, TouchSource PROVE Inv'
<1>1. Shape /\ Numbered /\ Marked /\ Shape' /\ Numbered'
  BY PeopleShape DEF Inv
<1>2. source <= source'
  BY <1>1, Numbers DEF TouchSource, Shape
<1>3. UNCHANGED <<edition, runs, billed, usable, counted, lost, queue, job, cancel>>
  BY DEF TouchSource
<1>4. Marked'
  BY <1>1, <1>3 DEF Marked
<1>5. \E kind \in Bounded : used' = [used EXCEPT ![kind] = @ + 1]
  BY Kinds DEF TouchSource, Happens
<1> QED BY <1>1, <1>2, <1>3, <1>4, <1>5, StandingKeeps

LEMMA BatchEndsKeeps == ASSUME Inv, BatchEnds PROVE Inv'
<1>1. Shape /\ Numbered /\ Marked /\ Shape' /\ Numbered'
  BY BatchEndsShape DEF Inv
<1>2. UNCHANGED <<edition, source, runs, billed, usable, counted, lost, queue, job, cancel>>
  BY DEF BatchEnds
<1>3. source <= source' /\ Marked'
  BY <1>1, <1>2, Numbers DEF Shape, Marked
<1>4. used' = used \/ \E kind \in Bounded : used' = [used EXCEPT ![kind] = @ + 1]
  BY Kinds DEF BatchEnds, Happens
<1> QED BY <1>1, <1>2, <1>3, <1>4, StandingKeeps

LEMMA FallSilentKeeps == ASSUME Inv, FallSilent PROVE Inv'
<1>1. Shape /\ Numbered /\ Marked
  BY DEF Inv
<1>2. /\ Shape' /\ Numbered'
      /\ \A x \in Sources : /\ runs'[x].status = runs[x].status /\ runs'[x].how = runs[x].how
                            /\ runs'[x].lines = runs[x].lines
  BY <1>1, FallSilentShape
<1>3. UNCHANGED <<edition, source, billed, usable, counted, lost, queue, job, cancel>>
  BY DEF FallSilent
<1>4. source <= source' /\ Marked'
  BY <1>1, <1>3, Numbers DEF Shape, Marked
<1>5. used' = used \/ \E kind \in Bounded : used' = [used EXCEPT ![kind] = @ + 1]
  BY Kinds DEF FallSilent, Happens
<1> QED BY <1>1, <1>2, <1>3, <1>4, <1>5, StandingKeeps

LEMMA StillInv == ASSUME Inv, UNCHANGED vars PROVE Inv'
<1>1. Shape' /\ Numbered' /\ Marked'
  BY DEF Inv, vars, Shape, Numbered, Marked
<1>2. source <= source'
  BY Numbers DEF vars, Inv, Shape
<1>3. UNCHANGED <<edition, billed, usable, counted, lost, queue, job, runs, used, cancel>>
  BY DEF vars
<1> QED BY <1>1, <1>2, <1>3, StandingKeeps

----------------------------------------------------------------------------
(* Every action keeps the invariant: what is done with an edition that has its text. *)

\* One message, and nobody busy.
LEMMA OneMessage ==
  ASSUME NEW m \in Messages, queue = <<>>, queue' = Append(queue, m)
  PROVE  Len(queue') = 1 /\ DOMAIN queue' = {1} /\ queue'[1] = m /\ queue' # <<>>
  OBVIOUS

LEMMA FreeDoesNothing ==
  /\ \A w \in Workers : job[w] = Free => ~Busy(w) /\ ~AtIt(w) /\ ~Trying(w) /\ ~Holding(w)
  /\ \A w \in Workers : job'[w] = Free => ~Busy(w)' /\ ~AtIt(w)' /\ ~Trying(w)' /\ ~Holding(w)'
  BY FreeIsNoJob DEF Busy, Trying, Holding, AtIt, Translating

\* A worker that leaves while it is alone leaves nobody busy.
LEMMA LeftAlone ==
  ASSUME Sole, NEW w \in Workers, Busy(w), job'[w] = Free, \A y \in Workers \ {w} : job'[y] = job[y]
  PROVE  queue = <<>> /\ \A y \in Workers : job'[y] = Free
  BY DEF Sole, Busy

\* A worker that is alone: the others are free and stay so.
LEMMA OthersFree ==
  ASSUME Sole, NEW w \in Workers, Busy(w), \A y \in Workers \ {w} : job'[y] = job[y]
  PROVE  queue = <<>> /\ \A y \in Workers \ {w} : job[y] = Free /\ job'[y] = Free
  BY DEF Sole, Busy

\* A worker that translates is alone.
LEMMA AtItAlone ==
  ASSUME Shape, Alone, NEW w \in Workers, AtIt(w) PROVE Sole /\ Busy(w)
  BY Sourced DEF Alone, NoTranslation

\* A message or a worker of the rest: there is no translation.
LEMMA OtherHead ==
  ASSUME Shape, Alone, queue # <<>>, queue[1].task \notin Tasks PROVE NoTranslation
<1>1. CASE Sole
  <2>1. \A w \in Workers : ~AtIt(w)
    BY <1>1, Sourced DEF Sole
  <2>2. \A i \in DOMAIN queue : i = 1
    BY <1>1 DEF Sole, Shape
  <2> QED BY <2>1, <2>2 DEF NoTranslation
<1> QED BY <1>1 DEF Alone

LEMMA OtherWork ==
  ASSUME Shape, Alone, NEW w \in Workers, Busy(w), ~AtIt(w) PROVE NoTranslation
<1>1. CASE Sole
  <2>1. queue = <<>> /\ \A y \in Workers : Busy(y) => y = w
    BY <1>1 DEF Sole
  <2> QED BY <2>1, Sourced DEF NoTranslation
<1> QED BY <1>1 DEF Alone

\* What moves neither a run nor what was billed, while there is no translation.
LEMMA FinishingKeeps ==
  ASSUME Inv, Shape', Numbered', Marked', UNCHANGED <<source, runs, billed, usable, counted, cancel>>,
         \A v \in Sources, c \in Chapters : lost[v][c] <= lost'[v][c],
         used' = used \/ \E kind \in Bounded : used' = [used EXCEPT ![kind] = @ + 1],
         edition.again => edition'.again,
         (Steady /\ Steady') => NoTranslation /\ NoTranslation',
         edition'.text = {} => edition' = edition,
         (used.delays = 0 /\ used'.delays = 0) => LastOfAll' /\ StaysIn'
  PROVE  Inv'
<1>1. Shape
  BY DEF Inv
<1>2. (used'.delays = 0 => used.delays = 0) /\ (Steady' => Steady) /\ (used'.crashes = 0 => used.crashes = 0)
  BY <1>1, UsedGrows
<1>3. ASSUME Steady' PROVE Alone' /\ GivenUp' /\ (Directly \/ InBatches)'
  <2>1. (Directly \/ InBatches) /\ NoTranslation /\ NoTranslation'
    BY <1>2, <1>3 DEF Inv
  <2>2. Alone' /\ GivenUp'
    BY <2>1 DEF Alone, GivenUp
  <2>3. /\ \A w \in Workers : ~AtIt(w) /\ ~Trying(w) /\ ~Holding(w) /\ job[w].step # "call"
        /\ \A w \in Workers : ~AtIt(w)' /\ ~Trying(w)' /\ ~Holding(w)' /\ job'[w].step # "call" /\ job'[w].step # "begin"
    BY <2>1 DEF NoTranslation, AtIt, Translating, Trying, Holding
  <2>4. CASE Directly
    <3>1. Saved'
      <4> SUFFICES ASSUME NEW v \in Sources, NEW c \in Chapters
                   PROVE  usable[v][c] <= 1 + lost'[v][c] /\ (~Paid(v, c)' => usable[v][c] <= lost'[v][c])
        BY DEF Saved
      <4>1. usable[v][c] <= 1 + lost[v][c] /\ (~Paid(v, c) => usable[v][c] <= lost[v][c])
        BY <2>4 DEF Directly, Saved
      <4>2. Paid(v, c) => Paid(v, c)'
        BY <2>3 DEF Paid, Carried
      <4>3. usable[v][c] \in Nat /\ lost[v][c] \in Nat /\ lost'[v][c] \in Nat /\ lost[v][c] <= lost'[v][c]
        BY <1>1 DEF Shape, Calls
      <4> QED BY <4>1, <4>2, <4>3
    <3>2. InHand'
      BY <2>3 DEF InHand
    <3>3. Accounted'
      BY <1>2, <2>3, <2>4 DEF Directly, Accounted
    <3>4. ~cancel'.open /\ DirectRuns' /\ DirectMessages' /\ DirectJobs'
      <4>1. DirectMessages'
        BY <2>1 DEF NoTranslation, DirectMessages, Tasks
      <4> QED BY <2>3, <2>4, <4>1 DEF Directly, DirectRuns, DirectJobs
    <3> QED BY <2>2, <3>1, <3>2, <3>3, <3>4 DEF Directly
  <2>5. CASE InBatches
    <3>1. Existing' = Existing /\ \A x \in Sources : Newest(x) => Newest(x)'
      BY NewestKept
    <3>2. Unbilled' /\ BatchRuns' /\ BatchFailed'
      BY <2>5, <3>1 DEF InBatches, Unbilled, BatchRuns, BatchFailed
    <3>3. BatchMessages' /\ BatchJobs'
      BY <2>1, <2>3 DEF NoTranslation, BatchMessages, BatchJobs, Tasks
    <3> QED BY <2>2, <2>5, <3>1, <3>2, <3>3 DEF InBatches
  <2> QED BY <2>1, <2>2, <2>4, <2>5
<1> QED BY <1>2, <1>3 DEF Inv

\* A step that begins no publication leaves what it finds.
LEMMA NotOut ==
  ASSUME Shape, LastOfAll, NEW w \in Workers, Busy(w), job[w].step # "hand", job'[w].step # "hand",
         \A y \in Workers \ {w} : job'[y] = job[y],
         \/ queue' = queue
         \/ \E m \in Messages : m.task \notin {"split", "publish"} /\ queue' = Append(queue, m),
         edition'.crossed = edition.crossed
  PROVE  LastOfAll'
<1>1. OnItsWay' => OnItsWay
  <2>1. Handing' => Handing
    BY DEF Handing
  <2>2. (\E i \in DOMAIN queue' : queue'[i].task \in {"split", "publish"}) =>
          \E i \in DOMAIN queue : queue[i].task \in {"split", "publish"}
    BY QueueShape
  <2> QED BY <2>1, <2>2 DEF OnItsWay
<1>2. ~OnlyOut
  BY DEF OnlyOut
<1> QED BY <1>1, <1>2 DEF LastOfAll

LEMMA FinishKeeps == ASSUME Inv, NEW w \in Workers, Hand(w) \/ Normalize(w) PROVE Inv'
<1>1. Shape /\ Numbered /\ Marked
  BY DEF Inv
<1>2. /\ Shape' /\ Numbered' /\ Busy(w) /\ job[w].step \in {"hand", "normalize"}
      /\ job'[w] = Free /\ \A y \in Workers \ {w} : job'[y] = job[y]
      /\ UNCHANGED <<source, runs, batches, billed, usable, counted, lost, queue, cancel>>
      /\ used' = used \/ used' = [used EXCEPT !["troubles"] = @ + 1]
      /\ edition'.text = edition.text
      /\ \A f \in {"auto", "cancelled", "crossed", "again"} : edition'[f] = edition[f]
      /\ \/ edition'.status = edition.status
         \/ job[w].step = "hand" /\ edition'.status = "published"
         \/ job[w].step = "normalize" /\ edition'.status \in {"review", "ready", "failed"}
  BY <1>1, FinishShape
<1>3. /\ edition'.auto = edition.auto /\ edition'.cancelled = edition.cancelled
      /\ edition'.crossed = edition.crossed /\ edition'.again = edition.again
  BY <1>2
<1>4. edition.text = Chapters /\ Chapters # {}
  BY <1>1, <1>2, Numbers DEF Marked
<1>5. Marked'
  BY <1>1, <1>2, <1>3, <1>4, FreeIsNoJob DEF Marked
<1>6. ASSUME Steady, Steady' PROVE NoTranslation /\ NoTranslation'
  <2>1. Alone /\ ~AtIt(w)
    BY <1>2, <1>6 DEF Inv, AtIt, Translating
  <2>2. NoTranslation
    BY <1>1, <1>2, <2>1, OtherWork
  <2>3. \A y \in Workers : ~AtIt(y)'
    BY <1>2, <2>2, FreeDoesNothing DEF NoTranslation, AtIt
  <2> QED BY <1>2, <2>2, <2>3 DEF NoTranslation
<1>7. ASSUME used.delays = 0, used'.delays = 0 PROVE LastOfAll' /\ StaysIn'
  <2>1. LastOfAll /\ StaysIn
    BY <1>7 DEF Inv
  <2>2. CASE job[w].step = "normalize"
    <3>1. LastOfAll'
      BY <1>1, <1>2, <1>3, <2>1, <2>2, FreeIsNoJob, NotOut
    <3> QED BY <1>2, <1>3, <2>1, <2>2, <3>1 DEF StaysIn
  <2>3. CASE job[w].step = "hand"
    <3>1. Handing /\ OnItsWay
      BY <2>3 DEF Handing, OnItsWay
    <3>2. ~edition.crossed => OnlyOut /\ ~edition.cancelled
      BY <2>1, <3>1 DEF LastOfAll
    <3>3. OnlyOut => OnlyOut'
      BY <1>2, FreeDoesNothing DEF OnlyOut, Busy
    <3> QED BY <1>3, <3>2, <3>3 DEF LastOfAll, StaysIn
  <2> QED BY <1>2, <2>2, <2>3
<1>8. used' = used \/ \E kind \in Bounded : used' = [used EXCEPT ![kind] = @ + 1]
  BY <1>2, Kinds
<1>9. \A v \in Sources, c \in Chapters : lost[v][c] <= lost'[v][c]
  BY <1>1, <1>2 DEF Shape, Calls
<1> QED BY <1>2, <1>3, <1>4, <1>5, <1>6, <1>7, <1>8, <1>9, FinishingKeeps

LEMMA FollowedKeeps ==
  ASSUME Inv, NEW w \in Workers, Deliver(w), NEW m \in Messages, m = queue[1], queue # <<>>, job[w] = Free,
         Followed(w, m)
  PROVE  Inv'
<1>1. Shape /\ Numbered /\ Marked /\ Shape' /\ Numbered'
  BY DeliverShape DEF Inv
<1>2. UNCHANGED <<source, batches, billed, usable, counted, lost, cancel>> /\ runs' = runs
  BY DEF Deliver, Followed
<1>3. /\ 1 \in DOMAIN queue /\ m.task \in {"split", "publish", "normalize"}
      /\ \A i \in DOMAIN Tail(queue) : i + 1 \in DOMAIN queue /\ Tail(queue)[i] = queue[i + 1]
  BY <1>1, Delivered DEF Followed, Shape
<1>4. PICK out \in Messages : out = Send("publish", 0) /\ out.task = "publish"
  BY SentIsMessage DEF Send
<1>5. /\ \/ queue' = Tail(queue)
         \/ m.task = "split" /\ queue' = Append(Tail(queue), out) /\ job' = job /\ edition' = edition
      /\ \A i \in DOMAIN queue' : queue'[i] = out \/ (i + 1 \in DOMAIN queue /\ queue'[i] = queue[i + 1])
      /\ (\E i \in DOMAIN queue' : queue'[i] = out /\ ~(i + 1 \in DOMAIN queue /\ queue'[i] = queue[i + 1])) => m.task = "split"
  <2>1. \/ queue' = Tail(queue)
        \/ m.task = "split" /\ queue' = Append(Tail(queue), out) /\ job' = job /\ edition' = edition
    BY <1>4 DEF Followed
  <2>2. CASE queue' = Tail(queue)
    BY <1>3, <2>1, <2>2
  <2>3. CASE m.task = "split" /\ queue' = Append(Tail(queue), out) /\ job' = job /\ edition' = edition
    BY <1>1, <2>3, Moved
  <2> QED BY <2>1, <2>2, <2>3
<1>6. /\ edition'.text = edition.text
      /\ edition'.auto = edition.auto /\ edition'.cancelled = edition.cancelled
      /\ edition'.crossed = edition.crossed /\ edition'.again = edition.again
      /\ edition'.status = edition.status \/ (edition'.status = "processing" /\ m.task = "normalize")
  <2>1. edition \in Rows
    BY <1>1 DEF Shape
  <2>2. \/ edition' = edition \/ edition' = [edition EXCEPT !.aside = TRUE]
        \/ m.task = "normalize" /\ edition' = [edition EXCEPT !.status = "processing"]
    BY DEF Followed
  <2> QED BY <2>1, <2>2 DEF Rows
<1>7. edition.text = Chapters /\ Chapters # {}
  BY <1>1, <1>3, Numbers DEF Marked, Tasks
<1>8. /\ \A y \in Workers \ {w} : job'[y] = job[y]
      /\ \/ job' = job
         \/ m.task = "publish" /\ edition.status = "ready" /\ edition' = edition /\ job'[w].step = "hand"
         \/ m.task = "normalize" /\ job'[w].step = "normalize"
  <2>1. source \in Sources
    BY <1>1 DEF Shape
  <2>2. \/ job' = job
        \/ m.task = "publish" /\ edition.status = "ready" /\ edition' = edition /\ job' = [job EXCEPT ![w] = Taken(m, "hand", source)]
        \/ m.task = "normalize" /\ job' = [job EXCEPT ![w] = Taken(m, "normalize", source)]
    BY DEF Followed
  <2>3. /\ Taken(m, "hand", source) \in Jobs /\ Taken(m, "normalize", source) \in Jobs
        /\ Taken(m, "hand", source).step = "hand" /\ Taken(m, "normalize", source).step = "normalize"
    BY <1>1, <2>1, OtherJobs DEF Shape
  <2> QED BY <1>1, <2>2, <2>3, JobShape
<1>9. Marked'
  BY <1>1, <1>4, <1>5, <1>6, <1>7, <1>8 DEF Marked
<1>10. ASSUME Steady, Steady' PROVE NoTranslation /\ NoTranslation'
  <2>1. NoTranslation
    BY <1>1, <1>3, <1>10, OtherHead DEF Inv, Tasks
  <2>2. \A i \in DOMAIN queue' : queue'[i].task \notin Tasks
    BY <1>4, <1>5, <2>1 DEF NoTranslation, Tasks
  <2>3. \A y \in Workers : ~AtIt(y)'
    BY <1>8, <2>1 DEF NoTranslation, AtIt, Translating
  <2> QED BY <2>1, <2>2, <2>3 DEF NoTranslation
<1>11. ASSUME used.delays = 0, used'.delays = 0 PROVE LastOfAll' /\ StaysIn'
  <2>1. LastOfAll /\ StaysIn
    BY <1>11 DEF Inv
  <2>2. StaysIn'
    BY <1>6, <2>1 DEF StaysIn
  <2>3. OnItsWay' => OnItsWay
    <3>1. (\E i \in DOMAIN queue' : queue'[i].task \in {"split", "publish"}) => OnItsWay
      BY <1>3, <1>5 DEF OnItsWay
    <3>2. Handing' => OnItsWay
      BY <1>3, <1>8 DEF Handing, OnItsWay
    <3> QED BY <3>1, <3>2 DEF OnItsWay
  <2>4. LastOfAll'
    <3> SUFFICES ASSUME OnItsWay', ~edition.crossed
                 PROVE  OnlyOut' /\ (edition.cancelled => edition'.status = "failed" /\ ~Handing')
      BY <1>6 DEF LastOfAll
    <3>1. OnlyOut /\ (edition.cancelled => edition.status = "failed" /\ ~Handing)
      BY <2>1, <2>3 DEF LastOfAll
    <3>2. m.task # "normalize"
      BY <1>3, <3>1 DEF OnlyOut
    <3>3. \A i \in DOMAIN queue' : queue'[i].task \in {"split", "publish"}
      BY <1>4, <1>5, <3>1 DEF OnlyOut
    <3>4. OnlyOut'
      BY <1>8, <3>1, <3>2, <3>3 DEF OnlyOut, Busy
    <3>5. edition.cancelled => edition'.status = "failed" /\ ~Handing'
      BY <1>6, <1>8, <3>1, <3>2 DEF Handing
    <3> QED BY <3>4, <3>5
  <2> QED BY <2>2, <2>4
<1>12. used' = used \/ \E kind \in Bounded : used' = [used EXCEPT ![kind] = @ + 1]
  BY Kinds DEF Followed
<1>13. \A v \in Sources, c \in Chapters : lost[v][c] <= lost'[v][c]
  BY <1>1, <1>2 DEF Shape, Calls
<1> QED BY <1>1, <1>2, <1>6, <1>7, <1>9, <1>10, <1>11, <1>12, <1>13, FinishingKeeps

LEMMA RetryIs ==
  ASSUME Shape, Retry
  PROVE  /\ UNCHANGED <<source, runs, batches, billed, usable, counted, lost, job, cancel>>
         /\ used' = [used EXCEPT !["asks"] = @ + 1]
         /\ edition.status = "failed"
         /\ edition'.text = edition.text /\ edition'.auto = edition.auto /\ edition'.cancelled = edition.cancelled
         /\ edition'.again = (edition.again \/ edition.cancelled)
         /\ \/ /\ edition.text = {} /\ edition'.status = "processing" /\ edition'.crossed = edition.crossed
               /\ queue' = Append(queue, Send(LastMode, 0))
            \/ /\ edition.text # {} /\ edition'.status = "failed"
               /\ edition'.crossed = (edition.crossed \/ OnItsWay)
               /\ queue' = Append(queue, Send("normalize", 0))
<1>1. edition \in Rows
  BY DEF Shape
<1>2. /\ UNCHANGED <<source, runs, batches, billed, usable, counted, lost, job, cancel>>
      /\ used' = [used EXCEPT !["asks"] = @ + 1] /\ edition.status = "failed"
  BY DEF Retry, Happens
<1>3. CASE edition.text = {}
  <2>1. /\ edition' = [edition EXCEPT !.status = "processing", !.again = @ \/ edition.cancelled]
        /\ queue' = Append(queue, Send(LastMode, 0))
    BY <1>3, ZenonT(40) DEF Retry
  <2> QED BY <1>1, <1>2, <1>3, <2>1 DEF Rows
<1>4. CASE edition.text # {}
  <2>1. /\ edition' = [edition EXCEPT !.crossed = @ \/ OnItsWay, !.aside = TRUE,
                                      !.again = @ \/ edition.cancelled]
        /\ queue' = Append(queue, Send("normalize", 0))
    BY <1>4, ZenonT(40) DEF Retry
  <2> QED BY <1>1, <1>2, <1>4, <2>1 DEF Rows
<1> QED BY <1>3, <1>4

\* What waits after one more message was put at the end.
LEMMA Waiting ==
  ASSUME Shape, NEW m \in Messages, queue' = Append(queue, m)
  PROVE  /\ \A i \in DOMAIN queue' : queue'[i] = m \/ (i \in DOMAIN queue /\ queue'[i] = queue[i])
         /\ \A i \in DOMAIN queue : i \in DOMAIN queue' /\ queue'[i] = queue[i]
  BY DEF Shape

LEMMA RetryKeeps == ASSUME Inv, Retry PROVE Inv'
<1>1. Shape /\ Numbered /\ Marked /\ Shape' /\ Numbered'
  BY PeopleShape DEF Inv
<1>2. /\ UNCHANGED <<source, runs, batches, billed, usable, counted, lost, job, cancel>>
      /\ used' = [used EXCEPT !["asks"] = @ + 1]
      /\ edition.status = "failed"
      /\ edition'.text = edition.text /\ edition'.auto = edition.auto /\ edition'.cancelled = edition.cancelled
      /\ edition'.again = (edition.again \/ edition.cancelled)
      /\ \/ /\ edition.text = {} /\ edition'.status = "processing" /\ edition'.crossed = edition.crossed
            /\ queue' = Append(queue, Send(LastMode, 0))
         \/ /\ edition.text # {} /\ edition'.status = "failed"
            /\ edition'.crossed = (edition.crossed \/ OnItsWay)
            /\ queue' = Append(queue, Send("normalize", 0))
  BY <1>1, RetryIs
<1>3. edition.text = {} \/ edition.text = Chapters
  BY <1>1 DEF Shape, Rows
<1>4. (used'.delays = 0 => used.delays = 0) /\ (Steady' => Steady) /\ (used'.crashes = 0 => used.crashes = 0)
  BY <1>1, <1>2, Kinds, UsedGrows
<1>5. CASE edition.text # {}
  <2>1. PICK m \in Messages : m = Send("normalize", 0) /\ m.task = "normalize"
    BY SentIsMessage DEF Send
  <2>2. queue' = Append(queue, m)
    BY <1>2, <1>5, <2>1
  <2>3. /\ \A i \in DOMAIN queue' : queue'[i] = m \/ (i \in DOMAIN queue /\ queue'[i] = queue[i])
        /\ \A i \in DOMAIN queue : i \in DOMAIN queue' /\ queue'[i] = queue[i]
    BY <1>1, <2>2, Waiting
  <2>4. Marked'
    BY <1>1, <1>2, <1>3, <1>5, <2>1, <2>3 DEF Marked
  <2>5. ASSUME Steady, Steady' PROVE NoTranslation /\ NoTranslation'
    <3>1. ~edition.cancelled
      BY <1>2, <2>5 DEF Steady
    <3>2. NoTranslation
      BY <1>2, <2>5, <3>1 DEF Inv, GivenUp
    <3> QED BY <1>2, <2>1, <2>3, <3>2 DEF NoTranslation, Tasks, AtIt
  <2>6. LastOfAll'
    <3>1. OnItsWay' => OnItsWay
      BY <1>2, <2>1, <2>3 DEF OnItsWay, Handing
    <3> QED BY <1>2, <1>5, <3>1 DEF LastOfAll
  <2>7. StaysIn'
    BY <1>2, <1>5 DEF StaysIn
  <2>8. used' = used \/ \E kind \in Bounded : used' = [used EXCEPT ![kind] = @ + 1]
    BY <1>2, Kinds
  <2>9. \A v \in Sources, c \in Chapters : lost[v][c] <= lost'[v][c]
    BY <1>1, <1>2 DEF Shape, Calls
  <2> QED BY <1>1, <1>2, <1>5, <2>4, <2>5, <2>6, <2>7, <2>8, <2>9, FinishingKeeps
<1>6. CASE edition.text = {}
  <2>1. PICK m \in Messages : m = Send(LastMode, 0) /\ m.task = LastMode /\ LastMode \in {"batch", "direct"}
    BY SentIsMessage DEF Send, LastMode
  <2>2. queue' = Append(queue, m)
    BY <1>2, <1>6, <2>1
  <2>3. /\ \A i \in DOMAIN queue' : queue'[i] = m \/ (i \in DOMAIN queue /\ queue'[i] = queue[i])
        /\ \A i \in DOMAIN queue : i \in DOMAIN queue' /\ queue'[i] = queue[i]
    BY <1>1, <2>2, Waiting
  <2>4. Chapters # {} /\ edition.text # Chapters
    BY <1>6, Numbers
  <2>5. Marked'
    BY <1>1, <1>2, <1>6, <2>1, <2>3 DEF Marked, Tasks
  <2>6. ~OnItsWay'
    <3>1. ~OnItsWay
      BY <1>1, <2>4 DEF Marked, OnItsWay, Handing, Tasks
    <3> QED BY <1>2, <2>1, <2>3, <3>1 DEF OnItsWay, Handing
  <2>7. LastOfAll' /\ StaysIn'
    BY <1>2, <1>6, <2>6 DEF LastOfAll, StaysIn
  <2>8. ASSUME Steady' PROVE Alone' /\ GivenUp' /\ (Directly \/ InBatches)'
    <3>1. Steady /\ ~edition.cancelled
      BY <1>2, <1>4, <2>8 DEF Steady
    <3>2. NoTranslation /\ (Directly \/ InBatches)
      BY <1>2, <3>1 DEF Inv, GivenUp
    <3>3. queue = <<>>
      <4>1. \A i \in DOMAIN queue : FALSE
        BY <1>1, <2>4, <3>2 DEF NoTranslation, Marked
      <4>2. queue \in Seq(Messages)
        BY <1>1 DEF Shape
      <4>3. Len(queue) \in Nat /\ DOMAIN queue = 1 .. Len(queue)
        BY <4>2
      <4>4. Len(queue) = 0
        BY <4>1, <4>3
      <4> QED BY <4>2, <4>4
    <3>4. \A w \in Workers : ~Busy(w) /\ job[w] = Free
      <4>1. \A w \in Workers : job[w].step \notin {"hand", "normalize"} /\ ~AtIt(w)
        BY <1>1, <2>4, <3>2 DEF NoTranslation, Marked
      <4>2. \A w \in Workers : job[w] \in Jobs \cup {Free}
        BY <1>1 DEF Shape
      <4> QED BY <4>1, <4>2, FreeIsNoJob DEF Busy, AtIt, Steps
    <3>5. /\ \A w \in Workers : ~Busy(w)' /\ ~AtIt(w)' /\ ~Trying(w)' /\ ~Holding(w)' /\ job'[w].step # "call" /\ job'[w].step # "begin"
          /\ \A w \in Workers : ~Holding(w) /\ job[w].step # "call"
      BY <1>2, <3>4, FreeDoesNothing, FreeIsNoJob
    <3>6. Len(queue') = 1 /\ DOMAIN queue' = {1} /\ queue'[1] = m
      BY <2>2, <3>3, OneMessage
    <3>7. Alone' /\ GivenUp'
      BY <1>2, <1>6, <3>5, <3>6 DEF Alone, Sole, GivenUp
    <3>8. CASE Directly
      <4>1. LastMode = "direct"
        BY <3>8, LatestIsNewest DEF LastMode, Directly, DirectRuns
      <4>2. ~cancel'.open /\ DirectRuns' /\ DirectMessages' /\ DirectJobs'
        BY <1>2, <2>1, <3>5, <3>6, <3>8, <4>1 DEF Directly, DirectRuns, DirectMessages, DirectJobs
      <4>3. Saved'
        BY <1>2, <3>5, <3>8 DEF Directly, Saved, Paid, Carried
      <4>4. InHand' /\ Accounted'
        BY <1>2, <1>4, <3>5, <3>8 DEF Directly, InHand, Accounted
      <4> QED BY <3>7, <4>2, <4>3, <4>4 DEF Directly
    <3>9. CASE InBatches
      <4>1. PICK v \in Sources : Newest(v) /\ runs[v].how = "batch"
        BY <1>2, <1>6, <3>1, <3>9 DEF InBatches, BatchFailed
      <4>2. v \in Existing /\ \A x \in Existing : x <= v
        BY <4>1 DEF Newest, Existing
      <4>3. Latest = v
        <5>1. Latest \in Existing /\ Latest \in Sources /\ v <= Latest
          BY <4>2, LatestIsNewest
        <5> QED BY <4>2, <5>1, Numbers
      <4>4. LastMode = "batch"
        BY <4>1, <4>2, <4>3 DEF LastMode
      <4>5. Existing' = Existing /\ \A x \in Sources : Newest(x) => Newest(x)'
        BY <1>2, NewestKept
      <4>6. Unbilled' /\ BatchRuns' /\ BatchFailed'
        BY <1>2, <1>6, <3>9 DEF InBatches, Unbilled, BatchRuns, BatchFailed
      <4>7. BatchMessages' /\ BatchJobs'
        BY <2>1, <3>5, <3>6, <4>4 DEF BatchMessages, BatchJobs
      <4> QED BY <1>2, <3>7, <3>9, <4>5, <4>6, <4>7 DEF InBatches
    <3> QED BY <3>2, <3>8, <3>9
  <2> QED BY <1>1, <2>5, <2>7, <2>8 DEF Inv
<1> QED BY <1>5, <1>6

----------------------------------------------------------------------------
(* Every action keeps the invariant: workers. *)

\* What a worker has taken is of the rest, or a translation's.
LEMMA Given ==
  ASSUME Shape, Numbered, NEW w \in Workers, job[w] # Free
  PROVE  /\ job[w] \in Jobs /\ job[w].msg \in Messages /\ job[w].of \in Sources
         /\ AtIt(w) => job[w].msg.task \in Tasks
         /\ ~AtIt(w) => \/ job[w].step = "hand" /\ job[w].msg.task = "publish"
                        \/ job[w].step = "normalize" /\ job[w].msg.task = "normalize"
<1>1. job[w] \in Jobs /\ Seated(job[w], Len(batches))
  BY DEF Shape, Numbered
<1>2. job[w].msg \in Messages /\ job[w].of \in Sources /\ job[w].step \in Steps
  BY <1>1, FreeIsNoJob
<1>3. job[w].msg.task \in {"batch", "direct", "split", "publish", "normalize", "poll"}
  BY <1>2, MessageFacts
<1> QED BY <1>1, <1>2, <1>3 DEF Seated, AtIt, Steps, Translating, Tasks

LEMMA RedeliverKeeps == ASSUME Inv, NEW w \in Workers, Redeliver(w) PROVE Inv'
<1>1. Shape /\ Numbered /\ Marked
  BY DEF Inv
<1>2. Shape' /\ Numbered'
  BY <1>1, RedeliverShape
<1>3. used' = [used EXCEPT !["delays"] = @ + 1]
  BY DEF Redeliver, Happens
<1>4. used'.delays # 0
  BY <1>1, <1>3 DEF Shape, Counters
<1>5. edition' = edition /\ job' = job /\ queue' = Append(queue, job[w].msg) /\ job[w] # Free
  BY DEF Redeliver
<1>6. PICK m \in Messages : m = job[w].msg /\ (m.task \notin Tasks => edition.text = Chapters)
  BY <1>1, <1>5, Given DEF Marked
<1>7. Marked'
  BY <1>1, <1>5, <1>6, Waiting DEF Marked
<1> QED BY <1>2, <1>4, <1>7 DEF Inv, Steady

LEMMA CrashKeeps == ASSUME Inv, NEW w \in Workers, Crash(w) PROVE Inv'
<1>1. Shape /\ Numbered /\ Marked
  BY DEF Inv
<1>2. /\ Shape' /\ Numbered' /\ job[w] \in Jobs /\ job[w].msg \in Messages /\ used'.crashes > 0
      /\ job'[w] = Free /\ \A y \in Workers \ {w} : job'[y] = job[y]
      /\ \A x \in Sources, c \in Chapters :
           lost'[x][c] = IF x = job[w].of /\ c \in job[w].good THEN lost[x][c] + 1 ELSE lost[x][c]
  BY <1>1, CrashShape
<1>3. /\ UNCHANGED <<edition, source, runs, batches, billed, usable, counted, cancel>>
      /\ queue' = Append(queue, job[w].msg) /\ Busy(w) /\ job[w] # Free
      /\ used' = [used EXCEPT !["crashes"] = @ + 1]
  BY DEF Crash, Busy, Happens
<1>4. PICK m \in Messages :
        /\ m = job[w].msg
        /\ AtIt(w) => m.task \in Tasks
        /\ ~AtIt(w) => \/ job[w].step = "hand" /\ m.task = "publish"
                       \/ job[w].step = "normalize" /\ m.task = "normalize"
  BY <1>1, <1>3, Given
<1>5. PICK v \in Sources : v = job[w].of
  BY <1>1, <1>3, Given
<1>6. (used'.delays = 0 => used.delays = 0) /\ (Steady' => Steady)
  BY <1>1, <1>3, Kinds, UsedGrows
<1>7. /\ \A i \in DOMAIN queue' : queue'[i] = m \/ (i \in DOMAIN queue /\ queue'[i] = queue[i])
      /\ \A i \in DOMAIN queue : i \in DOMAIN queue' /\ queue'[i] = queue[i]
  BY <1>1, <1>3, <1>4, Waiting
<1>8. Marked'
  BY <1>1, <1>2, <1>3, <1>4, <1>7, FreeIsNoJob DEF Marked
<1>9. \A x \in Sources, c \in Chapters :
        /\ lost[x][c] \in Nat /\ lost'[x][c] \in Nat /\ usable[x][c] \in Nat /\ lost[x][c] <= lost'[x][c]
  <2>1. /\ lost \in [Sources -> [Chapters -> Nat]] /\ lost' \in [Sources -> [Chapters -> Nat]]
        /\ usable \in [Sources -> [Chapters -> Nat]]
    BY <1>1, <1>2 DEF Shape, Calls
  <2> TAKE x \in Sources, c \in Chapters
  <2>2. lost[x][c] \in Nat /\ lost'[x][c] \in Nat /\ usable[x][c] \in Nat
    BY <2>1
  <2>3. lost'[x][c] = lost[x][c] + 1 \/ lost'[x][c] = lost[x][c]
    BY <1>2
  <2> QED BY <2>2, <2>3
<1>10. ASSUME used.delays = 0, used'.delays = 0 PROVE LastOfAll' /\ StaysIn'
  <2>1. LastOfAll /\ StaysIn
    BY <1>10 DEF Inv
  <2>2. StaysIn'
    BY <1>3, <2>1 DEF StaysIn
  <2>3. CASE job[w].step # "hand"
    <3>1. m.task \notin {"split", "publish"}
      BY <1>4, <2>3 DEF Tasks
    <3>2. job'[w].step # "hand"
      BY <1>2, FreeIsNoJob
    <3> QED BY <1>1, <1>2, <1>3, <1>4, <2>1, <2>2, <2>3, <3>1, <3>2, NotOut
  <2>4. CASE job[w].step = "hand"
    <3>1. Handing /\ OnItsWay
      BY <2>4 DEF Handing, OnItsWay
    <3>2. ~edition.crossed => OnlyOut /\ ~edition.cancelled
      BY <2>1, <3>1 DEF LastOfAll
    <3>3. m.task = "publish"
      BY <1>4, <2>4 DEF AtIt, Translating
    <3>4. OnlyOut => OnlyOut'
      BY <1>2, <1>7, <3>3, FreeDoesNothing DEF OnlyOut, Busy
    <3> QED BY <1>3, <2>2, <3>2, <3>4 DEF LastOfAll
  <2> QED BY <2>3, <2>4
<1>11. CASE ~AtIt(w)
  <2>1. ASSUME Steady, Steady' PROVE NoTranslation /\ NoTranslation'
    <3>1. NoTranslation
      BY <1>1, <1>3, <1>11, <2>1, OtherWork DEF Inv
    <3>2. \A i \in DOMAIN queue' : queue'[i].task \notin Tasks
      BY <1>4, <1>7, <1>11, <3>1 DEF NoTranslation, Tasks
    <3>3. \A y \in Workers : ~AtIt(y)'
      BY <1>2, <3>1, FreeDoesNothing DEF NoTranslation, AtIt
    <3> QED BY <3>1, <3>2, <3>3 DEF NoTranslation
  <2>2. used' = used \/ \E kind \in Bounded : used' = [used EXCEPT ![kind] = @ + 1]
    BY <1>3, Kinds
  <2> QED BY <1>2, <1>3, <1>8, <1>9, <1>10, <2>1, <2>2, FinishingKeeps
<1>12. CASE AtIt(w)
  <2>1. ASSUME Steady' PROVE Alone' /\ GivenUp' /\ (Directly \/ InBatches)'
    <3>1. Alone /\ GivenUp /\ (Directly \/ InBatches) /\ Sole /\ ~NoTranslation
      BY <1>1, <1>6, <1>12, <2>1, AtItAlone DEF Inv, NoTranslation
    <3>2. queue = <<>> /\ \A y \in Workers : job'[y] = Free
      BY <1>2, <1>3, <3>1, LeftAlone
    <3>3. \A y \in Workers : ~Busy(y)' /\ ~AtIt(y)' /\ ~Trying(y)' /\ ~Holding(y)' /\ job'[y].step # "call" /\ job'[y].step # "begin"
      BY <3>2, FreeDoesNothing, FreeIsNoJob
    <3>4. Len(queue') = 1 /\ DOMAIN queue' = {1} /\ queue'[1] = m
      BY <1>3, <1>4, <3>2, OneMessage
    <3>5. Alone'
      BY <3>3, <3>4 DEF Alone, Sole
    <3>6. GivenUp'
      BY <1>3, <3>1 DEF GivenUp
    <3>7. CASE Directly
      <4>1. ~cancel'.open /\ DirectRuns' /\ DirectMessages' /\ DirectJobs'
        BY <1>3, <1>4, <1>12, <3>3, <3>4, <3>7 DEF Directly, DirectRuns, DirectMessages, DirectJobs
      <4>2. Saved'
        <5> SUFFICES ASSUME NEW x \in Sources, NEW c \in Chapters
                     PROVE  usable[x][c] <= 1 + lost'[x][c] /\ (~Paid(x, c)' => usable[x][c] <= lost'[x][c])
          BY <1>3 DEF Saved
        <5>1. usable[x][c] <= 1 + lost[x][c] /\ (~Paid(x, c) => usable[x][c] <= lost[x][c])
          BY <3>7 DEF Directly, Saved
        <5>2. CASE Carried(x, c)
          <6>1. PICK y \in Workers : job[y].step = "call" /\ job[y].of = x /\ c \in job[y].good
            BY <5>2 DEF Carried
          <6>2. y = w
            BY <1>2, <1>3, <3>1, <6>1, OthersFree, FreeIsNoJob
          <6>3. lost'[x][c] = lost[x][c] + 1
            BY <1>2, <6>1, <6>2
          <6> QED BY <1>9, <5>1, <6>3
        <5>3. CASE ~Carried(x, c)
          BY <1>3, <1>9, <5>1, <5>3 DEF Paid
        <5> QED BY <5>2, <5>3
      <4>3. InHand'
        BY <3>3 DEF InHand
      <4>4. Accounted'
        BY <1>2 DEF Accounted
      <4> QED BY <3>5, <3>6, <4>1, <4>2, <4>3, <4>4 DEF Directly
    <3>8. CASE InBatches
      <4>1. Existing' = Existing /\ \A x \in Sources : Newest(x) => Newest(x)'
        BY <1>3, NewestKept
      <4>2. Unbilled' /\ BatchRuns' /\ BatchFailed'
        BY <1>3, <3>8, <4>1 DEF InBatches, Unbilled, BatchRuns, BatchFailed
      <4>3. m.of \in Sources
        BY MessageFacts
      <4>4. BatchMessages' /\ BatchJobs'
        BY <1>3, <1>4, <1>5, <1>12, <3>3, <3>4, <3>8, <4>1, <4>3 DEF InBatches, BatchMessages, BatchJobs
      <4> QED BY <1>3, <3>5, <3>6, <3>8, <4>1, <4>2, <4>4 DEF InBatches
    <3> QED BY <3>1, <3>7, <3>8
  <2> QED BY <1>2, <1>6, <1>8, <1>10, <2>1 DEF Inv
<1> QED BY <1>11, <1>12


----------------------------------------------------------------------------
(* Every action keeps the invariant: a worker at the translation. *)

\* A worker that is alone stays alone, or leaves at most a message behind; when the translation
\* failed, it leaves none.
LEMMA WorkAlone ==
  ASSUME Shape, Alone, GivenUp, NEW w \in Workers, AtIt(w), \A y \in Workers \ {w} : job'[y] = job[y],
         \/ queue' = queue
         \/ job'[w] = Free /\ \E m \in Messages : queue' = Append(queue, m),
         edition'.status = "failed" => \/ edition' = edition
                                       \/ queue' = queue /\ job'[w] = Free
  PROVE  Alone' /\ GivenUp'
<1>1. Sole /\ Busy(w) /\ ~NoTranslation
  BY AtItAlone DEF NoTranslation
<1>2. queue = <<>> /\ \A y \in Workers \ {w} : job[y] = Free /\ job'[y] = Free
  BY <1>1, OthersFree
<1>3. \A y \in Workers \ {w} : ~Busy(y)' /\ ~AtIt(y)'
  BY <1>2, FreeDoesNothing
<1>4. edition'.status = "failed" /\ ~edition'.cancelled => queue' = queue /\ job'[w] = Free
  BY <1>1 DEF GivenUp
<1>5. CASE queue' = queue
  <2>1. Sole'
    BY <1>2, <1>3, <1>5 DEF Sole
  <2>2. GivenUp'
    BY <1>2, <1>3, <1>4, <1>5, FreeDoesNothing DEF GivenUp, NoTranslation
  <2> QED BY <2>1, <2>2 DEF Alone
<1>6. CASE job'[w] = Free /\ queue' # queue
  <2>1. PICK m \in Messages : queue' = Append(queue, m)
    BY <1>6
  <2>2. Len(queue') = 1
    BY <1>2, <2>1, OneMessage
  <2>3. \A y \in Workers : ~Busy(y)'
    BY <1>3, <1>6, FreeDoesNothing
  <2> QED BY <1>4, <1>6, <2>2, <2>3 DEF Alone, Sole, GivenUp
<1> QED BY <1>5, <1>6

\* What a translation's worker keeps, besides what its runs are about.
LEMMA StepKeeps ==
  ASSUME Inv, Shape', Numbered', NEW w \in Workers, AtIt(w), \A y \in Workers \ {w} : job'[y] = job[y],
         job'[w] = Free \/ job'[w].step \in Translating,
         \/ queue' = queue
         \/ job'[w] = Free /\ \E m \in Messages : m.task \in Tasks /\ queue' = Append(queue, m),
         used' = used \/ \E kind \in Bounded : used' = [used EXCEPT ![kind] = @ + 1],
         edition'.auto = edition.auto, edition'.cancelled = edition.cancelled,
         edition'.crossed = edition.crossed, edition'.again = edition.again,
         \/ edition' = edition
         \/ edition'.status \in {"review", "ready"} /\ edition'.text = Chapters
         \/ edition'.status = "failed" /\ edition'.text = edition.text /\ queue' = queue /\ job'[w] = Free,
         (Steady /\ Steady' /\ Sole /\ GivenUp /\ Alone' /\ GivenUp' /\ (Directly \/ InBatches)) =>
           (Directly \/ InBatches)'
  PROVE  Inv'
<1>1. Shape /\ Numbered /\ Marked
  BY DEF Inv
<1>2. (used'.delays = 0 => used.delays = 0) /\ (Steady' => Steady) /\ (used'.crashes = 0 => used.crashes = 0)
  BY <1>1, UsedGrows
<1>3. job[w].step \notin {"hand", "normalize"} /\ job'[w].step \notin {"hand", "normalize"} /\ Busy(w)
  BY <1>1, FreeIsNoJob, Sourced DEF AtIt, Translating
<1>4. \A i \in DOMAIN queue' : queue'[i].task \in Tasks \/ (i \in DOMAIN queue /\ queue'[i] = queue[i])
  <2>1. CASE queue' = queue
    BY <2>1
  <2>2. CASE \E m \in Messages : m.task \in Tasks /\ queue' = Append(queue, m)
    BY <1>1, <2>2, QueueShape
  <2> QED BY <2>1, <2>2
<1>5. Marked'
  <2>1. edition'.text = edition.text \/ edition'.text = Chapters
    OBVIOUS
  <2>2. edition.text = Chapters => edition'.text = Chapters
    BY <2>1
  <2>3. edition'.status \in {"review", "ready", "published"} => edition'.text = Chapters
    BY <1>1 DEF Marked
  <2>4. \A i \in DOMAIN queue' : queue'[i].task \notin Tasks => edition'.text = Chapters
    BY <1>1, <1>4, <2>2 DEF Marked
  <2>5. \A y \in Workers : job'[y].step \in {"hand", "normalize"} => edition'.text = Chapters
    BY <1>1, <1>3, <2>2 DEF Marked
  <2> QED BY <1>1, <2>3, <2>4, <2>5 DEF Marked
<1>6. ASSUME used'.delays = 0 PROVE LastOfAll' /\ StaysIn'
  <2>1. LastOfAll /\ StaysIn
    BY <1>2, <1>6 DEF Inv
  <2>2. LastOfAll'
    <3>1. \/ queue' = queue
          \/ \E m \in Messages : m.task \notin {"split", "publish"} /\ queue' = Append(queue, m)
      BY DEF Tasks
    <3> QED BY <1>1, <1>3, <2>1, <3>1, NotOut
  <2> QED BY <2>1, <2>2 DEF StaysIn
<1>7. ASSUME Steady' PROVE Alone' /\ GivenUp' /\ (Directly \/ InBatches)'
  <2>1. Steady /\ Alone /\ GivenUp /\ (Directly \/ InBatches)
    BY <1>2, <1>7 DEF Inv
  <2>2. Sole
    BY <1>1, <2>1, AtItAlone
  <2>3. Alone' /\ GivenUp'
    BY <1>1, <2>1, WorkAlone
  <2> QED BY <1>7, <2>1, <2>2, <2>3
<1> QED BY <1>5, <1>6, <1>7 DEF Inv

\* A step of a batch's worker.
LEMMA BatchStep ==
  ASSUME Shape, Sole, GivenUp, InBatches, NEW w \in Workers, AtIt(w),
         \A y \in Workers \ {w} : job'[y] = job[y],
         UNCHANGED <<source, billed, usable, cancel>>,
         \A x \in Sources : runs'[x].status = "absent" <=> runs[x].status = "absent",
         \A x \in Sources : runs'[x].how = runs[x].how \/ runs'[x].how = "batch",
         \/ job'[w] = Free
         \/ /\ job'[w].msg = job[w].msg /\ job'[w].of = job[w].of
            /\ job'[w].step \notin {"begin", "call"}
            /\ job'[w].step \in {"poll", "complete"} => job[w].msg.task = "poll",
         queue' = queue \/ queue' = Append(queue, job[w].msg),
         edition'.status = "failed" /\ ~edition'.cancelled =>
           edition' = edition \/ job[w].msg.task = "poll"
  PROVE  InBatches'
<1>1. Busy(w) /\ job[w] \in Jobs
  BY Sourced
<1>2. queue = <<>> /\ \A y \in Workers \ {w} : job'[y] = Free
  BY <1>1, OthersFree
<1>3. PICK m \in Messages, v \in Sources : m = job[w].msg /\ v = job[w].of /\ m.of \in Sources
  BY <1>1, FreeIsNoJob, MessageFacts
<1>4. Existing' = Existing /\ \A x \in Sources : Newest(x) => Newest(x)'
  BY NewestKept
<1>5. /\ m.task \in {"batch", "poll"} /\ Newest(v)
      /\ m.task = "poll" => m.of = v /\ runs[v].how = "batch"
  BY <1>3 DEF InBatches, BatchJobs
<1>6. Newest(v)' /\ (m.task = "poll" => runs'[v].how = "batch")
  BY <1>4, <1>5
<1>7. Unbilled' /\ BatchRuns'
  BY DEF InBatches, Unbilled, BatchRuns
<1>8. BatchMessages'
  <2>1. \A i \in DOMAIN queue' : queue'[i] = m
    BY <1>2, <1>3, OneMessage
  <2> QED BY <1>5, <1>6, <2>1 DEF BatchMessages
<1>9. BatchJobs'
  <2>1. \A y \in Workers \ {w} : ~AtIt(y)'
    BY <1>2, FreeDoesNothing
  <2>2. CASE job'[w] = Free
    BY <2>1, <2>2, FreeDoesNothing DEF BatchJobs
  <2>3. CASE /\ job'[w].msg = job[w].msg /\ job'[w].of = job[w].of
             /\ job'[w].step \notin {"begin", "call"}
             /\ job'[w].step \in {"poll", "complete"} => job[w].msg.task = "poll"
    BY <1>3, <1>5, <1>6, <2>1, <2>3 DEF BatchJobs
  <2> QED BY <2>2, <2>3
<1>10. BatchFailed'
  <2> SUFFICES ASSUME edition'.status = "failed" /\ ~edition'.cancelled
               PROVE  \E x \in Sources : Newest(x)' /\ runs'[x].how = "batch"
    BY DEF BatchFailed
  <2>1. CASE edition' = edition
    BY <2>1 DEF GivenUp, NoTranslation
  <2>2. CASE job[w].msg.task = "poll"
    BY <1>3, <1>6, <2>2
  <2> QED BY <2>1, <2>2
<1>11. cancel'.open => cancel'.of \in Existing'
  BY <1>4 DEF InBatches
<1> QED BY <1>7, <1>8, <1>9, <1>10, <1>11 DEF InBatches

LEMMA SubmitKeeps == ASSUME Inv, NEW w \in Workers, Submit(w) PROVE Inv'
<1>1. Shape /\ Numbered
  BY DEF Inv
<1>2. /\ Shape' /\ Numbered'
      /\ job[w] \in Jobs /\ \A y \in Workers \ {w} : job'[y] = job[y]
      /\ \/ /\ runs' = runs
            /\ job'[w] \in Jobs /\ job'[w].msg = job[w].msg /\ job'[w].of = job[w].of /\ job'[w].step = "save"
         \/ /\ runs' = [runs EXCEPT ![job[w].of] = [runs[job[w].of] EXCEPT !.status = "failed"]]
            /\ job'[w] = Free
  BY <1>1, SubmitShape
<1>3. /\ UNCHANGED <<edition, source, billed, usable, counted, lost, queue, cancel>>
      /\ job[w].step = "submit" /\ AtIt(w)
  BY DEF Submit, AtIt, Translating
<1>4. used' = used \/ \E kind \in Bounded : used' = [used EXCEPT ![kind] = @ + 1]
  BY Kinds DEF Submit, Happens
<1>5. ASSUME Sole, GivenUp, Directly \/ InBatches PROVE InBatches'
  <2>1. InBatches
    BY <1>3, <1>5 DEF Directly, DirectJobs
  <2>2. PICK v \in Sources : v = job[w].of /\ runs[v].status # "absent" /\ runs[v] \in RunRows
    BY <1>1, <1>2, <1>3, <2>1, FreeIsNoJob DEF InBatches, BatchJobs, Newest, Shape
  <2>3. \A x \in Sources : /\ runs'[x].how = runs[x].how
                           /\ runs'[x].status = "absent" <=> runs[x].status = "absent"
    <3>1. CASE runs' = runs
      BY <3>1
    <3>2. CASE runs' = [runs EXCEPT ![v] = [runs[v] EXCEPT !.status = "failed"]]
      BY <1>1, <2>2, <3>2 DEF Shape, RunRows
    <3> QED BY <1>2, <2>2, <3>1, <3>2
  <2> QED BY <1>1, <1>2, <1>3, <1>5, <2>1, <2>3, BatchStep
<1>6. job'[w] = Free \/ job'[w].step \in Translating
  BY <1>2 DEF Translating
<1> QED BY <1>2, <1>3, <1>4, <1>5, <1>6, StepKeeps

LEMMA SaveSubmitKeeps == ASSUME Inv, NEW w \in Workers, SaveSubmit(w) PROVE Inv'
<1>1. Shape /\ Numbered
  BY DEF Inv
<1>2. /\ Shape' /\ Numbered'
      /\ job[w] \in Jobs /\ \A y \in Workers \ {w} : job'[y] = job[y]
      /\ job'[w] \in Jobs /\ job'[w].msg = job[w].msg /\ job'[w].of = job[w].of /\ job'[w].step = "after"
      /\ runs'[job[w].of].status = "submitted" /\ runs'[job[w].of].how = "batch"
      /\ \A x \in Sources \ {job[w].of} : runs'[x] = runs[x]
  BY <1>1, SaveSubmitShape
<1>3. /\ UNCHANGED <<edition, source, batches, billed, usable, counted, lost, queue, cancel, used>>
      /\ job[w].step = "save" /\ AtIt(w)
  BY DEF SaveSubmit, AtIt, Translating
<1>4. ASSUME Sole, GivenUp, Directly \/ InBatches PROVE InBatches'
  <2>1. InBatches
    BY <1>3, <1>4 DEF Directly, DirectJobs
  <2>2. runs[job[w].of].status # "absent"
    BY <1>3, <2>1 DEF InBatches, BatchJobs, Newest
  <2> QED BY <1>1, <1>2, <1>3, <1>4, <2>1, <2>2, BatchStep
<1>5. job'[w] = Free \/ job'[w].step \in Translating
  BY <1>2 DEF Translating
<1> QED BY <1>2, <1>3, <1>4, <1>5, StepKeeps

LEMMA PollKeeps == ASSUME Inv, NEW w \in Workers, Poll(w) PROVE Inv'
<1>1. Shape /\ Numbered
  BY DEF Inv
<1>2. Shape' /\ Numbered' /\ \E j \in Jobs, k \in Jobs \cup {Free} : Polled(w, j, k)
  BY <1>1, PollShape
<1>3. PICK j \in Jobs, k \in Jobs \cup {Free} : Polled(w, j, k)
  BY <1>2
<1>4. UNCHANGED <<source, batches, billed, usable, counted, lost, cancel>>
  BY DEF Poll
<1>5. /\ j = job[w] /\ j.step = "poll" /\ j.msg \in Messages /\ j.of \in Sources /\ AtIt(w)
      /\ j.msg.task \in Tasks
  <2>1. j = job[w] /\ j.step = "poll" /\ j.msg \in Messages /\ j.of \in Sources
    BY <1>3, FreeIsNoJob DEF Polled
  <2>2. AtIt(w)
    BY <2>1 DEF AtIt, Translating
  <2> QED BY <1>1, <2>1, <2>2, FreeIsNoJob, Given
<1>6. job'[w] = k /\ \A y \in Workers \ {w} : job'[y] = job[y]
  BY <1>1, <1>3, JobShape DEF Polled
<1>7. used' = used \/ \E kind \in Bounded : used' = [used EXCEPT ![kind] = @ + 1]
  BY Kinds DEF Poll, Happens
<1>8. /\ \/ edition' = edition
         \/ /\ edition' = [edition EXCEPT !.status = "failed"] /\ queue' = queue /\ k = Free
            /\ runs' = [runs EXCEPT ![j.of] = [runs[j.of] EXCEPT !.status = "failed"]]
      /\ queue' = queue \/ (queue' = Append(queue, j.msg) /\ k = Free)
      /\ k = Free \/ (k.msg = j.msg /\ k.of = j.of /\ k.step = "complete")
      /\ runs' = runs \/ runs' = [runs EXCEPT ![j.of] = [runs[j.of] EXCEPT !.status = "failed"]]
  BY <1>3 DEF Polled
<1>9. /\ edition'.auto = edition.auto /\ edition'.cancelled = edition.cancelled /\ edition'.text = edition.text
      /\ edition'.crossed = edition.crossed /\ edition'.again = edition.again
      /\ edition' = edition \/ (edition'.status = "failed" /\ queue' = queue /\ k = Free)
  <2>1. edition \in Rows
    BY <1>1 DEF Shape
  <2> QED BY <1>8, <2>1 DEF Rows
<1>10. ASSUME Sole, GivenUp, Directly \/ InBatches PROVE InBatches'
  <2>1. InBatches
    BY <1>5, <1>10 DEF Directly, DirectJobs
  <2>2. runs[j.of].status # "absent" /\ j.msg.task = "poll"
    BY <1>5, <2>1 DEF InBatches, BatchJobs, Newest
  <2>3. PICK v \in Sources : v = j.of /\ runs[v] \in RunRows
    BY <1>1, <1>5 DEF Shape
  <2>4. \A x \in Sources : /\ runs'[x].how = runs[x].how
                           /\ runs'[x].status = "absent" <=> runs[x].status = "absent"
    <3>1. CASE runs' = runs
      BY <3>1
    <3>2. CASE runs' = [runs EXCEPT ![v] = [runs[v] EXCEPT !.status = "failed"]]
      BY <1>1, <2>2, <2>3, <3>2 DEF Shape, RunRows
    <3> QED BY <1>8, <2>3, <3>1, <3>2
  <2>5. \/ job'[w] = Free
        \/ /\ job'[w].msg = job[w].msg /\ job'[w].of = job[w].of
           /\ job'[w].step \notin {"begin", "call"}
           /\ job'[w].step \in {"poll", "complete"} => job[w].msg.task = "poll"
    BY <1>5, <1>6, <1>8, <2>2
  <2> QED BY <1>1, <1>4, <1>5, <1>6, <1>8, <1>10, <2>1, <2>2, <2>4, <2>5, BatchStep
<1>11. job'[w] = Free \/ job'[w].step \in Translating
  BY <1>6, <1>8 DEF Translating
<1> QED BY <1>2, <1>5, <1>6, <1>7, <1>8, <1>9, <1>10, <1>11, StepKeeps

\* What completing does to the rows, whatever it does.
LEMMA CompletedRows ==
  ASSUME Shape, NEW w \in Workers, NEW j \in Jobs, NEW v \in Sources, NEW k \in Jobs \cup {Free}, NEW p \in RunRows,
         Completed(w, j, v, k, p)
  PROVE  /\ job'[w] = k /\ \A y \in Workers \ {w} : job'[y] = job[y]
         /\ runs'[v] = p /\ \A x \in Sources \ {v} : runs'[x] = runs[x]
         /\ p.how = runs[v].how
         /\ p.status \in {"succeeded", "failed"}
         /\ p.lines = runs[v].lines \/ p.status = "succeeded"
         /\ k = Free \/ (k.msg = j.msg /\ k.of = j.of /\ k.step = "after")
<1>1. runs[v] \in RunRows
  BY DEF Shape
<1>2. /\ p.how = runs[v].how /\ p.status \in {"succeeded", "failed"}
      /\ p.lines = runs[v].lines \/ p.status = "succeeded"
  BY <1>1 DEF Completed, RunRows
<1>3. k = Free \/ k = [j EXCEPT !.step = "after"]
  BY DEF Completed
<1>4. k = Free \/ (k.msg = j.msg /\ k.of = j.of /\ k.step = "after")
  BY <1>3 DEF Jobs
<1>5. job' = [job EXCEPT ![w] = k] /\ runs' = [runs EXCEPT ![v] = p]
  BY DEF Completed
<1> QED BY <1>2, <1>4, <1>5 DEF Shape

LEMMA CompleteKeeps == ASSUME Inv, NEW w \in Workers, Complete(w) PROVE Inv'
<1>1. Shape /\ Numbered
  BY DEF Inv
<1>2. /\ Shape' /\ Numbered'
      /\ \E j \in Jobs, v \in Sources, k \in Jobs \cup {Free}, p \in RunRows : Completed(w, j, v, k, p)
  BY <1>1, CompleteShape
<1>3. PICK j \in Jobs, v \in Sources, k \in Jobs \cup {Free}, p \in RunRows : Completed(w, j, v, k, p)
  BY <1>2
<1>4. UNCHANGED <<source, batches, billed, usable, lost, queue, cancel, used>>
  BY DEF Complete
<1>5. j = job[w] /\ v = j.of /\ j.step = "complete" /\ AtIt(w) /\ Busy(w)
  BY <1>3, FreeIsNoJob DEF Completed, Busy, AtIt, Translating
<1>6. /\ job'[w] = k /\ \A y \in Workers \ {w} : job'[y] = job[y]
      /\ runs'[v] = p /\ \A x \in Sources \ {v} : runs'[x] = runs[x]
      /\ p.how = runs[v].how
      /\ p.status \in {"succeeded", "failed"}
      /\ p.lines = runs[v].lines \/ p.status = "succeeded"
      /\ k = Free \/ (k.msg = j.msg /\ k.of = j.of /\ k.step = "after")
  BY <1>1, <1>3, CompletedRows
<1>7. /\ \A f \in {"auto", "cancelled", "crossed", "aside", "again"} : edition'[f] = edition[f]
      /\ \/ edition' = edition
         \/ edition'.status \in {"review", "ready"} /\ edition'.text = Chapters
         \/ edition'.status = "failed" /\ edition'.text = edition.text /\ k = Free
  BY <1>3 DEF Completed
<1>8. /\ edition'.auto = edition.auto /\ edition'.cancelled = edition.cancelled
      /\ edition'.crossed = edition.crossed /\ edition'.again = edition.again
  BY <1>7
<1>9. ASSUME Sole, GivenUp, Alone', GivenUp', Steady, Directly \/ InBatches PROVE (Directly \/ InBatches)'
  <2>3. queue = <<>> /\ \A y \in Workers \ {w} : job[y] = Free /\ job'[y] = Free
    BY <1>5, <1>6, <1>9, OthersFree
  <2>4. CASE Directly
    <3>1. runs[v].status # "succeeded" /\ j.lines = runs[v].lines
      BY <1>5, <2>4 DEF Directly, InHand, Trying, Holding
    <3>2. counted' = [counted EXCEPT ![v] = [c \in Chapters |-> @[c] + j.lines[c].calls]]
      BY <1>3, <3>1 DEF Completed
    <3>3. \A y \in Workers : ~Trying(y)' /\ ~Holding(y)' /\ job'[y].step # "begin" /\ job'[y].step # "call"
      BY <1>6, <2>3, FreeDoesNothing, FreeIsNoJob DEF Trying, Holding
    <3>4. DirectRuns'
      BY <1>6, <2>4 DEF Directly, DirectRuns
    <3>5. ~cancel'.open /\ DirectMessages'
      BY <1>4, <2>4 DEF Directly, DirectMessages
    <3>6. DirectJobs'
      <4>1. k # Free => k.msg.task = "direct" /\ k.step = "after"
        BY <1>5, <1>6, <2>4 DEF Directly, DirectJobs
      <4>2. \A y \in Workers \ {w} : ~AtIt(y)'
        BY <2>3, FreeDoesNothing
      <4>3. k = Free => ~AtIt(w)'
        BY <1>6, FreeDoesNothing
      <4> QED BY <1>6, <4>1, <4>2, <4>3 DEF DirectJobs
    <3>7. Saved'
      <4> SUFFICES ASSUME NEW x \in Sources, NEW c \in Chapters
                   PROVE  usable[x][c] <= 1 + lost[x][c] /\ (~Paid(x, c)' => usable[x][c] <= lost[x][c])
        BY <1>4 DEF Saved
      <4>1. usable[x][c] <= 1 + lost[x][c] /\ (~Paid(x, c) => usable[x][c] <= lost[x][c])
        BY <2>4 DEF Directly, Saved
      <4>2. ~Carried(x, c)
        BY <1>5, <2>3, FreeIsNoJob DEF Carried
      <4>3. Paid(x, c) => Paid(x, c)'
        BY <1>6, <3>1, <4>2 DEF Paid
      <4> QED BY <4>1, <4>3
    <3>8. InHand'
      BY <3>3 DEF InHand
    <3>9. Accounted'
      <4> SUFFICES ASSUME used.crashes = 0, NEW x \in Sources, NEW c \in Chapters
                   PROVE  billed[x][c] <= counted'[x][c]
        BY <1>4, <3>3 DEF Accounted
      <4>1. CASE x = v
        <5>1. billed[v][c] <= counted[v][c] + InLines(w, c)
          BY <1>5, <2>4 DEF Directly, Accounted, Holding
        <5>2. j.lines[c].calls \in Nat
          BY FreeIsNoJob DEF Lines
        <5>3. InLines(w, c) = j.lines[c].calls
          BY <1>5, <5>2 DEF InLines
        <5>4. counted'[v][c] = counted[v][c] + j.lines[c].calls
          BY <1>1, <3>2 DEF Shape, Calls
        <5> QED BY <4>1, <5>1, <5>3, <5>4
      <4>2. CASE x # v
        <5>1. \A y \in Workers : Holding(y) => job[y].of # x
          BY <1>5, <2>3, <4>2, FreeDoesNothing
        <5>2. billed[x][c] <= counted[x][c]
          BY <2>4, <5>1 DEF Directly, Accounted
        <5>3. counted'[x] = counted[x]
          BY <1>1, <3>2, <4>2 DEF Shape, Calls
        <5> QED BY <5>2, <5>3
      <4> QED BY <4>1, <4>2
    <3> QED BY <3>4, <3>5, <3>6, <3>7, <3>8, <3>9 DEF Directly
  <2>5. CASE InBatches
    <3>1. runs[v].status # "absent" /\ j.msg.task = "poll"
      BY <1>5, <2>5 DEF InBatches, BatchJobs, Newest
    <3>2. \A x \in Sources : /\ runs'[x].how = runs[x].how
                             /\ runs'[x].status = "absent" <=> runs[x].status = "absent"
      BY <1>6, <3>1
    <3>3. \/ job'[w] = Free
          \/ /\ job'[w].msg = job[w].msg /\ job'[w].of = job[w].of
             /\ job'[w].step \notin {"begin", "call"}
             /\ job'[w].step \in {"poll", "complete"} => job[w].msg.task = "poll"
      BY <1>5, <1>6
    <3> QED BY <1>1, <1>4, <1>5, <1>6, <1>9, <2>5, <3>1, <3>2, <3>3, BatchStep
  <2> QED BY <1>9, <2>4, <2>5
<1>10. job'[w] = Free \/ job'[w].step \in Translating
  BY <1>6 DEF Translating
<1> QED BY <1>2, <1>4, <1>5, <1>6, <1>7, <1>8, <1>9, <1>10, StepKeeps

LEMMA BeginKeeps == ASSUME Inv, NEW w \in Workers, Begin(w) PROVE Inv'
<1>1. Shape /\ Numbered
  BY DEF Inv
<1>2. PICK j \in Jobs : j = job[w]
  BY <1>1, AtWork DEF Begin
<1>3. PICK v \in Sources : v = j.of
  BY FreeIsNoJob
<1>4. Shape' /\ Numbered'
  BY <1>1, BeginShape
<1>5. PICK kept \in Lines, step \in {"complete", "call"} :
              /\ kept = Kept(runs[v].lines)
              /\ job'[w].msg = j.msg /\ job'[w].of = v
              /\ job'[w].step = step
              /\ job'[w].lines = kept /\ job'[w].todo = Unusable(kept)
              /\ job'[w].came = j.came /\ job'[w].good = j.good
              /\ \A y \in Workers \ {w} : job'[y] = job[y]
              /\ runs'[v] = [runs[v] EXCEPT !.status = "submitted", !.how = "direct",
                     !.lines = kept, !.batch = 0, !.silent = FALSE]
              /\ \A x \in Sources \ {v} : runs'[x] = runs[x]
  <2>1. PICK kept \in Lines, step \in {"complete", "call"} :
              /\ kept = Kept(runs[job[w].of].lines)
              /\ job'[w].msg = job[w].msg /\ job'[w].of = job[w].of
              /\ job'[w].step = step
              /\ job'[w].lines = kept /\ job'[w].todo = Unusable(kept)
              /\ job'[w].came = job[w].came /\ job'[w].good = job[w].good
              /\ \A y \in Workers \ {w} : job'[y] = job[y]
              /\ runs'[job[w].of] = [runs[job[w].of] EXCEPT !.status = "submitted", !.how = "direct",
                     !.lines = kept, !.batch = 0, !.silent = FALSE]
              /\ \A x \in Sources \ {job[w].of} : runs'[x] = runs[x]
    BY <1>1, BeginShape
  <2> QED BY <1>2, <1>3, <2>1
<1>6. runs'[v].status = "submitted" /\ runs'[v].how = "direct" /\ runs'[v].lines = kept
  BY <1>1, <1>5 DEF Shape, RunRows
<1>7. /\ UNCHANGED <<edition, source, batches, billed, usable, counted, lost, queue, cancel, used>>
      /\ j.step = "begin" /\ AtIt(w) /\ Busy(w)
  BY <1>2, FreeIsNoJob DEF Begin, AtIt, Translating, Busy
<1>8. ASSUME Sole, GivenUp, Alone', GivenUp', Steady, Directly \/ InBatches PROVE (Directly \/ InBatches)'
  <2>1. Directly
    BY <1>2, <1>7, <1>8 DEF InBatches, BatchJobs
  <2>3. queue = <<>> /\ \A y \in Workers \ {w} : job[y] = Free /\ job'[y] = Free
    BY <1>5, <1>7, <1>8, OthersFree
  <2>4. \A y \in Workers \ {w} : ~AtIt(y)' /\ ~Trying(y)' /\ ~Holding(y)' /\ job'[y].step # "call" /\ job'[y].step # "begin"
    BY <2>3, FreeDoesNothing, FreeIsNoJob
  <2>5. ~cancel'.open /\ DirectRuns' /\ DirectMessages'
    BY <1>5, <1>6, <1>7, <2>1 DEF Directly, DirectRuns, DirectMessages
  <2>6. DirectJobs'
    BY <1>2, <1>5, <1>7, <2>1, <2>4 DEF Directly, DirectJobs
  <2>7. runs[v].status # "succeeded" /\ j.came = {} /\ j.good = {}
    BY <1>2, <1>3, <1>7, <2>1 DEF Directly, InHand, Trying
  <2>8. /\ \A c \in Chapters : runs[v].lines[c].ok => kept[c] = runs[v].lines[c]
        /\ \A c \in Chapters : ~kept[c].ok => kept[c] = NoLine
    <3>1. runs[v].lines \in Lines
      BY <1>1 DEF Shape, RunRows
    <3> QED BY <1>5, <3>1, KeptIsLines
  <2>9. Saved'
    <3> SUFFICES ASSUME NEW x \in Sources, NEW c \in Chapters
                 PROVE  usable[x][c] <= 1 + lost[x][c] /\ (~Paid(x, c)' => usable[x][c] <= lost[x][c])
      BY <1>7 DEF Saved
    <3>1. usable[x][c] <= 1 + lost[x][c] /\ (~Paid(x, c) => usable[x][c] <= lost[x][c])
      BY <2>1 DEF Directly, Saved
    <3>2. ~Carried(x, c)
      BY <1>2, <1>7, <2>3, FreeIsNoJob DEF Carried
    <3>3. Paid(x, c) => Paid(x, c)'
      <4>1. CASE x = v
        BY <1>6, <2>7, <2>8, <3>2, <4>1 DEF Paid
      <4>2. CASE x # v
        BY <1>5, <3>2, <4>2 DEF Paid
      <4> QED BY <4>1, <4>2
    <3> QED BY <3>1, <3>3
  <2>10. InHand'
    <3>1. \A c \in Unusable(kept) : kept[c] = NoLine
      BY <2>8 DEF Unusable
    <3>2. /\ job'[w].lines = runs'[job'[w].of].lines /\ runs'[job'[w].of].status # "succeeded"
          /\ job'[w].step # "begin"
      BY <1>5, <1>6
    <3>3. /\ job'[w].todo \subseteq Unusable(job'[w].lines)
          /\ job'[w].came \subseteq job'[w].todo /\ job'[w].good \subseteq job'[w].came
          /\ \A c \in job'[w].todo : job'[w].lines[c] = NoLine
      BY <1>5, <2>7, <3>1
    <3> QED BY <2>4, <3>2, <3>3 DEF InHand
  <2>11. Accounted'
    <3> SUFFICES ASSUME used.crashes = 0, NEW x \in Sources, NEW c \in Chapters
                 PROVE  billed[x][c] <= counted[x][c]
                        /\ \A y \in Workers : Holding(y)' /\ job'[y].of = x =>
                             billed[x][c] <= counted[x][c] + InLines(y, c)'
      BY <1>7 DEF Accounted
    <3>1. \A y \in Workers : ~Holding(y)
      BY <1>2, <1>7, <2>3, FreeDoesNothing DEF Holding
    <3>2. billed[x][c] <= counted[x][c]
      BY <2>1, <3>1 DEF Directly, Accounted
    <3>3. kept[c].calls \in Nat /\ billed[x][c] \in Nat /\ counted[x][c] \in Nat
      BY <1>1 DEF Lines, Shape, Calls
    <3>4. InLines(w, c)' = kept[c].calls
      BY <1>5, <2>7, <3>3 DEF InLines
    <3>5. billed[x][c] <= counted[x][c] + kept[c].calls
      BY <3>2, <3>3
    <3> QED BY <2>4, <3>2, <3>4, <3>5
  <2> QED BY <2>5, <2>6, <2>9, <2>10, <2>11 DEF Directly
<1>9. job'[w].step \in Translating
  BY <1>5 DEF Translating
<1> QED BY <1>4, <1>5, <1>7, <1>8, <1>9, StepKeeps

LEMMA AnswerKeeps == ASSUME Inv, NEW w \in Workers, Answer(w) PROVE Inv'
<1>1. Shape /\ Numbered
  BY DEF Inv
<1>2. Shape' /\ Numbered'
  BY <1>1, AnswerShape
<1>3. PICK j \in Jobs, k \in Jobs, v \in Sources, c \in Chapters, ok \in BOOLEAN : Answered(w, j, k, v, c, ok)
  BY <1>1, AnswerShape
<1>4. UNCHANGED <<edition, source, runs, batches, counted, lost, queue, cancel>>
  BY DEF Answer
<1>5. /\ j = job[w] /\ j.step = "call" /\ v = j.of /\ c \in j.todo \ j.came
      /\ k.msg = j.msg /\ k.of = j.of /\ k.step = "call" /\ k.lines = j.lines /\ k.todo = j.todo
      /\ k.round = j.round
      /\ k.came = j.came \cup {c} /\ k.good = IF ok THEN j.good \cup {c} ELSE j.good
  BY <1>3 DEF Answered
<1>6. job'[w] = k /\ \A y \in Workers \ {w} : job'[y] = job[y]
  BY <1>1, <1>3, JobShape DEF Answered
<1>7. AtIt(w) /\ Busy(w) /\ job'[w].step \in Translating
  BY <1>5, <1>6, FreeIsNoJob DEF Busy, AtIt, Translating
<1>8. used' = used \/ \E kind \in Bounded : used' = [used EXCEPT ![kind] = @ + 1]
  BY Kinds DEF Answer, Happens
<1>9. (used'.delays = 0 => used.delays = 0) /\ (used'.crashes = 0 => used.crashes = 0)
  BY <1>1, <1>4, <1>8, UsedGrows
<1>10. /\ billed'[v][c] = billed[v][c] + 1 /\ usable'[v][c] = IF ok THEN usable[v][c] + 1 ELSE usable[v][c]
       /\ \A x \in Sources, b \in Chapters : x # v \/ b # c =>
            billed'[x][b] = billed[x][b] /\ usable'[x][b] = usable[x][b]
       /\ \A x \in Sources, b \in Chapters :
            billed[x][b] \in Nat /\ usable[x][b] \in Nat /\ counted[x][b] \in Nat /\ lost[x][b] \in Nat
  <2>1. /\ billed \in [Sources -> [Chapters -> Nat]] /\ usable \in [Sources -> [Chapters -> Nat]]
        /\ counted \in [Sources -> [Chapters -> Nat]] /\ lost \in [Sources -> [Chapters -> Nat]]
    BY <1>1 DEF Shape, Calls
  <2>2. /\ billed'[v][c] = billed[v][c] + 1
        /\ \A x \in Sources, b \in Chapters : x # v \/ b # c => billed'[x][b] = billed[x][b]
    BY <1>3, <2>1 DEF Answered
  <2>3. /\ usable'[v][c] = IF ok THEN usable[v][c] + 1 ELSE usable[v][c]
        /\ \A x \in Sources, b \in Chapters : x # v \/ b # c => usable'[x][b] = usable[x][b]
    BY <1>3, <2>1 DEF Answered
  <2> QED BY <2>1, <2>2, <2>3
<1>11. ASSUME Sole, GivenUp, Alone', GivenUp', Steady, Directly \/ InBatches PROVE (Directly \/ InBatches)'
  <2>1. Directly
    BY <1>5, <1>7, <1>11 DEF InBatches, BatchJobs
  <2>3. queue = <<>> /\ \A y \in Workers \ {w} : job[y] = Free /\ job'[y] = Free
    BY <1>6, <1>7, <1>11, OthersFree
  <2>4. \A y \in Workers \ {w} : ~AtIt(y)' /\ ~Trying(y)' /\ ~Holding(y)' /\ job'[y].step # "call" /\ job'[y].step # "begin"
    BY <2>3, FreeDoesNothing, FreeIsNoJob
  <2>5. ~cancel'.open /\ DirectRuns' /\ DirectMessages'
    BY <1>4, <2>1 DEF Directly, DirectRuns, DirectMessages
  <2>6. DirectJobs'
    BY <1>5, <1>6, <1>7, <2>1, <2>4 DEF Directly, DirectJobs
  <2>7. /\ runs[v].status # "succeeded" /\ j.lines = runs[v].lines /\ j.todo \subseteq Unusable(j.lines)
        /\ j.came \subseteq j.todo /\ j.good \subseteq j.came
        /\ j.round = 1 => \A b \in j.todo : j.lines[b] = NoLine
    BY <1>5, <2>1 DEF Directly, InHand, Trying, Holding
  <2>8. ~Paid(v, c)
    <3>1. ~runs[v].lines[c].ok
      BY <1>5, <2>7 DEF Unusable
    <3>2. ~Carried(v, c)
      <4> SUFFICES ASSUME NEW y \in Workers, job[y].step = "call", c \in job[y].good PROVE FALSE
        BY DEF Carried
      <4>1. y = w
        BY <2>3, FreeIsNoJob
      <4> QED BY <1>5, <2>7, <4>1
    <3> QED BY <2>7, <3>1, <3>2 DEF Paid
  <2>9. \A x \in Sources, b \in Chapters : Paid(x, b) => Paid(x, b)'
    <3> TAKE x \in Sources, b \in Chapters
    <3>1. Carried(x, b) => Carried(x, b)'
      <4> SUFFICES ASSUME NEW y \in Workers, job[y].step = "call", job[y].of = x, b \in job[y].good
                   PROVE  job'[y].step = "call" /\ job'[y].of = x /\ b \in job'[y].good
        BY DEF Carried
      <4>1. y = w
        BY <2>3, FreeIsNoJob
      <4> QED BY <1>5, <1>6, <4>1
    <3> QED BY <1>4, <3>1 DEF Paid
  <2>10. ok => Paid(v, c)'
    BY <1>5, <1>6 DEF Paid, Carried
  <2>11. Saved'
    <3> SUFFICES ASSUME NEW x \in Sources, NEW b \in Chapters
                 PROVE  usable'[x][b] <= 1 + lost[x][b] /\ (~Paid(x, b)' => usable'[x][b] <= lost[x][b])
      BY <1>4 DEF Saved
    <3>1. usable[x][b] <= 1 + lost[x][b] /\ (~Paid(x, b) => usable[x][b] <= lost[x][b])
      BY <2>1 DEF Directly, Saved
    <3>2. CASE x = v /\ b = c
      BY <1>10, <2>8, <2>10, <3>1, <3>2
    <3>3. CASE x # v \/ b # c
      BY <1>10, <2>9, <3>1, <3>3
    <3> QED BY <3>2, <3>3
  <2>12. InHand'
    <3>1. /\ job'[w].lines = runs'[job'[w].of].lines /\ runs'[job'[w].of].status # "succeeded"
          /\ job'[w].step # "begin"
      BY <1>4, <1>5, <1>6, <2>7
    <3>2. /\ job'[w].todo \subseteq Unusable(job'[w].lines)
          /\ job'[w].came \subseteq job'[w].todo /\ job'[w].good \subseteq job'[w].came
          /\ job'[w].round = 1 => \A b \in job'[w].todo : job'[w].lines[b] = NoLine
      BY <1>5, <1>6, <2>7
    <3> QED BY <2>4, <3>1, <3>2 DEF InHand
  <2>13. Accounted'
    <3> SUFFICES ASSUME used'.crashes = 0, NEW x \in Sources, NEW b \in Chapters
                 PROVE  /\ (\A y \in Workers : Holding(y)' => job'[y].of # x) => billed'[x][b] <= counted[x][b]
                        /\ \A y \in Workers : Holding(y)' /\ job'[y].of = x =>
                             billed'[x][b] <= counted[x][b] + InLines(y, b)'
      BY <1>4 DEF Accounted
    <3>1. Holding(w) /\ Holding(w)' /\ job'[w].of = v
      BY <1>5, <1>6 DEF Holding
    <3>2. used.crashes = 0
      BY <1>9
    <3>3. CASE x # v
      <4>1. billed[x][b] <= counted[x][b]
        <5>1. \A y \in Workers : Holding(y) => job[y].of # x
          BY <1>5, <2>3, <3>3, FreeDoesNothing
        <5> QED BY <2>1, <3>2, <5>1 DEF Directly, Accounted
      <4>2. \A y \in Workers : Holding(y)' => job'[y].of # x
        BY <2>4, <3>1, <3>3
      <4> QED BY <1>10, <3>3, <4>1, <4>2
    <3>4. CASE x = v
      <4>1. billed[v][b] <= counted[v][b] + InLines(w, b)
        BY <1>5, <2>1, <3>1, <3>2 DEF Directly, Accounted
      <4>2. j.lines[b].calls \in Nat
        BY FreeIsNoJob DEF Lines
      <4>3. billed'[v][b] <= counted[v][b] + InLines(w, b)'
        <5>1. CASE b = c
          <6>1. InLines(w, c) = j.lines[c].calls /\ InLines(w, c)' = j.lines[c].calls + 1
            BY <1>5, <1>6, <4>2, <5>1 DEF InLines
          <6> QED BY <1>10, <4>1, <4>2, <5>1, <6>1
        <5>2. CASE b # c
          <6>1. InLines(w, b)' = InLines(w, b)
            BY <1>5, <1>6, <5>2 DEF InLines
          <6> QED BY <1>10, <4>1, <5>2, <6>1
        <5> QED BY <5>1, <5>2
      <4>4. \A y \in Workers : Holding(y)' => y = w
        BY <2>4
      <4> QED BY <3>1, <3>4, <4>3, <4>4
    <3> QED BY <3>3, <3>4
  <2> QED BY <2>5, <2>6, <2>11, <2>12, <2>13 DEF Directly
<1> QED BY <1>2, <1>4, <1>6, <1>7, <1>8, <1>11, StepKeeps

LEMMA KeepKeeps == ASSUME Inv, NEW w \in Workers, Keep(w) PROVE Inv'
<1>1. Shape /\ Numbered
  BY DEF Inv
<1>2. Shape' /\ Numbered'
  BY <1>1, KeepShape
<1>3. PICK j \in Jobs, k \in Jobs, v \in Sources, c \in Chapters : KeptAs(w, j, k, v, c)
  BY <1>1, KeepShape
<1>4. UNCHANGED <<edition, source, batches, billed, usable, counted, lost, queue, cancel, used>>
  BY DEF Keep
<1>5. /\ j = job[w] /\ j.step = "call" /\ v = j.of /\ c \in j.todo /\ c \in j.came
      /\ k.msg = j.msg /\ k.of = j.of
      /\ k.lines[c].ok = (c \in j.good)
      /\ k.lines[c].calls = IF j.round = 1 THEN 1 ELSE j.lines[c].calls + 1
      /\ \A x \in Chapters \ {c} : k.lines[x] = j.lines[x]
      /\ k.came = j.came \ {c} /\ k.good = j.good \ {c}
      /\ k.step \in {"call", "complete"}
      /\ k.step = IF k.todo = {} THEN "complete" ELSE "call"
  BY <1>3 DEF KeptAs
<1>6. IF k.round = j.round THEN k.todo = j.todo \ {c}
      ELSE /\ k.round = 2 /\ j.todo \ {c} = {}
           /\ k.todo = Unusable(k.lines) \/ k.todo = {}
  BY <1>3 DEF KeptAs
<1>7. /\ runs'[v].lines = k.lines /\ runs'[v].status = runs[v].status /\ runs'[v].how = runs[v].how
      /\ \A x \in Sources \ {v} : runs'[x] = runs[x]
  BY <1>3 DEF KeptAs
<1>8. job'[w] = k /\ \A y \in Workers \ {w} : job'[y] = job[y]
  BY <1>1, <1>3, JobShape DEF KeptAs
<1>9. AtIt(w) /\ Busy(w) /\ job'[w].step \in Translating
  BY <1>5, <1>8, FreeIsNoJob DEF Busy, AtIt, Translating
<1>10. \A x \in Sources, b \in Chapters :
         billed[x][b] \in Nat /\ usable[x][b] \in Nat /\ counted[x][b] \in Nat /\ lost[x][b] \in Nat
  BY <1>1 DEF Shape, Calls
<1>11. ASSUME Sole, GivenUp, Alone', GivenUp', Steady, Directly \/ InBatches PROVE (Directly \/ InBatches)'
  <2>1. Directly
    BY <1>5, <1>9, <1>11 DEF InBatches, BatchJobs
  <2>3. queue = <<>> /\ \A y \in Workers \ {w} : job[y] = Free /\ job'[y] = Free
    BY <1>8, <1>9, <1>11, OthersFree
  <2>4. \A y \in Workers \ {w} : ~AtIt(y)' /\ ~Trying(y)' /\ ~Holding(y)' /\ job'[y].step # "call" /\ job'[y].step # "begin"
    BY <2>3, FreeDoesNothing, FreeIsNoJob
  <2>5. ~cancel'.open /\ DirectRuns' /\ DirectMessages'
    BY <1>4, <1>7, <2>1 DEF Directly, DirectRuns, DirectMessages
  <2>6. DirectJobs'
    BY <1>5, <1>8, <1>9, <2>1, <2>4 DEF Directly, DirectJobs
  <2>7. /\ runs[v].status # "succeeded" /\ j.lines = runs[v].lines /\ j.todo \subseteq Unusable(j.lines)
        /\ j.came \subseteq j.todo /\ j.good \subseteq j.came
        /\ j.round = 1 => \A b \in j.todo : j.lines[b] = NoLine
    BY <1>5, <2>1 DEF Directly, InHand, Trying, Holding
  <2>8. k.came \subseteq k.todo /\ k.good \subseteq k.came
    <3>1. k.good \subseteq k.came
      BY <1>5, <2>7
    <3>2. CASE k.round = j.round
      BY <1>5, <1>6, <2>7, <3>1, <3>2
    <3>3. CASE k.round # j.round
      <4>1. k.came = {}
        BY <1>5, <1>6, <2>7, <3>3
      <4> QED BY <3>1, <4>1
    <3> QED BY <3>2, <3>3
  <2>9. \A x \in Sources, b \in Chapters : Paid(x, b) => Paid(x, b)'
    <3> TAKE x \in Sources, b \in Chapters
    <3>1. CASE x # v
      <4>1. ~Carried(x, b)
        <5> SUFFICES ASSUME NEW y \in Workers, job[y].step = "call", job[y].of = x PROVE FALSE
          BY DEF Carried
        <5> QED BY <1>5, <2>3, <3>1, FreeIsNoJob
      <4> QED BY <1>7, <3>1, <4>1 DEF Paid
    <3>2. CASE x = v /\ b = c
      <4>1. ~runs[v].lines[c].ok
        BY <1>5, <2>7 DEF Unusable
      <4>2. ASSUME Carried(v, c) PROVE c \in j.good
        <5>1. PICK y \in Workers : job[y].step = "call" /\ job[y].of = v /\ c \in job[y].good
          BY <4>2 DEF Carried
        <5>2. y = w
          BY <2>3, <5>1, FreeIsNoJob
        <5> QED BY <1>5, <5>1, <5>2
      <4> QED BY <1>5, <1>7, <2>7, <3>2, <4>1, <4>2 DEF Paid
    <3>3. CASE x = v /\ b # c
      <4>1. k.lines[b] = j.lines[b]
        BY <1>5, <3>3
      <4>2. ASSUME Carried(v, b) PROVE Carried(v, b)'
        <5>1. PICK y \in Workers : job[y].step = "call" /\ job[y].of = v /\ b \in job[y].good
          BY <4>2 DEF Carried
        <5>2. y = w
          BY <2>3, <5>1, FreeIsNoJob
        <5>3. b \in k.good /\ k.todo # {}
          BY <1>5, <2>8, <3>3, <5>1, <5>2
        <5> QED BY <1>5, <1>8, <5>3 DEF Carried
      <4> QED BY <1>7, <2>7, <3>3, <4>1, <4>2 DEF Paid
    <3> QED BY <3>1, <3>2, <3>3
  <2>10. Saved'
    <3> SUFFICES ASSUME NEW x \in Sources, NEW b \in Chapters
                 PROVE  usable[x][b] <= 1 + lost[x][b] /\ (~Paid(x, b)' => usable[x][b] <= lost[x][b])
      BY <1>4 DEF Saved
    <3>1. usable[x][b] <= 1 + lost[x][b] /\ (~Paid(x, b) => usable[x][b] <= lost[x][b])
      BY <2>1 DEF Directly, Saved
    <3> QED BY <2>9, <3>1
  <2>11. InHand'
    <3>1. /\ job'[w].lines = runs'[job'[w].of].lines /\ runs'[job'[w].of].status # "succeeded"
          /\ job'[w].step # "begin"
      BY <1>5, <1>7, <1>8, <2>7
    <3>2. k.todo \subseteq Unusable(k.lines)
      <4>1. CASE k.round = j.round
        <5>1. k.todo = j.todo \ {c}
          BY <1>6, <4>1
        <5> QED BY <1>5, <2>7, <5>1 DEF Unusable
      <4>2. CASE k.round # j.round
        BY <1>6, <4>2
      <4> QED BY <4>1, <4>2
    <3>3. ASSUME k.round = 1, NEW b \in k.todo PROVE k.lines[b] = NoLine
      <4>1. k.round = j.round /\ k.todo = j.todo \ {c}
        BY <1>6, <3>3
      <4>2. b \in j.todo /\ b \in Chapters \ {c}
        BY <4>1, FreeIsNoJob
      <4> QED BY <1>5, <2>7, <3>3, <4>1, <4>2
    <3>4. /\ job'[w].todo \subseteq Unusable(job'[w].lines)
          /\ job'[w].came \subseteq job'[w].todo /\ job'[w].good \subseteq job'[w].came
          /\ job'[w].round = 1 => \A b \in job'[w].todo : job'[w].lines[b] = NoLine
      BY <1>8, <2>8, <3>2, <3>3
    <3> QED BY <2>4, <3>1, <3>4 DEF InHand
  <2>12. Accounted'
    <3> SUFFICES ASSUME used.crashes = 0, NEW x \in Sources, NEW b \in Chapters
                 PROVE  /\ (\A y \in Workers : Holding(y)' => job'[y].of # x) => billed[x][b] <= counted[x][b]
                        /\ \A y \in Workers : Holding(y)' /\ job'[y].of = x =>
                             billed[x][b] <= counted[x][b] + InLines(y, b)'
      BY <1>4 DEF Accounted
    <3>1. Holding(w) /\ Holding(w)' /\ job'[w].of = v
      BY <1>5, <1>8 DEF Holding
    <3>3. CASE x # v
      <4>1. billed[x][b] <= counted[x][b]
        <5>1. \A y \in Workers : Holding(y) => job[y].of # x
          BY <1>5, <2>3, <3>3, FreeDoesNothing
        <5> QED BY <2>1, <5>1 DEF Directly, Accounted
      <4>2. \A y \in Workers : Holding(y)' => job'[y].of # x
        BY <2>4, <3>1, <3>3
      <4> QED BY <4>1, <4>2
    <3>4. CASE x = v
      <4>1. billed[v][b] <= counted[v][b] + InLines(w, b)
        BY <1>5, <2>1, <3>1 DEF Directly, Accounted
      <4>2. j.lines[b].calls \in Nat /\ k.lines[b].calls \in Nat
        BY FreeIsNoJob DEF Lines
      <4>3. InLines(w, b) <= InLines(w, b)' /\ InLines(w, b) \in Nat /\ InLines(w, b)' \in Nat
        <5>1. CASE b = c
          <6>1. InLines(w, c) = j.lines[c].calls + 1
            BY <1>5 DEF InLines
          <6>2. InLines(w, c)' = k.lines[c].calls
            BY <1>5, <1>8, <4>2, <5>1 DEF InLines
          <6>3. j.round = 1 => j.lines[c].calls = 0
            BY <1>5, <2>7 DEF NoLine
          <6> QED BY <1>5, <4>2, <5>1, <6>1, <6>2, <6>3
        <5>2. CASE b # c
          <6>1. k.lines[b] = j.lines[b]
            BY <1>5, <5>2
          <6>2. b \in j.came => b \in k.came /\ k.step = "call"
            BY <1>5, <2>8, <5>2
          <6>3. InLines(w, b) = j.lines[b].calls + IF b \in j.came THEN 1 ELSE 0
            BY <1>5 DEF InLines
          <6>4. InLines(w, b)' = k.lines[b].calls + IF k.step = "call" /\ b \in k.came THEN 1 ELSE 0
            BY <1>8 DEF InLines
          <6> QED BY <4>2, <6>1, <6>2, <6>3, <6>4
        <5> QED BY <5>1, <5>2
      <4>4. \A y \in Workers : Holding(y)' => y = w
        BY <2>4
      <4>5. billed[v][b] <= counted[v][b] + InLines(w, b)'
        BY <1>10, <4>1, <4>3
      <4> QED BY <3>1, <3>4, <4>4, <4>5
    <3> QED BY <3>3, <3>4
  <2> QED BY <2>5, <2>6, <2>10, <2>11, <2>12 DEF Directly
<1> QED BY <1>2, <1>4, <1>8, <1>9, <1>11, StepKeeps

LEMMA AfterKeeps == ASSUME Inv, NEW w \in Workers, After(w) PROVE Inv'
<1>1. Shape /\ Numbered /\ Marked
  BY DEF Inv
<1>2. /\ Shape' /\ Numbered'
      /\ job[w] \in Jobs /\ job'[w] = Free /\ \A y \in Workers \ {w} : job'[y] = job[y]
      /\ \/ queue' = queue
         \/ /\ job[w].msg.task = "batch" /\ runs[job[w].of].status = "submitted"
            /\ queue' = Append(queue, Send("poll", job[w].of))
         \/ /\ edition.auto /\ edition.status = "ready"
            /\ queue' = Append(queue, Send("split", 0))
  BY <1>1, AfterShape
<1>3. /\ UNCHANGED <<edition, source, runs, batches, billed, usable, counted, lost, cancel, used>>
      /\ job[w].step = "after" /\ AtIt(w) /\ Busy(w)
  BY <1>2, FreeIsNoJob DEF After, AtIt, Translating, Busy
<1>4. PICK v \in Sources : v = job[w].of
  BY <1>2, FreeIsNoJob
<1>5. PICK poll \in Messages : poll = Send("poll", v) /\ poll.task = "poll" /\ poll.of = v
  BY SentIsMessage DEF Send
<1>6. PICK split \in Messages : split = Send("split", 0) /\ split.task = "split"
  BY SentIsMessage DEF Send
<1>7. \/ queue' = queue
      \/ job[w].msg.task = "batch" /\ runs[v].status = "submitted" /\ queue' = Append(queue, poll)
      \/ edition.auto /\ edition.status = "ready" /\ queue' = Append(queue, split)
  BY <1>2, <1>4, <1>5, <1>6
<1>8. ASSUME Sole
      PROVE  /\ queue = <<>> /\ \A y \in Workers : job'[y] = Free
             /\ \A i \in DOMAIN queue' :
                  \/ job[w].msg.task = "batch" /\ runs[v].status = "submitted" /\ queue'[i] = poll
                  \/ queue'[i] = split
             /\ Len(queue') <= 1
  <2>1. queue = <<>> /\ \A y \in Workers : job'[y] = Free
    BY <1>2, <1>3, <1>8, LeftAlone
  <2>2. CASE queue' = queue
    BY <2>1, <2>2
  <2>3. CASE job[w].msg.task = "batch" /\ runs[v].status = "submitted" /\ queue' = Append(queue, poll)
    <3>1. Len(queue') = 1 /\ DOMAIN queue' = {1} /\ queue'[1] = poll
      BY <2>1, <2>3, OneMessage
    <3> QED BY <2>1, <2>3, <3>1
  <2>4. CASE queue' = Append(queue, split)
    <3>1. Len(queue') = 1 /\ DOMAIN queue' = {1} /\ queue'[1] = split
      BY <2>1, <2>4, OneMessage
    <3> QED BY <2>1, <2>4, <3>1
  <2> QED BY <1>7, <2>1, <2>2, <2>3, <2>4
<1>9. ASSUME Sole, Steady, Directly \/ InBatches PROVE (Directly \/ InBatches)'
  <2>1. /\ queue = <<>> /\ \A y \in Workers : job'[y] = Free
        /\ \A i \in DOMAIN queue' :
             \/ job[w].msg.task = "batch" /\ runs[v].status = "submitted" /\ queue'[i] = poll
             \/ queue'[i] = split
    BY <1>8, <1>9
  <2>2. \A y \in Workers : ~AtIt(y)' /\ ~Trying(y)' /\ ~Holding(y)' /\ job'[y].step # "call" /\ job'[y].step # "begin"
    BY <2>1, FreeDoesNothing, FreeIsNoJob
  <2>3. CASE Directly
    <3>1. \A i \in DOMAIN queue' : queue'[i] = split
      BY <1>3, <2>1, <2>3 DEF Directly, DirectJobs
    <3>2. ~cancel'.open /\ DirectRuns' /\ DirectMessages' /\ DirectJobs'
      BY <1>3, <1>6, <2>2, <2>3, <3>1 DEF Directly, DirectRuns, DirectMessages, DirectJobs
    <3>3. \A y \in Workers : ~Holding(y) /\ job[y].step # "call"
      BY <1>2, <1>3, <1>9, OthersFree, FreeIsNoJob DEF Holding
    <3>4. Saved'
      BY <1>3, <2>2, <2>3, <3>3 DEF Directly, Saved, Paid, Carried
    <3>5. InHand'
      BY <2>2 DEF InHand
    <3>6. Accounted'
      BY <1>3, <2>2, <2>3, <3>3 DEF Directly, Accounted
    <3> QED BY <3>2, <3>4, <3>5, <3>6 DEF Directly
  <2>4. CASE InBatches
    <3>1. Existing' = Existing /\ \A x \in Sources : Newest(x) => Newest(x)'
      BY <1>3, NewestKept
    <3>2. Unbilled' /\ BatchRuns' /\ BatchFailed'
      BY <1>3, <2>4, <3>1 DEF InBatches, Unbilled, BatchRuns, BatchFailed
    <3>3. Newest(v)
      BY <1>3, <1>4, <2>4 DEF InBatches, BatchJobs
    <3>4. runs[v].status = "submitted" => runs[v].how = "batch"
      <4>1. runs[v].how \in {"none", "batch", "direct"}
        BY <1>1 DEF Shape, RunRows
      <4> QED BY <1>1, <2>4, <4>1 DEF Numbered, Sound, InBatches, BatchRuns
    <3>5. BatchMessages'
      BY <1>3, <1>5, <1>6, <2>1, <3>1, <3>3, <3>4 DEF BatchMessages
    <3>6. BatchJobs'
      BY <2>2 DEF BatchJobs
    <3> QED BY <1>3, <2>4, <3>1, <3>2, <3>5, <3>6 DEF InBatches
  <2> QED BY <1>9, <2>3, <2>4
<1>10. CASE queue' = queue \/ queue' = Append(queue, poll)
  BY <1>2, <1>3, <1>5, <1>9, <1>10, StepKeeps DEF Tasks
<1>11. CASE edition.auto /\ edition.status = "ready" /\ queue' = Append(queue, split)
  <2>1. \A i \in DOMAIN queue' : queue'[i] = split \/ (i \in DOMAIN queue /\ queue'[i] = queue[i])
    BY <1>1, <1>11, Waiting
  <2>2. ~edition.cancelled /\ ~edition.again /\ edition.text = Chapters
    BY <1>1, <1>11 DEF Marked
  <2>3. Marked'
    BY <1>1, <1>2, <1>3, <2>1, <2>2, FreeIsNoJob DEF Marked
  <2>4. ASSUME used.delays = 0
        PROVE  Steady /\ Alone /\ GivenUp /\ Sole /\ (Directly \/ InBatches) /\ LastOfAll /\ StaysIn
    <3>1. Steady
      BY <2>2, <2>4 DEF Steady
    <3>2. Alone /\ GivenUp /\ (Directly \/ InBatches) /\ LastOfAll /\ StaysIn
      BY <2>4, <3>1 DEF Inv
    <3> QED BY <1>1, <1>3, <3>1, <3>2, AtItAlone
  <2>5. ASSUME used.delays = 0
        PROVE  Alone' /\ GivenUp' /\ (Directly \/ InBatches)' /\ LastOfAll' /\ StaysIn'
    <3>1. (Directly \/ InBatches)'
      BY <1>9, <2>4, <2>5
    <3>2. /\ queue = <<>> /\ \A y \in Workers : job'[y] = Free
          /\ \A y \in Workers : ~Busy(y)' /\ ~AtIt(y)'
      BY <1>8, <2>4, <2>5, FreeDoesNothing
    <3>3. \A i \in DOMAIN queue' : queue'[i] = split
      BY <2>1, <3>2
    <3>4. NoTranslation' /\ OnlyOut'
      BY <1>6, <3>2, <3>3 DEF NoTranslation, OnlyOut, Tasks
    <3>5. LastOfAll' /\ StaysIn'
      BY <1>3, <2>2, <3>4 DEF LastOfAll, StaysIn
    <3> QED BY <3>1, <3>4, <3>5 DEF Alone, GivenUp
  <2> QED BY <1>2, <1>3, <2>3, <2>5 DEF Inv, Steady
<1> QED BY <1>7, <1>10, <1>11

\* A worker that takes the only message is alone.
LEMMA TakenAlone ==
  ASSUME Shape, Alone, NEW w \in Workers, queue # <<>>, queue[1].task \in Tasks, queue' = Tail(queue),
         \A y \in Workers \ {w} : job'[y] = job[y]
  PROVE  /\ queue' = <<>> /\ Sole' /\ ~NoTranslation
         /\ \A y \in Workers : job[y] = Free /\ ~AtIt(y) /\ ~Trying(y) /\ ~Holding(y) /\ job[y].step # "call"
         /\ \A y \in Workers \ {w} : /\ ~AtIt(y)' /\ ~Trying(y)' /\ ~Holding(y)'
                                     /\ job'[y].step # "call" /\ job'[y].step # "begin"
<1>1. 1 \in DOMAIN queue
  BY DEF Shape
<1>2. ~NoTranslation /\ Sole
  BY <1>1 DEF Alone, NoTranslation
<1>3. \A y \in Workers : job[y] = Free
  BY <1>2 DEF Sole, Busy
<1>4. queue' = <<>>
  <2>1. queue \in Seq(Messages) /\ Len(queue) <= 1
    BY <1>2 DEF Shape, Sole
  <2> QED BY <2>1
<1>5. \A y \in Workers \ {w} : job'[y] = Free /\ ~Busy(y)'
  BY <1>3, FreeDoesNothing
<1>6. \A y \in Workers \ {w} : /\ ~AtIt(y)' /\ ~Trying(y)' /\ ~Holding(y)'
                               /\ job'[y].step # "call" /\ job'[y].step # "begin"
  BY <1>5, FreeDoesNothing, FreeIsNoJob
<1>7. Sole'
  <2>1. Len(queue') <= 1
    <3>1. Len(queue) \in Nat /\ Len(queue) <= 1 /\ Len(queue') = Len(queue) - 1
      BY <1>2, Delivered DEF Shape, Sole
    <3> QED BY <3>1
  <2>2. \A y, x \in Workers : Busy(y)' /\ Busy(x)' => y = x
    BY <1>5
  <2> QED BY <1>4, <2>1, <2>2 DEF Sole
<1>8. \A y \in Workers : ~AtIt(y) /\ ~Trying(y) /\ ~Holding(y) /\ job[y].step # "call"
  BY <1>3, FreeDoesNothing, FreeIsNoJob
<1> QED BY <1>2, <1>3, <1>4, <1>6, <1>7, <1>8

LEMMA DeliverKeeps == ASSUME Inv, NEW w \in Workers, Deliver(w) PROVE Inv'
<1>1. Shape /\ Numbered /\ Marked
  BY DEF Inv
<1>2. Shape' /\ Numbered'
  BY <1>1, DeliverShape
<1>3. UNCHANGED <<source, batches, billed, usable, counted, lost, cancel>>
  BY DEF Deliver
<1>4. PICK m \in Messages :
        /\ m = queue[1] /\ queue # <<>> /\ job[w] = Free
        /\ \/ Followed(w, m)
           \/ /\ m.task = "poll" /\ queue' = Tail(queue) /\ UNCHANGED <<runs, job, edition, used>>
           \/ \E v \in Sources, k \in Jobs, p \in RunRows : Started(w, m, v, k, p)
  BY <1>1, DeliverIs
<1>5. CASE Followed(w, m)
  BY <1>4, <1>5, FollowedKeeps
<1>6. ASSUME ~Followed(w, m) PROVE Inv'
  <2>1. /\ m.task \in Tasks /\ edition' = edition /\ used' = used /\ queue' = Tail(queue)
        /\ \A y \in Workers \ {w} : job'[y] = job[y]
        /\ job' = job \/ job'[w].step \in {"after", "submit", "begin", "poll"}
    <3>1. CASE m.task = "poll" /\ queue' = Tail(queue) /\ UNCHANGED <<runs, job, edition, used>>
      BY <3>1 DEF Tasks
    <3>2. CASE \E v \in Sources, k \in Jobs, p \in RunRows : Started(w, m, v, k, p)
      <4>1. PICK v \in Sources, k \in Jobs, p \in RunRows : Started(w, m, v, k, p)
        BY <3>2
      <4>2. job' = [job EXCEPT ![w] = k] /\ k.step \in {"after", "submit", "begin", "poll"}
        BY <4>1 DEF Started
      <4>3. job'[w] = k /\ \A y \in Workers \ {w} : job'[y] = job[y]
        BY <1>1, <4>2, JobShape
      <4> QED BY <4>1, <4>2, <4>3 DEF Started
    <3> QED BY <1>4, <1>6, <3>1, <3>2
  <2>2. /\ 1 \in DOMAIN queue
        /\ \A i \in DOMAIN queue' : i + 1 \in DOMAIN queue /\ queue'[i] = queue[i + 1]
    BY <1>1, <1>4, <2>1, Delivered DEF Shape
  <2>3. \A y \in Workers : job'[y].step \in {"hand", "normalize"} => job'[y] = job[y]
    BY <2>1
  <2>4. Marked'
    BY <1>1, <2>1, <2>2, <2>3 DEF Marked
  <2>5. ASSUME used'.delays = 0 PROVE LastOfAll' /\ StaysIn'
    <3>1. LastOfAll /\ StaysIn
      BY <2>1, <2>5 DEF Inv
    <3>2. OnItsWay' => OnItsWay
      BY <2>2, <2>3 DEF OnItsWay, Handing
    <3>3. ~OnlyOut
      BY <1>4, <2>1, <2>2 DEF OnlyOut, Tasks
    <3> QED BY <2>1, <3>1, <3>2, <3>3 DEF LastOfAll, StaysIn
  <2>6. ASSUME Steady' PROVE Alone' /\ GivenUp' /\ (Directly \/ InBatches)'
    <3>1. Alone /\ GivenUp /\ (Directly \/ InBatches)
      BY <2>1, <2>6 DEF Inv, Steady
    <3>2. /\ queue' = <<>> /\ Sole' /\ ~NoTranslation
          /\ \A y \in Workers : job[y] = Free /\ ~AtIt(y) /\ ~Trying(y) /\ ~Holding(y) /\ job[y].step # "call"
          /\ \A y \in Workers \ {w} : /\ ~AtIt(y)' /\ ~Trying(y)' /\ ~Holding(y)'
                                      /\ job'[y].step # "call" /\ job'[y].step # "begin"
      BY <1>1, <1>4, <2>1, <3>1, TakenAlone
    <3>3. ~(edition'.status = "failed" /\ ~edition'.cancelled)
      BY <2>1, <3>1, <3>2 DEF GivenUp
    <3>4. Alone' /\ GivenUp' /\ BatchFailed' /\ DirectMessages' /\ BatchMessages'
      BY <3>2, <3>3 DEF Alone, GivenUp, BatchFailed, DirectMessages, BatchMessages
    <3>5. CASE UNCHANGED <<runs, job>>
      <4>1. \A y \in Workers : ~AtIt(y)' /\ ~Trying(y)' /\ ~Holding(y)' /\ job'[y].step # "call" /\ job'[y].step # "begin"
        BY <3>2, <3>5, FreeDoesNothing, FreeIsNoJob
      <4>2. CASE Directly
        <5>1. ~cancel'.open /\ DirectRuns' /\ DirectJobs'
          BY <1>3, <3>5, <4>1, <4>2 DEF Directly, DirectRuns, DirectJobs
        <5>2. Saved'
          BY <1>3, <3>2, <3>5, <4>2 DEF Directly, Saved, Paid, Carried
        <5>3. InHand'
          BY <4>1 DEF InHand
        <5>4. Accounted'
          BY <1>3, <2>1, <3>2, <4>1, <4>2 DEF Directly, Accounted
        <5> QED BY <3>4, <5>1, <5>2, <5>3, <5>4 DEF Directly
      <4>3. CASE InBatches
        <5>1. Existing' = Existing
          BY <3>5 DEF Existing
        <5>2. Unbilled' /\ BatchRuns' /\ BatchJobs'
          BY <1>3, <3>5, <4>1, <4>3 DEF InBatches, Unbilled, BatchRuns, BatchJobs
        <5> QED BY <1>3, <3>4, <4>3, <5>1, <5>2 DEF InBatches
      <4> QED BY <3>1, <3>4, <4>2, <4>3
    <3>6. CASE \E v \in Sources, k \in Jobs, p \in RunRows : Started(w, m, v, k, p)
      <4>1. PICK v \in Sources, k \in Jobs, p \in RunRows : Started(w, m, v, k, p)
        BY <3>6
      <4>2. /\ job'[w] = k /\ k.msg = m /\ k.of = v /\ k.step \in {"after", "submit", "begin", "poll"}
            /\ k.came = {} /\ k.good = {}
            /\ runs'[v] = p /\ \A x \in Sources \ {v} : runs'[x] = runs[x]
        BY <1>1, <4>1 DEF Started, Shape
      <4>3. p = runs[v] \/ (p.status = "queued" /\ p.how = "none" /\ p.lines = runs[v].lines)
        BY <1>1, <4>1 DEF Started, Shape, RunRows
      <4>4. CASE Directly
        <5>1. m.task = "direct"
          BY <1>4, <2>1, <2>2, <4>4 DEF Directly, DirectMessages, Tasks
        <5>2. k.step \in {"after", "begin"} /\ (k.step = "begin" => runs'[v].status = "queued")
          BY <1>1, <4>1, <4>2, <5>1 DEF Started, Shape, RunRows
        <5>3. runs[v].status = "succeeded" => p = runs[v]
          BY <4>1 DEF Started
        <5>4. ~cancel'.open /\ DirectRuns'
          BY <1>3, <4>2, <4>3, <4>4 DEF Directly, DirectRuns
        <5>5. DirectJobs'
          BY <3>2, <4>2, <5>1, <5>2 DEF DirectJobs
        <5>6. Saved'
          <6> SUFFICES ASSUME NEW x \in Sources, NEW c \in Chapters
                       PROVE  usable[x][c] <= 1 + lost[x][c] /\ (~Paid(x, c)' => usable[x][c] <= lost[x][c])
            BY <1>3 DEF Saved
          <6>1. usable[x][c] <= 1 + lost[x][c] /\ (~Paid(x, c) => usable[x][c] <= lost[x][c])
            BY <4>4 DEF Directly, Saved
          <6>2. ~Carried(x, c)
            BY <3>2 DEF Carried
          <6>3. Paid(x, c) => Paid(x, c)'
            BY <4>2, <4>3, <5>3, <6>2 DEF Paid
          <6> QED BY <6>1, <6>3
        <5>7. InHand'
          BY <3>2, <4>2, <5>2 DEF InHand, Trying, Holding
        <5>8. Accounted'
          <6>1. \A y \in Workers : ~Holding(y)'
            BY <3>2, <4>2 DEF Holding
          <6> QED BY <1>3, <2>1, <3>2, <4>4, <6>1 DEF Directly, Accounted
        <5> QED BY <3>4, <5>4, <5>5, <5>6, <5>7, <5>8 DEF Directly
      <4>5. CASE InBatches
        <5>1. m.task \in {"batch", "poll"}
          BY <1>4, <2>1, <2>2, <4>5 DEF InBatches, BatchMessages, Tasks
        <5>2. \A x \in Sources : x # v => (runs'[x].status = "absent" <=> runs[x].status = "absent")
          BY <4>2
        <5>3. m.task = "poll" => Newest(v) /\ runs[v].how = "batch" /\ p = runs[v] /\ m.of = v /\ k.step = "poll"
          BY <1>4, <2>2, <4>1, <4>5 DEF InBatches, BatchMessages, Started
        <5>4. m.task = "batch" => v = source /\ p.status # "absent" /\ k.step \in {"after", "submit"}
          BY <1>1, <4>1 DEF Started, Shape, RunRows
        <5>5. runs'[v].status # "absent" /\ Existing' = Existing \cup {v}
          BY <4>2, <5>1, <5>2, <5>3, <5>4 DEF Existing, Newest
        <5>6. Newest(v)'
          <6>1. \A x \in Existing : x <= source
            BY <4>5 DEF InBatches, BatchRuns, Existing
          <6>2. v <= v
            BY Numbers
          <6>3. \A x \in Existing : x <= v
            BY <5>1, <5>3, <5>4, <6>1 DEF Newest
          <6> QED BY <5>5, <6>2, <6>3 DEF Newest
        <5>7. Unbilled'
          BY <1>3, <4>5 DEF InBatches, Unbilled
        <5>8. BatchRuns'
          <6>1. source <= source
            BY <1>1, Numbers DEF Shape
          <6> QED BY <1>3, <4>2, <4>3, <4>5, <5>1, <5>3, <5>4, <6>1 DEF InBatches, BatchRuns, Newest
        <5>9. BatchJobs'
          BY <3>2, <4>2, <5>1, <5>3, <5>4, <5>6 DEF BatchJobs
        <5>10. cancel'.open => cancel'.of \in Existing'
          BY <1>3, <4>5, <5>5 DEF InBatches
        <5> QED BY <3>4, <5>7, <5>8, <5>9, <5>10 DEF InBatches
      <4> QED BY <3>1, <3>4, <4>4, <4>5
    <3> QED BY <1>4, <1>6, <3>5, <3>6
  <2> QED BY <1>2, <2>4, <2>5, <2>6 DEF Inv
<1> QED BY <1>5, <1>6

----------------------------------------------------------------------------
(* The invariant holds, and what it says. *)

LEMMA InitInv == Init => Inv
<1> SUFFICES ASSUME Init PROVE Inv
  OBVIOUS
<1>1. Shape /\ Numbered
  BY InitShape
<1>2. PICK mode \in Modes : queue = <<Send(mode, 0)>>
  BY DEF Init
<1>3. /\ mode \in {"batch", "direct"} /\ Len(queue) = 1 /\ DOMAIN queue = {1} /\ queue[1].task = mode
      /\ mode \in Tasks
  BY <1>2, ModesAssumption DEF Send, Tasks
<1>4. \A w \in Workers : job[w] = Free
  BY DEF Init
<1>5. \A w \in Workers : /\ ~Busy(w) /\ ~AtIt(w) /\ ~Trying(w) /\ ~Holding(w)
                         /\ job[w].step \notin {"call", "begin", "hand", "normalize"}
  BY <1>4, FreeDoesNothing, FreeIsNoJob
<1>6. Marked
  BY <1>3, <1>5 DEF Init, Marked
<1>7. GivenUp /\ BatchFailed
  BY DEF Init, GivenUp, BatchFailed
<1>8. Alone
  BY <1>3, <1>5 DEF Alone, Sole
<1>9. LastOfAll /\ StaysIn
  BY <1>3, <1>5 DEF Init, LastOfAll, OnItsWay, Handing, StaysIn
<1>10. \A v \in Sources, c \in Chapters :
         billed[v][c] = 0 /\ usable[v][c] = 0 /\ counted[v][c] = 0 /\ lost[v][c] = 0
  BY DEF Init
<1>11. \A v \in Sources : runs[v].status = "absent" /\ runs[v].how = "none"
  BY DEF Init, NoRun
<1>12. ~cancel.open
  BY DEF Init, NoCancel
<1>13. CASE mode = "direct"
  <2>1. Saved /\ InHand /\ Accounted
    BY <1>5, <1>10 DEF Saved, InHand, Accounted
  <2>2. DirectRuns /\ DirectMessages /\ DirectJobs
    BY <1>3, <1>5, <1>11, <1>13 DEF DirectRuns, DirectMessages, DirectJobs
  <2> QED BY <1>1, <1>6, <1>7, <1>8, <1>9, <1>12, <2>1, <2>2 DEF Inv, Directly
<1>14. CASE mode = "batch"
  <2>1. Unbilled /\ BatchRuns /\ BatchMessages /\ BatchJobs
    BY <1>3, <1>5, <1>10, <1>11, <1>14 DEF Unbilled, BatchRuns, BatchMessages, BatchJobs
  <2> QED BY <1>1, <1>6, <1>7, <1>8, <1>9, <1>12, <2>1 DEF Inv, InBatches
<1> QED BY <1>3, <1>13, <1>14

LEMMA NextInv == ASSUME Inv, [Next]_vars PROVE Inv'
<1>1. CASE Cancel \/ OpenCancel \/ WriteCancel \/ Retry \/ TouchSource
  BY <1>1, CancelKeeps, OpenCancelKeeps, WriteCancelKeeps, RetryKeeps, TouchSourceKeeps
<1>2. CASE BatchEnds \/ FallSilent
  BY <1>2, BatchEndsKeeps, FallSilentKeeps
<1>3. ASSUME NEW w \in Workers, Work(w) PROVE Inv'
  BY <1>3, DeliverKeeps, BeginKeeps, AnswerKeeps, KeepKeeps, CompleteKeeps, AfterKeeps, SubmitKeeps,
     SaveSubmitKeeps, PollKeeps, FinishKeeps DEF Work
<1>4. ASSUME NEW w \in Workers, Redeliver(w) \/ Crash(w) PROVE Inv'
  BY <1>4, RedeliverKeeps, CrashKeeps
<1>5. CASE UNCHANGED vars
  BY <1>5, StillInv
<1> QED BY <1>1, <1>2, <1>3, <1>4, <1>5 DEF Next

LEMMA InvTyped == Inv => TypeOK
<1> SUFFICES ASSUME Inv PROVE TypeOK
  OBVIOUS
<1>1. Shape /\ Numbered
  BY DEF Inv
<1>2. /\ edition.status \in {"processing", "failed", "review", "ready", "published"}
      /\ edition.text \subseteq Chapters
      /\ {edition.auto, edition.cancelled, edition.crossed, edition.aside, edition.again} \subseteq BOOLEAN
      /\ source \in Sources
  BY <1>1 DEF Shape, Rows, Statuses
<1>3. \A v \in Sources :
        /\ runs[v].status \in {"absent", "queued", "submitted", "succeeded", "failed"}
        /\ runs[v].how \in {"none", "batch", "direct"}
        /\ runs[v].lines \in Lines /\ runs[v].batch \in 0..Len(batches)
        /\ runs[v].status = "submitted" => runs[v].how # "none"
        /\ runs[v].how = "batch" => runs[v].batch > 0
  <2> TAKE v \in Sources
  <2>1. runs[v] \in RunRows /\ Sound(runs[v], Len(batches)) /\ Len(batches) \in Nat
    BY <1>1 DEF Shape, Numbered
  <2> QED BY <2>1 DEF RunRows, Sound
<1>4. \A i \in DOMAIN batches : batches[i] \in {"running", "whole", "partial", "ended"}
  BY <1>1 DEF Shape
<1>5. \A f \in {billed, usable, counted, lost} : f \in [Sources -> [Chapters -> Nat]]
  BY <1>1 DEF Shape, Calls
<1>6. \A i \in DOMAIN queue : queue[i] \in Messages
  BY <1>1 DEF Shape
<1>7. \A w \in Workers : job[w].step \in {"free", "begin", "submit", "save", "call", "complete",
                                          "poll", "after", "hand", "normalize"}
  BY <1>1, FreeIsNoJob DEF Shape, Steps, Translating
<1> QED BY <1>2, <1>3, <1>4, <1>5, <1>6, <1>7 DEF TypeOK

LEMMA InvBilledOnce == Inv => BilledOnce
<1> SUFFICES ASSUME Inv, Steady PROVE BilledOnce
  BY DEF Steady, BilledOnce, PaidOnce, BilledIsCounted
<1>1. Directly \/ InBatches
  BY DEF Inv
<1>2. \A v \in Sources, c \in Chapters :
        billed[v][c] \in Nat /\ counted[v][c] \in Nat /\ lost[v][c] \in Nat
  BY DEF Inv, Shape, Calls
<1>3. \A v \in Sources, c \in Chapters : usable[v][c] <= 1 + lost[v][c]
  BY <1>1, <1>2 DEF Directly, Saved, InBatches, Unbilled
<1>4. ASSUME Quiet, used.crashes = 0, NEW v \in Sources, NEW c \in Chapters
      PROVE  counted[v][c] >= billed[v][c]
  <2>1. \A w \in Workers : ~Holding(w)
    BY <1>4, FreeDoesNothing DEF Quiet
  <2>2. billed[v][c] <= counted[v][c]
    BY <1>1, <1>2, <1>4, <2>1 DEF Directly, Accounted, InBatches, Unbilled
  <2> QED BY <1>2, <2>2
<1> QED BY <1>3, <1>4 DEF BilledOnce, PaidOnce, BilledIsCounted

LEMMA Invariance == Spec => []Inv
<1>1. Inv /\ [Next]_vars => Inv'
  BY NextInv
<1> QED BY InitInv, <1>1, PTL DEF Spec

\* A translation's state is well formed: a run that is being made has its execution, a batch its
\* identity, and an edition has every chapter or none (models.py AiRun, ai_translation.py).
THEOREM TranslationTyped == Spec => []TypeOK
BY Invariance, InvTyped, PTL

\* Whatever the book, the workers, the threads and the failures, a usable answer is paid for once
\* and once more for each time it died unsaved with its worker; and what was paid for is in the
\* ledger where no worker died: both as long as no slow worker is taken for dead and no cancelled
\* edition is retried beside its attempt (run_translation_inline, complete_translation_batch).
THEOREM TranslationBilledOnce == Spec => []BilledOnce
BY Invariance, InvBilledOnce, PTL

\* Whatever the interleaving of people, workers and the provider, a cancelled order is not published
\* by the worker that was at it, nor by a publication that was queued; unless the publication was
\* past its check by then or still queued when the edition was finished again by hand, or a slow
\* worker was taken for dead (cancel_translation, continue_after_translation, publish_edition).
THEOREM CancelledStays == Spec => []CancelledStaysIn
<1>1. Inv => CancelledStaysIn
  BY DEF Inv, StaysIn, CancelledStaysIn
<1> QED BY Invariance, <1>1, PTL
=============================================================================
