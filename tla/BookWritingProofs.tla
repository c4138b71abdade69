------------------------- MODULE BookWritingProofs -------------------------
(***************************************************************************)
(* What the writing of books keeps, for any plan, workers and faults.      *)
(***************************************************************************)
EXTENDS BookWriting, SequenceTheorems, FiniteSetTheorems, TLAPS

----------------------------------------------------------------------------
(* Plans, windows and keys. *)

\* A window is a part of the blocks, and there is one to begin with.
LEMMA WindowFacts ==
  /\ Windows \in Seq(SUBSET SUBSET Blocks) /\ DOMAIN Windows = 1..Len(Windows)
  /\ 1 \in DOMAIN Windows /\ Len(Windows) \in Nat
  /\ \A i \in DOMAIN Windows : \A part \in Windows[i] : part \subseteq Blocks
<1>1. Windows \in Seq(SUBSET SUBSET Blocks)
  BY BlocksAssumption
<1>2. DOMAIN Windows = 1..Len(Windows) /\ Len(Windows) \in Nat
  BY <1>1, LenProperties
<1>3. DOMAIN Windows # {}
  <2>1. DOMAIN Windows = {} => Range(Windows) = {}
    BY DEF Range
  <2>2. Range(Windows) = {} => Blocks = {}
    BY DEF Blocks
  <2> QED BY <2>1, <2>2, BlocksAssumption
<1>4. \A i \in DOMAIN Windows : Windows[i] \in SUBSET SUBSET Blocks
  BY <1>1, <1>2, ElementOfSeq
<1> QED BY <1>1, <1>2, <1>3, <1>4

\* A key made of a part of the blocks.
LEMMA KeyFacts ==
  ASSUME TypeOK, NEW e \in DOMAIN editions, NEW part \in SUBSET Blocks
  PROVE  /\ IsKey(Key(e, part), DOMAIN editions) /\ Current(Key(e, part))
         /\ Key(e, part).edition = e /\ Key(e, part).part = part
         /\ Key(e, part).title = source.title /\ Key(e, part).text = Snapshot(part)
         /\ \A x \in part : Key(e, part).text[x] = source.text[x]
<1>1. Snapshot(part) \in [part -> Versions]
  BY DEF Snapshot, TypeOK, Sources
<1>2. source.title \in Versions
  BY DEF TypeOK, Sources
<1> QED BY <1>1, <1>2 DEF Key, IsKey, Current, Snapshot

\* The sequence of a finite set has its elements.
LEMMA SetToSeqFacts ==
  ASSUME NEW S, IsFiniteSet(S) PROVE SetToSeq(S) \in Seq(S)
<1>1. Cardinality(S) \in Nat /\ ExistsBijection(1..Cardinality(S), S)
  BY FS_CardinalityType
<1>2. PICK f \in [1..Cardinality(S) -> S] : IsInjective(f)
  BY <1>1 DEF ExistsBijection, Bijection, Injection
<1>3. SetToSeq(S) \in [1..Cardinality(S) -> S]
  BY <1>2 DEF SetToSeq
<1> QED BY <1>1, <1>3, SeqDef

\* What is asked for first in a batch: its windows, each whole.
LEMMA FirstAsked ==
  ASSUME TypeOK, NEW e \in DOMAIN editions, NEW i \in DOMAIN Windows,
         NEW S, \A part \in Windows[i] : [key |-> Key(e, part), depth |-> 0] \in S
  PROVE  SetToSeq({[key |-> k, depth |-> 0] : k \in {Key(e, part) : part \in Windows[i]}}) \in Seq(S)
<1> DEFINE ask == [part \in Windows[i] |-> [key |-> Key(e, part), depth |-> 0]]
           T == {[key |-> k, depth |-> 0] : k \in {Key(e, part) : part \in Windows[i]}}
<1>1. IsFiniteSet(Windows[i])
  <2>1. IsFiniteSet(SUBSET Blocks)
    BY BlocksAssumption, FS_SUBSET
  <2>2. Windows[i] \in SUBSET SUBSET Blocks
    BY WindowFacts
  <2> QED BY <2>1, <2>2, FS_Subset
<1>2. ask \in Surjection(Windows[i], T)
  BY DEF Surjection
<1>3. IsFiniteSet(T)
  BY <1>1, <1>2, FS_Surjection
<1>4. T \subseteq S
  OBVIOUS
<1> HIDE DEF T
<1>5. SetToSeq(T) \in Seq(S)
  BY <1>3, <1>4, SetToSeqFacts, SeqMonotonic
<1> QED BY <1>5 DEF T

\* Halves are parts of their window.
LEMMA HalvesFacts ==
  ASSUME NEW part \in SUBSET Blocks
  PROVE  Halves(part)[1] \in SUBSET Blocks /\ Halves(part)[2] \in SUBSET Blocks
  BY DEF Halves

----------------------------------------------------------------------------
(* The invariant. *)

AtWork(w) == job[w].step # "free"

\* Nothing that was planned or asked for is newer than the source, nor the source than the
\* number of its edits: an edit makes a plan or a key that never was.
PlanIsOld(p) == p.title <= source.title /\ \A x \in Blocks : p.text[x] <= used.edits
KeyIsOld(k) == k.title <= source.title /\ \A x \in k.part : k.text[x] <= used.edits
SourceGrows ==
  /\ source.title <= used.edits /\ \A x \in Blocks : source.text[x] <= used.edits
  /\ \A b \in DOMAIN books : PlanIsOld(books[b].plan)
  /\ \A k \in DOMAIN pilots : KeyIsOld(k)

\* While the source is what a book was planned on, so is what was asked for and taken for it.
OfSource(keys) == {a \in Asked(keys) : a.key.text = Snapshot(a.key.part)}
AsPlanned ==
  \A w \in Workers : AtWork(w) /\ books[job[w].book].plan = source =>
    /\ job[w].asked \in Seq(OfSource(DOMAIN pilots))
    /\ \A x \in Blocks : job[w].results[x] \in {-1, source.text[x]}

\* A worker has pilots of the edition it writes into, and one in hand only while it runs it.
InCall(j) == j.step \in {"call", "finish"}
OwnKeys ==
  \A w \in Workers :
    /\ \A k \in job[w].todo : k.edition = books[job[w].book].edition
    /\ IF InCall(job[w]) THEN job[w].now.edition = books[job[w].book].edition
       ELSE job[w].now = Nothing

\* Without hanging workers, a book that is being written is running and has one worker, and
\* of the books of an edition only the last can be anything but failed or of an old plan.
AtRun == \A w \in Workers : AtWork(w) => books[job[w].book].status = "running"
OneWorker ==
  \A v, w \in Workers : (AtWork(v) /\ AtWork(w) /\ job[v].book = job[w].book) => v = w
LastCounts ==
  \A a, b \in DOMAIN books : (a < b /\ books[a].edition = books[b].edition) =>
    books[a].status = "failed" /\ books[a].plan # source
FailedHas ==
  \A b \in DOMAIN books :
    editions[books[b].edition].status = "failed" => books[b].status = "failed"

\* What was written rests: its edition is reviewed or out, and no run of it goes on.
WrittenRests ==
  /\ WrittenStays
  /\ used.hangs = 0 =>
       \A b \in DOMAIN books : editions[books[b].edition].text # NoText =>
         books[b].status \notin {"queued", "running"}

\* A running pilot belongs to a running book, whose worker, if it has one, has it in hand.
RunsInBook ==
  \A k \in DOMAIN pilots : pilots[k].status = "running" =>
    /\ \E b \in DOMAIN books : books[b].edition = k.edition /\ books[b].status = "running"
    /\ \A w \in Workers : (AtWork(w) /\ books[job[w].book].edition = k.edition) =>
         InCall(job[w]) /\ job[w].now = k

OneWriter == used.hangs = 0 => AtRun /\ OneWorker /\ LastCounts /\ FailedHas /\ RunsInBook

\* With one edition, what is waiting to be asked for has no answer yet.
Waits(k) == pilots[k].status \in {"queued", "running"} /\ pilots[k].raw # "usable"
Unanswered ==
  used.hangs = 0 /\ Len(editions) <= 1 =>
    /\ \A k \in DOMAIN pilots : (Waits(k) /\ Current(k)) => k.text \notin answered
    /\ \A w \in Workers : (job[w].step = "call" /\ pilots[job[w].now].raw # "usable") =>
         job[w].now.text \notin answered

Inv == /\ TypeOK /\ SourceGrows /\ AsPlanned /\ OwnKeys /\ OneRevision /\ OneWriter /\ WrittenRests
       /\ Unanswered /\ PaidOnce

----------------------------------------------------------------------------
(* Rows, one at a time. *)

\* The status of one run of a book is set.
BookSet(b, st) ==
  /\ DOMAIN books' = DOMAIN books /\ Len(books') = Len(books)
  /\ \A c \in DOMAIN books :
       /\ books'[c].plan = books[c].plan /\ books'[c].edition = books[c].edition
       /\ books'[c].status = IF c = b THEN st ELSE books[c].status

\* The status of one edition is set.
EditionSet(e, st) ==
  /\ DOMAIN editions' = DOMAIN editions /\ Len(editions') = Len(editions)
  /\ \A i \in DOMAIN editions :
       /\ editions'[i].text = editions[i].text /\ editions'[i].corrected = editions[i].corrected
       /\ editions'[i].status = IF i = e THEN st ELSE editions[i].status

LEMMA SetBook ==
  ASSUME TypeOK, NEW b \in DOMAIN books, NEW st \in Statuses,
         books' = [books EXCEPT ![b].status = st]
  PROVE  BookSet(b, st) /\ books' \in Seq(Books(DOMAIN editions))
<1>1. b \in 1..Len(books) /\ books \in Seq(Books(DOMAIN editions)) /\ books[b] \in Books(DOMAIN editions)
  BY LenProperties, ElementOfSeq DEF TypeOK
<1>2. [books[b] EXCEPT !.status = st] \in Books(DOMAIN editions)
  BY <1>1 DEF Books
<1>3. books' = [books EXCEPT ![b] = [books[b] EXCEPT !.status = st]]
  BY <1>1
<1>4. /\ books' \in Seq(Books(DOMAIN editions)) /\ Len(books') = Len(books)
      /\ \A c \in 1..Len(books) : books'[c] = IF c = b THEN [books[b] EXCEPT !.status = st] ELSE books[c]
  BY <1>1, <1>2, <1>3, ExceptSeq
<1>5. DOMAIN books' = 1..Len(books) /\ DOMAIN books = 1..Len(books)
  BY <1>1, <1>4, LenProperties
<1> QED BY <1>1, <1>4, <1>5 DEF BookSet, Books

LEMMA SetEdition ==
  ASSUME TypeOK, NEW e \in DOMAIN editions,
         NEW st \in {"queued", "processing", "failed", "review", "published"},
         editions' = [editions EXCEPT ![e].status = st]
  PROVE  EditionSet(e, st) /\ editions' \in Seq(Editions)
<1>1. e \in 1..Len(editions) /\ editions \in Seq(Editions) /\ editions[e] \in Editions
  BY LenProperties, ElementOfSeq DEF TypeOK
<1>2. [editions[e] EXCEPT !.status = st] \in Editions
  BY <1>1 DEF Editions
<1>3. editions' = [editions EXCEPT ![e] = [editions[e] EXCEPT !.status = st]]
  BY <1>1
<1>4. /\ editions' \in Seq(Editions) /\ Len(editions') = Len(editions)
      /\ \A c \in 1..Len(editions) : editions'[c] =
           IF c = e THEN [editions[e] EXCEPT !.status = st] ELSE editions[c]
  BY <1>1, <1>2, <1>3, ExceptSeq
<1>5. DOMAIN editions' = 1..Len(editions) /\ DOMAIN editions = 1..Len(editions)
  BY <1>1, <1>4, LenProperties
<1> QED BY <1>1, <1>4, <1>5 DEF EditionSet, Editions

\* Rows are as they were written.
LEMMA RowFacts ==
  ASSUME TypeOK
  PROVE  /\ DOMAIN books = 1..Len(books) /\ Len(books) \in Nat
         /\ DOMAIN editions = 1..Len(editions) /\ Len(editions) \in Nat
         /\ \A b \in DOMAIN books : books[b] \in Books(DOMAIN editions)
         /\ \A e \in DOMAIN editions : editions[e] \in Editions
         /\ \A b \in DOMAIN books : books[b].edition \in DOMAIN editions
<1>1. books \in Seq(Books(DOMAIN editions)) /\ editions \in Seq(Editions)
  BY DEF TypeOK
<1>2. DOMAIN books = 1..Len(books) /\ Len(books) \in Nat
  BY <1>1, LenProperties
<1>3. DOMAIN editions = 1..Len(editions) /\ Len(editions) \in Nat
  BY <1>1, LenProperties
<1>4. \A b \in DOMAIN books : books[b] \in Books(DOMAIN editions)
  BY <1>1, <1>2, ElementOfSeq
<1>5. \A e \in DOMAIN editions : editions[e] \in Editions
  BY <1>1, <1>3, ElementOfSeq
<1> QED BY <1>2, <1>3, <1>4, <1>5 DEF Books

----------------------------------------------------------------------------
(* Types. *)

LEMMA JobStays ==
  ASSUME NEW j, NEW bs, NEW cs, NEW ks, NEW ls, bs \subseteq cs, ks \subseteq ls, JobOK(j, bs, ks)
  PROVE  JobOK(j, cs, ls)
<1>1. j \in Jobs(bs, ks)
  BY DEF JobOK
<1>2. Asked(ks) \subseteq Asked(ls)
  BY DEF Asked
<1>3. j.asked \in Seq(Asked(ls))
  BY <1>1, <1>2, SeqMonotonic DEF Jobs
<1>4. j \in Jobs(cs, ls)
  BY <1>1, <1>3 DEF Jobs
<1> QED BY <1>4 DEF JobOK

\* A worker's job is set.
LEMMA SetJobTypes ==
  ASSUME TypeOK, DOMAIN books \subseteq DOMAIN books', DOMAIN pilots \subseteq DOMAIN pilots',
         NEW w \in Workers, NEW j, JobOK(j, DOMAIN books', DOMAIN pilots'), SetJob(w, j)
  PROVE  /\ job' = [v \in Workers |-> job'[v]]
         /\ \A v \in Workers : JobOK(job'[v], DOMAIN books', DOMAIN pilots')
         /\ job'[w] = j /\ \A v \in Workers : v # w => job'[v] = job[v]
<1>1. job' = [v \in Workers |-> IF v = w THEN j ELSE job[v]]
  BY DEF SetJob, TypeOK
<1>2. \A v \in Workers : JobOK(job[v], DOMAIN books', DOMAIN pilots')
  BY JobStays DEF TypeOK
<1> QED BY <1>1, <1>2

LEMMA JobsStay ==
  ASSUME TypeOK, DOMAIN books \subseteq DOMAIN books', DOMAIN pilots \subseteq DOMAIN pilots',
         UNCHANGED job
  PROVE  /\ job' = [v \in Workers |-> job'[v]]
         /\ \A v \in Workers : JobOK(job'[v], DOMAIN books', DOMAIN pilots')
  BY JobStays DEF TypeOK

LEMMA FreeOK ==
  ASSUME NEW bs, NEW ks PROVE JobOK(Free, bs, ks)
<1>1. <<>> \in Seq(Asked(ks))
  BY EmptySeq
<1> QED BY <1>1, BoundsAssumption DEF JobOK, Free, Jobs

Others(w) == \A v \in Workers : v # w => job'[v] = job[v]

\* A worker at work has a book.
LEMMA WorkFacts ==
  ASSUME TypeOK, NEW w \in Workers
  PROVE  /\ JobOK(job[w], DOMAIN books, DOMAIN pilots) /\ job[w] \in Jobs(DOMAIN books, DOMAIN pilots)
         /\ AtWork(w) => /\ job[w].book \in DOMAIN books
                         /\ books[job[w].book].edition \in DOMAIN editions
         /\ ~AtWork(w) <=> job[w] = Free
<1>1. JobOK(job[w], DOMAIN books, DOMAIN pilots)
  BY DEF TypeOK
<1>2. AtWork(w) => job[w].book \in DOMAIN books
  BY <1>1 DEF JobOK, AtWork
<1>3. Free.step = "free"
  BY DEF Free
<1> QED BY <1>1, <1>2, <1>3, RowFacts DEF JobOK, AtWork

\* A failure: the run failed, the edition unless it was published, and the worker is free.
LEMMA FailFacts ==
  ASSUME TypeOK, NEW w \in Workers, AtWork(w), Fail(w)
  PROVE  LET b == job[w].book
             e == books[b].edition
         IN /\ BookSet(b, "failed")
            /\ EditionSet(e, IF editions[e].status = "published" THEN "published" ELSE "failed")
            /\ books' \in Seq(Books(DOMAIN editions)) /\ editions' \in Seq(Editions)
            /\ pilots' = pilots /\ job'[w] = Free /\ Others(w)
            /\ job' = [v \in Workers |-> job'[v]]
            /\ \A v \in Workers : JobOK(job'[v], DOMAIN books', DOMAIN pilots')
<1> PICK b \in DOMAIN books : b = job[w].book
  BY WorkFacts
<1> PICK e \in DOMAIN editions : e = books[b].edition
  BY RowFacts
<1>1. books' = [books EXCEPT ![b].status = "failed"] /\ pilots' = pilots /\ SetJob(w, Free)
  BY DEF Fail
<1>2. editions' = [editions EXCEPT ![e].status = IF editions[e].status = "published" THEN "published" ELSE "failed"]
  BY DEF Fail
<1>3. BookSet(b, "failed") /\ books' \in Seq(Books(DOMAIN editions))
  BY <1>1, SetBook DEF Statuses
<1>4. /\ EditionSet(e, IF editions[e].status = "published" THEN "published" ELSE "failed")
      /\ editions' \in Seq(Editions)
  BY <1>2, SetEdition
<1>5. /\ job' = [v \in Workers |-> job'[v]]
      /\ \A v \in Workers : JobOK(job'[v], DOMAIN books', DOMAIN pilots')
      /\ job'[w] = Free /\ \A v \in Workers : v # w => job'[v] = job[v]
  BY <1>1, <1>3, FreeOK, SetJobTypes DEF BookSet
<1> QED BY <1>1, <1>3, <1>4, <1>5 DEF Others

LEMMA FailTypes ==
  ASSUME TypeOK, NEW w \in Workers, AtWork(w), Fail(w),
         UNCHANGED <<source, rebought, queue, used>>
  PROVE  TypeOK'
  BY FailFacts DEF BookSet, EditionSet, TypeOK

\* What queueing makes of pilots.
LEMMA QueueFacts ==
  ASSUME TypeOK, NEW keys, \A k \in keys : IsKey(k, DOMAIN editions), QueuePilots(keys)
  PROVE  /\ DOMAIN pilots' = DOMAIN pilots \cup keys
         /\ \A k \in DOMAIN pilots' : IsKey(k, DOMAIN editions) /\ pilots'[k] \in Pilots
         /\ \A k \in DOMAIN pilots \ keys : pilots'[k] = pilots[k]
         /\ \A k \in keys : \/ k \in DOMAIN pilots /\ pilots'[k] = pilots[k]
                            \/ /\ pilots'[k].status = "queued"
                               /\ PaidAnswer(k.text) => pilots'[k].raw = "usable"
<1>1. /\ DOMAIN pilots' = DOMAIN pilots \cup keys
      /\ \A k \in DOMAIN pilots' : pilots'[k] = IF k \in keys THEN Queued(k) ELSE pilots[k]
  BY DEF QueuePilots
<1>2. Fresh \in Pilots
  BY DEF Fresh, Pilots, Statuses
<1>3. \A k : k \in DOMAIN pilots => pilots[k] \in Pilots
  BY DEF TypeOK
<1>4. \A k : \/ k \in DOMAIN pilots /\ Queued(k) = pilots[k]
             \/ /\ Queued(k) \in Pilots /\ Queued(k).status = "queued"
                /\ PaidAnswer(k.text) => Queued(k).raw = "usable"
  BY <1>2, <1>3 DEF Queued, Pilots, Statuses, Fresh
<1> QED BY <1>1, <1>3, <1>4 DEF TypeOK

\* A pilot's row is set.
PilotSet(k, row) ==
  /\ DOMAIN pilots' = DOMAIN pilots /\ pilots'[k] = row
  /\ \A l \in DOMAIN pilots : l # k => pilots'[l] = pilots[l]

LEMMA SetPilot ==
  ASSUME NEW k \in DOMAIN pilots, NEW row, pilots' = [pilots EXCEPT ![k] = row]
  PROVE  PilotSet(k, row)
  BY DEF PilotSet

\* One more of a kind of event is counted.
Counted(kind) == used' = [used EXCEPT ![kind] = @ + 1]

LEMMA CountFacts ==
  ASSUME TypeOK
  PROVE  /\ \A kind \in {"asks", "troubles", "crashes", "doubles", "losses", "hangs"} :
              Counted(kind) => used' \in Counts /\ used'.edits = used.edits
         /\ \A kind \in {"asks", "edits", "troubles", "crashes", "doubles", "losses"} :
              Counted(kind) => used'.hangs = used.hangs
         /\ Counted("hangs") => used'.hangs = used.hangs + 1 /\ used'.hangs > 0
         /\ Counted("edits") /\ used.edits < MaxEdits =>
              used' \in Counts /\ used'.edits = used.edits + 1 /\ used.edits + 1 \in Versions
<1>1. used \in Counts /\ MaxEdits \in Nat
  BY BoundsAssumption DEF TypeOK
<1>2. Counted("asks") => used' = [used EXCEPT !.asks = used.asks + 1]
  BY DEF Counted
<1>3. Counted("troubles") => used' = [used EXCEPT !.troubles = used.troubles + 1]
  BY DEF Counted
<1>4. Counted("crashes") => used' = [used EXCEPT !.crashes = used.crashes + 1]
  BY DEF Counted
<1>5. Counted("doubles") => used' = [used EXCEPT !.doubles = used.doubles + 1]
  BY DEF Counted
<1>6. Counted("losses") => used' = [used EXCEPT !.losses = used.losses + 1]
  BY DEF Counted
<1>7. Counted("hangs") => used' = [used EXCEPT !.hangs = used.hangs + 1]
  BY DEF Counted
<1>8. Counted("edits") => used' = [used EXCEPT !.edits = used.edits + 1]
  BY DEF Counted
<1>9. used.edits \in Versions /\ (used.edits < MaxEdits => used.edits + 1 \in Versions)
  BY <1>1 DEF Counts, Versions
<1> QED
  BY <1>1, <1>2, <1>3, <1>4, <1>5, <1>6, <1>7, <1>8, <1>9 DEF Counts

\* A request: one more run, in an edition that is stranded or one more.
Begun(e) ==
  /\ \A b \in DOMAIN books : books[b].plan # source
  /\ DOMAIN books' = DOMAIN books \cup {Len(books) + 1}
  /\ \A b \in DOMAIN books : b <= Len(books) /\ books'[b] = books[b]
  /\ books'[Len(books) + 1] = [plan |-> source, edition |-> e, status |-> "queued"]
  /\ \/ e \in Stranded /\ EditionSet(e, "queued")
     \/ /\ e = Len(editions) + 1 /\ DOMAIN editions' = DOMAIN editions \cup {e}
        /\ Len(editions') = Len(editions) + 1 /\ e \notin DOMAIN editions
        /\ \A i \in DOMAIN editions : editions'[i] = editions[i]
        /\ editions'[e] = [status |-> "queued", text |-> NoText, corrected |-> FALSE]
  /\ UNCHANGED <<source, pilots, answered, rebought, job>>
  /\ used'.hangs = used.hangs /\ used'.edits = used.edits

LEMMA BeginFacts ==
  ASSUME TypeOK, Begin
  PROVE  TypeOK' /\ \E e \in DOMAIN editions' : Begun(e)
<1> PICK e \in 1..Len(editions) + 1 :
      /\ IF Stranded = {} THEN e = Len(editions) + 1
         ELSE e \in Stranded /\ \A i \in Stranded : i <= e
      /\ \A b \in DOMAIN books : books[b].plan # Plan
      /\ Happens("asks", MaxAsks)
      /\ books' = Append(books, [plan |-> Plan, edition |-> e, status |-> "queued"])
      /\ editions' = IF Stranded = {}
                       THEN Append(editions, [status |-> "queued", text |-> NoText, corrected |-> FALSE])
                     ELSE [editions EXCEPT ![e].status = "queued"]
      /\ queue' = Append(queue, Len(books) + 1)
      /\ UNCHANGED <<source, pilots, answered, rebought, job>>
  BY Zenon DEF Begin
<1> DEFINE new == [status |-> "queued", text |-> NoText, corrected |-> FALSE]
           run == [plan |-> source, edition |-> e, status |-> "queued"]
<1>1. used' \in Counts /\ used'.hangs = used.hangs /\ used'.edits = used.edits
  BY CountFacts DEF Happens, Counted
<1>2. /\ \/ e \in Stranded /\ EditionSet(e, "queued")
         \/ /\ e = Len(editions) + 1 /\ DOMAIN editions' = DOMAIN editions \cup {e}
            /\ Len(editions') = Len(editions) + 1 /\ e \notin DOMAIN editions
            /\ \A i \in DOMAIN editions : editions'[i] = editions[i]
            /\ editions'[e] = new
      /\ editions' \in Seq(Editions) /\ e \in DOMAIN editions' /\ DOMAIN editions \subseteq DOMAIN editions'
  <2>1. CASE Stranded = {}
    <3>1. editions' = Append(editions, new) /\ e = Len(editions) + 1
      BY <2>1
    <3>2. new \in Editions /\ editions \in Seq(Editions)
      BY DEF Editions, TypeOK
    <3>3. /\ editions' \in Seq(Editions) /\ Len(editions') = Len(editions) + 1
          /\ \A i \in 1..Len(editions) : editions'[i] = editions[i]
          /\ editions'[Len(editions) + 1] = new
      BY <3>1, <3>2, AppendProperties
    <3>4. DOMAIN editions' = 1..Len(editions) + 1
      BY <3>3, LenProperties
    <3>5. DOMAIN editions = 1..Len(editions) /\ Len(editions) \in Nat
      BY RowFacts
    <3>6. DOMAIN editions' = DOMAIN editions \cup {e} /\ e \notin DOMAIN editions
      <4>1. \A n \in Nat : 1..n + 1 = (1..n) \cup {n + 1} /\ n + 1 \notin 1..n
        OBVIOUS
      <4> QED BY <3>1, <3>4, <3>5, <4>1
    <3>7. \A i \in DOMAIN editions : editions'[i] = editions[i]
      BY <3>3, <3>5
    <3> QED BY <3>1, <3>3, <3>6, <3>7
  <2>2. CASE Stranded # {}
    <3>1. e \in Stranded /\ e \in DOMAIN editions /\ editions' = [editions EXCEPT ![e].status = "queued"]
      BY <2>2 DEF Stranded
    <3>2. EditionSet(e, "queued") /\ editions' \in Seq(Editions)
      BY <3>1, SetEdition
    <3> QED BY <3>1, <3>2 DEF EditionSet
  <2> QED BY <2>1, <2>2
<1>3. /\ DOMAIN books' = DOMAIN books \cup {Len(books) + 1}
      /\ \A b \in DOMAIN books : b <= Len(books) /\ books'[b] = books[b]
      /\ books'[Len(books) + 1] = run
      /\ books' \in Seq(Books(DOMAIN editions'))
  <2>1. run \in Books(DOMAIN editions')
    BY <1>2 DEF Books, TypeOK, Statuses
  <2>2. books \in Seq(Books(DOMAIN editions'))
    <3>1. Books(DOMAIN editions) \subseteq Books(DOMAIN editions')
      BY <1>2 DEF Books
    <3> QED BY <3>1, SeqMonotonic DEF TypeOK
  <2>3. books' = Append(books, run)
    BY DEF Plan
  <2>4. /\ books' \in Seq(Books(DOMAIN editions')) /\ Len(books') = Len(books) + 1
        /\ \A b \in 1..Len(books) : books'[b] = books[b]
        /\ books'[Len(books) + 1] = run
    BY <2>1, <2>2, <2>3, AppendProperties
  <2>5. DOMAIN books' = 1..Len(books) + 1
    BY <2>4, LenProperties
  <2> QED BY <2>4, <2>5, RowFacts
<1>4. queue' \in Seq(DOMAIN books')
  <2>1. queue \in Seq(DOMAIN books')
    BY <1>3, SeqMonotonic DEF TypeOK
  <2> QED BY <1>3, <2>1, AppendProperties
<1>5. TypeOK'
  <2>1. /\ job' = [v \in Workers |-> job'[v]]
        /\ \A v \in Workers : JobOK(job'[v], DOMAIN books', DOMAIN pilots')
    BY <1>3, JobsStay
  <2>2. \A k \in DOMAIN pilots' : IsKey(k, DOMAIN editions') /\ pilots'[k] \in Pilots
    BY <1>2 DEF IsKey, TypeOK
  <2> QED BY <1>1, <1>2, <1>3, <1>4, <2>1, <2>2 DEF TypeOK
<1>6. Begun(e)
  BY <1>1, <1>2, <1>3 DEF Begun, Plan
<1> QED BY <1>2, <1>5, <1>6

\* A run that failed or waits is queued again.
Resumed(b) ==
  /\ books[b].plan = source /\ books[b].status \in {"queued", "failed"}
  /\ editions[books[b].edition].text = NoText
  /\ BookSet(b, "queued") /\ EditionSet(books[b].edition, "queued")
  /\ UNCHANGED <<source, pilots, answered, rebought, job>>
  /\ used'.hangs = used.hangs /\ used'.edits = used.edits

LEMMA ResumeFacts ==
  ASSUME TypeOK, Resume
  PROVE  TypeOK' /\ \E b \in DOMAIN books : Resumed(b)
<1> PICK b \in DOMAIN books :
      /\ books[b].plan = Plan
      /\ books[b].status \in {"queued", "failed"}
      /\ editions[books[b].edition].text = NoText
      /\ Happens("asks", MaxAsks)
      /\ books' = [books EXCEPT ![b].status = "queued"]
      /\ editions' = [editions EXCEPT ![books[b].edition].status = "queued"]
      /\ queue' = Append(queue, b)
      /\ UNCHANGED <<source, pilots, answered, rebought, job>>
  BY DEF Resume
<1>1. used' \in Counts /\ used'.hangs = used.hangs /\ used'.edits = used.edits
  BY CountFacts DEF Happens, Counted
<1>2. BookSet(b, "queued") /\ books' \in Seq(Books(DOMAIN editions))
  BY SetBook DEF Statuses
<1>3. EditionSet(books[b].edition, "queued") /\ editions' \in Seq(Editions)
  BY SetEdition, RowFacts
<1>4. queue' \in Seq(DOMAIN books)
  BY AppendProperties DEF TypeOK
<1>5. TypeOK'
  BY <1>1, <1>2, <1>3, <1>4 DEF BookSet, EditionSet, TypeOK
<1> QED BY <1>1, <1>2, <1>3, <1>5 DEF Resumed, Plan

\* The source gets newer.
Edited ==
  /\ \/ source'.title = source.title + 1 /\ source'.text = source.text
     \/ /\ source'.title = source.title
        /\ \E x \in Blocks : source'.text = [source.text EXCEPT ![x] = used.edits + 1]
  /\ used'.edits = used.edits + 1 /\ used'.hangs = used.hangs
  /\ UNCHANGED <<editions, books, pilots, answered, rebought, queue, job>>

LEMMA EditFacts ==
  ASSUME TypeOK, SourceGrows, Edit
  PROVE  TypeOK' /\ Edited
<1>1. /\ used' \in Counts /\ used'.hangs = used.hangs
      /\ used'.edits = used.edits + 1 /\ used.edits + 1 \in Versions
  BY CountFacts DEF Edit, Happens, Counted
<1>2. source \in Sources /\ source.title + 1 \in Versions
  <2>1. source \in Sources /\ source.title \in Versions /\ used.edits \in Versions
    BY DEF TypeOK, Sources, Counts
  <2> QED BY <1>1, <2>1, BoundsAssumption DEF SourceGrows, Versions
<1>3. /\ source' \in Sources
      /\ \/ source'.title = source.title + 1 /\ source'.text = source.text
         \/ /\ source'.title = source.title
            /\ \E x \in Blocks : source'.text = [source.text EXCEPT ![x] = used.edits + 1]
  <2>1. CASE source' = [source EXCEPT !.title = @ + 1]
    BY <1>2, <2>1 DEF Sources
  <2>2. CASE \E x \in Blocks : source' = [source EXCEPT !.text[x] = used.edits + 1]
    <3> PICK x \in Blocks : source' = [source EXCEPT !.text = [source.text EXCEPT ![x] = used.edits + 1]]
      BY <2>2
    <3>1. [source.text EXCEPT ![x] = used.edits + 1] \in [Blocks -> Versions]
      BY <1>1, <1>2 DEF Sources
    <3> QED BY <1>2, <3>1 DEF Sources
  <2> QED BY <2>1, <2>2 DEF Edit
<1>4. TypeOK'
  BY <1>1, <1>3 DEF Edit, TypeOK
<1> QED BY <1>1, <1>3, <1>4 DEF Edit, Edited

\* What a reviewer has corrected, and an edition that goes out.
Corrected ==
  /\ Len(editions') = Len(editions) /\ DOMAIN editions' = DOMAIN editions
  /\ \A i \in DOMAIN editions :
       /\ editions'[i].text = editions[i].text /\ editions'[i].status = editions[i].status
       /\ editions[i].corrected => editions'[i].corrected
  /\ UNCHANGED <<source, books, pilots, answered, rebought, queue, job, used>>

LEMMA CorrectFacts ==
  ASSUME TypeOK, Correct
  PROVE  TypeOK' /\ Corrected
<1> PICK e \in DOMAIN editions : editions' = [editions EXCEPT ![e].corrected = TRUE]
  BY DEF Correct
<1>1. UNCHANGED <<source, books, pilots, answered, rebought, queue, job, used>>
  BY DEF Correct
<1>2. e \in 1..Len(editions) /\ editions \in Seq(Editions) /\ editions[e] \in Editions
  BY RowFacts DEF TypeOK
<1>3. [editions[e] EXCEPT !.corrected = TRUE] \in Editions
  BY <1>2 DEF Editions
<1>4. editions' = [editions EXCEPT ![e] = [editions[e] EXCEPT !.corrected = TRUE]]
  BY <1>2
<1>5. /\ editions' \in Seq(Editions) /\ Len(editions') = Len(editions)
      /\ \A c \in 1..Len(editions) : editions'[c] =
           IF c = e THEN [editions[e] EXCEPT !.corrected = TRUE] ELSE editions[c]
  BY <1>2, <1>3, <1>4, ExceptSeq
<1>6. DOMAIN editions' = DOMAIN editions
  BY <1>5, LenProperties, RowFacts
<1>7. TypeOK'
  BY <1>1, <1>5, <1>6 DEF TypeOK
<1>8. \A c \in DOMAIN editions : editions[c] \in Editions
  BY RowFacts
<1> QED BY <1>1, <1>5, <1>6, <1>7, <1>8, RowFacts DEF Corrected, Editions

Published(i) ==
  /\ i \in DOMAIN editions /\ editions[i].status = "review" /\ EditionSet(i, "published")
  /\ UNCHANGED <<source, books, pilots, answered, rebought, queue, job, used>>

LEMMA PublishFacts ==
  ASSUME TypeOK, Publish
  PROVE  TypeOK' /\ \E i \in DOMAIN editions : Published(i)
<1> PICK i \in DOMAIN editions :
      /\ editions[i].status = "review" /\ editions' = [editions EXCEPT ![i].status = "published"]
      /\ UNCHANGED <<source, books, pilots, answered, rebought, queue, job, used>>
  BY DEF Publish
<1>1. EditionSet(i, "published") /\ editions' \in Seq(Editions)
  BY SetEdition
<1>2. TypeOK'
  BY <1>1 DEF EditionSet, TypeOK
<1> QED BY <1>1, <1>2 DEF Published

\* A worker takes a message: it starts on a book that is queued.
Begins(b) == [Free EXCEPT !.book = b, !.step = "check"]
Claimed(w, b) ==
  /\ ~AtWork(w) /\ books[b].status = "queued"
  /\ BookSet(b, "running") /\ EditionSet(books[b].edition, "processing")
  /\ job'[w] = Begins(b) /\ Others(w)
  /\ UNCHANGED <<source, pilots, answered, rebought, used>>
Dropped ==
  /\ UNCHANGED <<source, editions, books, pilots, answered, rebought, job>>
  /\ used'.hangs = used.hangs /\ used'.edits = used.edits

LEMMA BeginsFacts ==
  ASSUME NEW bs, NEW ks, NEW b \in bs
  PROVE  /\ JobOK(Begins(b), bs, ks)
         /\ Begins(b).step = "check" /\ Begins(b).book = b /\ Begins(b).now = Nothing
         /\ Begins(b).todo = {} /\ Begins(b).asked = <<>>
         /\ Begins(b).results = [x \in Blocks |-> -1]
<1>2. /\ Begins(b).step = "check" /\ Begins(b).book = b /\ Begins(b).now = Nothing
      /\ Begins(b).todo = {} /\ Begins(b).asked = <<>> /\ Begins(b).batch = 1
      /\ Begins(b).results = Free.results
      /\ Begins(b) \in Jobs(bs, ks)
  <2>1. Free \in Jobs(bs, ks) /\ Free.now = Nothing /\ Free.todo = {} /\ Free.asked = <<>> /\ Free.batch = 1
    BY FreeOK DEF JobOK, Free
  <2> QED BY <2>1 DEF Begins, Jobs
<1>3. Free.results = [x \in Blocks |-> -1]
  BY DEF Free
<1> QED BY <1>2, <1>3, WindowFacts DEF JobOK

LEMMA ClaimFacts ==
  ASSUME TypeOK, NEW w \in Workers, Claim(w)
  PROVE  TypeOK' /\ (Dropped \/ \E b \in DOMAIN books : Claimed(w, b))
<1>1. queue \in Seq(DOMAIN books) /\ queue # <<>>
  BY DEF Claim, TypeOK
<1> PICK b \in DOMAIN books : b = Head(queue)
  BY <1>1, HeadTailProperties
<1>2. queue' \in Seq(DOMAIN books)
  BY <1>1, HeadTailProperties DEF Claim
<1>3. UNCHANGED <<source, pilots, answered, rebought, used>> /\ job[w] = Free
  BY DEF Claim
<1>4. CASE books[b].status = "queued"
  <2>1. /\ books' = [books EXCEPT ![b].status = "running"]
        /\ editions' = [editions EXCEPT ![books[b].edition].status = "processing"]
        /\ SetJob(w, Begins(b))
    BY <1>4 DEF Claim, Begins
  <2>2. BookSet(b, "running") /\ books' \in Seq(Books(DOMAIN editions))
    BY <2>1, SetBook DEF Statuses
  <2>3. EditionSet(books[b].edition, "processing") /\ editions' \in Seq(Editions)
    BY <2>1, SetEdition, RowFacts
  <2>4. JobOK(Begins(b), DOMAIN books, DOMAIN pilots)
    BY BeginsFacts
  <2>5. /\ job' = [v \in Workers |-> job'[v]]
        /\ \A v \in Workers : JobOK(job'[v], DOMAIN books', DOMAIN pilots')
        /\ job'[w] = Begins(b) /\ Others(w)
    BY <1>3, <2>1, <2>2, <2>4, SetJobTypes DEF BookSet, Others
  <2>6. TypeOK'
    BY <1>2, <1>3, <2>2, <2>3, <2>5 DEF BookSet, EditionSet, TypeOK
  <2> QED BY <1>3, <1>4, <2>2, <2>3, <2>5, <2>6, WorkFacts DEF Claimed
<1>5. CASE books[b].status # "queued"
  <2>1. UNCHANGED <<books, editions, job>>
    BY <1>5 DEF Claim
  <2> QED BY <1>2, <1>3, <2>1 DEF TypeOK, Dropped
<1> QED BY <1>4, <1>5

\* A failure leaves the book, and nothing in hand.
Failed(w) ==
  LET b == job[w].book
      e == books[b].edition
  IN /\ AtWork(w) /\ ~InCall(job[w]) /\ b \in DOMAIN books /\ e \in DOMAIN editions
     /\ BookSet(b, "failed")
     /\ EditionSet(e, IF editions[e].status = "published" THEN "published" ELSE "failed")
     /\ job'[w] = Free /\ Others(w)
     /\ UNCHANGED <<source, pilots, answered, rebought, used>>

LEMMA Fails ==
  ASSUME TypeOK, NEW w \in Workers, AtWork(w), ~InCall(job[w]), Fail(w),
         UNCHANGED <<source, answered, rebought, queue, used>>
  PROVE  TypeOK' /\ Failed(w)
<1>1. TypeOK'
  BY FailTypes
<1> QED BY <1>1, FailFacts, WorkFacts DEF Failed

\* A worker goes on: only its job and pilots change.
Moved(w) == Others(w) /\ UNCHANGED <<source, editions, books>>

LEMMA MoveTypes ==
  ASSUME TypeOK, NEW w \in Workers, NEW j, JobOK(j, DOMAIN books, DOMAIN pilots'), SetJob(w, j),
         \A k \in DOMAIN pilots' : IsKey(k, DOMAIN editions) /\ pilots'[k] \in Pilots,
         DOMAIN pilots \subseteq DOMAIN pilots',
         UNCHANGED <<source, editions, books, queue>>, rebought' \in BOOLEAN, used' \in Counts
  PROVE  TypeOK' /\ Moved(w) /\ job'[w] = j
<1>1. /\ job' = [v \in Workers |-> job'[v]]
      /\ \A v \in Workers : JobOK(job'[v], DOMAIN books', DOMAIN pilots')
      /\ job'[w] = j /\ Others(w)
  BY SetJobTypes DEF Others
<1>2. TypeOK'
  BY <1>1 DEF TypeOK
<1> QED BY <1>1, <1>2 DEF Moved

LEMMA CheckFacts ==
  ASSUME TypeOK, NEW w \in Workers, Check(w)
  PROVE  /\ TypeOK' /\ AtWork(w) /\ ~InCall(job[w])
         /\ \/ Failed(w)
            \/ /\ Moved(w) /\ job'[w] = [job[w] EXCEPT !.step = "queue"]
               /\ UNCHANGED <<pilots, answered, rebought, used>>
<1>1. job[w].step = "check" /\ AtWork(w) /\ ~InCall(job[w])
  BY DEF Check, AtWork, InCall
<1>2. UNCHANGED <<source, answered, rebought, queue, used>>
  BY DEF Check
<1>3. CASE Fail(w)
  BY <1>1, <1>2, <1>3, Fails
<1>4. CASE SetJob(w, [job[w] EXCEPT !.step = "queue"]) /\ UNCHANGED <<books, editions, pilots>>
  <2> DEFINE j == [job[w] EXCEPT !.step = "queue"]
  <2>1. JobOK(j, DOMAIN books, DOMAIN pilots)
    BY <1>1, WorkFacts DEF JobOK, Jobs
  <2> HIDE DEF j
  <2>2. TypeOK' /\ Moved(w) /\ job'[w] = j
    BY <1>2, <1>4, <2>1, MoveTypes DEF TypeOK, j
  <2> QED BY <1>1, <1>2, <1>4, <2>2 DEF j
<1> QED BY <1>3, <1>4 DEF Check

\* Pilots are queued: what was not asked for, or failed.
Opened(keys) ==
  /\ DOMAIN pilots' = DOMAIN pilots \cup keys
  /\ \A k \in DOMAIN pilots \ keys : pilots'[k] = pilots[k]
  /\ \A k \in keys : \/ k \in DOMAIN pilots /\ pilots'[k] = pilots[k]
                     \/ /\ pilots'[k].status = "queued"
                        /\ PaidAnswer(k.text) => pilots'[k].raw = "usable"
  /\ UNCHANGED <<answered, rebought, used>>

\* Keys made now, of parts of the blocks, for the edition of the worker's book.
FromHere(w, keys) ==
  \A k \in keys : \E part \in SUBSET Blocks : k = Key(books[job[w].book].edition, part)

LEMMA FromHereFacts ==
  ASSUME TypeOK, NEW w \in Workers, AtWork(w), NEW keys, FromHere(w, keys)
  PROVE  \A k \in keys :
           /\ IsKey(k, DOMAIN editions) /\ Current(k) /\ k.edition = books[job[w].book].edition
           /\ k.title = source.title /\ k.text = Snapshot(k.part) /\ k.part \in SUBSET Blocks
           /\ \A x \in k.part : k.text[x] = source.text[x]
<1> PICK e \in DOMAIN editions : e = books[job[w].book].edition
  BY WorkFacts
<1>1. \A k \in keys : \E part \in SUBSET Blocks : k = Key(e, part)
  BY DEF FromHere
<1>2. \A part \in SUBSET Blocks :
        /\ IsKey(Key(e, part), DOMAIN editions) /\ Current(Key(e, part))
        /\ Key(e, part).edition = e /\ Key(e, part).part = part
        /\ Key(e, part).title = source.title /\ Key(e, part).text = Snapshot(part)
        /\ \A x \in part : Key(e, part).text[x] = source.text[x]
  BY KeyFacts
<1> QED BY <1>1, <1>2

LEMMA OpenFacts ==
  ASSUME TypeOK, NEW w \in Workers, AtWork(w), NEW keys, FromHere(w, keys), QueuePilots(keys),
         UNCHANGED <<answered, rebought, used>>
  PROVE  /\ Opened(keys)
         /\ \A k \in DOMAIN pilots' : IsKey(k, DOMAIN editions) /\ pilots'[k] \in Pilots
  BY FromHereFacts, QueueFacts DEF Opened

\* The windows of a batch are asked for.
AsksFor(w, keys) ==
  /\ Moved(w) /\ FromHere(w, keys) /\ Opened(keys)
  /\ job'[w].book = job[w].book /\ job'[w].step = "run" /\ job'[w].now = job[w].now
  /\ job'[w].todo = keys /\ job'[w].results = job[w].results

LEMMA QueueBatchFacts ==
  ASSUME TypeOK, NEW w \in Workers, QueueBatch(w)
  PROVE  /\ TypeOK' /\ AtWork(w) /\ ~InCall(job[w])
         /\ \/ Failed(w)
            \/ \E keys : AsksFor(w, keys) /\ job'[w].asked \in Seq(OfSource(DOMAIN pilots'))
<1> PICK j : j = job[w]
  OBVIOUS
<1>1. j.step = "queue" /\ AtWork(w) /\ ~InCall(job[w])
  BY DEF QueueBatch, AtWork, InCall
<1>2. UNCHANGED <<source, answered, rebought, queue, used>>
  BY DEF QueueBatch
<1> PICK e \in DOMAIN editions : e = books[j.book].edition
  BY <1>1, WorkFacts
<1>3. j.batch \in DOMAIN Windows /\ JobOK(j, DOMAIN books, DOMAIN pilots)
  BY <1>1, WorkFacts DEF JobOK
<1> PICK i \in DOMAIN Windows : i = j.batch
  BY <1>3
<1> DEFINE keys == {Key(e, part) : part \in Windows[i]}
           asked == SetToSeq({[key |-> k, depth |-> 0] : k \in keys})
<1>4. CASE Fail(w)
  BY <1>1, <1>2, <1>4, Fails
<1>5. CASE ~Fail(w)
  <2>1. /\ QueuePilots(keys) /\ UNCHANGED <<books, editions>>
        /\ SetJob(w, [j EXCEPT !.step = "run", !.todo = keys, !.asked = asked])
    BY <1>5 DEF QueueBatch
  <2>2. FromHere(w, keys)
    BY WindowFacts DEF FromHere
  <2>3. Opened(keys) /\ \A k \in DOMAIN pilots' : IsKey(k, DOMAIN editions) /\ pilots'[k] \in Pilots
    BY <1>1, <1>2, <2>1, <2>2, OpenFacts
  <2> PICK ks : ks = DOMAIN pilots'
    OBVIOUS
  <2>4. \A part \in Windows[i] :
          /\ [key |-> Key(e, part), depth |-> 0] \in OfSource(ks)
          /\ Key(e, part) \in ks
    <3> TAKE part \in Windows[i]
    <3>1. part \in SUBSET Blocks
      BY WindowFacts
    <3>2. Key(e, part) \in ks
      BY <2>3 DEF Opened
    <3>3. Key(e, part).text = Snapshot(Key(e, part).part)
      BY <3>1, KeyFacts
    <3>4. [key |-> Key(e, part), depth |-> 0] \in Asked(ks)
      BY <3>2 DEF Asked
    <3> QED BY <3>2, <3>3, <3>4 DEF OfSource
  <2>5. asked \in Seq(OfSource(ks)) /\ OfSource(ks) \subseteq Asked(ks)
    <3>1. \A part \in Windows[i] : [key |-> Key(e, part), depth |-> 0] \in OfSource(ks)
      BY <2>4
    <3> QED BY <3>1, FirstAsked DEF OfSource
  <2>6. asked \in Seq(Asked(ks))
    BY <2>5, SeqMonotonic
  <2>7. keys \subseteq ks
    BY <2>4
  <2> HIDE DEF keys, asked
  <2>8. JobOK(j, DOMAIN books, ks)
    BY <1>3, <2>3, JobStays DEF Opened
  <2> PICK j2 : j2 = [j EXCEPT !.step = "run", !.todo = keys, !.asked = asked]
    OBVIOUS
  <2>9. /\ JobOK(j2, DOMAIN books, ks)
        /\ j2.book = j.book /\ j2.step = "run" /\ j2.now = j.now /\ j2.todo = keys
        /\ j2.results = j.results /\ j2.asked = asked
    BY <1>1, <2>6, <2>7, <2>8 DEF JobOK, Jobs
  <2>10. TypeOK' /\ Moved(w) /\ job'[w] = j2
    <3>1. DOMAIN pilots \subseteq DOMAIN pilots' /\ rebought' \in BOOLEAN /\ used' \in Counts
      BY <1>2, <2>3 DEF Opened, TypeOK
    <3> QED BY <1>2, <2>1, <2>3, <2>9, <3>1, MoveTypes
  <2>11. AsksFor(w, keys) /\ job'[w].asked \in Seq(OfSource(DOMAIN pilots'))
    BY <2>2, <2>3, <2>5, <2>9, <2>10 DEF AsksFor
  <2> QED BY <1>1, <2>10, <2>11
<1> QED BY <1>4, <1>5

\* A worker goes on with a pilot: what it has asked for and got is as it was.
Goes(w) ==
  /\ AtWork(w) /\ Moved(w)
  /\ job'[w].book = job[w].book /\ job'[w].asked = job[w].asked
  /\ job'[w].results = job[w].results /\ job'[w].todo \subseteq job[w].todo

\* A pilot is passed over, or fails for the source it was for.
Passes(w, k) ==
  /\ Goes(w) /\ job[w].step = "run" /\ job'[w].step = "run" /\ job'[w].now = job[w].now
  /\ \/ pilots' = pilots
     \/ \E row : PilotSet(k, row) /\ row.status = "failed"
  /\ UNCHANGED <<answered, rebought, used>>

\* A pilot is taken in hand.
Takes(w, k) ==
  /\ Goes(w) /\ job[w].step = "run" /\ job'[w].step = "call" /\ job'[w].now = k
  /\ k \in job[w].todo /\ pilots[k].status = "queued" /\ Current(k)
  /\ \E row : PilotSet(k, row) /\ row.status = "running" /\ row.raw = pilots[k].raw
  /\ UNCHANGED <<answered, rebought, used>>

\* It is asked for, unless its answer is there.
AsksOnce(w, k) ==
  /\ Goes(w) /\ job[w].step = "call" /\ job'[w].step = "finish" /\ job'[w].now = k /\ job[w].now = k
  /\ \/ pilots' = pilots /\ rebought' = rebought
     \/ /\ pilots[k].raw # "usable" /\ rebought' = (rebought \/ k.text \in answered)
        /\ \E row : PilotSet(k, row) /\ row.status = pilots[k].status
  /\ answered' = answered /\ used'.edits = used.edits /\ used'.hangs = used.hangs

\* It is over: its answer is kept, or it failed.
Finishes(w, k) ==
  /\ Goes(w) /\ job[w].step = "finish" /\ job'[w].step = "run" /\ job'[w].now = Nothing
  /\ job[w].now = k
  /\ \/ \E row : PilotSet(k, row) /\ row.status = "failed" /\ answered' = answered
     \/ /\ pilots[k].raw = "usable" /\ Current(k) /\ answered' = answered \cup {k.text}
        /\ \E row : PilotSet(k, row) /\ row.status = "succeeded"
  /\ UNCHANGED <<rebought, used>>

\* A row of a pilot that is there is set to a row, and a worker goes on.
LEMMA RowSet ==
  ASSUME TypeOK, NEW k \in DOMAIN pilots, NEW row \in Pilots, pilots' = [pilots EXCEPT ![k] = row]
  PROVE  /\ PilotSet(k, row) /\ DOMAIN pilots' = DOMAIN pilots
         /\ \A l \in DOMAIN pilots' : IsKey(l, DOMAIN editions) /\ pilots'[l] \in Pilots
  BY SetPilot DEF TypeOK, PilotSet

LEMMA PilotClaimFacts ==
  ASSUME TypeOK, NEW w \in Workers, PilotClaim(w)
  PROVE  TypeOK' /\ \E k \in DOMAIN pilots : Passes(w, k) \/ Takes(w, k)
<1> PICK j : j = job[w]
  OBVIOUS
<1>1. /\ j.step = "run" /\ AtWork(w) /\ JobOK(j, DOMAIN books, DOMAIN pilots)
      /\ j \in Jobs(DOMAIN books, DOMAIN pilots)
  BY WorkFacts DEF PilotClaim, AtWork
<1>2. UNCHANGED <<source, editions, books, answered, rebought, queue, used>>
  BY DEF PilotClaim
<1>3. rebought' \in BOOLEAN /\ used' \in Counts
  BY <1>2 DEF TypeOK
<1> PICK k \in j.todo :
      IF pilots[k].status # "queued"
        THEN SetJob(w, [j EXCEPT !.todo = @ \ {k}]) /\ UNCHANGED pilots
      ELSE IF ~Current(k)
        THEN /\ pilots' = [pilots EXCEPT ![k] = [@ EXCEPT !.status = "failed", !.error = "other"]]
             /\ SetJob(w, [j EXCEPT !.todo = @ \ {k}])
      ELSE /\ pilots' = [pilots EXCEPT ![k].status = "running"]
           /\ SetJob(w, [j EXCEPT !.step = "call", !.now = k])
  BY Zenon DEF PilotClaim
<1>4. k \in DOMAIN pilots /\ pilots[k] \in Pilots
  BY <1>1 DEF Jobs, TypeOK
<1> DEFINE passed == [j EXCEPT !.todo = j.todo \ {k}]
           taken == [j EXCEPT !.step = "call", !.now = k]
           failed == [pilots[k] EXCEPT !.status = "failed", !.error = "other"]
           running == [pilots[k] EXCEPT !.status = "running"]
<1>5. /\ JobOK(passed, DOMAIN books, DOMAIN pilots) /\ passed.book = j.book /\ passed.step = "run"
      /\ passed.now = j.now /\ passed.todo \subseteq j.todo /\ passed.asked = j.asked
      /\ passed.results = j.results
  BY <1>1 DEF JobOK, Jobs
<1>6. /\ JobOK(taken, DOMAIN books, DOMAIN pilots) /\ taken.book = j.book /\ taken.step = "call"
      /\ taken.now = k /\ taken.todo = j.todo /\ taken.asked = j.asked /\ taken.results = j.results
  BY <1>1, <1>4 DEF JobOK, Jobs
<1>7. /\ failed \in Pilots /\ failed.status = "failed"
      /\ running \in Pilots /\ running.status = "running" /\ running.raw = pilots[k].raw
  BY <1>4 DEF Pilots, Statuses
<1> HIDE DEF passed, taken, failed, running
<1>8. CASE pilots[k].status # "queued"
  <2>1. SetJob(w, passed) /\ pilots' = pilots
    BY <1>8 DEF passed
  <2>2. TypeOK' /\ Moved(w) /\ job'[w] = passed
    <3>1. \A l \in DOMAIN pilots' : IsKey(l, DOMAIN editions) /\ pilots'[l] \in Pilots
      BY <2>1 DEF TypeOK
    <3> QED BY <1>2, <1>3, <1>5, <2>1, <3>1, MoveTypes
  <2> QED BY <1>1, <1>2, <1>4, <1>5, <2>1, <2>2 DEF Passes, Goes
<1>9. CASE pilots[k].status = "queued" /\ ~Current(k)
  <2>1. SetJob(w, passed) /\ pilots' = [pilots EXCEPT ![k] = failed]
    BY <1>9 DEF passed, failed
  <2>2. TypeOK' /\ Moved(w) /\ job'[w] = passed /\ PilotSet(k, failed)
    <3>1. /\ \A l \in DOMAIN pilots' : IsKey(l, DOMAIN editions) /\ pilots'[l] \in Pilots
          /\ PilotSet(k, failed) /\ DOMAIN pilots' = DOMAIN pilots
      BY <1>4, <1>7, <2>1, RowSet
    <3> QED BY <1>2, <1>3, <1>5, <2>1, <3>1, MoveTypes
  <2> QED BY <1>1, <1>2, <1>4, <1>5, <1>7, <2>2 DEF Passes, Goes
<1>10. CASE pilots[k].status = "queued" /\ Current(k)
  <2>1. SetJob(w, taken) /\ pilots' = [pilots EXCEPT ![k] = running]
    BY <1>4, <1>10 DEF taken, running
  <2>2. TypeOK' /\ Moved(w) /\ job'[w] = taken /\ PilotSet(k, running)
    <3>1. /\ \A l \in DOMAIN pilots' : IsKey(l, DOMAIN editions) /\ pilots'[l] \in Pilots
          /\ PilotSet(k, running) /\ DOMAIN pilots' = DOMAIN pilots
      BY <1>4, <1>7, <2>1, RowSet
    <3> QED BY <1>2, <1>3, <1>6, <2>1, <3>1, MoveTypes
  <2> QED BY <1>1, <1>2, <1>4, <1>6, <1>7, <1>10, <2>2 DEF Takes, Goes
<1> QED BY <1>8, <1>9, <1>10

LEMMA PilotCallFacts ==
  ASSUME TypeOK, NEW w \in Workers, PilotCall(w)
  PROVE  TypeOK' /\ \E k \in DOMAIN pilots : AsksOnce(w, k)
<1> PICK j : j = job[w]
  OBVIOUS
<1>1. /\ j.step = "call" /\ AtWork(w) /\ JobOK(j, DOMAIN books, DOMAIN pilots)
      /\ j \in Jobs(DOMAIN books, DOMAIN pilots)
  BY WorkFacts DEF PilotCall, AtWork
<1> PICK k \in DOMAIN pilots : k = j.now
  BY <1>1 DEF JobOK
<1>2. UNCHANGED <<source, editions, books, answered, queue>> /\ pilots[k] \in Pilots
  BY DEF PilotCall, TypeOK
<1> DEFINE asked == [j EXCEPT !.step = "finish"]
<1>3. /\ JobOK(asked, DOMAIN books, DOMAIN pilots) /\ asked.book = j.book /\ asked.step = "finish"
      /\ asked.now = k /\ asked.todo = j.todo /\ asked.asked = j.asked /\ asked.results = j.results
  BY <1>1 DEF JobOK, Jobs
<1>4. SetJob(w, asked)
  BY DEF PilotCall
<1> HIDE DEF asked
<1>5. CASE pilots[k].raw = "usable"
  <2>1. UNCHANGED <<pilots, rebought, used>>
    BY <1>5 DEF PilotCall
  <2>2. TypeOK' /\ Moved(w) /\ job'[w] = asked
    <3>1. /\ \A l \in DOMAIN pilots' : IsKey(l, DOMAIN editions) /\ pilots'[l] \in Pilots
          /\ rebought' \in BOOLEAN /\ used' \in Counts
      BY <2>1 DEF TypeOK
    <3> QED BY <1>2, <1>3, <1>4, <2>1, <3>1, MoveTypes
  <2> QED BY <1>1, <1>2, <1>3, <2>1, <2>2 DEF AsksOnce, Goes
<1>6. CASE pilots[k].raw # "usable"
  <2>1. rebought' = (rebought \/ k.text \in answered)
    BY <1>6 DEF PilotCall
  <2> PICK raw \in {"usable", "mangled", "bad"} :
        /\ pilots' = [pilots EXCEPT ![k].raw = raw]
        /\ IF raw = "usable" THEN UNCHANGED used ELSE Happens("troubles", MaxTroubles)
    BY <1>6 DEF PilotCall
  <2> DEFINE row == [pilots[k] EXCEPT !.raw = raw]
  <2>2. row \in Pilots /\ row.status = pilots[k].status
    BY <1>2 DEF Pilots
  <2>3. pilots' = [pilots EXCEPT ![k] = row]
    OBVIOUS
  <2> HIDE DEF row
  <2>4. used' \in Counts /\ used'.edits = used.edits /\ used'.hangs = used.hangs
    <3>1. CASE raw = "usable"
      BY <3>1 DEF TypeOK
    <3>2. CASE raw # "usable"
      BY <3>2, CountFacts DEF Happens, Counted
    <3> QED BY <3>1, <3>2
  <2>5. TypeOK' /\ Moved(w) /\ job'[w] = asked /\ PilotSet(k, row)
    <3>1. /\ \A l \in DOMAIN pilots' : IsKey(l, DOMAIN editions) /\ pilots'[l] \in Pilots
          /\ PilotSet(k, row) /\ DOMAIN pilots' = DOMAIN pilots
      BY <2>2, <2>3, RowSet
    <3>2. rebought' \in BOOLEAN
      BY <2>1 DEF TypeOK
    <3> QED BY <1>2, <1>3, <1>4, <2>4, <3>1, <3>2, MoveTypes
  <2> QED BY <1>1, <1>2, <1>3, <1>6, <2>1, <2>2, <2>4, <2>5 DEF AsksOnce, Goes
<1> QED BY <1>5, <1>6

LEMMA PilotFinishFacts ==
  ASSUME TypeOK, NEW w \in Workers, PilotFinish(w)
  PROVE  TypeOK' /\ \E k \in DOMAIN pilots : Finishes(w, k)
<1> PICK j : j = job[w]
  OBVIOUS
<1>1. /\ j.step = "finish" /\ AtWork(w) /\ JobOK(j, DOMAIN books, DOMAIN pilots)
      /\ j \in Jobs(DOMAIN books, DOMAIN pilots)
  BY WorkFacts DEF PilotFinish, AtWork
<1> PICK k \in DOMAIN pilots : k = j.now
  BY <1>1 DEF JobOK
<1>2. UNCHANGED <<source, editions, books, rebought, queue, used>> /\ pilots[k] \in Pilots
  BY DEF PilotFinish, TypeOK
<1> DEFINE over == [j EXCEPT !.step = "run", !.now = Nothing, !.todo = j.todo \ {k}]
           done == [pilots[k] EXCEPT !.status = "succeeded", !.error = "none"]
           failed == [pilots[k] EXCEPT !.status = "failed",
                        !.error = IF pilots[k].raw = "mangled" THEN "mangled" ELSE "other"]
<1>3. /\ JobOK(over, DOMAIN books, DOMAIN pilots) /\ over.book = j.book /\ over.step = "run"
      /\ over.now = Nothing /\ over.todo \subseteq j.todo /\ over.asked = j.asked
      /\ over.results = j.results
  BY <1>1 DEF JobOK, Jobs
<1>4. SetJob(w, over)
  BY DEF PilotFinish
<1>5. /\ done \in Pilots /\ done.status = "succeeded" /\ failed \in Pilots /\ failed.status = "failed"
  BY <1>2 DEF Pilots, Statuses
<1>6. rebought' \in BOOLEAN /\ used' \in Counts
  BY <1>2 DEF TypeOK
<1> HIDE DEF over
<1>7. CASE pilots[k].raw = "usable" /\ Current(k)
  <2>1. pilots' = [pilots EXCEPT ![k] = done] /\ answered' = answered \cup {k.text}
    BY <1>7 DEF PilotFinish
  <2> HIDE DEF done
  <2>2. TypeOK' /\ Moved(w) /\ job'[w] = over /\ PilotSet(k, done)
    <3>1. /\ \A l \in DOMAIN pilots' : IsKey(l, DOMAIN editions) /\ pilots'[l] \in Pilots
          /\ PilotSet(k, done) /\ DOMAIN pilots' = DOMAIN pilots
      BY <1>5, <2>1, RowSet
    <3> QED BY <1>2, <1>3, <1>4, <1>6, <3>1, MoveTypes
  <2> QED BY <1>1, <1>2, <1>3, <1>5, <1>7, <2>1, <2>2 DEF Finishes, Goes
<1>8. CASE ~(pilots[k].raw = "usable" /\ Current(k))
  <2>1. pilots' = [pilots EXCEPT ![k] = failed] /\ answered' = answered
    BY <1>8 DEF PilotFinish
  <2> HIDE DEF failed
  <2>2. TypeOK' /\ Moved(w) /\ job'[w] = over /\ PilotSet(k, failed)
    <3>1. /\ \A l \in DOMAIN pilots' : IsKey(l, DOMAIN editions) /\ pilots'[l] \in Pilots
          /\ PilotSet(k, failed) /\ DOMAIN pilots' = DOMAIN pilots
      BY <1>5, <2>1, RowSet
    <3> QED BY <1>2, <1>3, <1>4, <1>6, <3>1, MoveTypes
  <2> QED BY <1>1, <1>2, <1>3, <1>5, <2>1, <2>2 DEF Finishes, Goes
<1> QED BY <1>7, <1>8

\* What is asked for is of the source as it is, and stays so.
StaysOfSource(w) ==
  job[w].asked \in Seq(OfSource(DOMAIN pilots)) => job'[w].asked \in Seq(OfSource(DOMAIN pilots'))

\* An answer is taken.
Collected(w) ==
  /\ Moved(w) /\ StaysOfSource(w) /\ job[w].asked # <<>>
  /\ job'[w].book = job[w].book /\ job'[w].step = "run" /\ job'[w].now = job[w].now
  /\ job'[w].todo = job[w].todo
  /\ job[w].asked \in Seq(OfSource(DOMAIN pilots)) =>
       \A x \in Blocks : job'[w].results[x] \in {job[w].results[x], source.text[x]}
  /\ UNCHANGED <<pilots, answered, rebought, used>>

\* What is asked for after the first is two halves of it and the rest.
LEMMA AskedNext ==
  ASSUME NEW S, NEW T, S \subseteq T, NEW s \in Seq(S), s # <<>>, NEW a \in [1..2 -> T]
  PROVE  Tail(s) \in Seq(S) /\ a \o Tail(s) \in Seq(T) /\ Head(s) \in S
<1>1. Tail(s) \in Seq(S) /\ Head(s) \in S
  BY HeadTailProperties
<1>2. Tail(s) \in Seq(T)
  BY <1>1, SeqMonotonic
<1>3. a \in Seq(T)
  BY SeqDef
<1> QED BY <1>1, <1>2, <1>3, ConcatProperties

LEMMA CollectFacts ==
  ASSUME TypeOK, NEW w \in Workers, Collect(w)
  PROVE  /\ TypeOK' /\ AtWork(w) /\ ~InCall(job[w])
         /\ \/ Failed(w)
            \/ Collected(w)
            \/ StaysOfSource(w) /\ \E keys : AsksFor(w, keys)
<1> PICK j : j = job[w]
  OBVIOUS
<1>1. /\ j.step = "run" /\ AtWork(w) /\ ~InCall(job[w]) /\ j.todo = {} /\ j.asked # <<>>
      /\ JobOK(j, DOMAIN books, DOMAIN pilots) /\ j \in Jobs(DOMAIN books, DOMAIN pilots)
  BY WorkFacts DEF Collect, AtWork, InCall
<1>2. UNCHANGED <<source, answered, rebought, queue, used>>
  BY DEF Collect
<1>3. rebought' \in BOOLEAN /\ used' \in Counts
  BY <1>2 DEF TypeOK
<1> PICK e \in DOMAIN editions : e = books[j.book].edition
  BY <1>1, WorkFacts
<1>4. j.asked \in Seq(Asked(DOMAIN pilots))
  BY <1>1 DEF Jobs
<1>5. Tail(j.asked) \in Seq(Asked(DOMAIN pilots)) /\ Head(j.asked) \in Asked(DOMAIN pilots)
  BY <1>1, <1>4, HeadTailProperties
<1> PICK k \in DOMAIN pilots : k = Head(j.asked).key
  BY <1>5 DEF Asked
<1> PICK depth \in Nat : depth = Head(j.asked).depth
  BY <1>5 DEF Asked
<1>6. IsKey(k, DOMAIN editions)
  BY DEF TypeOK
<1> DEFINE mangled == /\ pilots[k].status = "failed" /\ pilots[k].error = "mangled"
                      /\ Cardinality(k.part) > 1 /\ depth < SplitDepth
                      /\ editions[e].status # "published"
<1>7. CASE pilots[k].status = "succeeded"
  <2> DEFINE results == [x \in Blocks |-> IF x \in k.part THEN k.text[x] ELSE j.results[x]]
             taken == [j EXCEPT !.asked = Tail(j.asked), !.results = results]
  <2>1. SetJob(w, taken) /\ UNCHANGED <<books, editions, pilots>>
    BY <1>7 DEF Collect
  <2>2. results \in [Blocks -> -1..MaxEdits]
    <3>1. \A x \in Blocks : j.results[x] \in -1..MaxEdits
      BY <1>1 DEF Jobs
    <3>2. \A x \in k.part : k.text[x] \in -1..MaxEdits
      <4>1. \A n \in Versions : n \in -1..MaxEdits
        BY BoundsAssumption DEF Versions
      <4> QED BY <1>6, <4>1 DEF IsKey
    <3> QED BY <3>1, <3>2
  <2>3. j.asked \in Seq(OfSource(DOMAIN pilots)) =>
          /\ Tail(j.asked) \in Seq(OfSource(DOMAIN pilots))
          /\ \A x \in Blocks : results[x] \in {j.results[x], source.text[x]}
    <3> SUFFICES ASSUME j.asked \in Seq(OfSource(DOMAIN pilots))
                 PROVE  /\ Tail(j.asked) \in Seq(OfSource(DOMAIN pilots))
                        /\ \A x \in Blocks : results[x] \in {j.results[x], source.text[x]}
      OBVIOUS
    <3>1. Tail(j.asked) \in Seq(OfSource(DOMAIN pilots)) /\ Head(j.asked) \in OfSource(DOMAIN pilots)
      BY <1>1, HeadTailProperties
    <3>2. k.text = Snapshot(k.part)
      BY <3>1 DEF OfSource
    <3>3. \A x \in k.part : k.text[x] = source.text[x]
      BY <3>2 DEF Snapshot
    <3> QED BY <3>1, <3>3
  <2> HIDE DEF results
  <2>4. /\ JobOK(taken, DOMAIN books, DOMAIN pilots) /\ taken.book = j.book /\ taken.step = "run"
        /\ taken.now = j.now /\ taken.todo = j.todo /\ taken.asked = Tail(j.asked)
        /\ taken.results = results
    BY <1>1, <1>5, <2>2 DEF JobOK, Jobs
  <2> HIDE DEF taken
  <2>5. TypeOK' /\ Moved(w) /\ job'[w] = taken
    <3>1. \A l \in DOMAIN pilots' : IsKey(l, DOMAIN editions) /\ pilots'[l] \in Pilots
      BY <2>1 DEF TypeOK
    <3> QED BY <1>2, <1>3, <2>1, <2>4, <3>1, MoveTypes
  <2>6. Collected(w)
    BY <1>1, <1>2, <2>1, <2>3, <2>4, <2>5 DEF Collected, StaysOfSource
  <2> QED BY <1>1, <2>5, <2>6
<1>8. CASE mangled
  <2> DEFINE halves == Halves(k.part)
             keys == [h \in 1..2 |-> Key(e, halves[h])]
             rest == [h \in 1..2 |-> [key |-> keys[h], depth |-> depth + 1]]
             split == [j EXCEPT !.todo = Range(keys), !.asked = rest \o Tail(j.asked)]
  <2>1. QueuePilots(Range(keys)) /\ SetJob(w, split) /\ UNCHANGED <<books, editions>>
    BY <1>8 DEF Collect
  <2>2. \A h \in 1..2 : halves[h] \in SUBSET Blocks
    BY <1>6, HalvesFacts DEF IsKey
  <2>3. Range(keys) = {keys[1], keys[2]} /\ keys[1] = Key(e, halves[1]) /\ keys[2] = Key(e, halves[2])
    BY DEF Range
  <2> HIDE DEF halves
  <2>4. FromHere(w, Range(keys))
    BY <2>2, <2>3 DEF FromHere
  <2>5. /\ Opened(Range(keys))
        /\ \A l \in DOMAIN pilots' : IsKey(l, DOMAIN editions) /\ pilots'[l] \in Pilots
    BY <1>1, <1>2, <2>1, <2>4, OpenFacts
  <2> PICK ks : ks = DOMAIN pilots'
    OBVIOUS
  <2>6. \A h \in 1..2 : keys[h] \in ks /\ keys[h].text = Snapshot(keys[h].part)
    <3>1. Range(keys) \subseteq ks
      BY <2>5 DEF Opened
    <3>2. \A l \in Range(keys) : l.text = Snapshot(l.part)
      BY <1>1, <2>4, FromHereFacts
    <3>3. \A h \in 1..2 : keys[h] \in Range(keys)
      BY <2>3
    <3> QED BY <3>1, <3>2, <3>3
  <2>7. Range(keys) \subseteq ks /\ DOMAIN pilots \subseteq ks
    BY <2>5 DEF Opened
  <2> HIDE DEF keys
  <2>8. rest \in [1..2 -> OfSource(ks)] /\ rest \in [1..2 -> Asked(ks)]
    BY <2>6 DEF OfSource, Asked
  <2>9. Asked(DOMAIN pilots) \subseteq Asked(ks) /\ OfSource(DOMAIN pilots) \subseteq OfSource(ks)
    BY <2>7 DEF Asked, OfSource
  <2> HIDE DEF rest
  <2>10. rest \o Tail(j.asked) \in Seq(Asked(ks))
    BY <1>1, <1>4, <2>8, <2>9, AskedNext
  <2>11. j.asked \in Seq(OfSource(DOMAIN pilots)) => rest \o Tail(j.asked) \in Seq(OfSource(ks))
    BY <1>1, <2>8, <2>9, AskedNext
  <2>12. JobOK(j, DOMAIN books, ks) /\ j \in Jobs(DOMAIN books, ks)
    BY <1>1, <2>7, JobStays DEF JobOK
  <2>13. /\ JobOK(split, DOMAIN books, ks) /\ split.book = j.book /\ split.step = "run"
         /\ split.now = j.now /\ split.todo = Range(keys) /\ split.results = j.results
         /\ split.asked = rest \o Tail(j.asked)
    BY <1>1, <2>7, <2>10, <2>12 DEF JobOK, Jobs
  <2> HIDE DEF split
  <2>14. TypeOK' /\ Moved(w) /\ job'[w] = split
    BY <1>2, <1>3, <2>1, <2>5, <2>7, <2>13, MoveTypes
  <2>15. AsksFor(w, Range(keys)) /\ StaysOfSource(w)
    BY <2>4, <2>5, <2>11, <2>13, <2>14 DEF AsksFor, StaysOfSource
  <2> QED BY <1>1, <2>14, <2>15
<1>9. CASE pilots[k].status # "succeeded" /\ ~mangled
  <2>1. Fail(w)
    BY <1>9 DEF Collect
  <2> QED BY <1>1, <1>2, <2>1, Fails
<1> QED BY <1>7, <1>8, <1>9

\* A batch is over.
LEMMA EndBatchFacts ==
  ASSUME TypeOK, NEW w \in Workers, EndBatch(w)
  PROVE  /\ TypeOK' /\ Goes(w) /\ ~InCall(job[w]) /\ ~InCall(job'[w]) /\ job'[w].now = job[w].now
         /\ job'[w].step # "free"
         /\ UNCHANGED <<pilots, answered, rebought, used>>
<1> PICK j : j = job[w]
  OBVIOUS
<1>1. /\ j.step = "run" /\ AtWork(w) /\ ~InCall(job[w])
      /\ JobOK(j, DOMAIN books, DOMAIN pilots) /\ j \in Jobs(DOMAIN books, DOMAIN pilots)
  BY WorkFacts DEF EndBatch, AtWork, InCall
<1>2. UNCHANGED <<source, editions, books, pilots, answered, rebought, queue, used>>
  BY DEF EndBatch
<1>3. rebought' \in BOOLEAN /\ used' \in Counts
  BY <1>2 DEF TypeOK
<1> PICK step \in {"check", "materialize"} :
      SetJob(w, [j EXCEPT !.batch = j.batch + 1, !.step = step]) /\ (j.batch # Len(Windows) => step = "check")
      /\ (j.batch = Len(Windows) => step = "materialize")
  BY DEF EndBatch
<1> DEFINE next == [j EXCEPT !.batch = j.batch + 1, !.step = step]
<1>4. j.batch + 1 \in Nat /\ (j.batch # Len(Windows) => j.batch + 1 \in DOMAIN Windows)
  BY <1>1, WindowFacts DEF JobOK
<1>5. next \in Jobs(DOMAIN books, DOMAIN pilots)
  BY <1>1, <1>4 DEF Jobs
<1>6. /\ next.book = j.book /\ next.step = step /\ next.asked = j.asked /\ next.results = j.results
      /\ next.todo = j.todo /\ next.now = j.now /\ next.batch = j.batch + 1
  BY <1>1 DEF Jobs
<1> HIDE DEF next
<1>7. JobOK(next, DOMAIN books, DOMAIN pilots)
  BY <1>1, <1>4, <1>5, <1>6 DEF JobOK
<1>8. TypeOK' /\ Moved(w) /\ job'[w] = next
  <2>1. SetJob(w, next)
    BY DEF next
  <2>2. \A l \in DOMAIN pilots' : IsKey(l, DOMAIN editions) /\ pilots'[l] \in Pilots
    BY <1>2 DEF TypeOK
  <2> QED BY <1>2, <1>3, <1>7, <2>1, <2>2, MoveTypes
<1> QED BY <1>1, <1>2, <1>6, <1>8 DEF Goes, InCall

\* A book is written: into an edition without a text, from the source it was planned on.
Written(w) ==
  LET b == job[w].book
      e == books[b].edition
  IN /\ AtWork(w) /\ ~InCall(job[w]) /\ b \in DOMAIN books /\ e \in DOMAIN editions
     /\ books[b].plan = source /\ editions[e].text = NoText
     /\ \A x \in Blocks : job[w].results[x] # -1
     /\ DOMAIN editions' = DOMAIN editions /\ Len(editions') = Len(editions)
     /\ editions'[e] = [status |-> "review", text |-> job[w].results, corrected |-> FALSE]
     /\ \A i \in DOMAIN editions : i # e => editions'[i] = editions[i]
     /\ BookSet(b, "succeeded") /\ job'[w] = Free /\ Others(w)
     /\ UNCHANGED <<source, pilots, answered, rebought, used>>

LEMMA MaterializeFacts ==
  ASSUME TypeOK, NEW w \in Workers, Materialize(w)
  PROVE  TypeOK' /\ (Failed(w) \/ Written(w))
<1> PICK j : j = job[w]
  OBVIOUS
<1>1. /\ j.step = "materialize" /\ AtWork(w) /\ ~InCall(job[w])
      /\ JobOK(j, DOMAIN books, DOMAIN pilots) /\ j \in Jobs(DOMAIN books, DOMAIN pilots)
  BY WorkFacts DEF Materialize, AtWork, InCall
<1>2. UNCHANGED <<source, answered, rebought, queue, used>>
  BY DEF Materialize
<1> PICK b \in DOMAIN books : b = j.book
  BY <1>1, WorkFacts
<1> PICK e \in DOMAIN editions : e = books[b].edition
  BY RowFacts
<1>3. CASE Fail(w)
  BY <1>1, <1>2, <1>3, Fails
<1>4. CASE ~Fail(w)
  <2> DEFINE row == [status |-> "review", text |-> j.results, corrected |-> FALSE]
  <2>1. /\ source = books[b].plan /\ editions[e].text = NoText /\ \A x \in Blocks : j.results[x] # -1
        /\ editions' = [editions EXCEPT ![e] = row]
        /\ books' = [books EXCEPT ![b].status = "succeeded"]
        /\ SetJob(w, Free) /\ UNCHANGED pilots
    BY <1>4 DEF Materialize, Plan
  <2>2. row \in Editions
    <3>1. j.results \in [Blocks -> Versions]
      <4>1. \A n \in -1..MaxEdits : n # -1 => n \in Versions
        BY BoundsAssumption DEF Versions
      <4>2. j.results \in [Blocks -> -1..MaxEdits]
        BY <1>1 DEF Jobs
      <4> QED BY <2>1, <4>1, <4>2
    <3> QED BY <3>1 DEF Editions
  <2> HIDE DEF row
  <2>3. /\ editions' \in Seq(Editions) /\ Len(editions') = Len(editions)
        /\ \A i \in 1..Len(editions) : editions'[i] = IF i = e THEN row ELSE editions[i]
    <3>1. editions \in Seq(Editions) /\ e \in 1..Len(editions)
      BY RowFacts DEF TypeOK
    <3> QED BY <2>1, <2>2, <3>1, ExceptSeq
  <2>4. DOMAIN editions' = DOMAIN editions
    BY <2>3, RowFacts, LenProperties
  <2>5. BookSet(b, "succeeded") /\ books' \in Seq(Books(DOMAIN editions))
    BY <2>1, SetBook DEF Statuses
  <2>6. /\ job' = [v \in Workers |-> job'[v]]
        /\ \A v \in Workers : JobOK(job'[v], DOMAIN books', DOMAIN pilots')
        /\ job'[w] = Free /\ Others(w)
    <3>1. JobOK(Free, DOMAIN books', DOMAIN pilots')
      BY FreeOK
    <3> QED BY <2>1, <2>5, <3>1, SetJobTypes DEF BookSet, Others
  <2>7. TypeOK'
    BY <1>2, <2>1, <2>3, <2>4, <2>5, <2>6 DEF BookSet, TypeOK
  <2>8. Written(w)
    BY <1>1, <1>2, <2>1, <2>3, <2>4, <2>5, <2>6, RowFacts DEF Written, row
  <2> QED BY <2>7, <2>8
<1> QED BY <1>3, <1>4

\* The janitor closes what nobody works on.
Swept ==
  /\ DOMAIN books' = DOMAIN books /\ DOMAIN pilots' = DOMAIN pilots
  /\ \A b \in DOMAIN books :
       /\ books'[b].plan = books[b].plan /\ books'[b].edition = books[b].edition
       /\ books'[b].status = IF books[b].status = "running" /\ ~WorkedOn(b) THEN "failed" ELSE books[b].status
  /\ \A k \in DOMAIN pilots :
       /\ pilots'[k].status = IF LeftBehind(k) THEN "failed" ELSE pilots[k].status
       /\ pilots'[k].raw = pilots[k].raw
  /\ UNCHANGED <<source, editions, answered, rebought, job, used>>

\* The status of any run of a book may change to failed.
LEMMA CloseBooks ==
  ASSUME TypeOK, NEW S,
         books' = [b \in DOMAIN books |-> IF b \in S THEN Closed(books[b]) ELSE books[b]]
  PROVE  /\ books' \in Seq(Books(DOMAIN editions)) /\ DOMAIN books' = DOMAIN books
         /\ \A b \in DOMAIN books :
              /\ books'[b].plan = books[b].plan /\ books'[b].edition = books[b].edition
              /\ books'[b].status = IF b \in S THEN "failed" ELSE books[b].status
<1>1. \A b \in DOMAIN books : books[b] \in Books(DOMAIN editions)
  BY RowFacts
<1>2. \A b \in DOMAIN books :
        /\ Closed(books[b]) \in Books(DOMAIN editions) /\ Closed(books[b]).plan = books[b].plan
        /\ Closed(books[b]).edition = books[b].edition /\ Closed(books[b]).status = "failed"
  BY <1>1 DEF Closed, Books, Statuses
<1>3. books' \in [1..Len(books) -> Books(DOMAIN editions)]
  BY <1>1, <1>2, RowFacts
<1>4. books' \in Seq(Books(DOMAIN editions))
  BY <1>3, RowFacts, SeqDef
<1> QED BY <1>2, <1>4

\* A pilot that is closed keeps its answer.
LEMMA CloseFacts ==
  ASSUME NEW p \in Pilots
  PROVE  LET q == [Closed(p) EXCEPT !.error = "other"]
         IN q \in Pilots /\ q.status = "failed" /\ q.raw = p.raw
<1>1. [p EXCEPT !.status = "failed"] \in Pilots
  BY DEF Pilots, Statuses
<1> QED BY <1>1 DEF Closed, Pilots

LEMMA SweepFacts ==
  ASSUME TypeOK, Sweep
  PROVE  TypeOK' /\ Swept
<1>1. UNCHANGED <<source, editions, answered, rebought, queue, job, used>>
  BY DEF Sweep
<1>2. books' = [b \in DOMAIN books |-> IF books[b].status = "running" /\ ~WorkedOn(b)
                                         THEN Closed(books[b]) ELSE books[b]]
  BY DEF Sweep
<1>3. /\ books' \in Seq(Books(DOMAIN editions)) /\ DOMAIN books' = DOMAIN books
      /\ \A b \in DOMAIN books :
           /\ books'[b].plan = books[b].plan /\ books'[b].edition = books[b].edition
           /\ books'[b].status = IF books[b].status = "running" /\ ~WorkedOn(b) THEN "failed"
                                 ELSE books[b].status
  <2> DEFINE S == {b \in DOMAIN books : books[b].status = "running" /\ ~WorkedOn(b)}
  <2>1. books' = [b \in DOMAIN books |-> IF b \in S THEN Closed(books[b]) ELSE books[b]]
    BY <1>2
  <2> HIDE DEF S
  <2>2. /\ books' \in Seq(Books(DOMAIN editions)) /\ DOMAIN books' = DOMAIN books
        /\ \A b \in DOMAIN books :
             /\ books'[b].plan = books[b].plan /\ books'[b].edition = books[b].edition
             /\ books'[b].status = IF b \in S THEN "failed" ELSE books[b].status
    BY <2>1, CloseBooks
  <2> QED BY <2>2 DEF S
<1>4. pilots' = [k \in DOMAIN pilots |->
                  IF LeftBehind(k) THEN [Closed(pilots[k]) EXCEPT !.error = "other"] ELSE pilots[k]]
  BY DEF Sweep
<1>5. /\ DOMAIN pilots' = DOMAIN pilots
      /\ \A k \in DOMAIN pilots :
           /\ pilots'[k] \in Pilots /\ pilots'[k].raw = pilots[k].raw
           /\ pilots'[k].status = IF LeftBehind(k) THEN "failed" ELSE pilots[k].status
  <2>1. \A k \in DOMAIN pilots : pilots[k] \in Pilots
    BY DEF TypeOK
  <2>2. \A k \in DOMAIN pilots :
          /\ [Closed(pilots[k]) EXCEPT !.error = "other"] \in Pilots
          /\ [Closed(pilots[k]) EXCEPT !.error = "other"].status = "failed"
          /\ [Closed(pilots[k]) EXCEPT !.error = "other"].raw = pilots[k].raw
    BY <2>1, CloseFacts
  <2> QED BY <1>4, <2>1, <2>2
<1>6. TypeOK'
  BY <1>1, <1>3, <1>5 DEF TypeOK
<1> QED BY <1>1, <1>3, <1>5, <1>6 DEF Swept

\* A worker that hangs loses its book.
HungUp ==
  /\ DOMAIN books' = DOMAIN books /\ DOMAIN pilots' = DOMAIN pilots
  /\ \A b \in DOMAIN books :
       books'[b].plan = books[b].plan /\ books'[b].edition = books[b].edition
  /\ UNCHANGED <<source, editions, answered, rebought, job>>
  /\ used'.hangs > 0 /\ used'.edits = used.edits

LEMMA HangFacts ==
  ASSUME TypeOK, NEW w \in Workers, Hang(w)
  PROVE  TypeOK' /\ HungUp
<1> PICK j : j = job[w]
  OBVIOUS
<1>1. UNCHANGED <<source, editions, answered, rebought, queue, job>> /\ j # Free
  BY DEF Hang
<1>2. used' \in Counts /\ used'.hangs > 0 /\ used'.edits = used.edits
  BY CountFacts DEF Hang, Fault, Counted
<1> PICK b \in DOMAIN books : b = j.book
  BY <1>1, WorkFacts
<1>3. BookSet(b, "failed") /\ books' \in Seq(Books(DOMAIN editions))
  <2>1. books' = [books EXCEPT ![b].status = "failed"]
    BY DEF Hang, Closed
  <2> QED BY <2>1, SetBook DEF Statuses
<1>4. DOMAIN pilots' = DOMAIN pilots /\ \A k \in DOMAIN pilots : pilots'[k] \in Pilots
  <2>1. pilots' = [k \in DOMAIN pilots |->
                     IF k = j.now THEN [Closed(pilots[k]) EXCEPT !.error = "other"] ELSE pilots[k]]
    BY DEF Hang
  <2>2. \A k \in DOMAIN pilots : pilots[k] \in Pilots
    BY DEF TypeOK
  <2>3. \A k \in DOMAIN pilots : [Closed(pilots[k]) EXCEPT !.error = "other"] \in Pilots
    BY <2>2, CloseFacts
  <2> QED BY <2>1, <2>2, <2>3
<1>5. TypeOK'
  BY <1>1, <1>2, <1>3, <1>4 DEF BookSet, TypeOK
<1> QED BY <1>1, <1>2, <1>3, <1>4, <1>5 DEF BookSet, HungUp

\* A worker dies, a message comes twice, or is lost.
Crashed(w) ==
  /\ AtWork(w) /\ job'[w] = Free /\ Others(w)
  /\ UNCHANGED <<source, editions, books, pilots, answered, rebought>>
  /\ used'.hangs = used.hangs /\ used'.edits = used.edits

LEMMA CrashFacts ==
  ASSUME TypeOK, NEW w \in Workers, Crash(w)
  PROVE  TypeOK' /\ Crashed(w)
<1>1. /\ UNCHANGED <<source, editions, books, pilots, answered, rebought>> /\ AtWork(w)
      /\ SetJob(w, Free) /\ queue' = Append(queue, job[w].book)
  BY WorkFacts DEF Crash
<1>2. used' \in Counts /\ used'.hangs = used.hangs /\ used'.edits = used.edits
  BY CountFacts DEF Crash, Fault, Counted
<1>3. queue' \in Seq(DOMAIN books)
  BY <1>1, WorkFacts, AppendProperties DEF TypeOK
<1>4. /\ job' = [v \in Workers |-> job'[v]]
      /\ \A v \in Workers : JobOK(job'[v], DOMAIN books', DOMAIN pilots')
      /\ job'[w] = Free /\ Others(w)
  <2>1. JobOK(Free, DOMAIN books', DOMAIN pilots')
    BY FreeOK
  <2> QED BY <1>1, <2>1, SetJobTypes DEF Others
<1>5. TypeOK'
  BY <1>1, <1>2, <1>3, <1>4 DEF TypeOK
<1> QED BY <1>1, <1>2, <1>4, <1>5 DEF Crashed

LEMMA RedeliverFacts ==
  ASSUME TypeOK, NEW w \in Workers, Redeliver(w)
  PROVE  TypeOK' /\ Dropped
<1>1. /\ UNCHANGED <<source, editions, books, pilots, answered, rebought, job>> /\ AtWork(w)
      /\ queue' = Append(queue, job[w].book)
  BY WorkFacts DEF Redeliver
<1>2. used' \in Counts /\ used'.hangs = used.hangs /\ used'.edits = used.edits
  BY CountFacts DEF Redeliver, Fault, Counted
<1>3. queue' \in Seq(DOMAIN books)
  BY <1>1, WorkFacts, AppendProperties DEF TypeOK
<1> QED BY <1>1, <1>2, <1>3 DEF TypeOK, Dropped

LEMMA LoseFacts ==
  ASSUME TypeOK, Lose
  PROVE  TypeOK' /\ Dropped
<1>1. /\ UNCHANGED <<source, editions, books, pilots, answered, rebought, job>>
      /\ queue' = Tail(queue) /\ queue # <<>>
  BY DEF Lose
<1>2. used' \in Counts /\ used'.hangs = used.hangs /\ used'.edits = used.edits
  BY CountFacts DEF Lose, Fault, Counted
<1>3. queue' \in Seq(DOMAIN books)
  BY <1>1, HeadTailProperties DEF TypeOK
<1> QED BY <1>1, <1>2, <1>3 DEF TypeOK, Dropped

----------------------------------------------------------------------------
(* The steps, by what they do. *)

\* A worker goes on to the next check, queue or materialization.
GoesOn(w) ==
  /\ Goes(w) /\ ~InCall(job[w]) /\ ~InCall(job'[w]) /\ job'[w].now = job[w].now
  /\ job'[w].step # "free"
  /\ UNCHANGED <<pilots, answered, rebought, used>>

AsksNew(w) ==
  /\ AtWork(w) /\ ~InCall(job[w]) /\ StaysOfSource(w)
  /\ \E keys : AsksFor(w, keys)

PilotStep(w, k) == Passes(w, k) \/ Takes(w, k) \/ AsksOnce(w, k) \/ Finishes(w, k)

WorkerStep(w) ==
  \/ \E b \in DOMAIN books : Claimed(w, b)
  \/ Failed(w) \/ GoesOn(w) \/ AsksNew(w) \/ Written(w) \/ Crashed(w)
  \/ Collected(w) /\ AtWork(w) /\ ~InCall(job[w])
  \/ \E k \in DOMAIN pilots : PilotStep(w, k)

Steps ==
  \/ \E e \in DOMAIN editions' : Begun(e)
  \/ \E b \in DOMAIN books : Resumed(b)
  \/ Edited \/ Corrected \/ Swept \/ HungUp \/ Dropped
  \/ \E i \in DOMAIN editions : Published(i)
  \/ \E w \in Workers : WorkerStep(w)

LEMMA WorkerSteps ==
  ASSUME TypeOK, NEW w \in Workers, Work(w) \/ Hang(w) \/ Crash(w) \/ Redeliver(w)
  PROVE  TypeOK' /\ (WorkerStep(w) \/ HungUp \/ Dropped)
<1>1. CASE Claim(w)
  BY <1>1, ClaimFacts DEF WorkerStep
<1>2. CASE Check(w)
  <2>1. CASE Failed(w)
    BY <1>2, <2>1, CheckFacts DEF WorkerStep
  <2>2. CASE ~Failed(w)
    <3>1. /\ TypeOK' /\ AtWork(w) /\ ~InCall(job[w]) /\ Moved(w)
          /\ job'[w] = [job[w] EXCEPT !.step = "queue"]
          /\ UNCHANGED <<pilots, answered, rebought, used>>
      BY <1>2, <2>2, CheckFacts
    <3>2. job[w] \in Jobs(DOMAIN books, DOMAIN pilots)
      BY WorkFacts
    <3>3. /\ job'[w].book = job[w].book /\ job'[w].asked = job[w].asked
          /\ job'[w].results = job[w].results /\ job'[w].todo = job[w].todo
          /\ job'[w].now = job[w].now /\ job'[w].step = "queue"
      BY <3>1, <3>2 DEF Jobs
    <3>4. GoesOn(w)
      BY <3>1, <3>3 DEF GoesOn, Goes, InCall
    <3> QED BY <3>1, <3>4 DEF WorkerStep
  <2> QED BY <2>1, <2>2
<1>3. CASE QueueBatch(w)
  BY <1>3, QueueBatchFacts DEF WorkerStep, AsksNew, StaysOfSource
<1>4. CASE PilotClaim(w)
  BY <1>4, PilotClaimFacts DEF WorkerStep, PilotStep
<1>5. CASE PilotCall(w)
  BY <1>5, PilotCallFacts DEF WorkerStep, PilotStep
<1>6. CASE PilotFinish(w)
  BY <1>6, PilotFinishFacts DEF WorkerStep, PilotStep
<1>7. CASE Collect(w)
  BY <1>7, CollectFacts DEF WorkerStep, AsksNew
<1>8. CASE EndBatch(w)
  BY <1>8, EndBatchFacts DEF WorkerStep, GoesOn
<1>9. CASE Materialize(w)
  BY <1>9, MaterializeFacts DEF WorkerStep
<1>10. CASE Hang(w)
  BY <1>10, HangFacts
<1>11. CASE Crash(w)
  BY <1>11, CrashFacts DEF WorkerStep
<1>12. CASE Redeliver(w)
  BY <1>12, RedeliverFacts
<1> QED
  BY <1>1, <1>2, <1>3, <1>4, <1>5, <1>6, <1>7, <1>8, <1>9, <1>10, <1>11, <1>12 DEF Work

LEMMA NextSteps ==
  ASSUME TypeOK, SourceGrows, Next
  PROVE  TypeOK' /\ Steps
<1>1. CASE Begin
  BY <1>1, BeginFacts DEF Steps
<1>2. CASE Resume
  BY <1>2, ResumeFacts DEF Steps
<1>3. CASE Edit
  BY <1>3, EditFacts DEF Steps
<1>4. CASE Correct
  BY <1>4, CorrectFacts DEF Steps
<1>5. CASE Publish
  BY <1>5, PublishFacts DEF Steps
<1>6. CASE Sweep
  BY <1>6, SweepFacts DEF Steps
<1>7. CASE Lose
  BY <1>7, LoseFacts DEF Steps
<1>8. CASE \E w \in Workers : Work(w) \/ Hang(w) \/ Crash(w) \/ Redeliver(w)
  BY <1>8, WorkerSteps DEF Steps
<1> QED BY <1>1, <1>2, <1>3, <1>4, <1>5, <1>6, <1>7, <1>8 DEF Next

\* Rows stay: plans, editions, keys, and what happened.
RowsStay ==
  /\ DOMAIN books \subseteq DOMAIN books' /\ DOMAIN pilots \subseteq DOMAIN pilots'
  /\ DOMAIN editions \subseteq DOMAIN editions' /\ Len(editions) <= Len(editions')
  /\ \A b \in DOMAIN books :
       books'[b].plan = books[b].plan /\ books'[b].edition = books[b].edition
  /\ used'.hangs = 0 => used.hangs = 0
  /\ used.edits <= used'.edits

LEMMA StepsKeepRows ==
  ASSUME TypeOK, Steps PROVE RowsStay
<1>1. Len(editions) \in Nat /\ used.edits \in Nat
  BY RowFacts DEF TypeOK, Counts, Versions
<1>2. ASSUME NEW e \in DOMAIN editions', Begun(e) PROVE RowsStay
  BY <1>1, <1>2 DEF Begun, EditionSet, RowsStay
<1>3. ASSUME NEW b \in DOMAIN books, Resumed(b) PROVE RowsStay
  BY <1>1, <1>3 DEF Resumed, BookSet, EditionSet, RowsStay
<1>4. CASE Edited
  BY <1>1, <1>4 DEF Edited, RowsStay
<1>5. CASE Corrected
  BY <1>1, <1>5 DEF Corrected, RowsStay
<1>6. CASE Swept
  BY <1>1, <1>6 DEF Swept, RowsStay
<1>7. CASE HungUp
  BY <1>1, <1>7 DEF HungUp, RowsStay
<1>8. CASE Dropped
  BY <1>1, <1>8 DEF Dropped, RowsStay
<1>9. ASSUME NEW i \in DOMAIN editions, Published(i) PROVE RowsStay
  BY <1>1, <1>9 DEF Published, EditionSet, RowsStay
<1>10. ASSUME NEW w \in Workers, WorkerStep(w) PROVE RowsStay
  <2>1. ASSUME NEW b \in DOMAIN books, Claimed(w, b) PROVE RowsStay
    BY <1>1, <2>1 DEF Claimed, BookSet, EditionSet, RowsStay
  <2>2. CASE Failed(w)
    BY <1>1, <2>2 DEF Failed, BookSet, EditionSet, RowsStay
  <2>3. CASE GoesOn(w)
    BY <1>1, <2>3 DEF GoesOn, Goes, Moved, RowsStay
  <2>4. CASE AsksNew(w)
    BY <1>1, <2>4 DEF AsksNew, AsksFor, Moved, Opened, RowsStay
  <2>5. CASE Written(w)
    BY <1>1, <2>5 DEF Written, BookSet, RowsStay
  <2>6. CASE Crashed(w)
    BY <1>1, <2>6 DEF Crashed, RowsStay
  <2>7. CASE Collected(w)
    BY <1>1, <2>7 DEF Collected, Moved, RowsStay
  <2>8. ASSUME NEW k \in DOMAIN pilots, PilotStep(w, k) PROVE RowsStay
    BY <1>1, <2>8 DEF PilotStep, Passes, Takes, AsksOnce, Finishes, Goes, Moved, PilotSet, RowsStay
  <2> QED BY <1>10, <2>1, <2>2, <2>3, <2>4, <2>5, <2>6, <2>7, <2>8 DEF WorkerStep
<1> QED BY <1>2, <1>3, <1>4, <1>5, <1>6, <1>7, <1>8, <1>9, <1>10 DEF Steps

\* Only an edit changes the source, only a request adds a run, only a worker that asks adds a
\* pilot, and a text changes only when a book is written.
OneChange ==
  /\ Edited \/ (source' = source /\ used'.edits = used.edits)
  /\ (\E e \in DOMAIN editions' : Begun(e)) \/ DOMAIN books' = DOMAIN books
  /\ (\E w \in Workers : AsksNew(w)) \/ DOMAIN pilots' = DOMAIN pilots
  /\ (\E w \in Workers : Written(w)) \/ \A i \in DOMAIN editions : editions'[i].text = editions[i].text
  /\ (\E e \in DOMAIN editions' : Begun(e)) \/ DOMAIN editions' = DOMAIN editions
  /\ (\E w \in Workers : WorkerStep(w)) \/ job' = job

LEMMA StepsChange ==
  ASSUME TypeOK, Steps PROVE OneChange
<1>1. ASSUME NEW e \in DOMAIN editions', Begun(e) PROVE OneChange
  BY <1>1 DEF Begun, EditionSet, OneChange
<1>2. ASSUME NEW b \in DOMAIN books, Resumed(b) PROVE OneChange
  BY <1>2 DEF Resumed, BookSet, EditionSet, OneChange
<1>3. CASE Edited
  BY <1>3 DEF Edited, OneChange
<1>4. CASE Corrected
  BY <1>4 DEF Corrected, OneChange
<1>5. CASE Swept
  BY <1>5 DEF Swept, OneChange
<1>6. CASE HungUp
  BY <1>6 DEF HungUp, OneChange
<1>7. CASE Dropped
  BY <1>7 DEF Dropped, OneChange
<1>8. ASSUME NEW i \in DOMAIN editions, Published(i) PROVE OneChange
  BY <1>8 DEF Published, EditionSet, OneChange
<1>9. ASSUME NEW w \in Workers, WorkerStep(w) PROVE OneChange
  <2>1. ASSUME NEW b \in DOMAIN books, Claimed(w, b) PROVE OneChange
    BY <1>9, <2>1 DEF Claimed, BookSet, EditionSet, OneChange
  <2>2. CASE Failed(w)
    BY <1>9, <2>2 DEF Failed, BookSet, EditionSet, OneChange
  <2>3. CASE GoesOn(w)
    BY <1>9, <2>3 DEF GoesOn, Goes, Moved, OneChange
  <2>4. CASE AsksNew(w)
    BY <1>9, <2>4 DEF AsksNew, AsksFor, Moved, Opened, OneChange
  <2>5. CASE Written(w)
    BY <1>9, <2>5 DEF Written, BookSet, OneChange
  <2>6. CASE Crashed(w)
    BY <1>9, <2>6 DEF Crashed, OneChange
  <2>7. CASE Collected(w)
    BY <1>9, <2>7 DEF Collected, Moved, OneChange
  <2>8. ASSUME NEW k \in DOMAIN pilots, PilotStep(w, k) PROVE OneChange
    BY <1>9, <2>8 DEF PilotStep, Passes, Takes, AsksOnce, Finishes, Goes, Moved, PilotSet, OneChange
  <2> QED BY <1>9, <2>1, <2>2, <2>3, <2>4, <2>5, <2>6, <2>7, <2>8 DEF WorkerStep
<1> QED BY <1>1, <1>2, <1>3, <1>4, <1>5, <1>6, <1>7, <1>8, <1>9 DEF Steps

\* What is of the source is in range.
LEMMA SourceFacts ==
  ASSUME TypeOK
  PROVE  /\ source.title \in Nat /\ source.text \in [Blocks -> Nat] /\ used.edits \in Nat
         /\ \A b \in DOMAIN books : books[b].plan.title \in Nat /\ books[b].plan.text \in [Blocks -> Nat]
         /\ \A k \in DOMAIN pilots : /\ k.title \in Nat /\ k.part \subseteq Blocks
                                     /\ \A x \in k.part : k.text[x] \in Nat
<1>1. Versions \subseteq Nat
  BY BoundsAssumption DEF Versions
<1>2. \A s \in Sources : s.title \in Nat /\ s.text \in [Blocks -> Nat]
  BY <1>1 DEF Sources
<1>3. source \in Sources /\ used.edits \in Nat
  BY <1>1 DEF TypeOK, Counts
<1>4. \A b \in DOMAIN books : books[b].plan \in Sources
  BY RowFacts DEF Books
<1>5. \A k \in DOMAIN pilots : /\ k.title \in Nat /\ k.part \subseteq Blocks
                               /\ \A x \in k.part : k.text[x] \in Nat
  BY <1>1 DEF TypeOK, IsKey
<1> QED BY <1>2, <1>3, <1>4, <1>5

\* An edit makes a source that no plan is of, and a key that is of it was before.
LEMMA EditIsNew ==
  ASSUME TypeOK, SourceGrows, Edited
  PROVE  /\ source.title <= source'.title
         /\ \A x \in Blocks : source'.text[x] <= used'.edits
         /\ \A b \in DOMAIN books : books[b].plan # source'
         /\ \A k \in DOMAIN pilots : Current(k)' => Current(k)
<1>1. CASE source'.title = source.title + 1 /\ source'.text = source.text
  <2>1. /\ source.title \in Nat /\ used.edits \in Nat /\ used'.edits = used.edits + 1
        /\ \A x \in Blocks : source.text[x] \in Nat
    BY SourceFacts DEF Edited
  <2>2. \A b \in DOMAIN books : books[b].plan.title \in Nat /\ books[b].plan.title <= source.title
    BY SourceFacts DEF SourceGrows, PlanIsOld
  <2>3. \A k \in DOMAIN pilots : k.title \in Nat /\ k.title <= source.title
    BY SourceFacts DEF SourceGrows, KeyIsOld
  <2>4. \A k \in DOMAIN pilots : ~Current(k)'
    BY <1>1, <2>1, <2>3 DEF Current, Key
  <2> QED BY <1>1, <2>1, <2>2, <2>4 DEF SourceGrows
<1>2. ASSUME source'.title = source.title, NEW x \in Blocks,
             source'.text = [source.text EXCEPT ![x] = used.edits + 1]
      PROVE  /\ source.title <= source'.title
             /\ \A y \in Blocks : source'.text[y] <= used'.edits
             /\ \A b \in DOMAIN books : books[b].plan # source'
             /\ \A k \in DOMAIN pilots : Current(k)' => Current(k)
  <2>1. /\ source.title \in Nat /\ used.edits \in Nat /\ used'.edits = used.edits + 1
        /\ source.text \in [Blocks -> Nat]
    BY SourceFacts DEF Edited
  <2>2. source'.text[x] = used.edits + 1 /\ \A y \in Blocks : y # x => source'.text[y] = source.text[y]
    BY <1>2, <2>1
  <2>3. \A b \in DOMAIN books : books[b].plan.text[x] \in Nat /\ books[b].plan.text[x] <= used.edits
    BY SourceFacts DEF SourceGrows, PlanIsOld
  <2>4. \A b \in DOMAIN books : books[b].plan # source'
    BY <2>1, <2>2, <2>3
  <2>5. ASSUME NEW k \in DOMAIN pilots, Current(k)' PROVE Current(k)
    <3>1. k.text = [y \in k.part |-> source'.text[y]]
      BY <2>5 DEF Current, Key, Snapshot
    <3>2. x \notin k.part
      <4>1. x \in k.part => k.text[x] \in Nat /\ k.text[x] <= used.edits
        BY SourceFacts DEF SourceGrows, KeyIsOld
      <4> QED BY <2>1, <2>2, <3>1, <4>1
    <3>3. k.text = [y \in k.part |-> source.text[y]]
      BY <2>2, <3>1, <3>2, SourceFacts
    <3> QED BY <1>2, <2>5, <3>3 DEF Current, Key, Snapshot
  <2>6. \A y \in Blocks : source'.text[y] <= used'.edits
    BY <2>1, <2>2 DEF SourceGrows
  <2> QED BY <1>2, <2>1, <2>4, <2>5, <2>6
<1> QED BY <1>1, <1>2 DEF Edited

LEMMA SourceGrowsStays ==
  ASSUME TypeOK, SourceGrows, Steps, TypeOK' PROVE SourceGrows'
<1>1. RowsStay /\ OneChange
  BY StepsKeepRows, StepsChange
<1>2. /\ source.title <= source'.title /\ source'.title <= used'.edits
      /\ \A x \in Blocks : source'.text[x] <= used'.edits
  <2>1. CASE Edited
    <3>1. source'.title <= used'.edits
      BY <2>1, SourceFacts DEF Edited, SourceGrows
    <3> QED BY <2>1, <3>1, EditIsNew
  <2>2. CASE source' = source /\ used'.edits = used.edits
    BY <2>2, SourceFacts DEF SourceGrows
  <2> QED BY <1>1, <2>1, <2>2 DEF OneChange
<1>3. used.edits \in Nat /\ used'.edits \in Nat /\ used.edits <= used'.edits
  BY <1>1, SourceFacts DEF RowsStay, TypeOK, Counts, Versions
<1>4. source.title \in Nat /\ source'.title \in Nat
  BY SourceFacts, BoundsAssumption DEF TypeOK, Sources, Versions
<1>6. ASSUME NEW b \in DOMAIN books' PROVE PlanIsOld(books[b].plan)'
  <2>1. CASE b \in DOMAIN books
    <3>1. PlanIsOld(books[b].plan) /\ books'[b].plan = books[b].plan
      BY <1>1, <2>1 DEF SourceGrows, RowsStay
    <3>2. books[b].plan.title \in Nat /\ \A x \in Blocks : books[b].plan.text[x] \in Nat
      BY <2>1, SourceFacts
    <3> QED BY <1>2, <1>3, <1>4, <3>1, <3>2 DEF PlanIsOld
  <2>2. CASE b \notin DOMAIN books
    <3> PICK e \in DOMAIN editions' : Begun(e)
      BY <1>1, <1>6, <2>2 DEF OneChange
    <3>1. /\ books'[b] = [plan |-> source, edition |-> e, status |-> "queued"]
          /\ source' = source /\ used'.edits = used.edits
      BY <1>6, <2>2 DEF Begun
    <3> QED BY <1>2, <1>4, <3>1 DEF PlanIsOld
  <2> QED BY <2>1, <2>2
<1>7. ASSUME NEW k \in DOMAIN pilots' PROVE KeyIsOld(k)'
  <2>1. CASE k \in DOMAIN pilots
    <3>1. KeyIsOld(k) /\ k.title \in Nat /\ \A x \in k.part : k.text[x] \in Nat
      BY <2>1, SourceFacts DEF SourceGrows
    <3> QED BY <1>2, <1>3, <1>4, <3>1 DEF KeyIsOld
  <2>2. CASE k \notin DOMAIN pilots
    <3> PICK w \in Workers : AsksNew(w)
      BY <1>1, <2>2, <1>7 DEF OneChange
    <3> PICK keys : AsksFor(w, keys)
      BY DEF AsksNew
    <3>1. k \in keys /\ source' = source /\ used'.edits = used.edits
      BY <1>7, <2>2 DEF AsksFor, Opened, Moved
    <3>2. AtWork(w) /\ FromHere(w, keys)
      BY DEF AsksNew, AsksFor
    <3>3. k.title = source.title /\ k.part \in SUBSET Blocks /\ \A x \in k.part : k.text[x] = source.text[x]
      BY <3>1, <3>2, FromHereFacts
    <3> QED BY <1>2, <1>4, <3>1, <3>3 DEF KeyIsOld
  <2> QED BY <2>1, <2>2
<1> QED BY <1>2, <1>6, <1>7 DEF SourceGrows

LEMMA Starts ==
  ASSUME NEW w \in Workers, NEW b \in DOMAIN books, Claimed(w, b)
  PROVE  /\ job'[w].book = b /\ job'[w].step = "check" /\ job'[w].now = Nothing /\ ~InCall(job'[w])
         /\ job'[w].todo = {} /\ job'[w].asked = <<>> /\ \A x \in Blocks : job'[w].results[x] = -1
<1>1. JobOK(Begins(b), DOMAIN books, DOMAIN pilots) =>
        /\ Begins(b).step = "check" /\ Begins(b).book = b /\ Begins(b).now = Nothing
        /\ Begins(b).todo = {} /\ Begins(b).asked = <<>>
        /\ Begins(b).results = [x \in Blocks |-> -1]
  BY BeginsFacts
<1>2. JobOK(Begins(b), DOMAIN books, DOMAIN pilots)
  BY BeginsFacts
<1> QED BY <1>1, <1>2 DEF Claimed, InCall

\* What a worker is at changes with its own step only.
LEMMA OneMoves ==
  ASSUME TypeOK, Steps, NEW v \in Workers, job'[v] # job[v]
  PROVE  WorkerStep(v) /\ (AtWork(v)' => source' = source)
<1>1. PICK w \in Workers : WorkerStep(w)
  BY StepsChange DEF OneChange
<1>2. Others(w)
  BY <1>1 DEF WorkerStep, Claimed, Failed, GoesOn, Goes, Moved, AsksNew, AsksFor, Written, Crashed,
              Collected, PilotStep, Passes, Takes, AsksOnce, Finishes
<1>3. v = w
  BY <1>2 DEF Others
<1>4. source' = source
  BY <1>1 DEF WorkerStep, Claimed, Failed, GoesOn, Goes, Moved, AsksNew, AsksFor, Written, Crashed,
              Collected, PilotStep, Passes, Takes, AsksOnce, Finishes
<1> QED BY <1>1, <1>3, <1>4

LEMMA AsPlannedStays ==
  ASSUME TypeOK, SourceGrows, AsPlanned, Steps, TypeOK' PROVE AsPlanned'
<1>1. RowsStay /\ OneChange
  BY StepsKeepRows, StepsChange
<1> SUFFICES ASSUME NEW v \in Workers, AtWork(v)', (books[job[v].book].plan = source)'
             PROVE  /\ job'[v].asked \in Seq(OfSource(DOMAIN pilots))'
                    /\ \A x \in Blocks : job'[v].results[x] \in {-1, source'.text[x]}
  BY DEF AsPlanned
<1>2. source' = source =>
        /\ OfSource(DOMAIN pilots)' = OfSource(DOMAIN pilots')
        /\ Seq(OfSource(DOMAIN pilots)) \subseteq Seq(OfSource(DOMAIN pilots'))
  <2> SUFFICES ASSUME source' = source
               PROVE  /\ OfSource(DOMAIN pilots)' = OfSource(DOMAIN pilots')
                      /\ Seq(OfSource(DOMAIN pilots)) \subseteq Seq(OfSource(DOMAIN pilots'))
    OBVIOUS
  <2>1. OfSource(DOMAIN pilots)' = OfSource(DOMAIN pilots')
    BY DEF OfSource, Snapshot
  <2>2. OfSource(DOMAIN pilots) \subseteq OfSource(DOMAIN pilots')
    BY <1>1 DEF OfSource, RowsStay, Asked
  <2> QED BY <2>1, <2>2, SeqMonotonic
<1>3. CASE job'[v] = job[v]
  <2>1. AtWork(v) /\ job[v].book \in DOMAIN books
    BY <1>3, WorkFacts DEF AtWork
  <2>2. books[job[v].book].plan = source'
    BY <1>1, <1>3, <2>1 DEF RowsStay
  <2>3. source' = source
    BY <1>1, <2>1, <2>2, EditIsNew DEF OneChange
  <2> QED BY <1>2, <1>3, <2>1, <2>2, <2>3 DEF AsPlanned
<1>4. CASE job'[v] # job[v]
  <2>1. WorkerStep(v) /\ source' = source
    BY <1>4, OneMoves
  <2>2. ASSUME NEW b \in DOMAIN books, Claimed(v, b)
        PROVE  job'[v].asked = <<>> /\ \A x \in Blocks : job'[v].results[x] = -1
    BY <2>2, Starts
  <2>3. \A S : <<>> \in Seq(S)
    BY EmptySeq
  <2>4. CASE \E b \in DOMAIN books : Claimed(v, b)
    BY <1>2, <2>1, <2>2, <2>3, <2>4
  <2>5. CASE Failed(v) \/ Written(v) \/ Crashed(v)
    BY SMTT(30), <2>5 DEF Failed, Written, Crashed, AtWork, Free
  <2>6. CASE AtWork(v) /\ job'[v].book = job[v].book
    <3>1. books[job[v].book].plan = source
      BY <1>1, <2>1, <2>6, WorkFacts DEF RowsStay
    <3>2. /\ job[v].asked \in Seq(OfSource(DOMAIN pilots))
          /\ \A x \in Blocks : job[v].results[x] \in {-1, source.text[x]}
      BY <2>6, <3>1 DEF AsPlanned
    <3>3. CASE GoesOn(v) \/ \E k \in DOMAIN pilots : PilotStep(v, k)
      <4>1. job'[v].asked = job[v].asked /\ job'[v].results = job[v].results
        BY <3>3 DEF GoesOn, Goes, PilotStep, Passes, Takes, AsksOnce, Finishes
      <4> QED BY <1>2, <2>1, <3>2, <4>1
    <3>4. CASE AsksNew(v)
      BY <1>2, <2>1, <3>2, <3>4 DEF AsksNew, AsksFor, StaysOfSource
    <3>5. CASE Collected(v)
      BY <1>2, <2>1, <3>2, <3>5 DEF Collected, StaysOfSource
    <3>6. CASE \E b \in DOMAIN books : Claimed(v, b)
      BY <2>4, <3>6
    <3> QED BY <2>1, <2>5, <3>3, <3>4, <3>5, <3>6 DEF WorkerStep
  <2> QED BY <2>1, <2>4, <2>5, <2>6
          DEF WorkerStep, GoesOn, Goes, AsksNew, AsksFor, Collected, PilotStep, Passes, Takes,
              AsksOnce, Finishes
<1> QED BY <1>3, <1>4

LEMMA OwnKeysStay ==
  ASSUME TypeOK, OwnKeys, Steps, TypeOK' PROVE OwnKeys'
<1>1. RowsStay /\ OneChange
  BY StepsKeepRows, StepsChange
<1> SUFFICES ASSUME NEW v \in Workers
             PROVE  /\ \A k \in job'[v].todo : k.edition = books'[job'[v].book].edition
                    /\ IF InCall(job'[v]) THEN job'[v].now.edition = books'[job'[v].book].edition
                       ELSE job'[v].now = Nothing
  BY DEF OwnKeys
<1>2. /\ \A k \in job[v].todo : k.edition = books[job[v].book].edition
      /\ InCall(job[v]) => job[v].now.edition = books[job[v].book].edition
      /\ ~InCall(job[v]) => job[v].now = Nothing
  BY DEF OwnKeys
<1>3. Free.todo = {} /\ Free.now = Nothing /\ ~InCall(Free)
  BY DEF Free, InCall
<1>4. AtWork(v) => /\ job[v].book \in DOMAIN books
                   /\ books'[job[v].book].edition = books[job[v].book].edition
  BY <1>1, WorkFacts DEF RowsStay
<1>5. CASE job'[v] = job[v]
  <2>1. CASE AtWork(v)
    BY <1>2, <1>4, <1>5, <2>1
  <2>2. CASE ~AtWork(v)
    BY <1>3, <1>5, <2>2, WorkFacts
  <2> QED BY <2>1, <2>2
<1>6. CASE job'[v] # job[v]
  <2>1. WorkerStep(v)
    BY <1>6, OneMoves
  <2>2. ASSUME NEW b \in DOMAIN books, Claimed(v, b)
        PROVE  job'[v].todo = {} /\ job'[v].now = Nothing /\ ~InCall(job'[v])
    BY <2>2, Starts
  <2>3. CASE Failed(v) \/ Written(v) \/ Crashed(v)
    BY <1>3, <2>3 DEF Failed, Written, Crashed
  <2>4. CASE GoesOn(v)
    BY <1>2, <1>4, <2>4 DEF GoesOn, Goes
  <2>5. ASSUME AsksNew(v)
        PROVE  /\ \A k \in job'[v].todo : k.edition = books'[job'[v].book].edition
               /\ job'[v].now = Nothing /\ ~InCall(job'[v])
    <3> PICK keys : AsksFor(v, keys)
      BY <2>5 DEF AsksNew
    <3>1. AtWork(v) /\ FromHere(v, keys) /\ job'[v].todo = keys /\ job'[v].book = job[v].book
      BY <2>5 DEF AsksNew, AsksFor
    <3>2. \A k \in keys : k.edition = books[job[v].book].edition
      BY <3>1, FromHereFacts
    <3> QED BY <1>2, <1>4, <2>5, <3>1, <3>2 DEF AsksNew, AsksFor, InCall
  <2>6. CASE Collected(v) /\ AtWork(v) /\ ~InCall(job[v])
    BY <1>2, <1>4, <2>6 DEF Collected, InCall
  <2>7. ASSUME NEW k \in DOMAIN pilots, PilotStep(v, k)
        PROVE  /\ \A l \in job'[v].todo : l.edition = books'[job'[v].book].edition
               /\ IF InCall(job'[v]) THEN job'[v].now.edition = books'[job'[v].book].edition
                  ELSE job'[v].now = Nothing
    BY <1>2, <1>4, <2>7 DEF PilotStep, Passes, Takes, AsksOnce, Finishes, Goes, InCall
  <2> QED BY <2>1, <2>2, <2>3, <2>4, <2>5, <2>6, <2>7 DEF WorkerStep
<1> QED BY <1>5, <1>6

LEMMA OneRevisionStays ==
  ASSUME TypeOK, AsPlanned, OneRevision, Steps, TypeOK' PROVE OneRevision'
<1>1. RowsStay /\ OneChange
  BY StepsKeepRows, StepsChange
<1> SUFFICES ASSUME NEW i \in DOMAIN editions', editions'[i].text # NoText
             PROVE  \E b \in DOMAIN books' :
                      books'[b].edition = i /\ books'[b].plan.text = editions'[i].text
  BY DEF OneRevision
<1>2. CASE i \in DOMAIN editions /\ editions'[i].text = editions[i].text
  <2> PICK b \in DOMAIN books : books[b].edition = i /\ books[b].plan.text = editions[i].text
    BY <1>2 DEF OneRevision
  <2> QED BY <1>1, <1>2 DEF RowsStay
<1>3. CASE i \notin DOMAIN editions
  <2> PICK e \in DOMAIN editions' : Begun(e)
    BY <1>1, <1>3 DEF OneChange
  <2>1. editions'[i] = [status |-> "queued", text |-> NoText, corrected |-> FALSE]
    BY <1>3 DEF Begun, EditionSet
  <2> QED BY <2>1
<1>4. CASE i \in DOMAIN editions /\ editions'[i].text # editions[i].text
  <2> PICK w \in Workers : Written(w)
    BY <1>1, <1>4 DEF OneChange
  <2> PICK b \in DOMAIN books : b = job[w].book
    BY DEF Written
  <2>1. i = books[b].edition /\ editions'[i].text = job[w].results
    BY <1>4 DEF Written
  <2>2. \A x \in Blocks : job[w].results[x] = source.text[x]
    BY DEF Written, AsPlanned
  <2>3. job[w].results \in [Blocks -> -1..MaxEdits]
    BY WorkFacts DEF Jobs
  <2>4. job[w].results = source.text
    BY <2>2, <2>3 DEF TypeOK, Sources
  <2>5. books[b].plan = source
    BY DEF Written
  <2> QED BY <1>1, <2>1, <2>4, <2>5 DEF RowsStay
<1> QED BY <1>2, <1>3, <1>4

----------------------------------------------------------------------------
(* One writer. *)

Alone == AtRun /\ OneWorker /\ LastCounts /\ FailedHas /\ RunsInBook

\* Of two runs of one edition, one failed.
LEMMA OneCounts ==
  ASSUME TypeOK, LastCounts, NEW a \in DOMAIN books, NEW b \in DOMAIN books,
         books[a].edition = books[b].edition, books[a].status # "failed", books[b].status # "failed"
  PROVE  a = b
<1>1. a \in Nat /\ b \in Nat
  BY RowFacts
<1> QED BY <1>1 DEF LastCounts

\* A worker that goes on at all goes on with its book.
LEMMA SameBook ==
  ASSUME NEW v, WorkerStep(v), AtWork(v)', ~\E b \in DOMAIN books : Claimed(v, b)
  PROVE  /\ AtWork(v) /\ job'[v].book = job[v].book
         /\ UNCHANGED <<source, editions, books>>
<1>1. Free.step = "free"
  BY DEF Free
<1>2. ~Failed(v) /\ ~Written(v) /\ ~Crashed(v)
  BY <1>1 DEF Failed, Written, Crashed, AtWork
<1> QED BY <1>2 DEF WorkerStep, GoesOn, Goes, AsksNew, AsksFor, Moved, Collected, PilotStep, Passes, Takes,
                    AsksOnce, Finishes

\* The status of a run of a book, after a step.
BookStep(b) ==
  \/ books'[b].status = books[b].status
  \/ /\ books[b].status \in {"queued", "failed"} /\ books'[b].status = "queued"
     /\ books[b].plan = source /\ editions[books[b].edition].text = NoText
     /\ editions'[books[b].edition].status = "queued"
  \/ books[b].status = "running" /\ books'[b].status = "failed" /\ ~WorkedOn(b)
  \/ books[b].status = "queued" /\ books'[b].status = "running"
  \/ /\ books'[b].status \in {"succeeded", "failed"}
     /\ \E w \in Workers : AtWork(w) /\ ~AtWork(w)' /\ job[w].book = b

LEMMA BookSteps ==
  ASSUME TypeOK, Steps, ~HungUp, NEW b \in DOMAIN books
  PROVE  BookStep(b)
<1>1. Free.step = "free"
  BY DEF Free
<1>2. ASSUME NEW e \in DOMAIN editions', Begun(e) PROVE BookStep(b)
  BY <1>2 DEF Begun, BookStep
<1>3. ASSUME NEW c \in DOMAIN books, Resumed(c) PROVE BookStep(b)
  BY <1>3, RowFacts DEF Resumed, BookSet, EditionSet, BookStep
<1>4. CASE Edited \/ Corrected \/ Dropped \/ \E i \in DOMAIN editions : Published(i)
  BY <1>4 DEF Edited, Corrected, Dropped, Published, BookStep
<1>5. CASE Swept
  BY <1>5 DEF Swept, BookStep
<1>6. ASSUME NEW w \in Workers, WorkerStep(w) PROVE BookStep(b)
  <2>1. ASSUME NEW c \in DOMAIN books, Claimed(w, c) PROVE BookStep(b)
    <3>1. CASE b = c
      BY <2>1, <3>1 DEF Claimed, BookSet, BookStep
    <3>2. CASE b # c
      BY <2>1, <3>2 DEF Claimed, BookSet, BookStep
    <3> QED BY <3>1, <3>2
  <2>2. CASE Failed(w) \/ Written(w)
    <3>1. \/ job[w].book = b /\ books'[b].status \in {"succeeded", "failed"}
          \/ books'[b].status = books[b].status
      BY <2>2 DEF Failed, Written, BookSet
    <3>2. AtWork(w) /\ ~AtWork(w)'
      BY <1>1, <2>2 DEF Failed, Written, AtWork
    <3> QED BY <1>6, <3>1, <3>2 DEF BookStep
  <2>3. CASE books' = books
    BY <2>3 DEF BookStep
  <2> QED BY <1>6, <2>1, <2>2, <2>3 DEF WorkerStep, GoesOn, Goes, AsksNew, AsksFor, Moved, Crashed,
             Collected, PilotStep, Passes, Takes, AsksOnce, Finishes
<1> QED BY <1>2, <1>3, <1>4, <1>5, <1>6 DEF Steps

LEMMA AtRunStays ==
  ASSUME TypeOK, AtRun, OneWorker, Steps, ~HungUp PROVE AtRun'
<1> SUFFICES ASSUME NEW v \in Workers, AtWork(v)' PROVE books'[job'[v].book].status = "running"
  BY DEF AtRun
<1>1. CASE \E b \in DOMAIN books : Claimed(v, b)
  BY <1>1, Starts DEF Claimed, BookSet
<1>2. CASE ~\E b \in DOMAIN books : Claimed(v, b)
  <2>1. AtWork(v) /\ job'[v].book = job[v].book
    BY <1>2, OneMoves, SameBook DEF AtWork
  <2> PICK b \in DOMAIN books : b = job[v].book
    BY <2>1, WorkFacts
  <2>2. books[b].status = "running" /\ WorkedOn(b)
    BY <2>1 DEF AtRun, WorkedOn
  <2>3. \A w \in Workers : job[w].book = b /\ AtWork(w) => w = v
    BY <2>1 DEF OneWorker
  <2> QED BY <1>2, <2>1, <2>2, <2>3, BookSteps DEF BookStep
<1> QED BY <1>1, <1>2

LEMMA OneWorkerStays ==
  ASSUME TypeOK, AtRun, OneWorker, Steps PROVE OneWorker'
<1> SUFFICES ASSUME NEW u \in Workers, NEW v \in Workers, u # v, AtWork(u)', AtWork(v)',
                    job'[u].book = job'[v].book
             PROVE  FALSE
  BY DEF OneWorker
<1>1. ASSUME NEW x \in Workers, NEW y \in Workers, x # y, AtWork(x)', AtWork(y)',
             job'[x].book = job'[y].book, job'[x] # job[x]
      PROVE  FALSE
  <2>1. WorkerStep(x) /\ job'[y] = job[y]
    <3>1. WorkerStep(x)
      BY <1>1, OneMoves
    <3>2. Others(x)
      BY <3>1 DEF WorkerStep, Claimed, Failed, GoesOn, Goes, Moved, AsksNew, AsksFor, Written, Crashed,
                  Collected, PilotStep, Passes, Takes, AsksOnce, Finishes
    <3> QED BY <1>1, <3>1, <3>2 DEF Others
  <2>2. AtWork(y)
    BY <1>1, <2>1 DEF AtWork
  <2>3. ASSUME NEW b \in DOMAIN books, Claimed(x, b) PROVE FALSE
    BY <1>1, <2>1, <2>2, <2>3, Starts DEF Claimed, AtRun
  <2>4. AtWork(x) /\ job'[x].book = job[x].book
    BY <1>1, <2>1, <2>3, SameBook
  <2> QED BY <1>1, <2>1, <2>2, <2>4 DEF OneWorker
<1>2. job'[u] = job[u] /\ job'[v] = job[v]
  BY <1>1
<1> QED BY <1>2 DEF OneWorker, AtWork

LEMMA LastCountsStays ==
  ASSUME TypeOK, SourceGrows, AtRun, LastCounts, FailedHas, Steps, ~HungUp PROVE LastCounts'
<1>1. RowsStay /\ OneChange
  BY StepsKeepRows, StepsChange
<1> SUFFICES ASSUME NEW a \in DOMAIN books', NEW b \in DOMAIN books', a < b,
                    books'[a].edition = books'[b].edition
             PROVE  books'[a].status = "failed" /\ books'[a].plan # source'
  BY DEF LastCounts
<1>2. CASE a \in DOMAIN books /\ b \in DOMAIN books
  <2>1. books[a].status = "failed" /\ books[a].plan # source /\ books'[a].plan = books[a].plan
    BY <1>1, <1>2 DEF RowsStay, LastCounts
  <2>2. books'[a].plan # source'
    BY <1>1, <1>2, <2>1, EditIsNew DEF OneChange
  <2>3. books'[a].status = "failed"
    <3>1. BookStep(a)
      BY <1>2, BookSteps
    <3>2. \A w \in Workers : AtWork(w) => job[w].book # a
      BY <2>1 DEF AtRun
    <3> QED BY <2>1, <3>1, <3>2 DEF BookStep
  <2> QED BY <2>2, <2>3
<1>3. CASE ~(a \in DOMAIN books /\ b \in DOMAIN books)
  <2> PICK e \in DOMAIN editions' : Begun(e)
    BY <1>1, <1>3 DEF OneChange
  <2>1. /\ DOMAIN books = 1..Len(books) /\ Len(books) \in Nat
        /\ DOMAIN books' = DOMAIN books \cup {Len(books) + 1}
    BY RowFacts DEF Begun
  <2>2. b = Len(books) + 1 /\ a \in DOMAIN books
    BY <1>3, <2>1
  <2>3. /\ books'[b] = [plan |-> source, edition |-> e, status |-> "queued"]
        /\ books'[a] = books[a] /\ books[a].plan # source /\ source' = source
    BY <2>2 DEF Begun
  <2>4. books[a].edition = e /\ e \in DOMAIN editions
    BY <2>2, <2>3, RowFacts
  <2>5. editions[e].status = "failed"
    BY <2>4 DEF Begun, Stranded
  <2> QED BY <2>2, <2>3, <2>4, <2>5 DEF FailedHas
<1> QED BY <1>2, <1>3

\* The status of an edition, after a step.
EditionStep(i) ==
  \/ editions'[i].status = editions[i].status /\ editions'[i].text = editions[i].text
  \/ /\ editions'[i].status = "queued" /\ editions[i].text = NoText
     /\ editions'[i].text = editions[i].text
  \/ /\ editions[i].status = "review" /\ editions'[i].status = "published"
     /\ editions'[i].text = editions[i].text
  \/ /\ editions'[i].status = "processing" /\ editions'[i].text = editions[i].text
     /\ \E b \in DOMAIN books : books[b].edition = i /\ books[b].status = "queued"
  \/ \E w \in Workers :
       /\ AtWork(w) /\ books[job[w].book].edition = i
       /\ \/ /\ editions'[i].status = "failed" /\ editions'[i].text = editions[i].text
             /\ books'[job[w].book].status = "failed"
          \/ editions'[i].status = "review" /\ books'[job[w].book].status = "succeeded"

LEMMA EditionSteps ==
  ASSUME TypeOK, Steps, NEW i \in DOMAIN editions
  PROVE  EditionStep(i)
<1>1. ASSUME NEW e \in DOMAIN editions', Begun(e) PROVE EditionStep(i)
  BY <1>1 DEF Begun, Stranded, EditionSet, EditionStep
<1>2. ASSUME NEW c \in DOMAIN books, Resumed(c) PROVE EditionStep(i)
  BY <1>2 DEF Resumed, EditionSet, EditionStep
<1>3. CASE Edited \/ Corrected \/ Dropped \/ Swept \/ HungUp
  BY <1>3 DEF Edited, Corrected, Dropped, Swept, HungUp, EditionStep
<1>4. ASSUME NEW e \in DOMAIN editions, Published(e) PROVE EditionStep(i)
  BY <1>4 DEF Published, EditionSet, EditionStep
<1>5. ASSUME NEW w \in Workers, WorkerStep(w) PROVE EditionStep(i)
  <2>1. ASSUME NEW c \in DOMAIN books, Claimed(w, c) PROVE EditionStep(i)
    BY <2>1 DEF Claimed, EditionSet, EditionStep
  <2>2. CASE Failed(w)
    <3>1. /\ AtWork(w) /\ job[w].book \in DOMAIN books /\ editions'[i].text = editions[i].text
          /\ books'[job[w].book].status = "failed"
          /\ editions'[i].status =
               IF i = books[job[w].book].edition
                 THEN IF editions[i].status = "published" THEN "published" ELSE "failed"
               ELSE editions[i].status
      BY <2>2 DEF Failed, BookSet, EditionSet
    <3> QED BY <1>5, <3>1 DEF EditionStep
  <2>3. CASE Written(w)
    <3>1. CASE i = books[job[w].book].edition
      <4>1. AtWork(w) /\ editions'[i].status = "review" /\ books'[job[w].book].status = "succeeded"
        BY <2>3, <3>1 DEF Written, BookSet
      <4> QED BY <1>5, <3>1, <4>1 DEF EditionStep
    <3>2. CASE i # books[job[w].book].edition
      BY <2>3, <3>2 DEF Written, EditionStep
    <3> QED BY <3>1, <3>2
  <2>4. CASE editions' = editions
    BY <2>4 DEF EditionStep
  <2> QED BY <1>5, <2>1, <2>2, <2>3, <2>4 DEF WorkerStep, GoesOn, Goes, AsksNew, AsksFor, Moved, Crashed,
             Collected, PilotStep, Passes, Takes, AsksOnce, Finishes
<1> QED BY <1>1, <1>2, <1>3, <1>4, <1>5 DEF Steps

\* The run a request adds.
LEMMA NewRun ==
  ASSUME TypeOK, OneChange, NEW b \in DOMAIN books', b \notin DOMAIN books
  PROVE  /\ \E e \in DOMAIN editions' : Begun(e)
         /\ books'[b].plan = source /\ books'[b].status = "queued"
         /\ books'[b].edition \in DOMAIN editions'
         /\ editions'[books'[b].edition].status = "queued"
         /\ editions'[books'[b].edition].text = NoText
<1> PICK e \in DOMAIN editions' : Begun(e)
  BY DEF OneChange
<1>1. books'[b] = [plan |-> source, edition |-> e, status |-> "queued"]
  BY DEF Begun
<1>2. editions'[e].status = "queued" /\ editions'[e].text = NoText
  BY DEF Begun, Stranded, EditionSet
<1> QED BY <1>1, <1>2

LEMMA FailedHasStays ==
  ASSUME TypeOK, AtRun, LastCounts, FailedHas, Steps, ~HungUp PROVE FailedHas'
<1>1. RowsStay /\ OneChange
  BY StepsKeepRows, StepsChange
<1> SUFFICES ASSUME NEW b \in DOMAIN books', editions'[books'[b].edition].status = "failed"
             PROVE  books'[b].status = "failed"
  BY DEF FailedHas
<1>2. b \in DOMAIN books
  BY <1>1, NewRun
<1> PICK i \in DOMAIN editions : i = books[b].edition /\ i = books'[b].edition
  BY <1>1, <1>2, RowFacts DEF RowsStay
<1>3. CASE editions[i].status = "failed"
  <2>1. books[b].status = "failed"
    BY <1>2, <1>3 DEF FailedHas
  <2>2. \A w \in Workers : AtWork(w) => job[w].book # b
    BY <2>1 DEF AtRun
  <2>3. BookStep(b)
    BY <1>2, BookSteps
  <2> QED BY <1>2, <2>1, <2>2, <2>3 DEF BookStep
<1>4. CASE editions[i].status # "failed"
  <2>1. PICK w \in Workers : /\ AtWork(w) /\ books[job[w].book].edition = i
                             /\ books'[job[w].book].status = "failed"
    BY <1>4, EditionSteps DEF EditionStep
  <2> PICK c \in DOMAIN books : c = job[w].book
    BY <2>1, WorkFacts
  <2>2. books[c].status = "running"
    BY <2>1 DEF AtRun
  <2>3. CASE b = c
    BY <2>1, <2>3
  <2>4. CASE b # c
    <3>1. books[b].status = "failed"
      BY <1>2, <2>1, <2>2, <2>4, OneCounts
    <3>2. \A v \in Workers : AtWork(v) => job[v].book # b
      BY <3>1 DEF AtRun
    <3> QED BY <1>2, <3>1, <3>2, BookSteps DEF BookStep
  <2> QED BY <2>3, <2>4
<1> QED BY <1>3, <1>4

LEMMA WrittenRestsStays ==
  ASSUME TypeOK, AtRun, LastCounts, WrittenRests, used.hangs = 0, Steps, ~HungUp
  PROVE  WrittenRests'
<1>1. RowsStay /\ OneChange
  BY StepsKeepRows, StepsChange
<1>2. /\ \A i \in DOMAIN editions : editions[i].text # NoText => editions[i].status \in {"review", "published"}
      /\ \A b \in DOMAIN books : editions[books[b].edition].text # NoText =>
           books[b].status \notin {"queued", "running"}
  BY DEF WrittenRests, WrittenStays
<1>3. ASSUME NEW i \in DOMAIN editions', editions'[i].text # NoText
      PROVE  editions'[i].status \in {"review", "published"}
  <2>1. i \in DOMAIN editions
    <3> SUFFICES ASSUME i \notin DOMAIN editions PROVE FALSE
      OBVIOUS
    <3> PICK e \in DOMAIN editions' : Begun(e)
      BY <1>1 DEF OneChange
    <3> QED BY <1>3 DEF Begun, EditionSet
  <2>2. EditionStep(i)
    BY <2>1, EditionSteps
  <2>3. \A w \in Workers : AtWork(w) => /\ job[w].book \in DOMAIN books
                                        /\ books[job[w].book].status = "running"
    BY WorkFacts DEF AtRun
  <2> QED BY <1>2, <1>3, <2>1, <2>2, <2>3 DEF EditionStep
<1>4. ASSUME NEW b \in DOMAIN books', editions'[books'[b].edition].text # NoText
      PROVE  books'[b].status \notin {"queued", "running"}
  <2>1. b \in DOMAIN books
    BY <1>1, <1>4, NewRun
  <2> PICK i \in DOMAIN editions : i = books[b].edition /\ i = books'[b].edition
    BY <1>1, <2>1, RowFacts DEF RowsStay
  <2>2. BookStep(b) /\ EditionStep(i)
    BY <2>1, BookSteps, EditionSteps
  <2>3. CASE editions[i].text # NoText
    BY <1>2, <2>1, <2>2, <2>3 DEF BookStep
  <2>4. CASE editions[i].text = NoText
    <3> PICK w \in Workers : /\ AtWork(w) /\ books[job[w].book].edition = i
                             /\ editions'[i].status = "review" /\ books'[job[w].book].status = "succeeded"
      BY <1>4, <2>2, <2>4 DEF EditionStep
    <3> PICK c \in DOMAIN books : c = job[w].book
      BY WorkFacts
    <3>1. CASE b = c
      BY <3>1
    <3>2. CASE b # c
      <4>1. books[b].status = "failed"
        BY <2>1, <3>2, OneCounts DEF AtRun
      <4>2. \A v \in Workers : AtWork(v) => job[v].book # b
        BY <4>1 DEF AtRun
      <4> QED BY <2>2, <4>1, <4>2 DEF BookStep
    <3> QED BY <3>1, <3>2
  <2> QED BY <2>3, <2>4
<1> QED BY <1>3, <1>4 DEF WrittenRests, WrittenStays

\* A key is not taken for nothing.
LEMMA KeyIsSomething ==
  ASSUME TypeOK, NEW k \in DOMAIN pilots PROVE k # Nothing
<1>1. k = [edition |-> k.edition, part |-> k.part, title |-> k.title, text |-> k.text]
  BY DEF TypeOK, IsKey
<1>2. k.edition \in Nat /\ k.part \in SUBSET Blocks /\ k.title \in 0..MaxEdits
      /\ k.text \in [k.part -> 0..MaxEdits]
  BY RowFacts DEF TypeOK, IsKey, Versions
<1> PICK part \in SUBSET Blocks : part = k.part
  BY <1>2
<1>3. k \in [edition : Nat, part : {part}, title : 0..MaxEdits, text : [part -> 0..MaxEdits]]
  BY <1>1, <1>2
<1> QED BY <1>3, NothingAssumption

\* A pilot that is running after a step was before, or is taken in hand by it.
RunStep(k) ==
  \/ k \in DOMAIN pilots /\ pilots[k].status = "running"
  \/ k \in DOMAIN pilots /\ \E w \in Workers : Takes(w, k)

LEMMA RunSteps ==
  ASSUME TypeOK, Steps, ~HungUp, NEW k \in DOMAIN pilots', pilots'[k].status = "running"
  PROVE  RunStep(k)
<1>1. CASE pilots' = pilots
  BY <1>1 DEF RunStep
<1>2. CASE Swept
  BY <1>2 DEF Swept, RunStep
<1>3. ASSUME NEW w \in Workers, AsksNew(w) PROVE RunStep(k)
  BY <1>3 DEF AsksNew, AsksFor, Opened, RunStep
<1>4. ASSUME NEW w \in Workers, NEW l \in DOMAIN pilots, PilotStep(w, l) PROVE RunStep(k)
  <2>1. CASE Takes(w, l)
    BY <1>4, <2>1 DEF Takes, PilotSet, RunStep
  <2>2. CASE Passes(w, l) \/ AsksOnce(w, l) \/ Finishes(w, l)
    BY <1>4, <2>2 DEF Passes, AsksOnce, Finishes, PilotSet, RunStep
  <2> QED BY <1>4, <2>1, <2>2 DEF PilotStep
<1> QED
  BY <1>1, <1>2, <1>3, <1>4 DEF Steps, WorkerStep, Begun, Resumed, Edited, Corrected, Dropped, Published,
     Claimed, Failed, GoesOn, Written, Crashed, Collected

LEMMA RunsInBookStays ==
  ASSUME TypeOK, OwnKeys, Alone, Steps, ~HungUp, TypeOK', AtRun', OneWorker', LastCounts'
  PROVE  RunsInBook'
<1>1. RowsStay /\ OneChange
  BY StepsKeepRows, StepsChange
<1> SUFFICES ASSUME NEW k \in DOMAIN pilots', pilots'[k].status = "running"
             PROVE  /\ \E b \in DOMAIN books' :
                         books'[b].edition = k.edition /\ books'[b].status = "running"
                    /\ \A w \in Workers : (AtWork(w)' /\ books'[job'[w].book].edition = k.edition) =>
                         InCall(job'[w]) /\ job'[w].now = k
  BY DEF RunsInBook
<1>2. \A w \in Workers : AtWork(w) =>
        /\ job[w].book \in DOMAIN books /\ books[job[w].book].status = "running"
        /\ books'[job[w].book].edition = books[job[w].book].edition
  BY <1>1, WorkFacts DEF RowsStay, Alone, AtRun
<1>3. CASE k \in DOMAIN pilots /\ pilots[k].status = "running"
  <2> PICK b \in DOMAIN books : books[b].edition = k.edition /\ books[b].status = "running"
    BY <1>3 DEF Alone, RunsInBook
  <2>1. \A w \in Workers : (AtWork(w) /\ books[job[w].book].edition = k.edition) =>
          /\ InCall(job[w]) /\ job[w].now = k /\ job[w].book = b
    BY <1>2, <1>3, OneCounts DEF Alone, RunsInBook
  <2>2. books'[b].status = "running"
    <3>1. CASE Swept
      <4>1. \E w \in Workers : job[w].now = k
        BY <1>3, <3>1 DEF Swept, LeftBehind, InHand
      <4> PICK w \in Workers : job[w].now = k
        BY <4>1
      <4>2. InCall(job[w]) /\ job[w].now.edition = books[job[w].book].edition
        BY <1>3, KeyIsSomething DEF OwnKeys
      <4>3. AtWork(w)
        BY <4>2 DEF AtWork, InCall
      <4>4. job[w].book = b
        BY <2>1, <4>2, <4>3
      <4> QED BY <3>1, <4>4 DEF Swept, WorkedOn
    <3>2. ASSUME NEW w \in Workers, AtWork(w), ~AtWork(w)', job[w].book = b,
                 books'[b].status \in {"succeeded", "failed"}
          PROVE  FALSE
      <4>1. InCall(job[w]) /\ job'[w] # job[w]
        BY <2>1, <3>2 DEF AtWork
      <4>2. WorkerStep(w)
        BY <4>1, OneMoves
      <4>3. books' # books
        BY <3>2
      <4>4. ~Failed(w) /\ ~Written(w)
        BY <4>1 DEF Failed, Written
      <4> QED BY <3>2, <4>2, <4>3, <4>4 DEF WorkerStep, Claimed, GoesOn, Goes, AsksNew, AsksFor, Moved,
                 Crashed, Collected, PilotStep, Passes, Takes, AsksOnce, Finishes
    <3>3. CASE ~Swept
      <4>1. ~(books'[b].status = "failed" /\ ~WorkedOn(b))
        <5> SUFFICES ASSUME books'[b].status = "failed", ~WorkedOn(b) PROVE FALSE
          OBVIOUS
        <5>1. books' # books
          OBVIOUS
        <5>2. \A w \in Workers : ~Failed(w) /\ ~Written(w)
          BY DEF WorkedOn, Failed, Written, BookSet
        <5>3. \A w \in Workers : \A c \in DOMAIN books : ~Claimed(w, c)
          BY DEF Claimed, BookSet
        <5>4. \A w \in Workers : ~WorkerStep(w)
          BY <5>1, <5>2, <5>3 DEF WorkerStep, GoesOn, Goes, AsksNew, AsksFor, Moved,
             Crashed, Collected, PilotStep, Passes, Takes, AsksOnce, Finishes
        <5>5. \A c \in DOMAIN books : ~Resumed(c)
          BY DEF Resumed, BookSet
        <5>6. \A e \in DOMAIN editions' : ~Begun(e)
          BY DEF Begun
        <5> QED BY <3>3, <5>1, <5>4, <5>5, <5>6 DEF Steps, Edited, Corrected, Dropped, Published
      <4> QED BY <3>2, <4>1, BookSteps DEF BookStep
    <3> QED BY <3>1, <3>3
  <2>3. ASSUME NEW w \in Workers, AtWork(w)', books'[job'[w].book].edition = k.edition
        PROVE  InCall(job'[w]) /\ job'[w].now = k
    <3>1. CASE job'[w] = job[w]
      BY <1>2, <2>1, <2>3, <3>1 DEF AtWork
    <3>2. CASE job'[w] # job[w]
      <4>1. WorkerStep(w)
        BY <3>2, OneMoves
      <4>2. ASSUME NEW c \in DOMAIN books, Claimed(w, c) PROVE FALSE
        <5>1. books[c].status = "queued" /\ job'[w].book = c /\ books'[c].edition = books[c].edition
          BY <1>1, <4>2, Starts DEF Claimed, RowsStay
        <5>2. books[c].edition = k.edition
          BY <2>3, <5>1
        <5> QED BY <5>1, <5>2, OneCounts DEF Alone
      <4>3. AtWork(w) /\ job'[w].book = job[w].book
        BY <2>3, <4>1, <4>2, SameBook
      <4>4. books[job[w].book].edition = k.edition
        BY <1>2, <2>3, <4>3
      <4>5. InCall(job[w]) /\ job[w].now = k
        BY <2>1, <4>3, <4>4
      <4>6. PICK l \in DOMAIN pilots : PilotStep(w, l)
        BY <2>3, <4>1, <4>2, <4>5 DEF WorkerStep, Failed, GoesOn, AsksNew, Written, Crashed, Free, AtWork
      <4>7. AsksOnce(w, l) \/ Finishes(w, l)
        BY <4>5, <4>6 DEF PilotStep, Passes, Takes, InCall
      <4>8. ~Finishes(w, l)
        BY <4>5 DEF Finishes, PilotSet
      <4> QED BY <4>5, <4>7, <4>8 DEF AsksOnce, InCall
    <3> QED BY <3>1, <3>2
  <2> QED BY <1>1, <2>2, <2>3 DEF RowsStay
<1>4. ASSUME NEW w \in Workers, k \in DOMAIN pilots, Takes(w, k)
      PROVE  /\ \E b \in DOMAIN books' : books'[b].edition = k.edition /\ books'[b].status = "running"
             /\ \A v \in Workers : (AtWork(v)' /\ books'[job'[v].book].edition = k.edition) =>
                  InCall(job'[v]) /\ job'[v].now = k
  <2>1. /\ AtWork(w) /\ AtWork(w)' /\ books' = books /\ job'[w].book = job[w].book
        /\ InCall(job'[w]) /\ job'[w].now = k /\ k \in job[w].todo
    BY <1>4 DEF Takes, Goes, Moved, AtWork, InCall
  <2> PICK b \in DOMAIN books : b = job[w].book
    BY <1>2, <2>1
  <2>2. books[b].edition = k.edition /\ books[b].status = "running"
    BY <1>2, <2>1 DEF OwnKeys
  <2>3. ASSUME NEW v \in Workers, AtWork(v)', books'[job'[v].book].edition = k.edition
        PROVE  v = w
    <3>1. job'[v].book \in DOMAIN books /\ books[job'[v].book].status = "running"
      <4>1. JobOK(job'[v], DOMAIN books', DOMAIN pilots')
        BY DEF TypeOK
      <4> QED BY <2>1, <2>3, <4>1 DEF JobOK, AtWork, AtRun
    <3>2. job'[v].book = b
      BY <2>1, <2>2, <2>3, <3>1, OneCounts DEF Alone
    <3> QED BY <2>1, <2>3, <3>2 DEF OneWorker
  <2> QED BY <2>1, <2>2, <2>3
<1> QED BY <1>3, <1>4, RunSteps DEF RunStep

----------------------------------------------------------------------------
(* Answers. *)

\* What waits after a step did before, or was asked for now and has no answer.
WaitStep(k) == (k \in DOMAIN pilots /\ Waits(k)) \/ (k.text \notin answered /\ answered' = answered)

LEMMA WaitSteps ==
  ASSUME TypeOK, Steps, ~HungUp, NEW k \in DOMAIN pilots', Waits(k)'
  PROVE  WaitStep(k)
<1>1. CASE pilots' = pilots
  BY <1>1 DEF WaitStep, Waits
<1>2. CASE Swept
  BY <1>2 DEF Swept, WaitStep, Waits
<1>3. ASSUME NEW w \in Workers, AsksNew(w) PROVE WaitStep(k)
  BY <1>3 DEF AsksNew, AsksFor, Opened, WaitStep, Waits, PaidAnswer
<1>4. ASSUME NEW w \in Workers, NEW l \in DOMAIN pilots, PilotStep(w, l) PROVE WaitStep(k)
  <2>1. CASE Takes(w, l)
    BY <1>4, <2>1 DEF Takes, PilotSet, WaitStep, Waits
  <2>2. CASE AsksOnce(w, l)
    BY <1>4, <2>2 DEF AsksOnce, PilotSet, WaitStep, Waits
  <2>3. CASE Passes(w, l) \/ Finishes(w, l)
    BY <1>4, <2>3 DEF Passes, Finishes, PilotSet, WaitStep, Waits
  <2> QED BY <1>4, <2>1, <2>2, <2>3 DEF PilotStep
<1> QED
  BY <1>1, <1>2, <1>3, <1>4 DEF Steps, WorkerStep, Begun, Resumed, Edited, Corrected, Dropped, Published,
     Claimed, Failed, GoesOn, Written, Crashed, Collected

\* Answers are kept when a pilot of the source as it is has finished.
AnswerStep ==
  \/ answered' = answered
  \/ \E w \in Workers : \E l \in DOMAIN pilots :
       /\ Finishes(w, l) /\ Current(l) /\ answered' = answered \cup {l.text}
       /\ pilots'[l].status = "succeeded"

LEMMA AnswerSteps ==
  ASSUME Steps, ~HungUp PROVE AnswerStep
<1>1. CASE answered' = answered
  BY <1>1 DEF AnswerStep
<1>2. ASSUME NEW w \in Workers, NEW l \in DOMAIN pilots, PilotStep(w, l) PROVE AnswerStep
  <2>1. CASE Finishes(w, l)
    <3>1. CASE answered' = answered
      BY <3>1 DEF AnswerStep
    <3>2. CASE answered' # answered
      <4>1. Current(l) /\ answered' = answered \cup {l.text} /\ pilots'[l].status = "succeeded"
        BY <2>1, <3>2 DEF Finishes, PilotSet
      <4> QED BY <1>2, <2>1, <4>1 DEF AnswerStep
    <3> QED BY <3>1, <3>2
  <2> QED BY <1>1, <1>2, <2>1 DEF PilotStep, Passes, Takes, AsksOnce
<1> QED
  BY <1>1, <1>2 DEF Steps, WorkerStep, Begun, Resumed, Edited, Corrected, Dropped, Published, Swept,
     Claimed, Failed, GoesOn, Written, Crashed, Collected, AsksNew, AsksFor, Opened

\* With one edition there is one worker at work, and a text is asked for by one pilot.
LEMMA OneEdition ==
  ASSUME TypeOK, Alone, Len(editions) <= 1
  PROVE  /\ \A v, w \in Workers : AtWork(v) /\ AtWork(w) => v = w
         /\ \A k, l \in DOMAIN pilots : (Current(k) /\ Current(l) /\ k.text = l.text) => k = l
<1>1. \A d, e \in DOMAIN editions : d = e
  BY RowFacts
<1>2. ASSUME NEW v \in Workers, NEW w \in Workers, AtWork(v), AtWork(w) PROVE v = w
  <2> PICK a \in DOMAIN books : a = job[v].book
    BY <1>2, WorkFacts
  <2> PICK b \in DOMAIN books : b = job[w].book
    BY <1>2, WorkFacts
  <2>1. books[a].edition = books[b].edition
    BY <1>1, RowFacts
  <2>2. books[a].status = "running" /\ books[b].status = "running"
    BY <1>2 DEF Alone, AtRun
  <2>3. a = b
    BY <2>1, <2>2, OneCounts DEF Alone
  <2> QED BY <1>2, <2>3 DEF Alone, OneWorker
<1>3. ASSUME NEW k \in DOMAIN pilots, NEW l \in DOMAIN pilots, Current(k), Current(l), k.text = l.text
      PROVE  k = l
  <2>1. k.edition = l.edition
    BY <1>1 DEF TypeOK, IsKey
  <2>2. DOMAIN k.text = k.part /\ DOMAIN l.text = l.part
    BY DEF TypeOK, IsKey
  <2>3. k.part = l.part
    BY <1>3, <2>2
  <2> QED BY <1>3, <2>1, <2>3 DEF Current
<1> QED BY <1>2, <1>3

LEMMA UnansweredStays ==
  ASSUME TypeOK, SourceGrows, OwnKeys, OneWriter, Unanswered, Steps, TypeOK'
  PROVE  Unanswered'
<1>1. RowsStay /\ OneChange
  BY StepsKeepRows, StepsChange
<1> SUFFICES ASSUME used'.hangs = 0, Len(editions') <= 1
             PROVE  /\ \A k \in DOMAIN pilots' : (Waits(k)' /\ Current(k)') => k.text \notin answered'
                    /\ \A w \in Workers : (job'[w].step = "call" /\ pilots'[job'[w].now].raw # "usable") =>
                         job'[w].now.text \notin answered'
  BY DEF Unanswered
<1>2. ~HungUp /\ used.hangs = 0 /\ Len(editions) <= 1
  <2>1. Len(editions) \in Nat /\ Len(editions') \in Nat
    BY RowFacts, LenProperties DEF TypeOK
  <2> QED BY <1>1, <2>1 DEF HungUp, RowsStay
<1>3. Alone
  BY <1>2 DEF OneWriter, Alone
<1>4. /\ \A k \in DOMAIN pilots : (Waits(k) /\ Current(k)) => k.text \notin answered
      /\ \A w \in Workers : (job[w].step = "call" /\ pilots[job[w].now].raw # "usable") =>
           job[w].now.text \notin answered
  BY <1>2 DEF Unanswered
<1>5. ASSUME NEW k \in DOMAIN pilots', Waits(k)', Current(k)' PROVE k.text \notin answered'
  <2>1. WaitStep(k)
    BY <1>2, <1>5, WaitSteps
  <2>2. CASE k \in DOMAIN pilots /\ Waits(k)
    <3>1. Current(k)
      <4>1. CASE Edited
        BY <1>5, <2>2, <4>1, EditIsNew
      <4>2. CASE source' = source
        BY <1>5, <4>2 DEF Current, Key, Snapshot
      <4> QED BY <1>1, <4>1, <4>2 DEF OneChange
    <3>2. k.text \notin answered
      BY <1>4, <2>2, <3>1
    <3>3. ASSUME NEW l \in DOMAIN pilots, Current(l), answered' = answered \cup {l.text},
                 pilots'[l].status = "succeeded"
          PROVE  k.text \notin answered'
      <4>1. k # l
        BY <1>5, <3>3 DEF Waits
      <4>2. k.text # l.text
        BY <1>2, <1>3, <2>2, <3>1, <3>3, <4>1, OneEdition
      <4> QED BY <3>2, <3>3, <4>2
    <3> QED BY <1>2, <3>2, <3>3, AnswerSteps DEF AnswerStep
  <2> QED BY <2>1, <2>2 DEF WaitStep
<1>6. ASSUME NEW v \in Workers, job'[v].step = "call", pilots'[job'[v].now].raw # "usable"
      PROVE  job'[v].now.text \notin answered'
  <2>1. CASE job'[v] # job[v]
    <3>1. WorkerStep(v) /\ AtWork(v)'
      BY <1>6, <2>1, OneMoves DEF AtWork
    <3>2. ~\E b \in DOMAIN books : Claimed(v, b)
      BY <1>6, Starts
    <3>3. ~Failed(v) /\ ~Written(v) /\ ~Crashed(v)
      BY <1>6 DEF Failed, Written, Crashed, Free
    <3>4. ~GoesOn(v) /\ ~AsksNew(v) /\ ~Collected(v)
      BY <1>6 DEF GoesOn, AsksNew, AsksFor, Collected, InCall
    <3>5. PICK k \in DOMAIN pilots : PilotStep(v, k)
      BY <3>1, <3>2, <3>3, <3>4 DEF WorkerStep
    <3>6. Takes(v, k)
      BY <1>6, <3>5 DEF PilotStep, Passes, AsksOnce, Finishes
    <3>7. Waits(k) /\ Current(k) /\ job'[v].now = k /\ answered' = answered
      BY <1>6, <3>6 DEF Takes, PilotSet, Waits
    <3> QED BY <1>4, <3>7
  <2>2. CASE job'[v] = job[v]
    <3> PICK k \in DOMAIN pilots : k = job[v].now
      BY <1>6, <2>2, WorkFacts DEF JobOK
    <3>1. AtWork(v) /\ InCall(job[v])
      BY <1>6, <2>2 DEF AtWork, InCall
    <3>2. ASSUME NEW w \in Workers, WorkerStep(w), AtWork(w) PROVE FALSE
      <4>1. v = w
        BY <1>2, <1>3, <3>1, <3>2, OneEdition
      <4>2. ~Failed(v) /\ ~Written(v) /\ ~Crashed(v) /\ ~GoesOn(v) /\ ~AsksNew(v)
        BY <1>6, <2>2, <3>1 DEF Failed, Written, Crashed, GoesOn, AsksNew, Free
      <4>3. ~\E b \in DOMAIN books : Claimed(v, b)
        BY <3>1 DEF Claimed
      <4>4. ~\E l \in DOMAIN pilots : PilotStep(v, l)
        BY <1>6, <2>2 DEF PilotStep, Passes, Takes, AsksOnce, Finishes
      <4> QED BY <3>1, <3>2, <4>1, <4>2, <4>3, <4>4 DEF WorkerStep
    <3>3. pilots'[k].raw = pilots[k].raw /\ answered' = answered
      <4>1. ASSUME NEW w \in Workers, WorkerStep(w) PROVE pilots' = pilots /\ answered' = answered
        <5>1. ~AtWork(w)
          BY <3>2, <4>1
        <5>2. \E b \in DOMAIN books : Claimed(w, b)
          BY <4>1, <5>1 DEF WorkerStep, Failed, Written, Crashed, GoesOn, Goes, AsksNew, PilotStep, Passes,
             Takes, AsksOnce, Finishes
        <5> QED BY <5>2 DEF Claimed
      <4> QED BY <1>2, <4>1 DEF Steps, Begun, Resumed, Edited, Corrected, Dropped, Published, Swept
    <3> QED BY <1>4, <1>6, <2>2, <3>3
  <2> QED BY <2>1, <2>2
<1> QED BY <1>5, <1>6

LEMMA PaidOnceStays ==
  ASSUME TypeOK, Unanswered, PaidOnce, Steps, TypeOK' PROVE PaidOnce'
<1>1. RowsStay
  BY StepsKeepRows
<1>2. /\ Len(editions) \in Nat /\ Len(editions') \in Nat /\ used.hangs \in Nat /\ used'.hangs \in Nat
      /\ rebought \in BOOLEAN
  BY RowFacts, LenProperties DEF TypeOK, Counts
<1>3. (Len(editions) > 1 \/ used.hangs > 0) => (Len(editions') > 1 \/ used'.hangs > 0)
  BY <1>1, <1>2 DEF RowsStay
<1>4. ASSUME NEW w \in Workers, NEW k \in DOMAIN pilots, AsksOnce(w, k), rebought' # rebought
      PROVE  Len(editions) > 1 \/ used.hangs > 0
  <2>1. job[w].step = "call" /\ job[w].now = k /\ pilots[k].raw # "usable" /\ k.text \in answered
    BY <1>2, <1>4 DEF AsksOnce
  <2> QED BY <1>2, <2>1 DEF Unanswered
<1>5. (\E w \in Workers : \E k \in DOMAIN pilots : AsksOnce(w, k)) \/ rebought' = rebought
  BY ZenonT(40) DEF Steps, WorkerStep, Begun, Resumed, Edited, Corrected, Dropped, Published, Swept, HungUp,
     Claimed, Failed, GoesOn, Written, Crashed, Collected, AsksNew, AsksFor, Opened, PilotStep, Passes,
     Takes, Finishes
<1> QED BY <1>3, <1>4, <1>5 DEF PaidOnce

----------------------------------------------------------------------------
(* The theorems. *)

LEMMA InitInv == Init => Inv
<1> SUFFICES ASSUME Init PROVE Inv
  OBVIOUS
<1>1. Blocks = 1..Cardinality(Blocks) /\ 0 \in Versions
  BY BlocksAssumption, BoundsAssumption DEF Versions
<1>2. TypeOK
  <2>1. source \in Sources
    BY <1>1 DEF Init, Sources
  <2>2. editions \in Seq(Editions) /\ books \in Seq(Books(DOMAIN editions)) /\ queue \in Seq(DOMAIN books)
    BY EmptySeq DEF Init
  <2>3. \A k \in DOMAIN pilots : IsKey(k, DOMAIN editions) /\ pilots[k] \in Pilots
    BY DEF Init
  <2>4. job = [w \in Workers |-> job[w]] /\ \A w \in Workers : JobOK(job[w], DOMAIN books, DOMAIN pilots)
    BY FreeOK DEF Init
  <2>5. used \in Counts
    BY <1>1 DEF Init, Counts
  <2> QED BY <2>1, <2>2, <2>3, <2>4, <2>5 DEF Init, TypeOK
<1>3. /\ \A w \in Workers : ~AtWork(w) /\ ~InCall(job[w]) /\ job[w].now = Nothing /\ job[w].todo = {}
      /\ DOMAIN books = {} /\ DOMAIN pilots = {} /\ DOMAIN editions = {}
  BY DEF Init, Free, AtWork, InCall
<1>4. SourceGrows
  BY <1>3 DEF Init, SourceGrows
<1>5. AsPlanned /\ OwnKeys /\ OneRevision /\ OneWriter /\ WrittenRests
  BY <1>3 DEF AsPlanned, OwnKeys, OneRevision, OneWriter, AtRun, OneWorker, LastCounts, FailedHas,
              RunsInBook, WrittenRests, WrittenStays
<1>6. Unanswered /\ PaidOnce
  BY <1>3 DEF Init, Unanswered, PaidOnce
<1> QED BY <1>2, <1>4, <1>5, <1>6 DEF Inv

LEMMA OneWriterStays ==
  ASSUME TypeOK, SourceGrows, OwnKeys, OneWriter, Steps, TypeOK' PROVE OneWriter'
<1> SUFFICES ASSUME used'.hangs = 0
             PROVE  (AtRun /\ OneWorker /\ LastCounts /\ FailedHas /\ RunsInBook)'
  BY DEF OneWriter
<1>1. ~HungUp /\ Alone
  <2>1. used.hangs = 0 /\ ~HungUp
    BY StepsKeepRows DEF RowsStay, HungUp
  <2> QED BY <2>1 DEF OneWriter, Alone
<1>2. AtRun' /\ OneWorker' /\ LastCounts' /\ FailedHas'
  BY <1>1, AtRunStays, OneWorkerStays, LastCountsStays, FailedHasStays DEF Alone
<1>3. RunsInBook'
  BY <1>1, <1>2, RunsInBookStays
<1> QED BY <1>2, <1>3

LEMMA WrittenStaysWritten ==
  ASSUME TypeOK, OneWriter, WrittenRests, Steps, TypeOK' PROVE WrittenRests'
<1>1. CASE used'.hangs = 0
  <2>1. used.hangs = 0 /\ ~HungUp
    BY <1>1, StepsKeepRows DEF RowsStay, HungUp
  <2> QED BY <2>1, WrittenRestsStays DEF OneWriter
<1>2. CASE used'.hangs # 0
  BY <1>2 DEF WrittenRests, WrittenStays
<1> QED BY <1>1, <1>2

\* Whoever changes what keeps the invariant, and so does a step that changes nothing.
LEMMA InvStays == Inv /\ [Next]_vars => Inv'
<1> SUFFICES ASSUME Inv, [Next]_vars PROVE Inv'
  OBVIOUS
<1>1. TypeOK' /\ Steps
  <2>1. CASE Next
    BY <2>1, NextSteps DEF Inv
  <2>2. CASE UNCHANGED vars
    BY <2>2 DEF vars, Inv, TypeOK, Steps, Dropped
  <2> QED BY <2>1, <2>2
<1>2. SourceGrows' /\ AsPlanned' /\ OwnKeys' /\ OneRevision'
  BY <1>1, SourceGrowsStays, AsPlannedStays, OwnKeysStay, OneRevisionStays DEF Inv
<1>3. OneWriter' /\ WrittenRests'
  BY <1>1, OneWriterStays, WrittenStaysWritten DEF Inv
<1>4. Unanswered' /\ PaidOnce'
  BY <1>1, UnansweredStays, PaidOnceStays DEF Inv
<1> QED BY <1>1, <1>2, <1>3, <1>4 DEF Inv

LEMMA AlwaysInv == Spec => []Inv
BY InitInv, InvStays, PTL DEF Spec

\* The rows, the keys and what every worker is at keep their form.
THEOREM BookWritingTyped == Spec => []TypeOK
<1>1. Inv => TypeOK
  BY DEF Inv
<1> QED BY <1>1, AlwaysInv, PTL

\* However an edit, a second request, a doubled message or a dead worker falls between a check
\* and the window asked for after it, a written book is of the one revision it was planned on;
\* and unless a worker that hung was taken for dead, no run turns it into a failure
\* (book_adaptation.py, _materialize, run_book).
THEOREM BooksAreWhole == Spec => []WrittenWhole
<1>1. Inv => WrittenWhole
  BY DEF Inv, WrittenWhole, WrittenRests
<1> QED BY <1>1, AlwaysInv, PTL

\* No answer is bought twice for one edition, and a failed book has no pilot that would refuse
\* to run again, for any number of workers, windows, edits and crashes (_paid_answer,
\* _collect, janitor.py).
THEOREM BooksStartAgain == Spec => []StartsAgain
<1>1. Inv => StartsAgain
  <2>1. Inv => Resumable
    <3> SUFFICES ASSUME Inv, used.hangs = 0, NEW k \in DOMAIN pilots, LeftBehind(k)
                 PROVE  \E b \in DOMAIN books : books[b].edition = k.edition /\ books[b].status = "running"
      BY DEF Resumable
    <3> QED BY DEF Inv, OneWriter, RunsInBook, LeftBehind
  <2> QED BY <2>1 DEF Inv, StartsAgain
<1> QED BY <1>1, AlwaysInv, PTL

\* No step writes over a text, or takes a reviewer's corrections out of it, also where a hanging
\* worker was taken for dead and two of them write (_materialize).
THEOREM TextsAreKept == Spec => TextIsKept
<1> DEFINE Kept == \A i \in DOMAIN editions : editions[i].text # NoText =>
                     /\ editions'[i].text = editions[i].text
                     /\ editions[i].corrected => editions'[i].corrected
<1>1. Inv /\ [Next]_vars => [Kept]_vars
  <2> SUFFICES ASSUME Inv, Next, NEW i \in DOMAIN editions, editions[i].text # NoText
               PROVE  /\ editions'[i].text = editions[i].text
                      /\ editions[i].corrected => editions'[i].corrected
    OBVIOUS
  <2>1. Steps
    BY NextSteps DEF Inv
  <2>2. ASSUME NEW w \in Workers, WorkerStep(w)
        PROVE  /\ editions'[i].text = editions[i].text
               /\ editions[i].corrected => editions'[i].corrected
    <3>1. CASE Written(w)
      BY <3>1 DEF Written
    <3>2. CASE Failed(w)
      BY <3>2 DEF Failed, EditionSet
    <3>3. ASSUME NEW b \in DOMAIN books, Claimed(w, b)
          PROVE  /\ editions'[i].text = editions[i].text
                 /\ editions[i].corrected => editions'[i].corrected
      BY <3>3 DEF Claimed, EditionSet
    <3> QED BY <2>2, <3>1, <3>2, <3>3 DEF WorkerStep, GoesOn, Goes, AsksNew, AsksFor, Moved, Crashed,
               Collected, PilotStep, Passes, Takes, AsksOnce, Finishes
  <2>3. ASSUME NEW e \in DOMAIN editions', Begun(e)
        PROVE  /\ editions'[i].text = editions[i].text
               /\ editions[i].corrected => editions'[i].corrected
    BY <2>3 DEF Begun, EditionSet
  <2> QED BY <2>1, <2>2, <2>3 DEF Steps, Resumed, Edited, Corrected, Swept, HungUp, Dropped, Published,
             EditionSet
<1> QED BY <1>1, AlwaysInv, PTL DEF Spec, TextIsKept

=============================================================================
