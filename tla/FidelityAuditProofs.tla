-------------------------- MODULE FidelityAuditProofs --------------------------
(***************************************************************************)
(* Proofs about the fidelity audit of one adaptation, for any paragraphs,   *)
(* issues and auditors, any number of workers, and any bounds.              *)
(*                                                                          *)
(* AuditTyped, NothingIsStuck, SettledIsKept and CarriedIsWhole assume      *)
(* nothing.  GateReads assumes Steady, the conditions its run checks: see   *)
(* the README for what the code does without each of them.                  *)
(***************************************************************************)
EXTENDS FidelityAudit, TLAPS, SequenceTheorems, WellFoundedInduction

\* Nobody comes between a last check and its filing, no edit restores a wording, and where
\* two auditors are configured no worker dies or sleeps.
Steady == Prompt /\ ~Reverts /\ \A s \in Seats : Len(s) = 1 \/ MaxLosses[s] = 0

--------------------------------------------------------------------------------
(* The invariants.                                                           *)

\* Runs are of the configured seats; a busy worker has a run, the answers it holds exist, and
\* when it files it holds one of each auditor for each paragraph.
Fits ==
    /\ TypeOK
    /\ Len(run) <= MaxRuns
    /\ \A r \in DOMAIN run : run[r].seats = seats
    /\ \A w \in Workers :
         /\ worker[w].at = "idle" => worker[w].run = 0
         /\ worker[w].at # "idle" => worker[w].run \in DOMAIN run
         /\ \A i \in worker[w].got : i \in DOMAIN ledger
         /\ worker[w].at = "record" => Windows(worker[w].plan, seats) \subseteq Read(w)
         /\ worker[w].at = "call" => ~(Windows(worker[w].plan, seats) \subseteq Read(w))

\* The words u are the words t, but for suggestions written in.
Extends(t, u) == t.gone = u.gone /\ t.hand = u.hand /\ t.done \subseteq u.done

\* What was read is what it is kept for, along the way from an answer to a run.
Honest ==
    /\ \A i \in DOMAIN ledger :
         /\ ~ledger[i].key.gone /\ ~ledger[i].read.gone
         /\ ledger[i].blind \/ Extends(ledger[i].read, ledger[i].key)
    /\ \A w \in Workers : \A i \in worker[w].got :
         /\ ~worker[w].plan[ledger[i].at].gone
         /\ ledger[i].blind \/ Extends(ledger[i].read, worker[w].plan[ledger[i].at])
    /\ \A r \in DOMAIN run :
         run[r].blind \/ \A b \in Blocks : Extends(run[r].seen[b], run[r].key[b])

\* The order in which a paragraph's wordings follow one another.
Upto(t, u) ==
    \/ u = Gone
    \/ ~t.gone /\ ~u.gone /\ (t.hand < u.hand \/ (t.hand = u.hand /\ t.done \subseteq u.done))

Before(t, u) == \A b \in Blocks : Upto(t[b], u[b])

\* Texts follow one another, every run is of a text of its own that stood before, and a worker's
\* plan was the text of its run.
Ordered ==
    /\ \A b \in Blocks : (text[b].gone => text[b] = Gone) /\ text[b].hand <= edits
    /\ \A r \in DOMAIN run : Before(run[r].key, text)
    /\ \A r, q \in DOMAIN run : run[r].key = run[q].key => r = q
    /\ \A w \in Workers : worker[w].at # "idle" =>
         /\ Before(worker[w].plan, run[worker[w].run].key)
         /\ \A b \in Blocks : worker[w].plan[b].gone => worker[w].plan[b] = Gone

\* With two auditors no run is lost, so it has one worker and is read once.
Single ==
    Len(seats) # 1 =>
        /\ \A r \in DOMAIN run : ~run[r].silent
        /\ \A w \in Workers : worker[w].at # "idle" => run[worker[w].run].status = "running"
        /\ \A v, w \in Workers :
             worker[v].at # "idle" /\ worker[v].run = worker[w].run => v = w

\* One worker at a time files, for a run that is still of its plan; when the text moved on since
\* its last check, no audit is current.
Filing ==
    /\ \A v, w \in Workers : worker[v].at = "record" /\ worker[w].at = "record" => v = w
    /\ \A w \in Workers : worker[w].at = "record" =>
         /\ run[worker[w].run].key = worker[w].plan
         /\ text # worker[w].plan => Current = {}
         /\ worker[w].serious \subseteq Material
         /\ Len(seats) = 1 => worker[w].kept \cap Material \subseteq worker[w].serious

\* The finding f answers for the issue i in the text t.
AnswersFor(f, i, t) ==
    /\ f.issue = i
    /\ f.status = "applied" \/ (f.of = t /\ f.serious /\ f.status \in {"open", "dismissed"})

\* A serious issue of the current audit has a finding that is open and serious, or was decided.
Decidable ==
    /\ \A r \in DOMAIN run : run[r].raised \subseteq Material
    /\ \A f \in finding : f.status \in {"applied", "dismissed"} => f.at > 0
    /\ \A r \in Current : run[r].blind \/ \A i \in run[r].raised :
         text[At[i]].gone \/ \E f \in finding : AnswersFor(f, i, text)

--------------------------------------------------------------------------------
(* Lemmas about the operators.                                               *)

\* A set of numbers has a least one.
LEMMA LeastNumber ==
    ASSUME NEW T, T \subseteq Nat, T # {}
    PROVE  \E x \in T : \A y \in T : x <= y
<1>1. \E x \in T : \A y \in T : <<y, x>> \notin OpToRel(<, Nat)
  BY WFMin, NatLessThanWellFounded, Zenon
<1>2. PICK x \in T : \A y \in T : <<y, x>> \notin {ss \in Nat \X Nat : ss[1] < ss[2]}
  BY <1>1, Zenon DEF OpToRel
<1>3. ASSUME NEW y \in T PROVE x <= y
  <2>1. <<y, x>> \in Nat \X Nat
    OBVIOUS
  <2>2. ~(y < x)
    BY <1>2, <2>1
  <2> QED BY <2>2
<1> QED BY <1>3

\* One row of a sequence is replaced.
LEMMA RowSet ==
    ASSUME NEW S, NEW q \in Seq(S), NEW r \in DOMAIN q, NEW x \in S, NEW p, p = [q EXCEPT ![r] = x]
    PROVE  /\ p \in Seq(S) /\ DOMAIN p = DOMAIN q /\ Len(p) = Len(q) /\ p[r] = x
           /\ \A i \in DOMAIN q \ {r} : p[i] = q[i]
<1>1. r \in 1 .. Len(q)
  OBVIOUS
<1> QED BY <1>1, ExceptSeq

LEMMA RowAdded ==
    ASSUME NEW S, NEW q \in Seq(S), NEW x \in S, NEW p, p = Append(q, x)
    PROVE  /\ p \in Seq(S) /\ DOMAIN p = DOMAIN q \cup {Len(q) + 1} /\ Len(p) = Len(q) + 1
           /\ p[Len(q) + 1] = x /\ Len(q) + 1 \notin DOMAIN q
           /\ \A i \in DOMAIN q : p[i] = q[i]
<1>1. /\ p \in Seq(S) /\ Len(p) = Len(q) + 1 /\ p[Len(q) + 1] = x
      /\ \A i \in 1 .. Len(q) : p[i] = q[i]
  BY AppendProperties
<1>2. DOMAIN p = 1 .. Len(q) + 1 /\ DOMAIN q = 1 .. Len(q) /\ Len(q) \in Nat
  BY <1>1
<1>3. 1 .. Len(q) + 1 = (1 .. Len(q)) \cup {Len(q) + 1}
  BY <1>2
<1> QED BY <1>1, <1>2, <1>3

\* The windows to read are of a configured auditor and a paragraph that stood.
LEMMA WindowsAre ==
    ASSUME NEW s \in Seats, NEW t, NEW p \in Windows(t, s)
    PROVE  /\ p = <<p[1], p[2]>> /\ p[1] \in Auditors /\ p[2] \in Blocks /\ ~t[p[2]].gone
           /\ \E j \in {1, 2} : j \in DOMAIN s /\ p[1] = s[j]
<1>1. DOMAIN s \subseteq {1, 2}
  <2>1. DOMAIN s = 1 .. Len(s) /\ (Len(s) = 1 \/ Len(s) = 2)
    BY InputAssumption
  <2> QED BY <2>1
<1>2. p \in {s[j] : j \in DOMAIN s} \X Present(t)
  BY DEF Windows
<1> QED BY <1>1, <1>2 DEF Auditors, Present

\* A worker with something to read has a next window.
LEMMA NextIsToRead ==
    ASSUME NEW w \in Workers, run[worker[w].run].seats \in Seats, ToRead(w) # {}
    PROVE  NextWindow(w) \in ToRead(w)
<1> DEFINE s == run[worker[w].run].seats
           least(p) == \A q \in ToRead(w) : p[2] < q[2] \/ (p[2] = q[2] /\ (p[1] = s[1] \/ p = q))
<1>1. \A p \in ToRead(w) : /\ p = <<p[1], p[2]>> /\ p[2] \in Nat
                            /\ \E j \in {1, 2} : j \in DOMAIN s /\ p[1] = s[j]
  BY ZenonT(40), WindowsAre, InputAssumption DEF ToRead
<1>2. PICK p \in ToRead(w) : \A q \in ToRead(w) : p[2] <= q[2]
  <2> DEFINE T == {q[2] : q \in ToRead(w)}
  <2>1. T \subseteq Nat /\ T # {}
    BY <1>1
  <2>2. PICK x \in T : \A y \in T : x <= y
    <3> HIDE DEF T
    <3> QED BY <2>1, LeastNumber
  <2> QED BY <2>2
<1>3. \E q \in ToRead(w) : least(q)
  <2>1. CASE <<s[1], p[2]>> \in ToRead(w)
    <3>1. \A q \in ToRead(w) : p[2] < q[2] \/ p[2] = q[2]
      BY <1>1, <1>2
    <3>2. least(<<s[1], p[2]>>)
      BY <3>1
    <3> QED BY <2>1, <3>2
  <2>2. CASE <<s[1], p[2]>> \notin ToRead(w)
    <3>1. ASSUME NEW q \in ToRead(w) PROVE p[2] < q[2] \/ (p[2] = q[2] /\ p = q)
      <4>1. CASE p[2] = q[2]
        <5>1. p[1] = s[2] /\ q[1] = s[2]
          BY <1>1, <2>2, <4>1
        <5> QED BY <1>1, <4>1, <5>1
      <4>2. CASE p[2] # q[2]
        BY <1>1, <1>2, <4>2
      <4> QED BY <4>1, <4>2
    <3>2. least(p)
      BY <3>1, Zenon
    <3> QED BY <3>2
  <2> QED BY <2>1, <2>2
<1>4. NextWindow(w) = CHOOSE x \in ToRead(w) : least(x)
  BY Zenon DEF NextWindow
<1> HIDE DEF least
<1> QED BY <1>3, <1>4

--------------------------------------------------------------------------------
(* What the steps of an audit do to its run.                                 *)

\* The run keeps what it is of and what was read for it.
Alike(a, b) ==
    /\ b.key = a.key /\ b.seats = a.seats /\ b.seen = a.seen
    /\ b.raised = a.raised /\ b.blind = a.blind

\* The row r of run becomes x, the other rows stay.
Becomes(r, x) ==
    /\ run' \in Seq(Runs) /\ DOMAIN run' = DOMAIN run /\ Len(run') = Len(run)
    /\ run'[r] = x
    /\ \A q \in DOMAIN run \ {r} : run'[q] = run[q]

LEMMA RowBecomes ==
    ASSUME run \in Seq(Runs), NEW r \in DOMAIN run, NEW x \in Runs, run' = [run EXCEPT ![r] = x]
    PROVE  Becomes(r, x)
BY RowSet DEF Becomes

LEMMA RunIs ==
    ASSUME Fits, NEW w \in Workers, worker[w].at # "idle"
    PROVE  /\ worker[w].run \in DOMAIN run /\ run[worker[w].run] \in Runs
           /\ run[worker[w].run].seats = seats /\ seats \in Seats
           /\ worker[w] \in Jobs
BY ElementOfSeq DEF Fits, TypeOK

LEMMA RunOf ==
    ASSUME run \in Seq(Runs), NEW r \in DOMAIN run
    PROVE  run[r] \in Runs
BY ElementOfSeq

LEMMA ProgressDoes ==
    ASSUME Fits, NEW w \in Workers, worker[w].at # "idle", NEW got \in SUBSET Nat, Progress(w, got)
    PROVE  /\ \E x \in Runs : /\ Becomes(worker[w].run, x) /\ Alike(run[worker[w].run], x)
                              /\ x.status = run[worker[w].run].status /\ ~x.silent
           /\ worker' = [worker EXCEPT ![w] = [worker[w] EXCEPT !.at = "read", !.got = got]]
<1> DEFINE r == worker[w].run
           x == [run[r] EXCEPT !.silent = FALSE,
                               !.results = IF Len(run[r].seats) = 1 THEN got ELSE run[r].results]
<1>1. r \in DOMAIN run /\ run[r] \in Runs /\ run \in Seq(Runs)
  BY RunIs DEF Fits, TypeOK
<1>2. run' = [run EXCEPT ![r] = x]
  BY <1>1 DEF Progress
<1>3. /\ x \in Runs /\ Alike(run[r], x) /\ x.status = run[r].status /\ ~x.silent
  BY <1>1 DEF Runs, Alike
<1>4. worker' = [worker EXCEPT ![w] = [worker[w] EXCEPT !.at = "read", !.got = got]]
  BY DEF Progress, Fits, TypeOK
<1>5. Becomes(r, x)
  <2> HIDE DEF x
  <2> QED BY <1>1, <1>2, <1>3, RowBecomes
<1> HIDE DEF x
<1> QED BY <1>3, <1>4, <1>5

LEMMA FailsDoes ==
    ASSUME Fits, NEW w \in Workers, worker[w].at # "idle", Fails(w)
    PROVE  /\ \E x \in Runs : /\ Becomes(worker[w].run, x) /\ Alike(run[worker[w].run], x)
                              /\ x.status = "failed" /\ x.silent = run[worker[w].run].silent
           /\ worker' = [worker EXCEPT ![w] = IdleJob]
<1> DEFINE r == worker[w].run
           x == [run[r] EXCEPT !.status = "failed"]
<1>1. r \in DOMAIN run /\ run[r] \in Runs /\ run \in Seq(Runs)
  BY RunIs DEF Fits, TypeOK
<1>2. run' = [run EXCEPT ![r] = x]
  BY <1>1 DEF Fails
<1>3. /\ x \in Runs /\ Alike(run[r], x) /\ x.status = "failed" /\ x.silent = run[r].silent
  BY <1>1 DEF Runs, Alike
<1>5. Becomes(r, x)
  <2> HIDE DEF x
  <2> QED BY <1>1, <1>2, <1>3, RowBecomes
<1> HIDE DEF x
<1> QED BY <1>3, <1>5 DEF Fails

LEMMA DiesDoes ==
    ASSUME Fits, NEW w \in Workers, Dies(w)
    PROVE  \E x \in Runs : /\ Becomes(worker[w].run, x) /\ Alike(run[worker[w].run], x)
                           /\ x.status = run[worker[w].run].status
                           /\ x.silent = (run[worker[w].run].silent \/ x.status = "running")
<1> DEFINE r == worker[w].run
           x == [run[r] EXCEPT !.silent = (run[r].silent \/ run[r].status = "running")]
<1>1. r \in DOMAIN run /\ run[r] \in Runs /\ run \in Seq(Runs)
  BY RunIs DEF Fits, TypeOK, Dies
<1>2. run' = [run EXCEPT ![r] = x]
  BY <1>1 DEF Dies
<1>3. /\ x \in Runs /\ Alike(run[r], x) /\ x.status = run[r].status
      /\ x.silent = (run[r].silent \/ x.status = "running")
  BY <1>1 DEF Runs, Alike
<1>5. Becomes(r, x)
  <2> HIDE DEF x
  <2> QED BY <1>1, <1>2, <1>3, RowBecomes
<1> HIDE DEF x
<1> QED BY <1>3, <1>5

LEMMA SleepsDoes ==
    ASSUME Fits, NEW w \in Workers, Sleeps(w)
    PROVE  \E x \in Runs : /\ Becomes(worker[w].run, x) /\ Alike(run[worker[w].run], x)
                           /\ x.status = run[worker[w].run].status /\ x.silent
<1> DEFINE r == worker[w].run
           x == [run[r] EXCEPT !.silent = TRUE]
<1>1. r \in DOMAIN run /\ run[r] \in Runs /\ run \in Seq(Runs)
  BY RunIs DEF Fits, TypeOK, Sleeps
<1>2. run' = [run EXCEPT ![r] = x]
  BY <1>1 DEF Sleeps
<1>3. x \in Runs /\ Alike(run[r], x) /\ x.status = run[r].status /\ x.silent
  BY <1>1 DEF Runs, Alike
<1>5. Becomes(r, x)
  <2> HIDE DEF x
  <2> QED BY <1>1, <1>2, <1>3, RowBecomes
<1> HIDE DEF x
<1> QED BY <1>3, <1>5

LEMMA JanitorDoes ==
    ASSUME Fits, Janitor
    PROVE  /\ run' \in Seq(Runs) /\ DOMAIN run' = DOMAIN run /\ Len(run') = Len(run)
           /\ \A q \in DOMAIN run :
                /\ Alike(run[q], run'[q])
                /\ \/ run'[q].status = run[q].status /\ run'[q].silent = run[q].silent
                   \/ run[q].status = "running" /\ run[q].silent /\ run'[q].status = "failed"
                      /\ ~run'[q].silent
<1>1. run \in Seq(Runs)
  BY DEF Fits, TypeOK
<1>2. /\ DOMAIN run' = DOMAIN run
      /\ \A q \in DOMAIN run : \/ run'[q] = run[q]
                               \/ /\ run[q].status = "running" /\ run[q].silent
                                  /\ run'[q] = [run[q] EXCEPT !.status = "failed", !.silent = FALSE]
  BY DEF Janitor
<1>3. ASSUME NEW q \in DOMAIN run
      PROVE  /\ run'[q] \in Runs /\ Alike(run[q], run'[q])
             /\ \/ run'[q].status = run[q].status /\ run'[q].silent = run[q].silent
                \/ /\ run[q].status = "running" /\ run[q].silent
                   /\ run'[q].status = "failed" /\ ~run'[q].silent
  <2>1. run[q] \in Runs
    BY <1>1, RunOf
  <2>2. CASE run'[q] = run[q]
    BY <2>1, <2>2 DEF Alike
  <2>3. CASE /\ run[q].status = "running" /\ run[q].silent
             /\ run'[q] = [run[q] EXCEPT !.status = "failed", !.silent = FALSE]
    <3> DEFINE y == [run[q] EXCEPT !.status = "failed", !.silent = FALSE]
    <3>1. y \in Runs /\ Alike(run[q], y) /\ y.status = "failed" /\ ~y.silent
      BY <2>1 DEF Runs, Alike
    <3>2. run'[q] = y
      BY <2>3
    <3> HIDE DEF y
    <3> QED BY <2>3, <3>1, <3>2
  <2> QED BY <1>2, <2>2, <2>3
<1>4. DOMAIN run = 1 .. Len(run) /\ Len(run) \in Nat
  BY <1>1
<1>5. run' \in [1 .. Len(run) -> Runs]
  <2> DEFINE J(q) == IF run[q].status = "running" /\ run[q].silent
                     THEN [run[q] EXCEPT !.status = "failed", !.silent = FALSE] ELSE run[q]
  <2>1. run' = [q \in 1 .. Len(run) |-> J(q)]
    BY <1>4 DEF Janitor
  <2>2. \A q \in 1 .. Len(run) : J(q) \in Runs
    BY <1>3, <1>4, <2>1
  <2> HIDE DEF J
  <2> QED BY <2>1, <2>2
<1>6. run' \in Seq(Runs) /\ Len(run') = Len(run)
  BY <1>4, <1>5
<1> QED BY <1>2, <1>3, <1>6

LEMMA QueueDoes ==
    ASSUME Fits, Queue
    PROVE  \/ \E x \in Runs :
                /\ run' = Append(run, x) /\ RunsOf(text) = {} /\ Len(run) < MaxRuns
                /\ x.key = text /\ x.seats = seats /\ x.status = "queued" /\ ~x.silent
                /\ x.seen = text /\ x.raised = {} /\ ~x.blind
                /\ msg' = msg \cup {Len(run) + 1}
           \/ \E r \in DOMAIN run, x \in Runs :
                /\ Becomes(r, x) /\ Alike(run[r], x) /\ x.status = "queued" /\ ~x.silent
                /\ run[r].status # "succeeded" /\ (run[r].status = "running" => run[r].silent)
                /\ msg' = msg \cup {r}
<1>1. run \in Seq(Runs) /\ text \in Texts /\ seats \in Seats
  BY DEF Fits, TypeOK
<1>2. CASE /\ RunsOf(text) = {} /\ Len(run) < MaxRuns
           /\ run' = Append(run, [key |-> text, seats |-> seats, status |-> "queued",
                                  silent |-> FALSE, results |-> {}, seen |-> text,
                                  raised |-> {}, blind |-> FALSE])
           /\ msg' = Sent(Len(run) + 1)
  <2> DEFINE x == [key |-> text, seats |-> seats, status |-> "queued", silent |-> FALSE,
                   results |-> {}, seen |-> text, raised |-> {}, blind |-> FALSE]
  <2>1. x \in Runs
    BY <1>1 DEF Runs
  <2>2. /\ x.key = text /\ x.seats = seats /\ x.status = "queued" /\ ~x.silent
        /\ x.seen = text /\ x.raised = {} /\ ~x.blind /\ run' = Append(run, x)
    BY <1>2
  <2> HIDE DEF x
  <2> QED BY <1>2, <2>1, <2>2 DEF Sent
<1>3. ASSUME NEW r \in RunsOf(text),
             run[r].status # "succeeded", run[r].status = "running" => run[r].silent,
             run' = [run EXCEPT ![r].status = "queued", ![r].silent = FALSE], msg' = Sent(r)
      PROVE  \E x \in Runs :
                /\ Becomes(r, x) /\ Alike(run[r], x) /\ x.status = "queued" /\ ~x.silent
                /\ msg' = msg \cup {r}
  <2> DEFINE x == [run[r] EXCEPT !.status = "queued", !.silent = FALSE]
  <2>1. r \in DOMAIN run /\ run[r] \in Runs
    BY <1>1, RunOf DEF RunsOf
  <2>2. run' = [run EXCEPT ![r] = x]
    BY <1>3, <2>1
  <2>3. x \in Runs /\ Alike(run[r], x) /\ x.status = "queued" /\ ~x.silent
    BY <2>1 DEF Runs, Alike
  <2>4. Becomes(r, x)
    <3> HIDE DEF x
    <3> QED BY <1>1, <2>1, <2>2, <2>3, RowBecomes
  <2> HIDE DEF x
  <2> QED BY <1>3, <2>3, <2>4 DEF Sent
<1>4. CASE \E r \in RunsOf(text) :
             /\ run[r].status # "succeeded" /\ (run[r].status = "running" => run[r].silent)
             /\ run' = [run EXCEPT ![r].status = "queued", ![r].silent = FALSE]
             /\ msg' = Sent(r)
  BY <1>3, <1>4 DEF RunsOf
<1> QED BY <1>2, <1>4 DEF Queue

\* A worker's job when it has claimed a run.
Claimed(r, t) == [IdleJob EXCEPT !.at = "read", !.run = r, !.plan = t]

LEMMA DeliverDoes ==
    ASSUME Fits, NEW w \in Workers, NEW r \in msg, Deliver(w, r)
    PROVE  /\ r \in DOMAIN run
           /\ \/ /\ run[r].status # "queued" /\ UNCHANGED <<run, worker>>
              \/ \E x \in Runs :
                   /\ run[r].status = "queued" /\ Becomes(r, x) /\ Alike(run[r], x)
                   /\ \/ /\ run[r].key = text /\ x.status = "running" /\ ~x.silent
                         /\ worker' = [worker EXCEPT ![w] = Claimed(r, text)]
                      \/ /\ run[r].key # text /\ x.status = "failed" /\ x.silent = run[r].silent
                         /\ UNCHANGED worker
<1>1. r \in DOMAIN run /\ run[r] \in Runs /\ run \in Seq(Runs)
  BY RunOf DEF Fits, TypeOK
<1>2. CASE run[r].status # "queued"
  BY <1>1, <1>2 DEF Deliver
<1>3. CASE run[r].status = "queued" /\ run[r].key = text
  <2> DEFINE x == [run[r] EXCEPT !.status = "running", !.silent = FALSE]
  <2>1. run' = [run EXCEPT ![r] = x] /\ worker' = [worker EXCEPT ![w] = Claimed(r, text)]
    BY <1>1, <1>3 DEF Deliver, Claimed
  <2>2. x \in Runs /\ Alike(run[r], x) /\ x.status = "running" /\ ~x.silent
    BY <1>1 DEF Runs, Alike
  <2>3. Becomes(r, x)
    <3> HIDE DEF x
    <3> QED BY <1>1, <2>1, <2>2, RowBecomes
  <2> HIDE DEF x
  <2> QED BY <1>1, <1>3, <2>1, <2>2, <2>3
<1>4. CASE run[r].status = "queued" /\ run[r].key # text
  <2> DEFINE x == [run[r] EXCEPT !.status = "failed"]
  <2>1. run' = [run EXCEPT ![r] = x] /\ worker' = worker
    BY <1>1, <1>4 DEF Deliver
  <2>2. x \in Runs /\ Alike(run[r], x) /\ x.status = "failed" /\ x.silent = run[r].silent
    BY <1>1 DEF Runs, Alike
  <2>3. Becomes(r, x)
    <3> HIDE DEF x
    <3> QED BY <1>1, <2>1, <2>2, RowBecomes
  <2> HIDE DEF x
  <2> QED BY <1>1, <1>4, <2>1, <2>2, <2>3
<1> QED BY <1>2, <1>3, <1>4

\* A worker that files holds an answer of the first auditor for every paragraph of its plan.
AnswerOf(w, b) == CHOOSE i \in Held(w, run[worker[w].run].seats[1]) : ledger[i].at = b

LEMMA AnswerIs ==
    ASSUME Fits, NEW w \in Workers, worker[w].at = "record", NEW b \in Blocks, ~worker[w].plan[b].gone
    PROVE  /\ AnswerOf(w, b) \in worker[w].got /\ AnswerOf(w, b) \in DOMAIN ledger
           /\ ledger[AnswerOf(w, b)].at = b
<1>1. /\ run[worker[w].run].seats = seats /\ 1 \in DOMAIN seats
      /\ Windows(worker[w].plan, seats) \subseteq Read(w)
  <2>1. seats \in Seats /\ run[worker[w].run].seats = seats
    BY RunIs
  <2>2. Len(seats) \in {1, 2} /\ DOMAIN seats = 1 .. Len(seats)
    BY <2>1, InputAssumption, ZenonT(30)
  <2>3. 1 \in 1 .. 1 /\ 1 \in 1 .. 2
    OBVIOUS
  <2>4. 1 \in DOMAIN seats
    BY <2>2, <2>3, ZenonT(30)
  <2> QED BY <2>1, <2>4 DEF Fits
<1>2. <<seats[1], b>> \in Windows(worker[w].plan, seats)
  BY <1>1 DEF Windows, Present
<1>3. PICK i \in worker[w].got : <<ledger[i].by, ledger[i].at>> = <<seats[1], b>>
  BY <1>1, <1>2 DEF Read
<1>4. i \in Held(w, seats[1]) /\ ledger[i].at = b
  BY <1>3 DEF Held
<1>5. AnswerOf(w, b) \in Held(w, seats[1]) /\ ledger[AnswerOf(w, b)].at = b
  BY <1>1, <1>4, Zenon DEF AnswerOf
<1> QED BY <1>5 DEF Held, Fits

\* The issues a worker files.
Left(w) == {i \in worker[w].kept : ~text[At[i]].gone}

LEMMA RecordDoes ==
    ASSUME Fits, NEW w \in Workers, Record(w)
    PROVE  LET r == worker[w].run IN
           /\ \E x \in Runs :
                /\ Becomes(r, x)
                /\ x.key = run[r].key /\ x.seats = run[r].seats
                /\ x.status = "succeeded" /\ ~x.silent
                /\ x.raised = (IF run[r].status = "succeeded" THEN run[r].raised ELSE {})
                              \cup (Left(w) \cap worker[w].serious)
                /\ x.blind = (run[r].blind \/ \E i \in worker[w].got : ledger[i].blind)
                /\ x.seen = IF run[r].key # worker[w].plan THEN run[r].seen
                            ELSE [b \in Blocks |-> IF worker[w].plan[b].gone THEN Gone
                                                   ELSE ledger[AnswerOf(w, b)].read]
           /\ \E placed \in SUBSET Left(w) :
                finding' = Filed(worker[w].plan, Left(w), worker[w].serious, placed)
           /\ worker' = [worker EXCEPT ![w] = IdleJob]
<1> DEFINE r == worker[w].run
           raised == (IF run[r].status = "succeeded" THEN run[r].raised ELSE {})
                     \cup (Left(w) \cap worker[w].serious)
           blind == run[r].blind \/ \E i \in worker[w].got : ledger[i].blind
           read == [b \in Blocks |-> IF worker[w].plan[b].gone THEN Gone
                                     ELSE ledger[AnswerOf(w, b)].read]
           seen == IF run[r].key # worker[w].plan THEN run[r].seen ELSE read
           results == IF Len(run[r].seats) = 1 THEN worker[w].got ELSE run[r].results
           x == [run[r] EXCEPT !.status = "succeeded", !.silent = FALSE, !.results = results,
                               !.raised = raised, !.blind = blind, !.seen = seen]
<1>1. /\ r \in DOMAIN run /\ run[r] \in Runs /\ run \in Seq(Runs) /\ worker[w].at = "record"
      /\ worker[w] \in Jobs /\ ledger \in Seq(Rows)
  BY RunIs DEF Fits, TypeOK, Record
<1>2. run' = [run EXCEPT ![r].status = "succeeded", ![r].silent = FALSE, ![r].results = results,
                         ![r].raised = raised, ![r].blind = blind, ![r].seen = seen]
  BY <1>1 DEF Record, Left, AnswerOf
<1>3. run' = [run EXCEPT ![r] = x]
  <2> HIDE DEF raised, blind, seen, results
  <2> QED BY <1>1, <1>2
<1>4. /\ raised \in SUBSET Issues /\ blind \in BOOLEAN /\ results \in SUBSET Nat
  BY <1>1 DEF Runs, Jobs, Left
<1>5. read \in Texts
  <2>1. ASSUME NEW b \in Blocks, ~worker[w].plan[b].gone PROVE ledger[AnswerOf(w, b)].read \in Words
    <3>1. AnswerOf(w, b) \in DOMAIN ledger
      BY <1>1, <2>1, AnswerIs
    <3>2. ledger[AnswerOf(w, b)] \in Rows
      BY <1>1, <3>1, ElementOfSeq
    <3> QED BY <3>2 DEF Rows
  <2>2. Gone \in Words
    <3>1. MaxEdits[seats] \in Nat
      BY InputAssumption DEF Fits, TypeOK
    <3> QED BY <3>1 DEF Gone, Words
  <2> QED BY <2>1, <2>2 DEF Texts
<1>6. seen \in Texts
  <2> HIDE DEF read
  <2> QED BY <1>1, <1>5 DEF Runs
<1>7. /\ x \in Runs /\ x.key = run[r].key /\ x.seats = run[r].seats
      /\ x.status = "succeeded" /\ ~x.silent
      /\ x.raised = raised /\ x.blind = blind /\ x.seen = seen
  <2> HIDE DEF raised, blind, seen, results
  <2> QED BY <1>1, <1>4, <1>6 DEF Runs
<1>8. Becomes(r, x)
  <2> HIDE DEF x
  <2> QED BY <1>1, <1>3, <1>7, RowBecomes
<1>9. \E placed \in SUBSET Left(w) :
         finding' = Filed(worker[w].plan, Left(w), worker[w].serious, placed)
  BY DEF Record, Left
<1>10. worker' = [worker EXCEPT ![w] = IdleJob]
  BY DEF Record
<1> HIDE DEF x
<1> QED BY <1>7, <1>8, <1>9, <1>10

\* What a carry leaves of an answered window.
Rekeyed(row, new, t, after) ==
    \/ after = row
    \/ /\ ~new[row.at].gone
       /\ after = [row EXCEPT !.key = new[row.at], !.blind = (row.blind \/ row.key # t[row.at])]

LEMMA CarryDoes ==
    ASSUME Fits, NEW r \in DOMAIN run, NEW new \in Texts, NEW F, Carry(r, new, F)
    PROVE  /\ \E x \in Runs :
                /\ Becomes(r, x)
                /\ x.key = new /\ x.seats = run[r].seats /\ x.status = run[r].status
                /\ x.silent = run[r].silent /\ x.seen = run[r].seen /\ x.raised = run[r].raised
                /\ x.blind = (run[r].blind \/ run[r].key # text)
           /\ ledger' \in Seq(Rows) /\ DOMAIN ledger' = DOMAIN ledger /\ Len(ledger') = Len(ledger)
           /\ \A i \in DOMAIN ledger : Rekeyed(ledger[i], new, text, ledger'[i])
           /\ RunsOf(new) \subseteq {r}
           /\ finding' = {f \in F : f.of # run[r].key}
                         \cup {[f EXCEPT !.of = new] : f \in {g \in F : g.of = run[r].key}}
<1>1. run[r] \in Runs /\ run \in Seq(Runs) /\ ledger \in Seq(Rows)
  BY RunOf DEF Fits, TypeOK
<1>2. \E x \in Runs :
        /\ Becomes(r, x)
        /\ x.key = new /\ x.seats = run[r].seats /\ x.status = run[r].status
        /\ x.silent = run[r].silent /\ x.seen = run[r].seen /\ x.raised = run[r].raised
        /\ x.blind = (run[r].blind \/ run[r].key # text)
  <2> DEFINE blind == run[r].blind \/ run[r].key # text
             x == [run[r] EXCEPT !.key = new, !.blind = blind]
  <2>1. run' = [run EXCEPT ![r] = x]
    BY <1>1 DEF Carry
  <2>2. blind \in BOOLEAN
    BY <1>1 DEF Runs
  <2>3. /\ x \in Runs /\ x.key = new /\ x.seats = run[r].seats /\ x.status = run[r].status
        /\ x.silent = run[r].silent /\ x.seen = run[r].seen /\ x.raised = run[r].raised
        /\ x.blind = blind
    <3> HIDE DEF blind
    <3> QED BY <1>1, <2>2 DEF Runs
  <2>4. Becomes(r, x)
    <3> HIDE DEF x
    <3> QED BY <1>1, <2>1, <2>3, RowBecomes
  <2> HIDE DEF x
  <2> QED BY <2>3, <2>4
<1>3. /\ ledger' \in Seq(Rows) /\ DOMAIN ledger' = DOMAIN ledger /\ Len(ledger') = Len(ledger)
      /\ \A i \in DOMAIN ledger : Rekeyed(ledger[i], new, text, ledger'[i])
  <2>1. DOMAIN ledger = 1 .. Len(ledger) /\ Len(ledger) \in Nat
    BY <1>1
  <2>2. ledger' = CarriedLedger(r, new)
    BY DEF Carry
  <2>3. ASSUME NEW i \in DOMAIN ledger
        PROVE  ledger'[i] \in Rows /\ Rekeyed(ledger[i], new, text, ledger'[i])
    <3>1. ledger[i] \in Rows
      BY <1>1, ElementOfSeq
    <3> DEFINE y == [ledger[i] EXCEPT !.key = new[ledger[i].at],
                                      !.blind = (ledger[i].blind \/ ledger[i].key # text[ledger[i].at])]
    <3>2. y \in Rows
      <4>1. new[ledger[i].at] \in Words
        BY <3>1 DEF Rows, Texts
      <4> QED BY <3>1, <4>1 DEF Rows
    <3>3. ledger'[i] = ledger[i] \/ (ledger'[i] = y /\ ~new[ledger[i].at].gone)
      BY <2>2, Zenon DEF CarriedLedger
    <3>4. ledger'[i] \in Rows
      <4> HIDE DEF y
      <4> QED BY <3>1, <3>2, <3>3
    <3> QED BY <3>3, <3>4 DEF Rekeyed
  <2>4. DOMAIN ledger' = DOMAIN ledger /\ ledger' = [i \in DOMAIN ledger |-> ledger'[i]]
    BY <2>2 DEF CarriedLedger
  <2>5. ledger' \in [1 .. Len(ledger) -> Rows]
    BY <2>1, <2>3, <2>4
  <2> QED BY <2>1, <2>3, <2>4, <2>5
<1>4. RunsOf(new) \subseteq {r}
  BY DEF Carry
<1>5. finding' = {f \in F : f.of # run[r].key}
                 \cup {[f EXCEPT !.of = new] : f \in {g \in F : g.of = run[r].key}}
  BY DEF Carry
<1> QED BY <1>2, <1>3, <1>4, <1>5

--------------------------------------------------------------------------------
(* What the steps do to the findings.                                        *)

\* The finding is placed otherwise, and no more.
Replaced(f, g) == /\ g.of = f.of /\ g.issue = f.issue /\ g.serious = f.serious
                  /\ g.status = f.status /\ g.at = f.at

\* Placing findings again keeps them all and makes up none.
LEMMA ShakenKeeps ==
    ASSUME NEW F, F \subseteq Findings, NEW B, NEW relocate, NEW G \in Shaken(F, B, relocate)
    PROVE  /\ G \subseteq Findings
           /\ \A f \in F : \E g \in G : Replaced(f, g)
           /\ \A g \in G : \E f \in F : Replaced(f, g)
<1> DEFINE on == {f \in F : At[f.issue] \in B}
<1>1. PICK place \in [on -> {"fits", "moved", "none"}] :
         G = (F \ on) \cup {[f EXCEPT !.place = place[f]] : f \in on}
  BY DEF Shaken
<1>2. ASSUME NEW f \in on
      PROVE  [f EXCEPT !.place = place[f]] \in Findings /\ Replaced(f, [f EXCEPT !.place = place[f]])
  <2>1. f \in Findings /\ place[f] \in {"fits", "moved", "none"}
    OBVIOUS
  <2> QED BY <2>1 DEF Findings, Replaced
<1>3. \A f \in F : Replaced(f, f)
  BY DEF Replaced
<1> HIDE DEF on
<1>4. on \subseteq F
  BY DEF on
<1> QED BY <1>1, <1>2, <1>3, <1>4

LEMMA DecidedIs ==
    ASSUME Fits, clock < MaxDecisions[seats], NEW f \in Findings,
           NEW s \in {"open", "dismissed", "applied"}
    PROVE  /\ Decided(f, s) \in Findings
           /\ Decided(f, s).of = f.of /\ Decided(f, s).issue = f.issue
           /\ Decided(f, s).serious = f.serious /\ Decided(f, s).status = s
           /\ Decided(f, s).at = clock + 1 /\ clock + 1 > 0
<1>1. clock + 1 \in 0 .. MaxDecisions[seats] /\ clock + 1 > 0
  BY InputAssumption DEF Fits, TypeOK
<1> DEFINE place == IF s = "applied" THEN "none" ELSE f.place
<1>2. place \in {"fits", "moved", "none"}
  BY DEF Findings
<1>3. Decided(f, s) = [f EXCEPT !.status = s, !.at = clock + 1, !.place = place]
  BY DEF Decided
<1> HIDE DEF place
<1> QED BY <1>1, <1>2, <1>3 DEF Findings

LEMMA SupersededIs ==
    ASSUME Fits, NEW f \in Findings
    PROVE  /\ Superseded(f) \in Findings /\ Superseded(f).status = "superseded"
           /\ Superseded(f).issue = f.issue /\ Superseded(f).of = f.of
<1>1. 0 \in 0 .. MaxDecisions[seats]
  BY InputAssumption DEF Fits, TypeOK
<1> QED BY <1>1 DEF Findings, Superseded

\* Where an issue was decided there is a latest decision on it.
LEMMA LatestDecision ==
    ASSUME Fits, NEW f \in finding, f.status \in {"dismissed", "applied"}
    PROVE  Settled(f.issue) # {}
<1> DEFINE decided == {g \in finding : g.issue = f.issue /\ g.status \in {"dismissed", "applied"}}
           M == MaxDecisions[seats]
           T == {M - g.at : g \in decided}
<1>1. M \in Nat /\ \A g \in decided : g.at \in 0 .. M
  BY InputAssumption DEF Fits, TypeOK, Findings
<1>2. T \subseteq Nat /\ T # {}
  BY <1>1
<1>3. PICK x \in T : \A y \in T : x <= y
  <2> HIDE DEF T
  <2> QED BY <1>2, LeastNumber
<1>4. PICK g \in decided : x = M - g.at
  BY <1>3
<1>5. \A h \in decided : h.at <= g.at
  <2> SUFFICES ASSUME NEW h \in decided PROVE h.at <= g.at
    OBVIOUS
  <2>1. M - g.at <= M - h.at
    BY <1>3, <1>4
  <2>2. g.at \in 0 .. M /\ h.at \in 0 .. M
    BY <1>1
  <2> HIDE DEF decided, M
  <2> QED BY <1>1, <2>1, <2>2
<1>6. g \in Settled(f.issue)
  BY <1>5 DEF Settled
<1> QED BY <1>6

\* What is filed for a text: what is new, what becomes of a finding, where one comes from.
FiledAs(key, raised, serious, G) ==
    /\ G \subseteq Findings
    /\ \A i \in raised :
         \/ \E f \in finding : f.issue = i /\ f.status = "applied"
         \/ \E g \in G : /\ g.of = key /\ g.issue = i /\ (g.serious <=> i \in serious)
                         /\ g.status \in {"open", "dismissed"}
    /\ \A f \in finding :
         \/ f \in G
         \/ f.status = "open" /\ f.of # key
         \/ /\ f.of = key /\ f.issue \in raised
            /\ \E g \in G : /\ g.of = key /\ g.issue = f.issue
                            /\ (g.serious <=> f.issue \in serious)
                            /\ g.status \in {"open", "dismissed"}
    /\ \A g \in G :
         \/ g \in finding
         \/ g.status = "superseded"
         \/ /\ g.of = key /\ g.issue \in raised
            /\ (g.status = "open" => Settled(g.issue) = {})
            /\ g.status # "applied"
            /\ (g.status = "dismissed" =>
                  \E f \in finding : f.at = g.at /\ f.status \in {"dismissed", "applied"})

\* Every issue raised is filed, unless it was applied, and nothing else is new.
LEMMA FiledIs ==
    ASSUME Fits, NEW key \in Texts, NEW raised \in SUBSET Issues, NEW serious \in SUBSET Issues,
           NEW placed
    PROVE  FiledAs(key, raised, serious, Filed(key, raised, serious, placed))
<1> DEFINE new == {i \in raised : \A f \in Settled(i) : f.status # "applied"}
           Of(i) == [of |-> key, issue |-> i, serious |-> i \in serious,
                     status |-> IF Settled(i) = {} THEN "open" ELSE "dismissed",
                     place |-> IF i \in placed THEN "fits" ELSE "none",
                     at |-> IF Settled(i) = {} THEN 0 ELSE (CHOOSE f \in Settled(i) : TRUE).at]
           Kept(f) == IF f.status = "open" /\ f.of # key THEN Superseded(f) ELSE f
           left == {g \in finding : ~(g.of = key /\ g.issue \in new)}
<1>1. PICK G : G = Filed(key, raised, serious, placed) /\ G = {Kept(f) : f \in left} \cup {Of(i) : i \in new}
  BY DEF Filed
<1>2. finding \subseteq Findings /\ MaxDecisions[seats] \in Nat
  BY InputAssumption DEF Fits, TypeOK
<1>3. \A i : Settled(i) \subseteq {f \in finding : f.issue = i /\ f.status \in {"dismissed", "applied"}}
  BY DEF Settled
<1>4. ASSUME NEW i \in new
      PROVE  /\ Of(i) \in Findings /\ Of(i).of = key /\ Of(i).issue = i
             /\ (Of(i).serious <=> i \in serious)
             /\ Of(i).status \in {"open", "dismissed"}
             /\ Of(i).status = "open" => Settled(i) = {}
             /\ Of(i).status = "dismissed" =>
                  \E f \in finding : f.at = Of(i).at /\ f.status \in {"dismissed", "applied"}
  <2> DEFINE f0 == CHOOSE f \in Settled(i) : TRUE
             strict == i \in serious
             place == IF i \in placed THEN "fits" ELSE "none"
  <2>a. place \in {"fits", "none"} /\ strict \in BOOLEAN /\ (strict <=> i \in serious)
    OBVIOUS
  <2>1. CASE Settled(i) = {}
    <3>1. Of(i) = [of |-> key, issue |-> i, serious |-> strict, status |-> "open",
                   place |-> place, at |-> 0]
      BY <2>1
    <3>2. i \in Issues
      OBVIOUS
    <3> HIDE DEF Of, new, strict, place
    <3> QED BY <1>2, <2>1, <2>a, <3>1, <3>2 DEF Findings
  <2>2. CASE Settled(i) # {}
    <3>1. Of(i) = [of |-> key, issue |-> i, serious |-> strict, status |-> "dismissed",
                   place |-> place, at |-> f0.at]
      BY <2>2
    <3>2. f0 \in Settled(i)
      BY <2>2
    <3>3. i \in Issues
      OBVIOUS
    <3> HIDE DEF Of, new, f0, strict, place
    <3>4. f0 \in finding /\ f0 \in Findings /\ f0.status \in {"dismissed", "applied"}
      BY <1>2, <1>3, <3>2
    <3>5. f0.at \in 0 .. MaxDecisions[seats]
      BY <3>4 DEF Findings
    <3> QED BY <2>2, <2>a, <3>1, <3>3, <3>4, <3>5 DEF Findings
  <2> QED BY <2>1, <2>2
<1>5. \A f \in left : /\ f \in Findings /\ Kept(f) \in Findings
                      /\ Kept(f) = f \/ Kept(f).status = "superseded"
                      /\ Kept(f) = f \/ (f.status = "open" /\ f.of # key)
  BY <1>2, SupersededIs
<1> HIDE DEF Of, Kept
<1>6. G \subseteq Findings
  <2> HIDE DEF new, left
  <2> QED BY <1>1, <1>4, <1>5
<1>7. \A i \in raised \ new : \E f \in finding : f.issue = i /\ f.status = "applied"
  BY <1>3
<1>8. \A i \in new : Of(i) \in G
  <2> HIDE DEF new
  <2> QED BY <1>1
<1>9. \A i \in raised :
         \/ \E f \in finding : f.issue = i /\ f.status = "applied"
         \/ \E g \in G : /\ g.of = key /\ g.issue = i /\ (g.serious <=> i \in serious)
                         /\ g.status \in {"open", "dismissed"}
  <2> HIDE DEF new
  <2> QED BY <1>4, <1>7, <1>8
<1>10. ASSUME NEW f \in finding
       PROVE  \/ f \in G
              \/ f.status = "open" /\ f.of # key
              \/ /\ f.of = key /\ f.issue \in raised
                 /\ \E g \in G : /\ g.of = key /\ g.issue = f.issue
                                 /\ (g.serious <=> f.issue \in serious)
                                 /\ g.status \in {"open", "dismissed"}
  <2>1. CASE f \in left
    <3> HIDE DEF left, new
    <3>1. Kept(f) \in G
      BY <1>1, <2>1
    <3> QED BY <1>5, <2>1, <3>1
  <2>2. CASE f \notin left
    <3>1. f.of = key /\ f.issue \in new /\ f.issue \in raised
      BY <2>2
    <3> HIDE DEF left, new
    <3> QED BY <1>4, <1>8, <3>1
  <2> QED BY <2>1, <2>2
<1>11. ASSUME NEW g \in G
       PROVE  \/ g \in finding
              \/ g.status = "superseded"
              \/ /\ g.of = key /\ g.issue \in raised
                 /\ g.status = "open" => Settled(g.issue) = {}
                 /\ g.status # "applied"
                 /\ g.status = "dismissed" =>
                      \E f \in finding : f.at = g.at /\ f.status \in {"dismissed", "applied"}
  <2>1. CASE \E f \in left : g = Kept(f)
    BY <1>5, <2>1
  <2>2. CASE \E i \in new : g = Of(i)
    <3>1. PICK i \in new : g = Of(i)
      BY <2>2
    <3>2. i \in raised
      OBVIOUS
    <3> HIDE DEF new
    <3> QED BY <1>4, <3>1, <3>2
  <2>3. (\E f \in left : g = Kept(f)) \/ (\E i \in new : g = Of(i))
    <3> HIDE DEF left, new
    <3> QED BY <1>1
  <2> QED BY <2>1, <2>2, <2>3
<1> HIDE DEF new, left
<1> QED BY <1>1, <1>6, <1>9, <1>10, <1>11 DEF FiledAs

--------------------------------------------------------------------------------
(* Types.                                                                    *)

LEMMA SameSets ==
    ASSUME seats' = seats
    PROVE  /\ Words' = Words /\ Texts' = Texts /\ Runs' = Runs /\ Rows' = Rows
           /\ Findings' = Findings /\ Jobs' = Jobs
<1>1. Words' = Words
  BY DEF Words
<1>2. Texts' = Texts
  BY <1>1 DEF Texts
<1> QED BY <1>1, <1>2 DEF Runs, Rows, Findings, Jobs

\* What every step has to keep of runs and workers.
RunsFit == /\ run' \in Seq(Runs) /\ Len(run') <= MaxRuns /\ DOMAIN run \subseteq DOMAIN run'
           /\ \A q \in DOMAIN run' : run'[q].seats = seats'

JobsFit ==
    /\ worker' \in [Workers -> Jobs]
    /\ \A v \in Workers :
         /\ worker'[v].at = "idle" => worker'[v].run = 0
         /\ worker'[v].at # "idle" => worker'[v].run \in DOMAIN run'
         /\ \A i \in worker'[v].got : i \in DOMAIN ledger'
         /\ worker'[v].at = "record" => Windows(worker'[v].plan, seats') \subseteq Read(v)'
         /\ worker'[v].at = "call" => ~(Windows(worker'[v].plan, seats') \subseteq Read(v)')

LEMMA RowFits ==
    ASSUME Fits, seats' = seats, NEW r \in DOMAIN run, NEW x \in Runs, Becomes(r, x),
           x.seats = run[r].seats
    PROVE  /\ run' \in Seq(Runs) /\ Len(run') <= MaxRuns /\ DOMAIN run' = DOMAIN run
           /\ \A q \in DOMAIN run' : run'[q].seats = seats'
BY DEF Fits, Becomes

\* What a worker has read depends on what it holds and whose answers those are.
LEMMA ReadStays ==
    ASSUME Fits, NEW w \in Workers, worker'[w].got = worker[w].got,
           \A i \in DOMAIN ledger : ledger'[i].by = ledger[i].by /\ ledger'[i].at = ledger[i].at
    PROVE  Read(w)' = Read(w)
<1>1. \A i \in worker[w].got : i \in DOMAIN ledger
  BY DEF Fits
<1> QED BY <1>1 DEF Read

\* The worker w takes up the job j; the others go on.
LEMMA JobFits ==
    ASSUME Fits, seats' = seats, NEW w \in Workers, NEW j \in Jobs,
           worker' = [worker EXCEPT ![w] = j],
           DOMAIN run \subseteq DOMAIN run', DOMAIN ledger \subseteq DOMAIN ledger',
           \A i \in DOMAIN ledger : ledger'[i].by = ledger[i].by /\ ledger'[i].at = ledger[i].at,
           IF j.at = "idle" THEN j.run = 0 ELSE j.run \in DOMAIN run,
           \A i \in j.got : i \in DOMAIN ledger',
           j.at \in {"record", "call"} => j.got = worker[w].got /\ j.plan = worker[w].plan,
           j.at = "record" => Windows(j.plan, seats) \subseteq Read(w),
           j.at = "call" => ~(Windows(j.plan, seats) \subseteq Read(w))
    PROVE  JobsFit
<1>1. worker \in [Workers -> Jobs]
  BY DEF Fits, TypeOK
<1>2. worker' \in [Workers -> Jobs] /\ worker'[w] = j /\ \A v \in Workers \ {w} : worker'[v] = worker[v]
  BY <1>1
<1>3. ASSUME NEW v \in Workers
      PROVE  /\ worker'[v].at = "idle" => worker'[v].run = 0
             /\ worker'[v].at # "idle" => worker'[v].run \in DOMAIN run'
             /\ \A i \in worker'[v].got : i \in DOMAIN ledger'
             /\ worker'[v].at = "record" => Windows(worker'[v].plan, seats') \subseteq Read(v)'
             /\ worker'[v].at = "call" => ~(Windows(worker'[v].plan, seats') \subseteq Read(v)')
  <2>1. CASE v = w
    <3>1. j.at \in {"record", "call"} => Read(v)' = Read(v)
      BY <1>2, <2>1, ReadStays
    <3>2. Windows(j.plan, seats') = Windows(j.plan, seats)
      BY DEF Windows, Present
    <3> QED BY <1>2, <2>1, <3>1, <3>2
  <2>2. CASE v # w
    <3>1. Read(v)' = Read(v)
      BY <1>2, <2>2, ReadStays
    <3>2. worker'[v] = worker[v]
      BY <1>2, <2>2
    <3>3. Windows(worker'[v].plan, seats') = Windows(worker[v].plan, seats)
      BY <3>2 DEF Windows, Present
    <3> QED BY <3>1, <3>2, <3>3 DEF Fits
  <2> QED BY <2>1, <2>2
<1> QED BY <1>2, <1>3 DEF JobsFit

\* The workers go on as they are.
LEMMA WorkersFit ==
    ASSUME Fits, seats' = seats, worker' = worker, DOMAIN run \subseteq DOMAIN run',
           DOMAIN ledger \subseteq DOMAIN ledger',
           \A i \in DOMAIN ledger : ledger'[i].by = ledger[i].by /\ ledger'[i].at = ledger[i].at
    PROVE  JobsFit
<1>1. \A v \in Workers : Read(v)' = Read(v)
  BY ReadStays
<1>2. \A t : Windows(t, seats') = Windows(t, seats)
  BY DEF Windows, Present
<1> QED BY <1>1, <1>2 DEF JobsFit, Fits, TypeOK

LEMMA IdleIsJob ==
    ASSUME Fits PROVE IdleJob \in Jobs /\ IdleJob.at = "idle" /\ IdleJob.run = 0 /\ IdleJob.got = {}
                      /\ First \in Words /\ Gone \in Words
<1>1. MaxEdits[seats] \in Nat /\ MaxRuns \in Nat
  BY InputAssumption DEF Fits, TypeOK
<1>2. First \in Words /\ Gone \in Words
  BY <1>1 DEF First, Gone, Words
<1>3. [b \in Blocks |-> First] \in Texts
  BY <1>2 DEF Texts
<1> QED BY <1>1, <1>2, <1>3 DEF IdleJob, Jobs

LEMMA WordsMove ==
    ASSUME Fits, edits < MaxEdits[seats], NEW b \in Blocks, NEW words \in NewWords(b)
    PROVE  words \in Words /\ [text EXCEPT ![b] = words] \in Texts /\ edits + 1 \in 0 .. MaxEdits[seats]
<1>1. MaxEdits[seats] \in Nat /\ edits \in 0 .. MaxEdits[seats] /\ text \in Texts
  BY InputAssumption DEF Fits, TypeOK
<1>2. words = First \/ words = [hand |-> edits + 1, done |-> {}, gone |-> FALSE]
  BY DEF NewWords, First
<1>3. edits + 1 \in 0 .. MaxEdits[seats]
  BY <1>1
<1>4. First \in Words
  BY IdleIsJob
<1>5. [hand |-> edits + 1, done |-> {}, gone |-> FALSE] \in Words
  BY <1>3 DEF Words
<1>6. words \in Words
  BY <1>2, <1>4, <1>5
<1> QED BY <1>1, <1>3, <1>6 DEF Texts

LEMMA WrittenIs ==
    ASSUME Fits, NEW F, F \subseteq finding
    PROVE  /\ Written(F) \in Texts
           /\ \A b \in Blocks : /\ Written(F)[b].hand = text[b].hand
                               /\ Written(F)[b].gone = text[b].gone
                               /\ text[b].done \subseteq Written(F)[b].done
<1>1. text \in Texts /\ finding \subseteq Findings
  BY DEF Fits, TypeOK
<1>2. ASSUME NEW b \in Blocks
      PROVE  /\ Written(F)[b] \in Words
             /\ Written(F)[b].hand = text[b].hand
             /\ Written(F)[b].gone = text[b].gone
             /\ text[b].done \subseteq Written(F)[b].done
  <2> DEFINE done == text[b].done \cup {f.issue : f \in {g \in F : At[g.issue] = b}}
  <2>1. text[b] \in Words
    BY <1>1 DEF Texts
  <2>2. done \subseteq Issues
    BY <1>1, <2>1 DEF Words, Findings
  <2>3. Written(F)[b] = [text[b] EXCEPT !.done = done]
    BY DEF Written
  <2>4. text[b].done \subseteq done
    OBVIOUS
  <2> HIDE DEF done
  <2> QED BY <2>1, <2>2, <2>3, <2>4 DEF Words
<1>3. Written(F) = [b \in Blocks |-> Written(F)[b]]
  BY DEF Written
<1> QED BY <1>2, <1>3 DEF Texts

LEMMA InitFits == Init => Fits
<1> SUFFICES ASSUME Init PROVE Fits
  OBVIOUS
<1>1. seats \in Seats /\ MaxEdits[seats] \in Nat /\ MaxDecisions[seats] \in Nat /\ MaxLosses[seats] \in Nat
      /\ MaxAsks \in Nat /\ MaxRuns \in Nat
  BY InputAssumption DEF Init
<1>2. First \in Words
  BY <1>1 DEF First, Words
<1>3. [b \in Blocks |-> First] \in Texts
  BY <1>2 DEF Texts
<1>4. IdleJob \in Jobs /\ IdleJob.at = "idle" /\ IdleJob.run = 0 /\ IdleJob.got = {}
  BY <1>1, <1>3 DEF IdleJob, Jobs
<1>5. run \in Seq(Runs) /\ Len(run) = 0 /\ DOMAIN run = {} /\ ledger \in Seq(Rows)
  BY DEF Init
<1>6. worker \in [Workers -> Jobs] /\ \A w \in Workers : worker[w] = IdleJob
  BY <1>4 DEF Init
<1>7. TypeOK
  BY <1>1, <1>3, <1>5, <1>6 DEF Init, TypeOK
<1>8. \A w \in Workers : /\ worker[w].at = "idle" => worker[w].run = 0
                         /\ worker[w].at # "idle" => worker[w].run \in DOMAIN run
                         /\ \A i \in worker[w].got : i \in DOMAIN ledger
                         /\ worker[w].at \notin {"record", "call"}
  BY <1>4, <1>6
<1>9. Len(run) <= MaxRuns /\ \A r \in DOMAIN run : run[r].seats = seats
  BY <1>1, <1>5
<1> QED BY <1>7, <1>8, <1>9 DEF Fits

LEMMA QueueFits == Fits /\ Queue => Fits'
<1> SUFFICES ASSUME Fits, Queue PROVE Fits'
  OBVIOUS
<1>1. /\ seats' = seats /\ UNCHANGED <<text, opinion, ledger, finding, worker, clock, edits, lost>>
      /\ asked < MaxAsks /\ asked' = asked + 1
  BY DEF Queue
<1>2. asked' \in 0 .. MaxAsks
  BY <1>1, InputAssumption DEF Fits, TypeOK
<1>3. /\ run' \in Seq(Runs) /\ Len(run') <= MaxRuns /\ DOMAIN run \subseteq DOMAIN run'
      /\ \A q \in DOMAIN run' : run'[q].seats = seats'
      /\ msg' \subseteq DOMAIN run'
  <2>1. CASE \E x \in Runs : /\ run' = Append(run, x) /\ Len(run) < MaxRuns /\ x.seats = seats
                             /\ msg' = msg \cup {Len(run) + 1}
    <3>1. PICK x \in Runs : /\ run' = Append(run, x) /\ Len(run) < MaxRuns /\ x.seats = seats
                            /\ msg' = msg \cup {Len(run) + 1}
      BY <2>1
    <3>2. run \in Seq(Runs) /\ msg \subseteq DOMAIN run /\ Len(run) \in Nat
      BY DEF Fits, TypeOK
    <3>3. /\ run' \in Seq(Runs) /\ DOMAIN run' = DOMAIN run \cup {Len(run) + 1}
          /\ Len(run') = Len(run) + 1 /\ run'[Len(run) + 1] = x
          /\ \A i \in DOMAIN run : run'[i] = run[i]
      BY <3>1, <3>2, RowAdded
    <3>4. Len(run') <= MaxRuns
      BY <3>1, <3>2, <3>3, InputAssumption
    <3> QED BY <1>1, <3>1, <3>2, <3>3, <3>4 DEF Fits
  <2>2. CASE \E r \in DOMAIN run, x \in Runs : Becomes(r, x) /\ Alike(run[r], x) /\ msg' = msg \cup {r}
    <3>1. PICK r \in DOMAIN run, x \in Runs : Becomes(r, x) /\ Alike(run[r], x) /\ msg' = msg \cup {r}
      BY <2>2
    <3>2. /\ run' \in Seq(Runs) /\ Len(run') <= MaxRuns /\ DOMAIN run' = DOMAIN run
          /\ \A q \in DOMAIN run' : run'[q].seats = seats'
      BY <1>1, <3>1, RowFits DEF Alike
    <3> QED BY <3>1, <3>2 DEF Fits, TypeOK
  <2> QED BY <2>1, <2>2, QueueDoes
<1>4. JobsFit
  BY <1>1, <1>3, WorkersFit
<1>5. TypeOK'
  BY <1>1, <1>2, <1>3, <1>4, SameSets DEF Fits, TypeOK, JobsFit
<1> QED BY <1>3, <1>4, <1>5 DEF Fits, JobsFit

LEMMA DeliverFits ==
    ASSUME Fits, NEW w \in Workers, NEW r \in msg, Deliver(w, r) PROVE Fits'
<1>1. /\ seats' = seats /\ UNCHANGED <<text, opinion, ledger, finding, clock, edits, asked, lost>>
      /\ msg' \subseteq msg /\ worker[w].at = "idle"
  BY DEF Deliver
<1>2. /\ run' \in Seq(Runs) /\ Len(run') <= MaxRuns /\ DOMAIN run' = DOMAIN run
      /\ \A q \in DOMAIN run' : run'[q].seats = seats'
  <2>1. CASE UNCHANGED run
    BY <1>1, <2>1 DEF Fits, TypeOK
  <2>2. CASE \E x \in Runs : Becomes(r, x) /\ Alike(run[r], x)
    BY <1>1, <2>2, RowFits, DeliverDoes DEF Alike
  <2> QED BY <2>1, <2>2, DeliverDoes
<1>3. JobsFit
  <2>1. CASE UNCHANGED worker
    BY <1>1, <1>2, <2>1, WorkersFit
  <2>2. CASE worker' = [worker EXCEPT ![w] = Claimed(r, text)]
    <3> DEFINE j == Claimed(r, text)
    <3>1. r \in DOMAIN run /\ r \in 0 .. MaxRuns /\ text \in Texts
      <4>1. r \in 1 .. Len(run) /\ Len(run) <= MaxRuns /\ Len(run) \in Nat /\ text \in Texts
        BY DEF Fits, TypeOK
      <4> QED BY <4>1, InputAssumption
    <3>2. j \in Jobs /\ j.at = "read" /\ j.run = r /\ j.got = {}
      <4>1. j = [IdleJob EXCEPT !.at = "read", !.run = r, !.plan = text]
        BY DEF Claimed
      <4>2. IdleJob \in Jobs /\ IdleJob.got = {}
        BY IdleIsJob
      <4> HIDE DEF j
      <4> QED BY <3>1, <4>1, <4>2 DEF Jobs
    <3> HIDE DEF j
    <3>3. worker' = [worker EXCEPT ![w] = j]
      BY <2>2 DEF j
    <3> QED BY <1>1, <1>2, <3>1, <3>2, <3>3, JobFits
  <2> QED BY <2>1, <2>2, DeliverDoes
<1>4. TypeOK'
  BY <1>1, <1>2, <1>3, SameSets DEF Fits, TypeOK, JobsFit
<1> QED BY <1>2, <1>3, <1>4 DEF Fits, JobsFit

\* A worker gives its run up.
LEMMA IdleFits ==
    ASSUME Fits, seats' = seats, ledger' = ledger, DOMAIN run \subseteq DOMAIN run', NEW w \in Workers,
           worker' = [worker EXCEPT ![w] = IdleJob]
    PROVE  JobsFit
<1>1. IdleJob \in Jobs /\ IdleJob.at = "idle" /\ IdleJob.run = 0 /\ IdleJob.got = {}
  BY IdleIsJob
<1> QED BY <1>1, JobFits

LEMMA ReadWindowFits ==
    ASSUME Fits, NEW w \in Workers, ReadWindow(w) PROVE Fits'
<1> DEFINE p == NextWindow(w)
           known == Answers(p[1], p[2], worker[w].plan[p[2]])
<1>1. /\ worker[w].at = "read"
      /\ UNCHANGED <<text, seats, opinion, ledger, finding, msg, clock, edits, asked, lost>>
      /\ \/ known = {} /\ worker' = [worker EXCEPT ![w].at = "call"] /\ UNCHANGED run
         \/ \E i \in known : Progress(w, worker[w].got \cup {i})
  BY DEF ReadWindow
<1>2. /\ worker[w] \in Jobs /\ worker[w].run \in DOMAIN run /\ worker \in [Workers -> Jobs]
      /\ run[worker[w].run].seats = seats
      /\ \A i \in worker[w].got : i \in DOMAIN ledger
  BY <1>1, RunIs DEF Fits, TypeOK
<1>3. RunsFit /\ JobsFit
  <2>1. CASE worker' = [worker EXCEPT ![w].at = "call"] /\ UNCHANGED run
    <3> DEFINE j == [worker[w] EXCEPT !.at = "call"]
    <3>1. worker' = [worker EXCEPT ![w] = j] /\ j \in Jobs /\ j.at = "call" /\ j.got = worker[w].got
          /\ j.run = worker[w].run /\ j.plan = worker[w].plan
      BY <1>2, <2>1 DEF Jobs
    <3> HIDE DEF j
    <3>2. ~(Windows(j.plan, seats) \subseteq Read(w))
      BY <1>1, <1>2, <3>1 DEF ReadWindow, ToRead
    <3>3. JobsFit
      BY <1>1, <1>2, <2>1, <3>1, <3>2, JobFits
    <3> QED BY <1>1, <2>1, <3>3 DEF RunsFit, Fits, TypeOK
  <2>2. CASE \E i \in known : Progress(w, worker[w].got \cup {i})
    <3>1. PICK i \in known : Progress(w, worker[w].got \cup {i})
      BY <2>2
    <3>2. i \in DOMAIN ledger
      BY DEF Answers
    <3>3. i \in Nat
      BY <3>2 DEF Fits, TypeOK
    <3> DEFINE got == worker[w].got \cup {i}
               j == [worker[w] EXCEPT !.at = "read", !.got = got]
    <3>4. got \in SUBSET Nat
      BY <1>2, <3>3 DEF Jobs
    <3>5. /\ \E x \in Runs : Becomes(worker[w].run, x) /\ Alike(run[worker[w].run], x)
          /\ worker' = [worker EXCEPT ![w] = j]
      <4> HIDE DEF known
      <4>1. Progress(w, got)
        BY <3>1
      <4> HIDE DEF got
      <4> QED BY <1>1, <3>4, <4>1, ProgressDoes
    <3>6. RunsFit
      BY <1>1, <1>2, <3>5, RowFits DEF RunsFit, Alike
    <3>7. \A k \in got : k \in DOMAIN ledger
      BY <1>2, <3>2
    <3>8. j \in Jobs /\ j.at = "read" /\ j.got = got /\ j.run = worker[w].run
      <4> HIDE DEF got
      <4> QED BY <1>2, <3>4 DEF Jobs
    <3> HIDE DEF j, got, known
    <3>9. JobsFit
      BY <1>1, <1>2, <3>5, <3>6, <3>7, <3>8, JobFits DEF RunsFit
    <3> QED BY <3>6, <3>9
  <2> HIDE DEF known
  <2> QED BY <1>1, <2>1, <2>2
<1>4. TypeOK'
  BY <1>1, <1>3, SameSets DEF Fits, TypeOK, RunsFit, JobsFit
<1> QED BY <1>3, <1>4 DEF Fits, RunsFit, JobsFit

LEMMA AnsweredFits ==
    ASSUME Fits, NEW w \in Workers, Answered(w) PROVE Fits'
<1> DEFINE p == NextWindow(w)
           words == worker[w].plan[p[2]]
           got == worker[w].got \cup {Len(ledger) + 1}
           j == [worker[w] EXCEPT !.at = "read", !.got = got]
<1>1. /\ worker[w].at = "call" /\ Progress(w, got)
      /\ UNCHANGED <<text, seats, opinion, finding, msg, clock, edits, asked, lost>>
  BY DEF Answered
<1>2. /\ worker[w] \in Jobs /\ worker[w].run \in DOMAIN run /\ worker \in [Workers -> Jobs]
      /\ seats \in Seats /\ run[worker[w].run].seats = seats
      /\ ledger \in Seq(Rows) /\ Len(ledger) \in Nat
      /\ \A i \in worker[w].got : i \in DOMAIN ledger
  BY <1>1, RunIs DEF Fits, TypeOK
<1>3. p \in Windows(worker[w].plan, seats)
  <2>1. ToRead(w) # {}
    BY <1>1, <1>2 DEF Fits, ToRead
  <2> QED BY <1>2, <2>1, NextIsToRead DEF ToRead
<1>4. p[1] \in Auditors /\ p[2] \in Blocks /\ words \in Words /\ Sees[p[1]] \subseteq Issues
  <2>1. p[1] \in Auditors /\ p[2] \in Blocks /\ \E k \in {1, 2} : k \in DOMAIN seats /\ p[1] = seats[k]
    <3> HIDE DEF p
    <3> QED BY <1>2, <1>3, WindowsAre
  <2> HIDE DEF p
  <2> QED BY <1>2, <2>1, InputAssumption DEF Jobs, Texts
<1>5. /\ ledger' \in Seq(Rows) /\ DOMAIN ledger' = DOMAIN ledger \cup {Len(ledger) + 1}
      /\ \A i \in DOMAIN ledger : ledger'[i] = ledger[i]
  <2>1. PICK raised \in SUBSET {i \in Sees[p[1]] : At[i] = p[2] /\ i \notin words.done} :
           ledger' = Append(ledger, [by |-> p[1], at |-> p[2], key |-> words, read |-> words,
                                     raised |-> raised, blind |-> FALSE])
    BY DEF Answered
  <2> DEFINE x == [by |-> p[1], at |-> p[2], key |-> words, read |-> words,
                   raised |-> raised, blind |-> FALSE]
  <2>2. x \in Rows
    <3> HIDE DEF p, words
    <3> QED BY <1>4 DEF Rows
  <2> HIDE DEF x
  <2> QED BY <1>2, <2>1, <2>2, RowAdded DEF x
<1>6. got \in SUBSET Nat /\ \A i \in got : i \in DOMAIN ledger'
  BY <1>2, <1>5 DEF Jobs
<1> HIDE DEF got
<1>7. /\ \E x \in Runs : Becomes(worker[w].run, x) /\ Alike(run[worker[w].run], x)
      /\ worker' = [worker EXCEPT ![w] = j]
  BY <1>1, <1>6, ProgressDoes
<1>8. RunsFit
  BY <1>1, <1>2, <1>7, RowFits DEF RunsFit, Alike
<1>9. j \in Jobs /\ j.at = "read" /\ j.got = got /\ j.run = worker[w].run
  BY <1>2, <1>6 DEF Jobs
<1> HIDE DEF j
<1>10. JobsFit
  BY <1>1, <1>2, <1>5, <1>6, <1>7, <1>8, <1>9, JobFits DEF RunsFit
<1>11. TypeOK'
  BY <1>1, <1>5, <1>8, <1>10, SameSets DEF Fits, TypeOK, RunsFit, JobsFit
<1> QED BY <1>8, <1>10, <1>11 DEF Fits, RunsFit, JobsFit

\* A worker that makes a call is at a run.
LEMMA CallsBusy == ASSUME NEW w \in Workers, Calling(w) PROVE worker[w].at # "idle"
BY DEF Calling

LEMMA GivesUpFits ==
    ASSUME Fits, NEW w \in Workers, Dies(w) \/ CallFails(w) PROVE Fits'
<1>1. /\ worker[w].at # "idle" /\ worker' = [worker EXCEPT ![w] = IdleJob]
      /\ UNCHANGED <<text, seats, opinion, ledger, finding, msg, clock, edits, asked>>
      /\ lost' \in 0 .. MaxLosses[seats]
  BY SMTT(30), CallsBusy, InputAssumption DEF Dies, CallFails, Fails, Fits, TypeOK
<1>2. \E x \in Runs : Becomes(worker[w].run, x) /\ Alike(run[worker[w].run], x)
  BY <1>1, DiesDoes, FailsDoes DEF CallFails
<1>3. RunsFit
  BY <1>1, <1>2, RowFits, RunIs DEF RunsFit, Alike
<1>4. JobsFit
  BY <1>1, <1>3, IdleFits DEF RunsFit
<1>5. TypeOK'
  BY <1>1, <1>3, <1>4, SameSets DEF Fits, TypeOK, RunsFit, JobsFit
<1> QED BY <1>3, <1>4, <1>5 DEF Fits, RunsFit, JobsFit

LEMMA SilenceFits ==
    ASSUME Fits, Janitor \/ \E w \in Workers : Sleeps(w) PROVE Fits'
<1>1. /\ UNCHANGED <<text, seats, opinion, ledger, finding, msg, worker, clock, edits, asked>>
      /\ lost' \in 0 .. MaxLosses[seats]
  <2>1. CASE Janitor
    BY <2>1 DEF Janitor, Fits, TypeOK
  <2>2. ASSUME NEW w \in Workers, Sleeps(w)
        PROVE  /\ UNCHANGED <<text, seats, opinion, ledger, finding, msg, worker, clock, edits, asked>>
               /\ lost' \in 0 .. MaxLosses[seats]
    BY SMTT(30), <2>2, InputAssumption DEF Sleeps, Fits, TypeOK
  <2> QED BY <2>1, <2>2
<1>2. RunsFit
  <2>1. CASE Janitor
    BY <1>1, <2>1, JanitorDoes DEF RunsFit, Alike, Fits
  <2>2. ASSUME NEW w \in Workers, Sleeps(w) PROVE RunsFit
    <3>1. worker[w].run \in DOMAIN run /\ \E x \in Runs : Becomes(worker[w].run, x) /\ Alike(run[worker[w].run], x)
      BY <2>2, SleepsDoes, RunIs DEF Sleeps
    <3> QED BY <1>1, <3>1, RowFits DEF RunsFit, Alike
  <2> QED BY <2>1, <2>2
<1>3. JobsFit
  BY <1>1, <1>2, WorkersFit DEF RunsFit
<1>4. TypeOK'
  BY <1>1, <1>2, <1>3, SameSets DEF Fits, TypeOK, RunsFit, JobsFit
<1> QED BY <1>2, <1>3, <1>4 DEF Fits, RunsFit, JobsFit

\* A reading that passes its last check is of the text that stands; what it takes for serious is
\* material, and a single auditor's word is not doubted.
LEMMA CheckDoes ==
    ASSUME Fits, NEW w \in Workers, Check(w)
    PROVE  /\ Windows(worker[w].plan, seats) \subseteq Read(w)
           /\ \A o \in opinion' : o[2] \subseteq o[1].items
           /\ \/ Fails(w)
              \/ /\ text = worker[w].plan /\ UNCHANGED run
                 /\ \E j \in Jobs :
                      /\ worker' = [worker EXCEPT ![w] = j]
                      /\ j.at = "record" /\ j.run = worker[w].run /\ j.plan = worker[w].plan
                      /\ j.got = worker[w].got /\ j.serious \subseteq Material
                      /\ Len(seats) = 1 => j.kept \cap Material \subseteq j.serious
<1>1. /\ worker[w].at = "read" /\ ToRead(w) = {}
  BY DEF Check
<1>2. /\ worker[w] \in Jobs /\ worker[w].run \in DOMAIN run /\ worker \in [Workers -> Jobs]
      /\ seats \in Seats /\ run[worker[w].run].seats = seats /\ ledger \in Seq(Rows)
      /\ \A i \in worker[w].got : i \in DOMAIN ledger
  BY <1>1, RunIs DEF Fits, TypeOK
<1>3. PICK o \in Opinions(w) :
        /\ opinion' = opinion \cup {<<q, o[q]>> : q \in Questions(w)}
        /\ IF text # worker[w].plan THEN Fails(w)
           ELSE /\ worker' = [worker EXCEPT
                        ![w].at = "record", ![w].kept = Raised(w),
                        ![w].serious = (Agreed(w) \cap Material) \cup UNION {o[q] : q \in Questions(w)}]
                /\ UNCHANGED run
  BY DEF Check
<1>4. ASSUME NEW i \in worker[w].got PROVE ledger[i].raised \subseteq Issues
  <2>1. i \in DOMAIN ledger
    BY <1>2
  <2>2. ledger[i] \in Rows
    BY <1>2, <2>1, ElementOfSeq
  <2> QED BY <2>2 DEF Rows
<1>5. Raised(w) \subseteq Issues /\ \A a : RaisedBy(w, a) \subseteq Issues
  BY <1>4 DEF Raised, RaisedBy, Held
<1>6. \A q \in Questions(w) : o[q] \subseteq q.items /\ o[q] \subseteq Contested(w)
  <2>1. o \in [Questions(w) -> SUBSET Contested(w)]
    BY DEF Opinions
  <2> QED BY <2>1 DEF Opinions
<1>7. \A p \in opinion' : p[2] \subseteq p[1].items
  BY <1>3, <1>6 DEF Fits, TypeOK
<1> DEFINE serious == (Agreed(w) \cap Material) \cup UNION {o[q] : q \in Questions(w)}
           j == [worker[w] EXCEPT !.at = "record", !.kept = Raised(w), !.serious = serious]
<1>8. serious \subseteq Material /\ serious \subseteq Issues
  <2>1. Contested(w) \subseteq Material
    BY DEF Contested
  <2> QED BY <1>6, <2>1, InputAssumption
<1>9. Len(seats) = 1 => Raised(w) \cap Material \subseteq serious
  <2> SUFFICES ASSUME Len(seats) = 1 PROVE Raised(w) \subseteq Agreed(w)
    OBVIOUS
  <2>1. DOMAIN seats = {1}
    BY <1>2, InputAssumption
  <2>2. SeatsOf(w) = {seats[1]}
    BY <1>2, <2>1 DEF SeatsOf
  <2> QED BY <2>2 DEF Raised, Agreed
<1>10. CASE text = worker[w].plan
  <2>1. worker' = [worker EXCEPT ![w] = j] /\ UNCHANGED run
    BY <1>2, <1>3, <1>10
  <2>2. /\ j \in Jobs /\ j.at = "record" /\ j.run = worker[w].run /\ j.plan = worker[w].plan
        /\ j.got = worker[w].got /\ j.serious = serious /\ j.kept = Raised(w)
    <3> HIDE DEF serious
    <3> QED BY <1>2, <1>5, <1>8 DEF Jobs
  <2> HIDE DEF j, serious
  <2>3. Windows(worker[w].plan, seats) \subseteq Read(w)
    BY <1>1, <1>2 DEF ToRead
  <2> QED BY <1>7, <1>8, <1>9, <1>10, <2>1, <2>2, <2>3
<1>11. CASE text # worker[w].plan
  BY <1>1, <1>2, <1>3, <1>7, <1>11 DEF ToRead
<1> QED BY <1>10, <1>11

LEMMA CheckFits ==
    ASSUME Fits, NEW w \in Workers, Check(w) PROVE Fits'
<1>1. /\ worker[w].at = "read"
      /\ UNCHANGED <<text, seats, ledger, finding, msg, clock, edits, asked, lost>>
  BY DEF Check
<1>2. /\ worker[w] \in Jobs /\ worker[w].run \in DOMAIN run
      /\ \A i \in worker[w].got : i \in DOMAIN ledger
  BY <1>1, RunIs DEF Fits
<1>3. RunsFit /\ JobsFit
  <2>1. CASE Fails(w)
    <3>1. \E x \in Runs : Becomes(worker[w].run, x) /\ Alike(run[worker[w].run], x)
      BY <1>1, <2>1, FailsDoes
    <3>2. RunsFit
      BY <1>1, <1>2, <3>1, RowFits DEF RunsFit, Alike
    <3> QED BY <1>1, <2>1, <3>2, IdleFits DEF Fails, RunsFit
  <2>2. CASE /\ UNCHANGED run
             /\ \E j \in Jobs :
                  /\ worker' = [worker EXCEPT ![w] = j]
                  /\ j.at = "record" /\ j.run = worker[w].run /\ j.plan = worker[w].plan
                  /\ j.got = worker[w].got
    <3>1. PICK j \in Jobs :
                  /\ worker' = [worker EXCEPT ![w] = j]
                  /\ j.at = "record" /\ j.run = worker[w].run /\ j.plan = worker[w].plan
                  /\ j.got = worker[w].got
      BY <2>2
    <3>2. JobsFit
      BY <1>1, <1>2, <2>2, <3>1, CheckDoes, JobFits
    <3> QED BY <1>1, <2>2, <3>2 DEF RunsFit, Fits, TypeOK
  <2> QED BY <2>1, <2>2, CheckDoes
<1>4. TypeOK'
  BY <1>1, <1>3, SameSets, CheckDoes DEF Fits, TypeOK, RunsFit, JobsFit
<1> QED BY <1>3, <1>4 DEF Fits, RunsFit, JobsFit

LEMMA RecordFits ==
    ASSUME Fits, NEW w \in Workers, Record(w) PROVE Fits'
<1>1. /\ worker[w].at = "record"
      /\ UNCHANGED <<text, seats, opinion, ledger, msg, clock, edits, asked, lost>>
  BY DEF Record
<1>2. /\ worker[w] \in Jobs /\ worker[w].run \in DOMAIN run
  BY <1>1, RunIs
<1>3. RunsFit
  <2>1. \E x \in Runs : Becomes(worker[w].run, x) /\ x.seats = run[worker[w].run].seats
    BY RecordDoes
  <2> QED BY <1>1, <1>2, <2>1, RowFits DEF RunsFit
<1>4. JobsFit
  BY <1>1, <1>3, RecordDoes, IdleFits DEF RunsFit
<1>5. finding' \subseteq Findings
  <2>1. PICK placed \in SUBSET Left(w) :
            finding' = Filed(worker[w].plan, Left(w), worker[w].serious, placed)
    BY RecordDoes
  <2> DEFINE key == worker[w].plan
             raised == Left(w)
             serious == worker[w].serious
  <2>2. key \in Texts /\ raised \in SUBSET Issues /\ serious \in SUBSET Issues
    BY <1>2 DEF Jobs, Left
  <2>3. finding' = Filed(key, raised, serious, placed)
    BY <2>1
  <2> HIDE DEF key, raised, serious
  <2>4. FiledAs(key, raised, serious, Filed(key, raised, serious, placed))
    BY <2>2, FiledIs
  <2> QED BY <2>3, <2>4 DEF FiledAs
<1>6. TypeOK'
  BY <1>1, <1>3, <1>4, <1>5, SameSets DEF Fits, TypeOK, RunsFit, JobsFit
<1> QED BY <1>3, <1>4, <1>6 DEF Fits, RunsFit, JobsFit

\* An editor's step leaves the audits alone.
LEMMA EditFits ==
    ASSUME Fits, UNCHANGED <<seats, opinion, run, ledger, msg, worker, asked, lost>>,
           text' \in Texts, finding' \subseteq Findings,
           clock' \in 0 .. MaxDecisions[seats], edits' \in 0 .. MaxEdits[seats]
    PROVE  Fits'
<1>1. JobsFit
  BY WorkersFit
<1>2. TypeOK'
  BY <1>1, SameSets DEF Fits, TypeOK, JobsFit
<1> QED BY <1>1, <1>2 DEF Fits, JobsFit

\* Suggestions are written in; the audit they come from may follow.
ApplyWith(F, G) ==
    /\ F \subseteq finding /\ F \subseteq Open /\ F # {} /\ G \subseteq Findings
    /\ \A f \in F : ~text[At[f.issue]].gone
    /\ \A f \in finding : \E g \in G :
         /\ g.of = f.of /\ g.issue = f.issue /\ g.serious = f.serious
         /\ IF f \in F THEN g.status = "applied" /\ g.at > 0 ELSE g.status = f.status /\ g.at = f.at
    /\ \A g \in G : \E f \in finding :
         /\ g.of = f.of /\ g.issue = f.issue
         /\ \/ g.status = f.status /\ g.at = f.at
            \/ f.status = "open" /\ g.status = "applied" /\ g.at > 0

LEMMA ApplyDoes ==
    ASSUME Fits, ApplyFindings
    PROVE  /\ UNCHANGED <<seats, opinion, msg, worker, edits, asked, lost>>
           /\ clock' \in 0 .. MaxDecisions[seats]
           /\ Prompt => \A v \in Workers : worker[v].at # "record"
           /\ \E F, G :
                /\ ApplyWith(F, G) /\ text' = Written(F)
                /\ \/ finding' = G /\ UNCHANGED <<run, ledger>>
                   \/ \E r \in DOMAIN run : run[r].status = "succeeded" /\ Carry(r, text', G)
<1>1. /\ UNCHANGED <<seats, opinion, msg, worker, edits, asked, lost>>
      /\ clock < MaxDecisions[seats] /\ clock' = clock + 1
      /\ Prompt => \A v \in Workers : worker[v].at # "record"
  BY DEF ApplyFindings
<1>2. clock' \in 0 .. MaxDecisions[seats]
  BY <1>1, InputAssumption DEF Fits, TypeOK
<1>3. PICK F \in SUBSET Applicable, carry \in BOOLEAN :
        /\ F # {} /\ text' = Written(F)
        /\ LET after == (finding \ F) \cup {Decided(f, "applied") : f \in F}
               first == CHOOSE f \in F : \A g \in F : At[f.issue] <= At[g.issue]
           IN \E G \in Shaken(after, {At[f.issue] : f \in F}, TRUE) :
                IF carry /\ CarryRun(first) # {}
                THEN \E r \in CarryRun(first) : Carry(r, Written(F), G)
                ELSE finding' = G /\ UNCHANGED <<run, ledger>>
  BY DEF ApplyFindings
<1> DEFINE after == (finding \ F) \cup {Decided(f, "applied") : f \in F}
           first == CHOOSE f \in F : \A g \in F : At[f.issue] <= At[g.issue]
           B == {At[f.issue] : f \in F}
<1>4. PICK G \in Shaken(after, B, TRUE) :
         IF carry /\ CarryRun(first) # {}
         THEN \E r \in CarryRun(first) : Carry(r, Written(F), G)
         ELSE finding' = G /\ UNCHANGED <<run, ledger>>
  BY <1>3
<1>5. /\ F \subseteq Open /\ F \subseteq finding /\ finding \subseteq Findings
      /\ \A f \in F : ~text[At[f.issue]].gone
  BY DEF Applicable, Open, Fits, TypeOK
<1>6. \A f \in F : LET d == Decided(f, "applied") IN
         /\ d \in Findings /\ d.of = f.of /\ d.issue = f.issue
         /\ d.serious = f.serious /\ d.status = "applied" /\ d.at > 0
  <2> SUFFICES ASSUME NEW f \in F
               PROVE  LET d == Decided(f, "applied") IN
                      /\ d \in Findings /\ d.of = f.of /\ d.issue = f.issue
                      /\ d.serious = f.serious /\ d.status = "applied" /\ d.at > 0
    OBVIOUS
  <2>1. f \in Findings
    BY <1>5
  <2> QED BY <1>1, <2>1, DecidedIs
<1>7. after \subseteq Findings
  BY <1>5, <1>6
<1>8. /\ G \subseteq Findings
      /\ \A f \in after : \E g \in G : Replaced(f, g)
      /\ \A g \in G : \E f \in after : Replaced(f, g)
  <2> HIDE DEF after, B
  <2> QED BY <1>7, ShakenKeeps
<1>9. ASSUME NEW f \in finding
      PROVE  \E g \in G :
                /\ g.of = f.of /\ g.issue = f.issue /\ g.serious = f.serious
                /\ IF f \in F THEN g.status = "applied" /\ g.at > 0 ELSE g.status = f.status /\ g.at = f.at
  <2>1. CASE f \in F
    <3>1. Decided(f, "applied") \in after
      BY <2>1
    <3>2. PICK g \in G : Replaced(Decided(f, "applied"), g)
      BY <1>8, <3>1
    <3> QED BY <1>6, <2>1, <3>2 DEF Replaced
  <2>2. CASE f \notin F
    <3>1. f \in after
      BY <2>2
    <3>2. PICK g \in G : Replaced(f, g)
      BY <1>8, <3>1
    <3> QED BY <2>2, <3>2 DEF Replaced
  <2> QED BY <2>1, <2>2
<1>10. ASSUME NEW g \in G
       PROVE  \E f \in finding :
                 /\ g.of = f.of /\ g.issue = f.issue
                 /\ \/ g.status = f.status /\ g.at = f.at
                    \/ f.status = "open" /\ g.status = "applied" /\ g.at > 0
  <2>1. PICK h \in after : Replaced(h, g)
    BY <1>8
  <2>2. CASE h \in finding
    BY <2>1, <2>2 DEF Replaced
  <2>3. CASE \E f \in F : h = Decided(f, "applied")
    <3>1. PICK f \in F : h = Decided(f, "applied")
      BY <2>3
    <3>2. /\ f \in finding /\ f.status = "open" /\ h.of = f.of /\ h.issue = f.issue
          /\ h.status = "applied" /\ h.at > 0
      BY <1>5, <1>6, <3>1 DEF Open
    <3> QED BY <2>1, <3>2 DEF Replaced
  <2> QED BY <2>2, <2>3
<1>11. ApplyWith(F, G)
  BY <1>3, <1>5, <1>8, <1>9, <1>10 DEF ApplyWith
<1>12. \/ finding' = G /\ UNCHANGED <<run, ledger>>
       \/ \E r \in DOMAIN run : run[r].status = "succeeded" /\ Carry(r, text', G)
  <2>1. \A r \in CarryRun(first) : r \in DOMAIN run /\ run[r].status = "succeeded"
    BY DEF CarryRun, RunsOf
  <2> HIDE DEF first
  <2> QED BY <1>3, <1>4, <2>1
<1> QED BY <1>1, <1>2, <1>3, <1>5, <1>11, <1>12

LEMMA ApplyFits == Fits /\ ApplyFindings => Fits'
<1> SUFFICES ASSUME Fits, ApplyFindings PROVE Fits'
  OBVIOUS
<1>1. /\ UNCHANGED <<seats, opinion, msg, worker, edits, asked, lost>>
      /\ clock' \in 0 .. MaxDecisions[seats]
  BY ApplyDoes
<1>2. PICK F, G :
        /\ ApplyWith(F, G) /\ text' = Written(F)
        /\ \/ finding' = G /\ UNCHANGED <<run, ledger>>
           \/ \E r \in DOMAIN run : run[r].status = "succeeded" /\ Carry(r, text', G)
  BY ApplyDoes
<1>3. text' \in Texts /\ G \subseteq Findings
  BY <1>2, WrittenIs DEF ApplyWith
<1>4. CASE finding' = G /\ UNCHANGED <<run, ledger>>
  BY <1>1, <1>3, <1>4, EditFits DEF Fits, TypeOK
<1>5. ASSUME NEW r \in DOMAIN run, Carry(r, text', G) PROVE Fits'
  <2>1. PICK new \in Texts : new = text'
    BY <1>3
  <2>2. Carry(r, new, G)
    BY <1>5, <2>1
  <2>3. /\ \E x \in Runs : Becomes(r, x) /\ x.seats = run[r].seats
        /\ ledger' \in Seq(Rows) /\ DOMAIN ledger' = DOMAIN ledger
        /\ \A i \in DOMAIN ledger : Rekeyed(ledger[i], new, text, ledger'[i])
        /\ finding' = {f \in G : f.of # run[r].key}
                      \cup {[f EXCEPT !.of = new] : f \in {g \in G : g.of = run[r].key}}
    BY <2>2, CarryDoes
  <2>4. RunsFit
    BY <1>1, <2>3, RowFits DEF RunsFit
  <2>5. ASSUME NEW i \in DOMAIN ledger PROVE ledger'[i].by = ledger[i].by /\ ledger'[i].at = ledger[i].at
    <3>1. ledger[i] \in Rows
      BY ElementOfSeq DEF Fits, TypeOK
    <3> QED BY <2>3, <3>1 DEF Rekeyed, Rows
  <2>6. JobsFit
    BY <1>1, <2>3, <2>4, <2>5, WorkersFit DEF RunsFit
  <2>7. finding' \subseteq Findings
    <3>1. \A f \in G : [f EXCEPT !.of = new] \in Findings
      BY <1>3 DEF Findings
    <3> QED BY <1>3, <2>3, <3>1
  <2>8. TypeOK'
    BY <1>1, <1>3, <2>3, <2>4, <2>6, <2>7, SameSets DEF Fits, TypeOK, RunsFit, JobsFit
  <2> QED BY <2>4, <2>6, <2>8 DEF Fits, RunsFit, JobsFit
<1> QED BY <1>2, <1>4, <1>5

\* Nothing but a reopening or a reading opens a finding.
OpensNone == \A g \in finding' : g.status = "open" => \E f \in finding : f.status = "open" /\ f.issue = g.issue

\* A decision bears the time it was taken.
Dated == \A g \in finding' : g.status \in {"applied", "dismissed"} =>
            g.at > 0 \/ \E f \in finding : f.status \in {"applied", "dismissed"} /\ f.at = g.at

\* A change of the words of a paragraph, or its removal.
LEMMA EditDoes ==
    ASSUME Fits, HandEdit \/ RemoveBlock \/ CloseByHand
    PROVE  /\ UNCHANGED <<seats, opinion, run, ledger, msg, worker, asked, lost>>
           /\ clock' \in 0 .. MaxDecisions[seats] /\ edits' \in 0 .. MaxEdits[seats]
           /\ edits' = edits + 1
           /\ \E b \in Blocks, words \in Words :
                /\ ~text[b].gone /\ text' = [text EXCEPT ![b] = words]
                /\ words = Gone \/ words \in NewWords(b)
           /\ text' \in Texts /\ finding' \subseteq Findings
           /\ OpensNone /\ Dated
<1>1. /\ UNCHANGED <<seats, opinion, run, ledger, msg, worker, asked, lost>>
      /\ edits < MaxEdits[seats] /\ edits' = edits + 1
  BY DEF HandEdit, RemoveBlock, CloseByHand
<1>2. clock' \in 0 .. MaxDecisions[seats]
  <2>1. clock' = clock \/ (clock < MaxDecisions[seats] /\ clock' = clock + 1)
    BY DEF HandEdit, RemoveBlock, CloseByHand
  <2>2. MaxDecisions[seats] \in Nat /\ clock \in 0 .. MaxDecisions[seats]
    BY InputAssumption DEF Fits, TypeOK
  <2> QED BY <2>1, <2>2
<1>3. edits' \in 0 .. MaxEdits[seats] /\ finding \subseteq Findings
  BY <1>1, InputAssumption DEF Fits, TypeOK
<1>4. CASE HandEdit
  <2>0. PICK b \in Present(text) :
           \E words \in NewWords(b) :
              text' = [text EXCEPT ![b] = words] /\ finding' \in Shaken(finding, {b}, FALSE)
    BY <1>4 DEF HandEdit
  <2>1. PICK words \in NewWords(b) :
           text' = [text EXCEPT ![b] = words] /\ finding' \in Shaken(finding, {b}, FALSE)
    BY <2>0
  <2>2. b \in Blocks /\ ~text[b].gone
    BY DEF Present
  <2>3. words \in Words /\ text' \in Texts
    BY <1>1, <2>1, <2>2, WordsMove
  <2>4. /\ finding' \subseteq Findings /\ \A g \in finding' : \E f \in finding : Replaced(f, g)
    <3> DEFINE B == {b}
    <3>1. finding' \in Shaken(finding, B, FALSE)
      BY <2>1
    <3> HIDE DEF B
    <3> QED BY <1>3, <3>1, ShakenKeeps
  <2>5. OpensNone /\ Dated
    BY <2>4 DEF OpensNone, Dated, Replaced
  <2> QED BY <1>1, <1>2, <1>3, <2>1, <2>2, <2>3, <2>4, <2>5
<1>5. CASE RemoveBlock
  <2>1. PICK b \in Present(text) :
           /\ text' = [text EXCEPT ![b] = Gone]
           /\ finding' = {IF f \in Open /\ At[f.issue] = b THEN Superseded(f) ELSE f : f \in finding}
    BY <1>5 DEF RemoveBlock
  <2>2. b \in Blocks /\ ~text[b].gone /\ Gone \in Words /\ text' \in Texts
    BY <2>1, IdleIsJob DEF Present, Texts, Fits, TypeOK
  <2>3. \A f \in finding : Superseded(f) \in Findings /\ Superseded(f).status = "superseded"
    BY <1>3, SupersededIs
  <2>4. finding' \subseteq Findings /\ \A g \in finding' : g \in finding \/ g.status = "superseded"
    BY <1>3, <2>1, <2>3
  <2>5. OpensNone /\ Dated
    BY <2>4 DEF OpensNone, Dated
  <2> QED BY <1>1, <1>2, <1>3, <2>1, <2>2, <2>4, <2>5
<1>6. CASE CloseByHand
  <2>1. PICK f \in Open :
           /\ ~text[At[f.issue]].gone
           /\ \E words \in NewWords(At[f.issue]) : text' = [text EXCEPT ![At[f.issue]] = words]
           /\ finding' \in Shaken((finding \ {f}) \cup {Decided(f, "applied")}, {At[f.issue]}, TRUE)
    BY <1>6 DEF CloseByHand
  <2>2. f \in Findings /\ f \in finding /\ f.status = "open" /\ clock < MaxDecisions[seats]
    BY <1>3, <1>6 DEF Open, CloseByHand
  <2>3. At[f.issue] \in Blocks
    BY <2>2, InputAssumption DEF Findings
  <2>4. PICK words \in NewWords(At[f.issue]) : text' = [text EXCEPT ![At[f.issue]] = words]
    BY <2>1
  <2>5. words \in Words /\ text' \in Texts
    BY <1>1, <2>3, <2>4, WordsMove
  <2> DEFINE after == (finding \ {f}) \cup {Decided(f, "applied")}
             B == {At[f.issue]}
  <2>6. /\ Decided(f, "applied") \in Findings /\ Decided(f, "applied").status = "applied"
        /\ Decided(f, "applied").at > 0
    BY <2>2, DecidedIs
  <2>7. after \subseteq Findings
    BY <1>3, <2>6
  <2>8. /\ finding' \subseteq Findings /\ \A g \in finding' : \E h \in after : Replaced(h, g)
    <3>1. finding' \in Shaken(after, B, TRUE)
      BY <2>1
    <3> HIDE DEF B, after
    <3> QED BY <2>7, <3>1, ShakenKeeps
  <2>9. \A h \in after : h \in finding \/ (h.status = "applied" /\ h.at > 0)
    BY <2>6
  <2>10. OpensNone /\ Dated
    <3> HIDE DEF after
    <3> QED BY <2>8, <2>9 DEF OpensNone, Dated, Replaced
  <2> QED BY <1>1, <1>2, <1>3, <2>1, <2>3, <2>4, <2>5, <2>8, <2>10
<1> QED BY <1>4, <1>5, <1>6

\* A decision on findings as they stand, or one taken back.
LEMMA DecideDoes ==
    ASSUME Fits, Dismiss \/ Reopen
    PROVE  /\ UNCHANGED <<text, seats, opinion, run, ledger, msg, worker, edits, asked, lost>>
           /\ clock' \in 0 .. MaxDecisions[seats] /\ finding' \subseteq Findings
           /\ Reopen \/ OpensNone
           /\ Dated
           /\ \A f \in finding : \E g \in finding' :
                /\ g.of = f.of /\ g.issue = f.issue /\ g.serious = f.serious
                /\ g.status = f.status \/ {f.status, g.status} \subseteq {"open", "dismissed"}
<1>1. /\ UNCHANGED <<text, seats, opinion, run, ledger, msg, worker, edits, asked, lost>>
      /\ clock < MaxDecisions[seats] /\ clock' = clock + 1
  BY DEF Dismiss, Reopen
<1>2. clock' \in 0 .. MaxDecisions[seats] /\ finding \subseteq Findings
  BY <1>1, InputAssumption DEF Fits, TypeOK
<1>3. ASSUME NEW F \in SUBSET finding, NEW s \in {"open", "dismissed"},
             \A f \in F : f.status \in {"open", "dismissed"},
             finding' = (finding \ F) \cup {Decided(f, s) : f \in F}
      PROVE  /\ finding' \subseteq Findings /\ Dated
             /\ \A f \in finding : \E g \in finding' :
                  /\ g.of = f.of /\ g.issue = f.issue /\ g.serious = f.serious
                  /\ g.status = f.status \/ {f.status, g.status} \subseteq {"open", "dismissed"}
             /\ s = "dismissed" => OpensNone
  <2>1. ASSUME NEW f \in F
        PROVE  /\ Decided(f, s) \in Findings
               /\ Decided(f, s).of = f.of /\ Decided(f, s).issue = f.issue
               /\ Decided(f, s).serious = f.serious /\ Decided(f, s).status = s
               /\ Decided(f, s).at > 0
    <3>1. f \in Findings
      BY <1>2
    <3> QED BY <1>1, <3>1, DecidedIs
  <2>2. \A g \in finding' : g \in finding \/ \E f \in F : g = Decided(f, s)
    BY <1>3
  <2>3. finding' \subseteq Findings /\ Dated /\ (s = "dismissed" => OpensNone)
    BY <1>2, <2>1, <2>2 DEF Dated, OpensNone
  <2>4. ASSUME NEW f \in finding
        PROVE  \E g \in finding' :
                  /\ g.of = f.of /\ g.issue = f.issue /\ g.serious = f.serious
                  /\ g.status = f.status \/ {f.status, g.status} \subseteq {"open", "dismissed"}
    <3>1. CASE f \in F
      <4>1. Decided(f, s) \in finding'
        BY <1>3, <3>1
      <4> QED BY <1>3, <2>1, <3>1, <4>1
    <3>2. CASE f \notin F
      BY <1>3, <3>2
    <3> QED BY <3>1, <3>2
  <2> QED BY <2>3, <2>4
<1>4. CASE Dismiss
  <2>1. PICK F \in {{f} : f \in Open} \cup {{f \in Open : f.serious}, {f \in Open : ~f.serious}, Open} :
           finding' = (finding \ F) \cup {Decided(f, "dismissed") : f \in F}
    BY <1>4 DEF Dismiss
  <2>2. F \in SUBSET finding /\ \A f \in F : f.status \in {"open", "dismissed"}
    BY DEF Open
  <2> HIDE DEF Open
  <2> QED BY <1>1, <1>2, <1>3, <2>1, <2>2
<1>5. CASE Reopen
  <2>1. PICK f \in finding :
           f.status = "dismissed" /\ finding' = (finding \ {f}) \cup {Decided(f, "open")}
    BY <1>5 DEF Reopen
  <2> DEFINE F == {f}
  <2>2. /\ F \in SUBSET finding /\ \A g \in F : g.status \in {"open", "dismissed"}
        /\ finding' = (finding \ F) \cup {Decided(g, "open") : g \in F}
    BY <2>1
  <2> HIDE DEF F
  <2> QED BY <1>1, <1>2, <1>3, <1>5, <2>2
<1> QED BY <1>4, <1>5

LEMMA HandFits ==
    ASSUME Fits, HandEdit \/ RemoveBlock \/ CloseByHand \/ Dismiss \/ Reopen PROVE Fits'
<1>1. CASE HandEdit \/ RemoveBlock \/ CloseByHand
  BY <1>1, EditDoes, EditFits
<1>2. CASE Dismiss \/ Reopen
  <2>1. /\ UNCHANGED <<text, seats, opinion, run, ledger, msg, worker, edits, asked, lost>>
        /\ clock' \in 0 .. MaxDecisions[seats] /\ finding' \subseteq Findings
    BY <1>2, DecideDoes
  <2> QED BY <2>1, EditFits DEF Fits, TypeOK
<1> QED BY <1>1, <1>2

LEMMA NextFits == Fits /\ [Next]_vars => Fits'
<1> SUFFICES ASSUME Fits, [Next]_vars PROVE Fits'
  OBVIOUS
<1>1. CASE Queue
  BY <1>1, QueueFits
<1>2. CASE Janitor
  BY <1>2, SilenceFits
<1>3. CASE ApplyFindings
  BY <1>3, ApplyFits
<1>4. CASE HandEdit \/ RemoveBlock \/ CloseByHand \/ Dismiss \/ Reopen
  BY <1>4, HandFits
<1>5. ASSUME NEW w \in Workers,
             \/ \E r \in msg : Deliver(w, r)
             \/ Work(w) \/ CallFails(w) \/ Dies(w) \/ Sleeps(w)
      PROVE  Fits'
  <2>1. CASE \E r \in msg : Deliver(w, r)
    BY <2>1, DeliverFits
  <2>2. CASE Work(w)
    BY <2>2, ReadWindowFits, AnsweredFits, CheckFits, RecordFits DEF Work
  <2>3. CASE CallFails(w) \/ Dies(w)
    BY <2>3, GivesUpFits
  <2>4. CASE Sleeps(w)
    BY <2>4, SilenceFits
  <2> QED BY <1>5, <2>1, <2>2, <2>3, <2>4
<1>6. CASE UNCHANGED vars
  <2>1. JobsFit
    BY <1>6, WorkersFit DEF vars
  <2>2. TypeOK'
    BY <1>6, <2>1, SameSets DEF Fits, TypeOK, vars, JobsFit
  <2> QED BY <1>6, <2>1, <2>2 DEF Fits, vars, JobsFit
<1> QED BY <1>1, <1>2, <1>3, <1>4, <1>5, <1>6 DEF Next

\* Every variable keeps its type.
THEOREM AuditTyped == Spec => []TypeOK
<1>1. Init => Fits
  BY InitFits
<1>2. Fits /\ [Next]_vars => Fits'
  BY NextFits
<1>3. Fits => TypeOK
  BY DEF Fits
<1> QED BY <1>1, <1>2, <1>3, PTL DEF Spec

\* A worker with windows left goes to the auditor, or goes on with one more answer.
LEMMA ReadingDoes ==
    ASSUME Fits, NEW w \in Workers, ReadWindow(w) \/ Answered(w)
    PROVE  /\ worker[w].at # "idle"
           /\ \/ worker' = [worker EXCEPT ![w].at = "call"] /\ UNCHANGED run
              \/ \E got \in SUBSET Nat : Progress(w, got)
<1>1. worker[w].at # "idle"
  BY DEF ReadWindow, Answered
<1>2. worker[w].got \subseteq Nat /\ ledger \in Seq(Rows)
  BY <1>1, RunIs DEF Jobs, Fits, TypeOK
<1>3. CASE ReadWindow(w)
  <2>1. \/ worker' = [worker EXCEPT ![w].at = "call"] /\ UNCHANGED run
        \/ \E i \in DOMAIN ledger : Progress(w, worker[w].got \cup {i})
    BY <1>3 DEF ReadWindow, Answers
  <2>2. ASSUME NEW i \in DOMAIN ledger PROVE worker[w].got \cup {i} \in SUBSET Nat
    BY <1>2
  <2> QED BY <1>1, <2>1, <2>2
<1>4. CASE Answered(w)
  <2>1. Progress(w, worker[w].got \cup {Len(ledger) + 1})
    BY <1>4 DEF Answered
  <2>2. worker[w].got \cup {Len(ledger) + 1} \in SUBSET Nat
    BY <1>2
  <2> QED BY <1>1, <2>1, <2>2
<1> QED BY <1>3, <1>4

--------------------------------------------------------------------------------
(* Nothing waits for ever.                                                   *)

\* The run r becomes x, with what it then needs; the other runs keep theirs.
LEMMA RunNotStuck ==
    ASSUME NothingStuck, NEW r \in DOMAIN run, NEW x, Becomes(r, x), msg \ {r} \subseteq msg',
           x.status = "queued" => r \in msg',
           x.status = "running" => x.silent \/ \E w \in Workers : worker'[w].run = r,
           \A v \in Workers : worker[v].run \in DOMAIN run \ {r} => worker'[v].run = worker[v].run
    PROVE  NothingStuck'
<1>1. DOMAIN run' = DOMAIN run /\ run'[r] = x /\ \A q \in DOMAIN run \ {r} : run'[q] = run[q]
  BY DEF Becomes
<1>2. ASSUME NEW q \in DOMAIN run \ {r}
      PROVE  /\ run'[q].status = "queued" => q \in msg'
             /\ run'[q].status = "running" => run'[q].silent \/ \E w \in Workers : worker'[w].run = q
  BY <1>1 DEF NothingStuck
<1> QED BY <1>1, <1>2 DEF NothingStuck

LEMMA QueueNotStuck ==
    ASSUME Fits, NothingStuck, Queue PROVE NothingStuck'
<1>1. UNCHANGED worker
  BY DEF Queue
<1>2. CASE \E x \in Runs : /\ run' = Append(run, x) /\ x.status = "queued"
                           /\ msg' = msg \cup {Len(run) + 1}
  <2>1. PICK x \in Runs : /\ run' = Append(run, x) /\ x.status = "queued"
                          /\ msg' = msg \cup {Len(run) + 1}
    BY <1>2
  <2>2. run \in Seq(Runs)
    BY DEF Fits, TypeOK
  <2>3. /\ DOMAIN run' = DOMAIN run \cup {Len(run) + 1} /\ run'[Len(run) + 1] = x
        /\ \A i \in DOMAIN run : run'[i] = run[i]
    BY <2>1, <2>2, RowAdded
  <2> QED BY <1>1, <2>1, <2>3 DEF NothingStuck
<1>3. CASE \E r \in DOMAIN run, x \in Runs :
             Becomes(r, x) /\ x.status = "queued" /\ msg' = msg \cup {r}
  BY <1>1, <1>3, RunNotStuck
<1> QED BY <1>2, <1>3, QueueDoes

LEMMA DeliverNotStuck ==
    ASSUME Fits, NothingStuck, NEW w \in Workers, NEW r \in msg, Deliver(w, r) PROVE NothingStuck'
<1>1. /\ worker[w].at = "idle" /\ msg' \in {msg, msg \ {r}} /\ worker[w].run = 0 /\ r \in DOMAIN run
      /\ worker \in [Workers -> Jobs] /\ 0 \notin DOMAIN run
  <2>1. run \in Seq(Runs) /\ msg \subseteq DOMAIN run
    BY DEF Fits, TypeOK
  <2> QED BY <2>1 DEF Deliver, Fits, TypeOK
<1>2. CASE run[r].status # "queued" /\ UNCHANGED <<run, worker>>
  BY <1>1, <1>2 DEF NothingStuck
<1>3. CASE \E x \in Runs :
             /\ Becomes(r, x)
             /\ \/ x.status = "running" /\ worker' = [worker EXCEPT ![w] = Claimed(r, text)]
                \/ x.status = "failed" /\ UNCHANGED worker
  <2>1. PICK x \in Runs :
             /\ Becomes(r, x)
             /\ \/ x.status = "running" /\ worker' = [worker EXCEPT ![w] = Claimed(r, text)]
                \/ x.status = "failed" /\ UNCHANGED worker
    BY <1>3
  <2>2. CASE x.status = "running" /\ worker' = [worker EXCEPT ![w] = Claimed(r, text)]
    <3>1. Claimed(r, text).run = r
      BY DEF Claimed, IdleJob
    <3>2. worker'[w].run = r /\ \A v \in Workers \ {w} : worker'[v] = worker[v]
      BY <1>1, <2>2, <3>1
    <3> QED BY <1>1, <2>1, <2>2, <3>2, RunNotStuck
  <2>3. CASE x.status = "failed" /\ UNCHANGED worker
    BY <1>1, <2>1, <2>3, RunNotStuck
  <2> QED BY <2>1, <2>2, <2>3
<1> QED BY <1>2, <1>3, DeliverDoes

\* A worker's run goes on, or ends, with it.
LEMMA WorkNotStuck ==
    ASSUME Fits, NothingStuck, NEW w \in Workers, Work(w) \/ CallFails(w) \/ Dies(w) \/ Sleeps(w)
    PROVE  NothingStuck'
<1> DEFINE r == worker[w].run
<1>1. /\ worker[w].at # "idle" /\ UNCHANGED msg
  BY CallsBusy DEF Work, ReadWindow, Answered, Check, Record, CallFails, Dies, Sleeps
<1>2. r \in DOMAIN run /\ worker \in [Workers -> Jobs] /\ worker[w] \in Jobs
  BY <1>1, RunIs DEF Fits, TypeOK
<1>3. ASSUME NEW got \in SUBSET Nat, Progress(w, got) PROVE NothingStuck'
  <2>1. PICK x \in Runs : Becomes(r, x) /\ x.status = run[r].status
    BY <1>1, <1>3, ProgressDoes
  <2>2. \A v \in Workers : worker'[v].run = worker[v].run
    <3> DEFINE j == [worker[w] EXCEPT !.at = "read", !.got = got]
    <3>1. worker' = [worker EXCEPT ![w] = j]
      BY <1>1, <1>3, ProgressDoes
    <3>2. j.run = worker[w].run
      BY <1>2 DEF Jobs
    <3> HIDE DEF j
    <3> QED BY <1>2, <3>1, <3>2
  <2>3. x.status = "queued" => r \in msg'
    BY <1>1, <1>2, <2>1 DEF NothingStuck
  <2>4. worker'[w].run = r
    BY <2>2
  <2> HIDE DEF r
  <2> QED BY <1>1, <1>2, <2>1, <2>2, <2>3, <2>4, RunNotStuck
<1>4. ASSUME Fails(w) PROVE NothingStuck'
  <2>1. PICK x \in Runs : Becomes(r, x) /\ x.status = "failed"
    BY <1>1, <1>4, FailsDoes
  <2>2. \A v \in Workers \ {w} : worker'[v] = worker[v]
    BY <1>2, <1>4 DEF Fails
  <2>3. \A v \in Workers : worker[v].run \in DOMAIN run \ {r} => worker'[v].run = worker[v].run
    BY <2>2
  <2> HIDE DEF r
  <2> QED BY <1>1, <1>2, <2>1, <2>3, RunNotStuck
<1>5. CASE ReadWindow(w) \/ Answered(w)
  <2>1. CASE worker' = [worker EXCEPT ![w].at = "call"] /\ UNCHANGED run
    <3>1. \A v \in Workers : worker'[v].run = worker[v].run
      BY <1>2, <2>1 DEF Jobs
    <3> QED BY <1>1, <2>1, <3>1 DEF NothingStuck
  <2> QED BY <1>3, <1>5, <2>1, ReadingDoes
<1>7. CASE Check(w)
  <2>1. CASE Fails(w)
    BY <1>4, <2>1
  <2>2. CASE UNCHANGED run /\ \E j \in Jobs : worker' = [worker EXCEPT ![w] = j] /\ j.run = worker[w].run
    <3>1. \A v \in Workers : worker'[v].run = worker[v].run
      BY <1>2, <2>2
    <3> QED BY <1>1, <2>2, <3>1 DEF NothingStuck
  <2> QED BY <1>7, <2>1, <2>2, CheckDoes
<1>8. CASE Record(w)
  <2>1. PICK x \in Runs : Becomes(r, x) /\ x.status = "succeeded"
    BY <1>8, RecordDoes
  <2>2. \A v \in Workers \ {w} : worker'[v] = worker[v]
    BY <1>2, <1>8, RecordDoes
  <2>3. \A v \in Workers : worker[v].run \in DOMAIN run \ {r} => worker'[v].run = worker[v].run
    BY <2>2
  <2> HIDE DEF r
  <2> QED BY <1>1, <1>2, <2>1, <2>3, RunNotStuck
<1>9. CASE Dies(w)
  <2>1. PICK x \in Runs : /\ Becomes(r, x) /\ x.status = run[r].status
                          /\ x.silent = (run[r].silent \/ x.status = "running")
    BY <1>9, DiesDoes
  <2>2. \A v \in Workers \ {w} : worker'[v] = worker[v]
    BY <1>2, <1>9 DEF Dies
  <2>3. \A v \in Workers : worker[v].run \in DOMAIN run \ {r} => worker'[v].run = worker[v].run
    BY <2>2
  <2>4. x.status = "queued" => r \in msg'
    BY <1>1, <1>2, <2>1 DEF NothingStuck
  <2> HIDE DEF r
  <2> QED BY <1>1, <1>2, <2>1, <2>3, <2>4, RunNotStuck
<1>10. CASE Sleeps(w)
  <2>1. PICK x \in Runs : Becomes(r, x) /\ x.status = run[r].status /\ x.silent
    BY <1>10, SleepsDoes
  <2>2. UNCHANGED worker
    BY <1>10 DEF Sleeps
  <2>3. x.status = "queued" => r \in msg'
    BY <1>1, <1>2, <2>1 DEF NothingStuck
  <2> HIDE DEF r
  <2> QED BY <1>1, <1>2, <2>1, <2>2, <2>3, RunNotStuck
<1>11. CASE CallFails(w)
  BY <1>4, <1>11 DEF CallFails
<1> QED BY <1>5, <1>7, <1>8, <1>9, <1>10, <1>11 DEF Work

\* Nobody waits for a message that will not come.
THEOREM NothingIsStuck == Spec => []NothingStuck
<1>1. Init => NothingStuck
  BY DEF Init, NothingStuck
<1>2. ASSUME Fits, NothingStuck, [Next]_vars PROVE NothingStuck'
  <2>1. CASE Queue
    BY <1>2, <2>1, QueueNotStuck
  <2>2. CASE Janitor
    <3>1. UNCHANGED <<msg, worker>>
      BY <2>2 DEF Janitor
    <3> QED BY <1>2, <2>2, <3>1, JanitorDoes DEF NothingStuck
  <2>3. CASE ApplyFindings
    <3>1. UNCHANGED <<msg, worker>>
      BY <2>3 DEF ApplyFindings
    <3>2. PICK F, G :
            /\ F \subseteq finding /\ text' = Written(F)
            /\ UNCHANGED run \/ \E r \in DOMAIN run : Carry(r, text', G)
      BY <1>2, <2>3, ApplyDoes DEF ApplyWith
    <3>3. CASE UNCHANGED run
      BY <1>2, <3>1, <3>3 DEF NothingStuck
    <3>4. ASSUME NEW r \in DOMAIN run, Carry(r, text', G) PROVE NothingStuck'
      <4>1. PICK new \in Texts : new = text'
        BY <1>2, <3>2, WrittenIs DEF ApplyWith
      <4>2. Carry(r, new, G)
        BY <3>4, <4>1
      <4>3. PICK x \in Runs : Becomes(r, x) /\ x.status = run[r].status /\ x.silent = run[r].silent
        BY <1>2, <4>2, CarryDoes
      <4> QED BY <1>2, <3>1, <4>3, RunNotStuck DEF NothingStuck
    <3> QED BY <3>2, <3>3, <3>4
  <2>4. CASE HandEdit \/ RemoveBlock \/ CloseByHand \/ Dismiss \/ Reopen
    <3>1. UNCHANGED <<run, msg, worker>>
      BY <2>4 DEF HandEdit, RemoveBlock, CloseByHand, Dismiss, Reopen
    <3> QED BY <1>2, <3>1 DEF NothingStuck
  <2>5. ASSUME NEW w \in Workers,
               \/ \E r \in msg : Deliver(w, r)
               \/ Work(w) \/ CallFails(w) \/ Dies(w) \/ Sleeps(w)
        PROVE  NothingStuck'
    BY <1>2, <2>5, DeliverNotStuck, WorkNotStuck
  <2>6. CASE UNCHANGED vars
    BY <1>2, <2>6 DEF NothingStuck, vars
  <2> QED BY <1>2, <2>1, <2>2, <2>3, <2>4, <2>5, <2>6 DEF Next
<1> QED BY <1>1, <1>2, InitFits, NextFits, PTL DEF Spec

--------------------------------------------------------------------------------
(* The steps of the audits that file nothing and edit nothing.               *)

\* A step in which no run succeeds: the runs keep what was read for them, a new one is of the
\* text that stands.
QuietRuns ==
    /\ DOMAIN run \subseteq DOMAIN run'
    /\ \A q \in DOMAIN run :
         Alike(run[q], run'[q]) /\ (run'[q].status = "succeeded" => run[q].status = "succeeded")
    /\ \A q \in DOMAIN run' \ DOMAIN run :
         /\ RunsOf(text) = {} /\ run'[q].key = text /\ run'[q].seen = text
         /\ run'[q].raised = {} /\ run'[q].status = "queued"
    /\ \A p, q \in DOMAIN run' \ DOMAIN run : p = q

\* A worker goes on with its reading, gives it up, or claims a run of the text that stands.
QuietJob(v) ==
    \/ worker'[v] = worker[v]
    \/ worker'[v].at = "idle"
    \/ /\ worker[v].at # "idle" /\ worker'[v].at \in {"read", "call"}
       /\ worker'[v].plan = worker[v].plan /\ worker'[v].run = worker[v].run
    \/ /\ worker'[v].at = "read" /\ worker'[v].run \in DOMAIN run
       /\ run[worker'[v].run].key = text /\ worker'[v].plan = text

\* The worker w has passed its last check.
Checked(w) ==
    /\ worker[w].at = "read" /\ text = worker[w].plan /\ UNCHANGED run
    /\ Prompt => \A v \in Workers : worker[v].at # "record"
    /\ worker'[w].at = "record"
    /\ worker'[w].plan = worker[w].plan /\ worker'[w].run = worker[w].run
    /\ worker'[w].serious \subseteq Material
    /\ Len(seats) = 1 => worker'[w].kept \cap Material \subseteq worker'[w].serious
    /\ \A v \in Workers \ {w} : worker'[v] = worker[v]

Quiet ==
    \/ Queue \/ Janitor
    \/ \E w \in Workers : \/ \E r \in msg : Deliver(w, r)
                          \/ ReadWindow(w) \/ Answered(w) \/ Check(w)
                          \/ CallFails(w) \/ Dies(w) \/ Sleeps(w)

LEMMA QuietIs ==
    ASSUME Fits, Quiet
    PROVE  /\ UNCHANGED <<text, seats, finding, clock, edits>>
           /\ QuietRuns
           /\ (\A v \in Workers : QuietJob(v)) \/ \E w \in Workers : Checked(w)
<1>1. UNCHANGED <<text, seats, finding, clock, edits>>
  BY DEF Quiet, Queue, Janitor, Deliver, ReadWindow, Answered, Check, CallFails, Dies, Sleeps
<1>2. ASSUME NEW r \in DOMAIN run, NEW x, Becomes(r, x), Alike(run[r], x),
             x.status = "succeeded" => run[r].status = "succeeded"
      PROVE  QuietRuns
  BY <1>2 DEF Becomes, QuietRuns, Alike
<1>3. worker \in [Workers -> Jobs]
  BY DEF Fits, TypeOK
<1>4. CASE Queue
  <2>1. CASE \E x \in Runs :
               /\ run' = Append(run, x) /\ RunsOf(text) = {} /\ x.key = text /\ x.seen = text
               /\ x.raised = {} /\ x.status = "queued"
    <3>1. PICK x \in Runs :
               /\ run' = Append(run, x) /\ RunsOf(text) = {} /\ x.key = text /\ x.seen = text
               /\ x.raised = {} /\ x.status = "queued"
      BY <2>1
    <3>2. run \in Seq(Runs)
      BY DEF Fits, TypeOK
    <3>3. /\ DOMAIN run' = DOMAIN run \cup {Len(run) + 1} /\ run'[Len(run) + 1] = x
          /\ \A i \in DOMAIN run : run'[i] = run[i]
      BY <3>1, <3>2, RowAdded
    <3> QED BY <1>1, <1>4, <3>1, <3>3 DEF QuietRuns, QuietJob, Alike, Queue
  <2>2. CASE \E r \in DOMAIN run, x \in Runs :
               Becomes(r, x) /\ Alike(run[r], x) /\ x.status = "queued"
    BY <1>1, <1>2, <1>4, <2>2 DEF QuietJob, Queue
  <2> QED BY <1>4, <2>1, <2>2, QueueDoes
<1>5. CASE Janitor
  <2>1. QuietRuns
    BY <1>5, JanitorDoes DEF QuietRuns
  <2> QED BY <1>1, <1>5, <2>1 DEF QuietJob, Janitor
<1>6. ASSUME NEW w \in Workers, NEW r \in msg, Deliver(w, r)
      PROVE  QuietRuns /\ \A v \in Workers : QuietJob(v)
  <2>1. CASE UNCHANGED <<run, worker>>
    BY <2>1 DEF QuietRuns, QuietJob, Alike
  <2>2. CASE \E x \in Runs :
               /\ Becomes(r, x) /\ Alike(run[r], x) /\ x.status \in {"running", "failed"}
               /\ \/ run[r].key = text /\ worker' = [worker EXCEPT ![w] = Claimed(r, text)]
                  \/ UNCHANGED worker
    <3>1. QuietRuns /\ r \in DOMAIN run
      BY <1>2, <1>6, <2>2, DeliverDoes
    <3>2. CASE UNCHANGED worker
      BY <3>1, <3>2 DEF QuietJob
    <3>3. CASE run[r].key = text /\ worker' = [worker EXCEPT ![w] = Claimed(r, text)]
      <4>1. Claimed(r, text).at = "read" /\ Claimed(r, text).run = r /\ Claimed(r, text).plan = text
        BY DEF Claimed, IdleJob
      <4> QED BY <1>3, <3>1, <3>3, <4>1 DEF QuietJob
    <3> QED BY <2>2, <3>2, <3>3
  <2> QED BY <1>6, <2>1, <2>2, DeliverDoes
<1>7. ASSUME NEW w \in Workers, NEW got \in SUBSET Nat, worker[w].at # "idle", Progress(w, got)
      PROVE  QuietRuns /\ \A v \in Workers : QuietJob(v)
  <2>1. QuietRuns
    BY <1>2, <1>7, ProgressDoes, RunIs
  <2> DEFINE j == [worker[w] EXCEPT !.at = "read", !.got = got]
  <2>2. worker' = [worker EXCEPT ![w] = j]
    BY <1>7, ProgressDoes
  <2>3. j.at = "read" /\ j.run = worker[w].run /\ j.plan = worker[w].plan
    BY <1>3 DEF Jobs
  <2> HIDE DEF j
  <2> QED BY <1>3, <1>7, <2>1, <2>2, <2>3 DEF QuietJob
<1>8. ASSUME NEW w \in Workers, worker[w].at # "idle", Fails(w)
      PROVE  QuietRuns /\ \A v \in Workers : QuietJob(v)
  <2>1. QuietRuns
    BY <1>2, <1>8, FailsDoes, RunIs
  <2> QED BY <1>3, <1>8, <2>1, IdleIsJob DEF QuietJob, Fails
<1>9. ASSUME NEW w \in Workers, ReadWindow(w) \/ Answered(w)
      PROVE  QuietRuns /\ \A v \in Workers : QuietJob(v)
  <2>1. worker[w].at # "idle"
    BY <1>9, ReadingDoes
  <2>2. CASE worker' = [worker EXCEPT ![w].at = "call"] /\ UNCHANGED run
    <3>1. /\ worker'[w].at = "call" /\ worker'[w].run = worker[w].run
          /\ worker'[w].plan = worker[w].plan
          /\ \A v \in Workers \ {w} : worker'[v] = worker[v]
      BY <1>3, <2>2 DEF Jobs
    <3> QED BY <2>1, <2>2, <3>1 DEF QuietRuns, QuietJob, Alike
  <2> QED BY <1>7, <1>9, <2>1, <2>2, ReadingDoes
<1>10. ASSUME NEW w \in Workers, Check(w)
       PROVE  QuietRuns /\ ((\A v \in Workers : QuietJob(v)) \/ Checked(w))
  <2>1. worker[w].at = "read" /\ (Prompt => \A v \in Workers : worker[v].at # "record")
    BY <1>10 DEF Check
  <2>2. CASE Fails(w)
    BY <1>8, <2>1, <2>2
  <2>3. CASE /\ text = worker[w].plan /\ UNCHANGED run
             /\ \E j \in Jobs :
                  /\ worker' = [worker EXCEPT ![w] = j]
                  /\ j.at = "record" /\ j.run = worker[w].run /\ j.plan = worker[w].plan
                  /\ j.serious \subseteq Material
                  /\ Len(seats) = 1 => j.kept \cap Material \subseteq j.serious
    <3>1. Checked(w)
      BY <1>3, <2>1, <2>3 DEF Checked
    <3> QED BY <2>3, <3>1 DEF QuietRuns, Alike
  <2> QED BY <1>10, <2>2, <2>3, CheckDoes
<1>11. ASSUME NEW w \in Workers, CallFails(w)
       PROVE  QuietRuns /\ \A v \in Workers : QuietJob(v)
  BY <1>8, <1>11, CallsBusy DEF CallFails
<1>12. ASSUME NEW w \in Workers, Dies(w)
       PROVE  QuietRuns /\ \A v \in Workers : QuietJob(v)
  <2>1. QuietRuns
    BY <1>2, <1>12, DiesDoes, RunIs DEF Dies
  <2> QED BY <1>3, <1>12, <2>1, IdleIsJob DEF QuietJob, Dies
<1>13. ASSUME NEW w \in Workers, Sleeps(w)
       PROVE  QuietRuns /\ \A v \in Workers : QuietJob(v)
  <2>1. QuietRuns
    BY <1>2, <1>13, SleepsDoes, RunIs DEF Sleeps
  <2> QED BY <1>13, <2>1 DEF QuietJob, Sleeps
<1>14. \/ \E w \in Workers : \E r \in msg : Deliver(w, r)
       \/ \E w \in Workers : ReadWindow(w) \/ Answered(w)
       \/ \E w \in Workers : Check(w)
       \/ \E w \in Workers : CallFails(w) \/ Dies(w) \/ Sleeps(w)
       \/ Queue \/ Janitor
  BY DEF Quiet
<1> QED BY <1>1, <1>4, <1>5, <1>6, <1>9, <1>10, <1>11, <1>12, <1>13, <1>14

--------------------------------------------------------------------------------
(* What was settled stays settled, and what is carried is carried whole.     *)

\* What the suggestions written in leave open was open; a carry opens nothing.
LEMMA ApplyOpensNone ==
    ASSUME Fits, ApplyFindings PROVE OpensNone /\ Dated
<1>1. PICK F, G :
        /\ ApplyWith(F, G) /\ text' = Written(F)
        /\ \/ finding' = G /\ UNCHANGED <<run, ledger>>
           \/ \E r \in DOMAIN run : run[r].status = "succeeded" /\ Carry(r, text', G)
  BY ApplyDoes
<1>2. /\ \A g \in G : g.status = "open" => \E f \in finding : f.status = "open" /\ f.issue = g.issue
      /\ \A g \in G : g.status \in {"applied", "dismissed"} =>
            g.at > 0 \/ \E f \in finding : f.status \in {"applied", "dismissed"} /\ f.at = g.at
      /\ G \subseteq Findings
  BY <1>1 DEF ApplyWith
<1>3. CASE finding' = G
  BY <1>2, <1>3 DEF OpensNone, Dated
<1>4. ASSUME NEW r \in DOMAIN run, Carry(r, text', G) PROVE OpensNone /\ Dated
  <2>1. PICK new \in Texts : new = text'
    BY <1>1, WrittenIs DEF ApplyWith
  <2>2. finding' = {f \in G : f.of # run[r].key}
                   \cup {[f EXCEPT !.of = new] : f \in {g \in G : g.of = run[r].key}}
    BY <1>4, <2>1, CarryDoes
  <2>3. \A f \in G : LET g == [f EXCEPT !.of = new] IN
           g.issue = f.issue /\ g.status = f.status /\ g.at = f.at
    BY <1>2 DEF Findings
  <2>4. \A g \in finding' : \E f \in G : g.issue = f.issue /\ g.status = f.status /\ g.at = f.at
    BY ZenonT(40), <2>2, <2>3
  <2> QED BY <1>2, <2>4 DEF OpensNone, Dated
<1> QED BY <1>1, <1>3, <1>4

\* A reading opens no issue that was decided.
LEMMA RecordOpens ==
    ASSUME Fits, NEW w \in Workers, Record(w)
    PROVE  \E raised \in SUBSET Issues, serious \in SUBSET Issues :
             /\ raised = Left(w) /\ serious = worker[w].serious
             /\ FiledAs(worker[w].plan, raised, serious, finding')
<1>1. worker[w] \in Jobs
  BY RunIs DEF Record
<1>2. PICK placed \in SUBSET Left(w) :
         finding' = Filed(worker[w].plan, Left(w), worker[w].serious, placed)
  BY RecordDoes
<1> DEFINE key == worker[w].plan
           raised == Left(w)
           serious == worker[w].serious
<1>3. key \in Texts /\ raised \in SUBSET Issues /\ serious \in SUBSET Issues
  BY <1>1 DEF Jobs, Left
<1>4. finding' = Filed(key, raised, serious, placed) /\ raised = Left(w) /\ serious = worker[w].serious
      /\ key = worker[w].plan
  BY <1>2
<1> HIDE DEF key, raised, serious
<1>5. FiledAs(key, raised, serious, Filed(key, raised, serious, placed))
  BY <1>3, FiledIs
<1> QED BY <1>3, <1>4, <1>5

\* What an editor applied is done and what they dismissed stays dismissed, until it is reopened.
THEOREM SettledIsKept == Spec => SettledStays
<1> DEFINE Stays == \A i \in Issues :
                      /\ \E f \in finding : f.issue = i /\ f.status \in {"dismissed", "applied"}
                      /\ ~\E f \in Open : f.issue = i
                      => Reopen \/ ~\E f \in Open' : f.issue = i
<1>1. ASSUME Fits, Next PROVE Stays
  <2> SUFFICES ASSUME NEW i \in Issues, NEW f \in finding,
                      f.issue = i, f.status \in {"dismissed", "applied"},
                      ~\E g \in Open : g.issue = i, ~Reopen,
                      NEW g \in finding', g.status = "open", g.issue = i
               PROVE  FALSE
    BY DEF Open
  <2>1. CASE OpensNone
    BY <2>1 DEF OpensNone, Open
  <2>2. CASE UNCHANGED finding
    BY <2>2 DEF Open
  <2>3. ASSUME NEW w \in Workers, Record(w) PROVE FALSE
    <3>1. PICK raised \in SUBSET Issues, serious \in SUBSET Issues :
             FiledAs(worker[w].plan, raised, serious, finding')
      BY <1>1, <2>3, RecordOpens
    <3>2. g \in finding \/ Settled(g.issue) = {}
      BY <3>1 DEF FiledAs
    <3>3. Settled(i) # {}
      BY <1>1, LatestDecision
    <3> QED BY <3>2, <3>3 DEF Open
  <2>4. ASSUME NEW w \in Workers,
               \/ \E r \in msg : Deliver(w, r)
               \/ Work(w) \/ CallFails(w) \/ Dies(w) \/ Sleeps(w)
        PROVE  FALSE
    BY <2>2, <2>3, <2>4 DEF Deliver, Work, ReadWindow, Answered, Check, CallFails, Dies, Sleeps
  <2>5. CASE Queue \/ Janitor
    BY <2>2, <2>5 DEF Queue, Janitor
  <2>6. CASE ApplyFindings
    BY <1>1, <2>1, <2>6, ApplyOpensNone
  <2>7. CASE HandEdit \/ RemoveBlock \/ CloseByHand
    BY <1>1, <2>1, <2>7, EditDoes
  <2>8. CASE Dismiss
    BY <1>1, <2>1, <2>8, DecideDoes
  <2> QED BY <1>1, <2>4, <2>5, <2>6, <2>7, <2>8 DEF Next
<1>2. Fits /\ [Next]_vars => [Stays]_vars
  BY <1>1
<1> QED BY <1>2, InitFits, NextFits, PTL DEF Spec, SettledStays

\* The run of a text keeps it, but for the one a carry takes along.
LEMMA KeysStay ==
    ASSUME Fits, Next, ~ApplyFindings
    PROVE  \A q \in DOMAIN run : q \in DOMAIN run' /\ run'[q].key = run[q].key
<1>1. CASE Quiet
  BY <1>1, QuietIs DEF QuietRuns, Alike
<1>2. ASSUME NEW w \in Workers, Record(w)
      PROVE  \A q \in DOMAIN run : q \in DOMAIN run' /\ run'[q].key = run[q].key
  <2>1. worker[w].run \in DOMAIN run
        /\ \E x \in Runs : Becomes(worker[w].run, x) /\ x.key = run[worker[w].run].key
    BY <1>2, RecordDoes, RunIs DEF Record
  <2> QED BY <2>1 DEF Becomes
<1>3. CASE HandEdit \/ RemoveBlock \/ CloseByHand \/ Dismiss \/ Reopen
  BY <1>3 DEF HandEdit, RemoveBlock, CloseByHand, Dismiss, Reopen
<1> QED BY <1>1, <1>2, <1>3 DEF Next, Work, Quiet

\* A current audit that is carried is of the text that now stands, with its open findings.
THEOREM CarriedIsWhole == Spec => CarriedWhole
<1> DEFINE Whole ==
      \A r \in Current : run'[r].key # run[r].key =>
         /\ run'[r].key = text' /\ run'[r].status = "succeeded"
         /\ \A f \in Open : f.of = text => \E g \in finding' :
                g.of = text' /\ g.issue = f.issue /\ g.status \in {"open", "applied"}
<1>1. ASSUME Fits, Next PROVE Whole
  <2> SUFFICES ASSUME NEW r \in Current, run'[r].key # run[r].key
               PROVE  /\ run'[r].key = text' /\ run'[r].status = "succeeded"
                      /\ \A f \in Open : f.of = text => \E g \in finding' :
                             g.of = text' /\ g.issue = f.issue /\ g.status \in {"open", "applied"}
    OBVIOUS
  <2>1. r \in DOMAIN run /\ run[r].key = text /\ run[r].status = "succeeded"
    BY DEF Current, RunsOf
  <2>2. ApplyFindings
    BY <1>1, <2>1, KeysStay
  <2>3. PICK F, G :
          /\ ApplyWith(F, G) /\ text' = Written(F)
          /\ \/ finding' = G /\ UNCHANGED <<run, ledger>>
             \/ \E q \in DOMAIN run : run[q].status = "succeeded" /\ Carry(q, text', G)
    BY <1>1, <2>2, ApplyDoes
  <2>4. PICK q \in DOMAIN run : Carry(q, text', G)
    BY <2>3
  <2>5. PICK new \in Texts : new = text'
    BY <1>1, <2>3, WrittenIs DEF ApplyWith
  <2>6. /\ \E x \in Runs : Becomes(q, x) /\ x.key = new /\ x.status = run[q].status
        /\ finding' = {f \in G : f.of # run[q].key}
                      \cup {[f EXCEPT !.of = new] : f \in {g \in G : g.of = run[q].key}}
    <3>1. Carry(q, new, G)
      BY <2>4, <2>5
    <3> QED BY <1>1, <3>1, CarryDoes
  <2>7. q = r
    BY <2>1, <2>6 DEF Becomes
  <2>8. run'[r].key = text' /\ run'[r].status = "succeeded"
    BY <2>1, <2>5, <2>6, <2>7 DEF Becomes
  <2>9. ASSUME NEW f \in Open, f.of = text
        PROVE  \E g \in finding' : g.of = text' /\ g.issue = f.issue /\ g.status \in {"open", "applied"}
    <3>1. PICK g \in G : g.of = f.of /\ g.issue = f.issue /\ g.status \in {"open", "applied"}
      BY <2>3 DEF ApplyWith, Open
    <3>2. [g EXCEPT !.of = new] \in finding'
      BY <2>1, <2>6, <2>7, <2>9, <3>1
    <3>3. g \in Findings
      BY <2>3 DEF ApplyWith
    <3>4. LET h == [g EXCEPT !.of = new] IN
            h.of = new /\ h.issue = g.issue /\ h.status = g.status
      BY <3>3 DEF Findings
    <3> QED BY <2>5, <3>1, <3>2, <3>4
  <2> QED BY <2>8, <2>9
<1>2. Fits /\ [Next]_vars => [Whole]_vars
  BY <1>1
<1> QED BY <1>2, InitFits, NextFits, PTL DEF Spec, CarriedWhole

--------------------------------------------------------------------------------
(* The order of the texts.                                                   *)

LEMMA UptoOrders ==
    ASSUME NEW t \in Words, NEW u \in Words, NEW v \in Words, MaxEdits[seats] \in Nat
    PROVE  /\ Upto(t, u) /\ Upto(u, v) => Upto(t, v)
           /\ (t.gone => t = Gone) /\ Upto(t, u) /\ Upto(u, t) => t = u
           /\ (t.gone => t = Gone) => Upto(t, t)
<1>1. t.hand \in Nat /\ u.hand \in Nat /\ v.hand \in Nat
  BY DEF Words
<1>2. Gone.gone
  BY DEF Gone
<1>3. ASSUME Upto(t, u), Upto(u, v) PROVE Upto(t, v)
  BY <1>1, <1>2, <1>3 DEF Upto
<1>4. ASSUME t.gone => t = Gone, Upto(t, u), Upto(u, t) PROVE t = u
  <2>1. CASE t.gone \/ u.gone
    BY <1>2, <1>4, <2>1 DEF Upto
  <2>2. CASE ~t.gone /\ ~u.gone
    <3>1. t.hand = u.hand /\ t.done = u.done /\ t.gone = u.gone
      BY <1>1, <1>2, <1>4, <2>2 DEF Upto, Words
    <3> QED BY <3>1 DEF Words
  <2> QED BY <2>1, <2>2
<1> QED BY <1>1, <1>3, <1>4 DEF Upto

\* Of two texts each of which comes before the other there is one.
LEMMA BeforeOrders ==
    ASSUME Fits, NEW t \in Texts, NEW u \in Texts, NEW v \in Texts
    PROVE  /\ Before(t, u) /\ Before(u, v) => Before(t, v)
           /\ (\A b \in Blocks : t[b].gone => t[b] = Gone) /\ Before(t, u) /\ Before(u, t) => t = u
           /\ (\A b \in Blocks : t[b].gone => t[b] = Gone) => Before(t, t)
<1>1. MaxEdits[seats] \in Nat
  BY InputAssumption DEF Fits, TypeOK
<1>2. \A b \in Blocks : t[b] \in Words /\ u[b] \in Words /\ v[b] \in Words
  BY DEF Texts
<1>3. Before(t, u) /\ Before(u, v) => Before(t, v)
  BY <1>1, <1>2, UptoOrders DEF Before
<1>4. ASSUME \A b \in Blocks : t[b].gone => t[b] = Gone, Before(t, u), Before(u, t) PROVE t = u
  <2>1. \A b \in Blocks : t[b] = u[b]
    BY <1>1, <1>2, <1>4, UptoOrders DEF Before
  <2> QED BY <2>1 DEF Texts
<1>5. (\A b \in Blocks : t[b].gone => t[b] = Gone) => Before(t, t)
  BY <1>1, <1>2, UptoOrders DEF Before
<1> QED BY <1>3, <1>4, <1>5

\* No text that stood before is the one an edit makes.
LEMMA EditMoves ==
    ASSUME Fits, Ordered, ~Reverts, HandEdit \/ RemoveBlock \/ CloseByHand
    PROVE  /\ text' \in Texts /\ Before(text, text')
           /\ \A b \in Blocks : (text'[b].gone => text'[b] = Gone) /\ text'[b].hand <= edits'
           /\ ~Before(text', text)
<1>1. PICK b \in Blocks, words \in Words :
        /\ ~text[b].gone /\ text' = [text EXCEPT ![b] = words]
        /\ words = Gone \/ words \in NewWords(b)
  BY EditDoes
<1>2. edits' = edits + 1 /\ edits \in Nat /\ text \in Texts /\ text' \in Texts
      /\ MaxEdits[seats] \in Nat
  BY EditDoes, InputAssumption DEF Fits, TypeOK
<1>3. words = Gone \/ words = [hand |-> edits + 1, done |-> {}, gone |-> FALSE]
  BY <1>1 DEF NewWords, First
<1>4. /\ words.gone => words = Gone
      /\ words.hand \in Nat /\ words.hand <= edits + 1
      /\ words.gone \/ words.hand = edits + 1
  BY <1>2, <1>3 DEF Gone
<1>5. text'[b] = words /\ \A c \in Blocks \ {b} : text'[c] = text[c]
  BY <1>1, <1>2 DEF Texts
<1>6. \A c \in Blocks : /\ text[c] \in Words /\ text[c].hand \in Nat /\ text[c].hand <= edits
                        /\ text[c].gone => text[c] = Gone
  BY <1>2 DEF Ordered, Texts, Words
<1>7. Upto(text[b], words) /\ ~Upto(words, text[b])
  <2>1. Gone.gone
    BY DEF Gone
  <2> QED BY <1>1, <1>2, <1>3, <1>4, <1>6, <2>1 DEF Upto
<1>8. ASSUME NEW c \in Blocks
      PROVE  /\ Upto(text[c], text'[c])
             /\ (text'[c].gone => text'[c] = Gone) /\ text'[c].hand <= edits'
  <2>1. CASE c = b
    BY <1>2, <1>4, <1>5, <1>7, <2>1
  <2>2. CASE c # b
    <3>1. Upto(text[c], text[c])
      BY <1>2, <1>6, UptoOrders
    <3> QED BY <1>2, <1>5, <1>6, <2>2, <3>1
  <2> QED BY <2>1, <2>2
<1> QED BY <1>2, <1>5, <1>7, <1>8 DEF Before

\* Suggestions are written into paragraphs that stand.
LEMMA WrittenFollows ==
    ASSUME Fits, Ordered, NEW F \in SUBSET finding, NEW G, ApplyWith(F, G)
    PROVE  /\ Written(F) \in Texts /\ Before(text, Written(F))
           /\ \A b \in Blocks : /\ Written(F)[b].gone => Written(F)[b] = Gone
                               /\ Written(F)[b].hand <= edits
                               /\ Extends(text[b], Written(F)[b])
<1>1. /\ Written(F) \in Texts
      /\ \A b \in Blocks : /\ Written(F)[b].hand = text[b].hand
                          /\ Written(F)[b].gone = text[b].gone
                          /\ text[b].done \subseteq Written(F)[b].done
  BY WrittenIs DEF ApplyWith
<1>2. ASSUME NEW b \in Blocks, text[b].gone PROVE Written(F)[b] = text[b]
  <2>1. \A f \in F : At[f.issue] # b
    BY <1>2 DEF ApplyWith
  <2>2. {f.issue : f \in {g \in F : At[g.issue] = b}} = {}
    BY <2>1
  <2>3. Written(F)[b] = [text[b] EXCEPT !.done = text[b].done \cup {}]
    BY <2>2 DEF Written
  <2>4. text[b] \in Words
    BY DEF Fits, TypeOK, Texts
  <2> QED BY <2>3, <2>4 DEF Words
<1>3. \A b \in Blocks : (text[b].gone => text[b] = Gone) /\ text[b].hand <= edits
  BY DEF Ordered
<1>4. \A b \in Blocks : Upto(text[b], Written(F)[b])
  BY <1>1, <1>2, <1>3 DEF Upto
<1> QED BY <1>1, <1>2, <1>3, <1>4 DEF Before, Extends

LEMMA OrderedNext ==
    ASSUME Fits, Ordered, ~Reverts, [Next]_vars PROVE Ordered'
<1>1. /\ text \in Texts /\ \A b \in Blocks : text[b].gone => text[b] = Gone
      /\ Before(text, text)
  BY BeforeOrders DEF Fits, TypeOK, Ordered
<1>2. \A r \in DOMAIN run : run[r].key \in Texts
  BY RunOf DEF Fits, TypeOK, Runs
<1>3. CASE Quiet
  <2>1. UNCHANGED <<text, edits>> /\ QuietRuns
    BY <1>3, QuietIs
  <2>2. \A r \in DOMAIN run' : Before(run'[r].key, text')
    BY <1>1, <2>1 DEF QuietRuns, Alike, Ordered
  <2>3. \A r, q \in DOMAIN run' : run'[r].key = run'[q].key => r = q
    <3>1. \A r \in DOMAIN run, q \in DOMAIN run' \ DOMAIN run : run'[r].key # run'[q].key
      BY <2>1 DEF QuietRuns, Alike, RunsOf
    <3>2. \A r, q \in DOMAIN run : run'[r].key = run'[q].key => r = q
      BY <2>1 DEF QuietRuns, Alike, Ordered
    <3> QED BY <2>1, <3>1, <3>2 DEF QuietRuns
  <2>4. ASSUME NEW v \in Workers, worker'[v].at # "idle"
        PROVE  /\ Before(worker'[v].plan, run'[worker'[v].run].key)
               /\ \A b \in Blocks : worker'[v].plan[b].gone => worker'[v].plan[b] = Gone
    <3>1. CASE worker'[v].plan = worker[v].plan /\ worker'[v].run = worker[v].run /\ worker[v].at # "idle"
      <4>1. run'[worker[v].run].key = run[worker[v].run].key
        BY <2>1, <3>1 DEF QuietRuns, Alike, Fits
      <4> QED BY <3>1, <4>1 DEF Ordered
    <3>2. CASE worker'[v].run \in DOMAIN run /\ run[worker'[v].run].key = text /\ worker'[v].plan = text
      <4>1. run'[worker'[v].run].key = text
        BY <2>1, <3>2 DEF QuietRuns, Alike
      <4> QED BY <1>1, <3>2, <4>1
    <3>3. CASE \E w \in Workers : Checked(w)
      <4>1. PICK w \in Workers : Checked(w)
        BY <3>3
      <4> QED BY <2>4, <3>1, <4>1 DEF Checked
    <3>4. CASE QuietJob(v)
      BY <2>4, <3>1, <3>2, <3>4 DEF QuietJob
    <3> QED BY <1>3, <3>3, <3>4, QuietIs
  <2> QED BY <2>1, <2>2, <2>3, <2>4 DEF Ordered
<1>4. ASSUME NEW w \in Workers, Record(w) PROVE Ordered'
  <2>1. PICK x \in Runs : Becomes(worker[w].run, x) /\ x.key = run[worker[w].run].key
    BY <1>4, RecordDoes
  <2>2. worker[w].run \in DOMAIN run
    BY <1>4, RunIs DEF Record
  <2>3. DOMAIN run' = DOMAIN run /\ \A q \in DOMAIN run : run'[q].key = run[q].key
    BY <2>1, <2>2 DEF Becomes
  <2>4. /\ worker' = [worker EXCEPT ![w] = IdleJob] /\ IdleJob.at = "idle"
        /\ UNCHANGED <<text, edits>>
    BY <1>4, IdleIsJob DEF Record
  <2>5. \A v \in Workers : worker'[v].at # "idle" => worker'[v] = worker[v] /\ worker[v].run \in DOMAIN run
    BY <2>4 DEF Fits, TypeOK
  <2> QED BY <2>3, <2>4, <2>5 DEF Ordered
<1>5. CASE ApplyFindings
  <2>1. UNCHANGED <<worker, edits>>
    BY <1>5 DEF ApplyFindings
  <2>2. PICK F, G :
          /\ ApplyWith(F, G) /\ text' = Written(F)
          /\ \/ UNCHANGED <<run, ledger>>
             \/ \E r \in DOMAIN run : Carry(r, text', G)
    BY <1>5, ApplyDoes
  <2>3. /\ text' \in Texts /\ Before(text, text')
        /\ \A b \in Blocks : (text'[b].gone => text'[b] = Gone) /\ text'[b].hand <= edits'
    BY <2>1, <2>2, WrittenFollows DEF ApplyWith
  <2>4. \A r \in DOMAIN run : Before(run[r].key, text')
    <3> SUFFICES ASSUME NEW r \in DOMAIN run PROVE Before(run[r].key, text')
      OBVIOUS
    <3>1. PICK k \in Texts, u \in Texts : k = run[r].key /\ u = text'
      BY <1>2, <2>3
    <3> QED BY <1>1, <2>3, <3>1, BeforeOrders DEF Ordered
  <2>5. CASE UNCHANGED run
    BY <2>1, <2>3, <2>4, <2>5 DEF Ordered
  <2>6. ASSUME NEW r \in DOMAIN run, Carry(r, text', G) PROVE Ordered'
    <3>1. PICK new \in Texts : new = text'
      BY <2>3
    <3>2. PICK x \in Runs : Becomes(r, x) /\ x.key = new
      BY <2>6, <3>1, CarryDoes
    <3>3. RunsOf(new) \subseteq {r}
      BY <2>6, <3>1 DEF Carry
    <3>4. Before(new, new)
      BY <2>3, <3>1, BeforeOrders
    <3>5. DOMAIN run' = DOMAIN run /\ run'[r].key = new /\ \A q \in DOMAIN run \ {r} : run'[q] = run[q]
      BY <3>2 DEF Becomes
    <3>6. \A q \in DOMAIN run' : Before(run'[q].key, text')
      BY <2>4, <3>1, <3>4, <3>5
    <3>7. \A p, q \in DOMAIN run' : run'[p].key = run'[q].key => p = q
      <4>1. \A p \in DOMAIN run \ {r} : run[p].key # new
        BY <3>3 DEF RunsOf
      <4> QED BY <3>5, <4>1 DEF Ordered
    <3>8. ASSUME NEW v \in Workers, worker[v].at # "idle"
          PROVE  Before(worker[v].plan, run'[worker[v].run].key)
      <4>1. worker[v].run \in DOMAIN run /\ worker[v].plan \in Texts
        BY <3>8, RunIs DEF Jobs
      <4>2. Before(worker[v].plan, run[worker[v].run].key)
        BY <3>8 DEF Ordered
      <4>3. PICK k \in Texts : k = run[worker[v].run].key
        BY <1>2, <4>1
      <4>4. Before(k, new)
        BY <2>4, <3>1, <4>1, <4>3
      <4>5. PICK t \in Texts : t = worker[v].plan
        BY <4>1
      <4>6. Before(t, new)
        BY <4>2, <4>3, <4>4, <4>5, BeforeOrders
      <4> QED BY <3>5, <4>1, <4>2, <4>5, <4>6
    <3> QED BY <2>1, <2>3, <3>6, <3>7, <3>8 DEF Ordered
  <2> QED BY <2>2, <2>5, <2>6
<1>6. CASE HandEdit \/ RemoveBlock \/ CloseByHand
  <2>1. UNCHANGED <<run, worker>>
    BY <1>6, EditDoes
  <2>2. /\ text' \in Texts /\ Before(text, text')
        /\ \A b \in Blocks : (text'[b].gone => text'[b] = Gone) /\ text'[b].hand <= edits'
    BY <1>6, EditMoves
  <2>3. ASSUME NEW r \in DOMAIN run PROVE Before(run[r].key, text')
    <3>1. PICK k \in Texts, u \in Texts : k = run[r].key /\ u = text'
      BY <1>2, <2>2
    <3> QED BY <1>1, <2>2, <3>1, BeforeOrders DEF Ordered
  <2> QED BY <2>1, <2>2, <2>3 DEF Ordered
<1>7. CASE Dismiss \/ Reopen
  <2>1. UNCHANGED <<text, edits, run, worker>>
    BY <1>7 DEF Dismiss, Reopen
  <2> QED BY <2>1 DEF Ordered
<1>8. CASE UNCHANGED vars
  BY <1>8 DEF Ordered, vars
<1> QED BY <1>3, <1>4, <1>5, <1>6, <1>7, <1>8 DEF Next, Work, Quiet

--------------------------------------------------------------------------------
(* What was read is what the run is of.                                      *)

HonestRun(x) == x.blind \/ \A b \in Blocks : Extends(x.seen[b], x.key[b])

\* The workers hold what they held, or nothing.
GotStays == \A v \in Workers : \/ worker'[v].got = {}
                               \/ worker'[v].got = worker[v].got /\ worker'[v].plan = worker[v].plan

LEMMA HonestStays ==
    ASSUME Fits, Honest, UNCHANGED ledger, GotStays,
           \A r \in DOMAIN run' : (r \in DOMAIN run /\ Alike(run[r], run'[r])) \/ HonestRun(run'[r])
    PROVE  Honest'
BY DEF Honest, HonestRun, Alike, GotStays

\* The worker w holds the answer i as well, to a question of its plan.
LEMMA HonestProgress ==
    ASSUME Fits, Honest, NEW w \in Workers, worker[w].at # "idle", NEW i \in DOMAIN ledger',
           Progress(w, worker[w].got \cup {i}),
           \A k \in DOMAIN ledger : k \in DOMAIN ledger' /\ ledger'[k] = ledger[k],
           \A k \in DOMAIN ledger' \ DOMAIN ledger :
              ~ledger'[k].key.gone /\ ~ledger'[k].read.gone /\ Extends(ledger'[k].read, ledger'[k].key),
           ~worker[w].plan[ledger'[i].at].gone,
           ledger'[i].blind \/ Extends(ledger'[i].read, worker[w].plan[ledger'[i].at])
    PROVE  Honest'
<1>2. /\ worker \in [Workers -> Jobs] /\ worker[w].run \in DOMAIN run
      /\ \A v \in Workers : \A k \in worker[v].got : k \in DOMAIN ledger
  BY RunIs DEF Fits, TypeOK
<1>3. worker' = [worker EXCEPT ![w] = [worker[w] EXCEPT !.at = "read", !.got = worker[w].got \cup {i}]]
  BY <1>2 DEF Progress
<1>4. \A r \in DOMAIN run : Alike(run[r], run'[r])
  <2> DEFINE r == worker[w].run
             got == worker[w].got \cup {i}
             results == IF Len(run[r].seats) = 1 THEN got ELSE run[r].results
             x == [run[r] EXCEPT !.silent = FALSE, !.results = results]
  <2>1. run' = [run EXCEPT ![r] = x]
    BY <1>2 DEF Progress
  <2>2. run[r] \in Runs
    BY <1>2, RunOf DEF Fits, TypeOK
  <2>3. Alike(run[r], x)
    <3> HIDE DEF results
    <3> QED BY <2>2 DEF Runs, Alike
  <2> HIDE DEF x
  <2>4. run'[r] = x /\ \A q \in DOMAIN run \ {r} : run'[q] = run[q]
    BY <1>2, <2>1 DEF Fits, TypeOK
  <2> QED BY <2>3, <2>4 DEF Alike
<1>5. DOMAIN run' = DOMAIN run
  BY DEF Progress
<1>6. /\ worker'[w].got = worker[w].got \cup {i} /\ worker'[w].plan = worker[w].plan
      /\ \A v \in Workers \ {w} : worker'[v] = worker[v]
  <2> DEFINE j == [worker[w] EXCEPT !.at = "read", !.got = worker[w].got \cup {i}]
  <2>1. worker' = [worker EXCEPT ![w] = j]
    BY <1>3
  <2>2. j.got = worker[w].got \cup {i} /\ j.plan = worker[w].plan
    BY <1>2 DEF Jobs
  <2> HIDE DEF j
  <2> QED BY <1>2, <2>1, <2>2
<1>7. ASSUME NEW v \in Workers, NEW k \in worker'[v].got
      PROVE  /\ ~worker'[v].plan[ledger'[k].at].gone
             /\ ledger'[k].blind \/ Extends(ledger'[k].read, worker'[v].plan[ledger'[k].at])
  <2>1. CASE v = w /\ k = i
    BY <1>6, <2>1
  <2>2. CASE k \in worker[v].got
    BY <1>2, <1>6, <2>2 DEF Honest
  <2> QED BY <1>6, <2>1, <2>2
<1>8. \A k \in DOMAIN ledger' : /\ ~ledger'[k].key.gone /\ ~ledger'[k].read.gone
                                /\ ledger'[k].blind \/ Extends(ledger'[k].read, ledger'[k].key)
  BY DEF Honest
<1>9. \A r \in DOMAIN run' :
         run'[r].blind \/ \A b \in Blocks : Extends(run'[r].seen[b], run'[r].key[b])
  BY <1>4, <1>5 DEF Honest, Alike
<1> QED BY <1>7, <1>8, <1>9 DEF Honest

LEMMA HonestReading ==
    ASSUME Fits, Honest, NEW w \in Workers, ReadWindow(w) \/ Answered(w) PROVE Honest'
<1> DEFINE p == NextWindow(w)
           words == worker[w].plan[p[2]]
<1>1. /\ worker[w] \in Jobs /\ worker[w].run \in DOMAIN run /\ run[worker[w].run].seats = seats
      /\ seats \in Seats /\ worker[w].at # "idle" /\ worker \in [Workers -> Jobs]
  BY ReadingDoes, RunIs DEF Fits, TypeOK
<1>2. ToRead(w) # {}
  BY <1>1 DEF ReadWindow, Answered, ToRead, Fits
<1>3. p \in Windows(worker[w].plan, seats)
  BY <1>1, <1>2, NextIsToRead DEF ToRead
<1>4. ~words.gone
  BY <1>1, <1>3, WindowsAre
<1>5. CASE UNCHANGED <<ledger, run>> /\ worker' = [worker EXCEPT ![w].at = "call"]
  <2>1. GotStays
    BY <1>1, <1>5 DEF GotStays, Jobs
  <2> QED BY <1>5, <2>1, HonestStays DEF Alike
<1>6. CASE UNCHANGED ledger
           /\ \E i \in Answers(p[1], p[2], words) : Progress(w, worker[w].got \cup {i})
  <2>1. PICK i \in DOMAIN ledger :
          /\ Progress(w, worker[w].got \cup {i})
          /\ ledger[i].at = p[2] /\ ledger[i].key = words
    BY <1>6 DEF Answers
  <2>2. ledger[i].blind \/ Extends(ledger[i].read, words)
    BY <2>1 DEF Honest
  <2> QED BY <1>1, <1>4, <1>6, <2>1, <2>2, HonestProgress
<1>7. CASE Answered(w)
  <2>1. PICK raised :
          ledger' = Append(ledger, [by |-> p[1], at |-> p[2], key |-> words, read |-> words,
                                    raised |-> raised, blind |-> FALSE])
    BY <1>7 DEF Answered
  <2> DEFINE row == [by |-> p[1], at |-> p[2], key |-> words, read |-> words,
                     raised |-> raised, blind |-> FALSE]
             n == Len(ledger) + 1
  <2>2. row.at = p[2] /\ row.key = words /\ row.read = words
    OBVIOUS
  <2>3. ledger' = Append(ledger, row)
    BY <2>1
  <2>4. Progress(w, worker[w].got \cup {n})
    BY <1>7 DEF Answered
  <2> HIDE DEF row
  <2>5. \E S : ledger \in Seq(S) /\ row \in S
    <3>1. ledger \in Seq(Rows)
      BY DEF Fits, TypeOK
    <3>2. ledger \in Seq(Rows \cup {row})
      BY <3>1
    <3> QED BY <3>2
  <2>6. /\ DOMAIN ledger' = DOMAIN ledger \cup {n} /\ ledger'[n] = row
        /\ \A k \in DOMAIN ledger : ledger'[k] = ledger[k]
    BY <2>3, <2>5, RowAdded
  <2>7. Extends(words, words)
    BY DEF Extends
  <2> HIDE DEF n, words, p
  <2>8. /\ n \in DOMAIN ledger'
        /\ \A k \in DOMAIN ledger : k \in DOMAIN ledger' /\ ledger'[k] = ledger[k]
        /\ \A k \in DOMAIN ledger' \ DOMAIN ledger :
              ~ledger'[k].key.gone /\ ~ledger'[k].read.gone /\ Extends(ledger'[k].read, ledger'[k].key)
    BY <1>4, <2>2, <2>6, <2>7
  <2>9. ~worker[w].plan[ledger'[n].at].gone /\ Extends(ledger'[n].read, worker[w].plan[ledger'[n].at])
    BY <1>4, <2>2, <2>6, <2>7 DEF words
  <2> QED BY <1>1, <2>4, <2>8, <2>9, HonestProgress
<1> QED BY <1>5, <1>6, <1>7 DEF ReadWindow

LEMMA HonestRecord ==
    ASSUME Fits, Honest, Ordered, NEW w \in Workers, Record(w) PROVE Honest'
<1> DEFINE r == worker[w].run
<1>1. PICK x \in Runs :
        /\ Becomes(r, x) /\ x.key = run[r].key
        /\ x.blind = (run[r].blind \/ \E i \in worker[w].got : ledger[i].blind)
        /\ x.seen = IF run[r].key # worker[w].plan THEN run[r].seen
                    ELSE [b \in Blocks |-> IF worker[w].plan[b].gone THEN Gone
                                           ELSE ledger[AnswerOf(w, b)].read]
  BY RecordDoes
<1>2. /\ worker[w].at = "record" /\ UNCHANGED ledger /\ r \in DOMAIN run
      /\ worker' = [worker EXCEPT ![w] = IdleJob] /\ worker \in [Workers -> Jobs]
  BY RunIs DEF Record, Fits, TypeOK
<1>3. HonestRun(x)
  <2>1. CASE run[r].blind \/ \E i \in worker[w].got : ledger[i].blind
    BY <1>1, <2>1 DEF HonestRun
  <2>2. CASE ~run[r].blind /\ run[r].key # worker[w].plan
    BY <1>1, <1>2, <2>2 DEF HonestRun, Honest
  <2>3. CASE (\A i \in worker[w].got : ~ledger[i].blind) /\ run[r].key = worker[w].plan
    <3>1. ASSUME NEW b \in Blocks PROVE Extends(x.seen[b], x.key[b])
      <4>1. CASE worker[w].plan[b].gone
        <5>1. worker[w].plan[b] = Gone
          BY <1>2, <4>1 DEF Ordered
        <5> QED BY <1>1, <2>3, <4>1, <5>1 DEF Extends
      <4>2. CASE ~worker[w].plan[b].gone
        <5>1. /\ AnswerOf(w, b) \in worker[w].got /\ ledger[AnswerOf(w, b)].at = b
          BY <1>2, <4>2, AnswerIs
        <5>2. Extends(ledger[AnswerOf(w, b)].read, worker[w].plan[b])
          BY <2>3, <5>1 DEF Honest
        <5> QED BY <1>1, <2>3, <4>2, <5>2
      <4> QED BY <4>1, <4>2
    <3> QED BY <3>1 DEF HonestRun
  <2> QED BY <2>1, <2>2, <2>3
<1>4. GotStays
  BY <1>2, IdleIsJob DEF GotStays
<1>5. \A q \in DOMAIN run' : (q \in DOMAIN run /\ Alike(run[q], run'[q])) \/ HonestRun(run'[q])
  BY <1>1, <1>2, <1>3 DEF Becomes, Alike
<1> QED BY <1>2, <1>4, <1>5, HonestStays

LEMMA HonestApply ==
    ASSUME Fits, Honest, Ordered, ApplyFindings PROVE Honest'
<1>1. PICK F, G :
        /\ ApplyWith(F, G) /\ text' = Written(F)
        /\ \/ UNCHANGED <<run, ledger>>
           \/ \E r \in DOMAIN run : Carry(r, text', G)
  BY ApplyDoes
<1>2. UNCHANGED worker
  BY DEF ApplyFindings
<1>3. CASE UNCHANGED <<run, ledger>>
  BY <1>2, <1>3, HonestStays DEF GotStays, Alike
<1>4. ASSUME NEW r \in DOMAIN run, Carry(r, text', G) PROVE Honest'
  <2>1. PICK new \in Texts : new = text' /\ \A b \in Blocks : Extends(text[b], new[b])
    BY <1>1, WrittenFollows DEF ApplyWith
  <2>2. /\ \E x \in Runs : /\ Becomes(r, x) /\ x.key = new /\ x.seen = run[r].seen
                           /\ x.blind = (run[r].blind \/ run[r].key # text)
        /\ DOMAIN ledger' = DOMAIN ledger
        /\ \A i \in DOMAIN ledger : Rekeyed(ledger[i], new, text, ledger'[i])
    <3>1. Carry(r, new, G)
      BY <1>4, <2>1
    <3> QED BY <3>1, CarryDoes
  <2>3. ASSUME NEW i \in DOMAIN ledger
        PROVE  /\ ledger'[i].at = ledger[i].at /\ ledger'[i].read = ledger[i].read
               /\ ledger[i].blind => ledger'[i].blind
               /\ ~ledger'[i].key.gone
               /\ ledger'[i].blind \/ Extends(ledger'[i].read, ledger'[i].key)
    <3>1. ledger[i] \in Rows /\ ledger[i].at \in Blocks
      <4>1. ledger[i] \in Rows
        BY ElementOfSeq DEF Fits, TypeOK
      <4> QED BY <4>1 DEF Rows
    <3>2. CASE ledger'[i] = ledger[i]
      BY <3>2 DEF Honest
    <3>3. CASE /\ ~new[ledger[i].at].gone
               /\ ledger'[i] = [ledger[i] EXCEPT !.key = new[ledger[i].at],
                                    !.blind = (ledger[i].blind \/ ledger[i].key # text[ledger[i].at])]
      <4>1. /\ ledger'[i].at = ledger[i].at /\ ledger'[i].read = ledger[i].read
            /\ ledger'[i].key = new[ledger[i].at]
            /\ ledger'[i].blind = (ledger[i].blind \/ ledger[i].key # text[ledger[i].at])
        BY <3>1, <3>3 DEF Rows
      <4>2. ledger'[i].blind \/ Extends(ledger[i].read, text[ledger[i].at])
        BY <4>1 DEF Honest
      <4>3. Extends(text[ledger[i].at], new[ledger[i].at])
        BY <2>1, <3>1
      <4> QED BY <3>3, <4>1, <4>2, <4>3 DEF Extends
    <3> QED BY <2>2, <3>2, <3>3 DEF Rekeyed
  <2>4. \A q \in DOMAIN run' : run'[q].blind \/ \A b \in Blocks : Extends(run'[q].seen[b], run'[q].key[b])
    <3>1. PICK x \in Runs : /\ Becomes(r, x) /\ x.key = new /\ x.seen = run[r].seen
                            /\ x.blind = (run[r].blind \/ run[r].key # text)
      BY <2>2
    <3>2. x.blind \/ \A b \in Blocks : Extends(x.seen[b], x.key[b])
      <4>1. x.blind \/ \A b \in Blocks : Extends(run[r].seen[b], text[b])
        BY <3>1 DEF Honest
      <4> QED BY <2>1, <3>1, <4>1 DEF Extends
    <3> QED BY <3>1, <3>2 DEF Becomes, Honest
  <2>5. ASSUME NEW v \in Workers, NEW i \in worker'[v].got
        PROVE  /\ ~worker'[v].plan[ledger'[i].at].gone
               /\ ledger'[i].blind \/ Extends(ledger'[i].read, worker'[v].plan[ledger'[i].at])
    <3>1. i \in DOMAIN ledger
      BY <1>2 DEF Fits
    <3> QED BY <1>2, <2>3, <3>1 DEF Honest
  <2>6. \A i \in DOMAIN ledger' : ~ledger'[i].read.gone
    BY <2>2, <2>3 DEF Honest
  <2> QED BY <2>2, <2>3, <2>4, <2>5, <2>6 DEF Honest
<1> QED BY <1>1, <1>3, <1>4

LEMMA HonestNext ==
    ASSUME Fits, Honest, Ordered, [Next]_vars PROVE Honest'
<1>1. ASSUME Quiet, UNCHANGED ledger, GotStays PROVE Honest'
  <2>1. \A r \in DOMAIN run' : (r \in DOMAIN run /\ Alike(run[r], run'[r])) \/ HonestRun(run'[r])
    BY <1>1, QuietIs DEF QuietRuns, HonestRun, Extends
  <2> QED BY <1>1, <2>1, HonestStays
<1>2. worker \in [Workers -> Jobs] /\ IdleJob.got = {}
  BY IdleIsJob DEF Fits, TypeOK
<1>3. CASE Queue \/ Janitor
  <2>1. UNCHANGED <<ledger, worker>>
    BY <1>3 DEF Queue, Janitor
  <2> QED BY <1>1, <1>3, <2>1 DEF Quiet, GotStays
<1>4. ASSUME NEW w \in Workers, NEW r \in msg, Deliver(w, r) PROVE Honest'
  <2>1. UNCHANGED ledger
    BY <1>4 DEF Deliver
  <2>2. Claimed(r, text).got = {}
    BY DEF Claimed, IdleJob
  <2>3. UNCHANGED worker \/ worker' = [worker EXCEPT ![w] = Claimed(r, text)]
    BY <1>4, DeliverDoes
  <2>4. GotStays
    BY <1>2, <2>2, <2>3 DEF GotStays
  <2> QED BY <1>1, <1>4, <2>1, <2>4 DEF Quiet
<1>5. ASSUME NEW w \in Workers, Check(w) PROVE Honest'
  <2>1. UNCHANGED ledger
    BY <1>5 DEF Check
  <2>2. GotStays
    BY <1>2, <1>5, CheckDoes DEF GotStays, Fails
  <2> QED BY <1>1, <1>5, <2>1, <2>2 DEF Quiet
<1>6. ASSUME NEW w \in Workers, CallFails(w) \/ Dies(w) \/ Sleeps(w) PROVE Honest'
  <2>1. UNCHANGED ledger
    BY <1>6 DEF CallFails, Dies, Sleeps
  <2>2. GotStays
    BY <1>2, <1>6 DEF GotStays, CallFails, Fails, Dies, Sleeps
  <2> QED BY <1>1, <1>6, <2>1, <2>2 DEF Quiet
<1>7. CASE HandEdit \/ RemoveBlock \/ CloseByHand \/ Dismiss \/ Reopen
  <2>1. UNCHANGED <<run, ledger, worker>>
    BY <1>7 DEF HandEdit, RemoveBlock, CloseByHand, Dismiss, Reopen
  <2> QED BY <2>1 DEF Honest
<1>8. CASE UNCHANGED vars
  BY <1>8 DEF Honest, vars
<1> QED BY <1>3, <1>4, <1>5, <1>6, <1>7, <1>8, HonestReading, HonestRecord, HonestApply DEF Next, Work

--------------------------------------------------------------------------------
(* Two auditors: one worker to a run.                                        *)

\* A busy worker's run is running, and has no other worker.
Alone == /\ \A w \in Workers : worker[w].at # "idle" => run[worker[w].run].status = "running"
         /\ \A v, w \in Workers : worker[v].at # "idle" /\ worker[v].run = worker[w].run => v = w

\* The run r becomes x while w takes up the job j: a run that stops running has lost its worker.
LEMMA AloneStays ==
    ASSUME Fits, Alone, NEW w \in Workers, NEW j, NEW r \in DOMAIN run, NEW x, Becomes(r, x),
           worker' = [worker EXCEPT ![w] = j],
           j.at # "idle" => j.run = r /\ x.status = "running",
           j.at = "idle" => j.run = 0,
           \A v \in Workers \ {w} : worker[v].at # "idle" => worker[v].run # r
    PROVE  Alone'
<1>1. /\ worker \in [Workers -> Jobs] /\ 0 \notin DOMAIN run
      /\ \A v \in Workers : worker[v].at # "idle" => worker[v].run \in DOMAIN run
      /\ \A v \in Workers : worker[v].at = "idle" => worker[v].run = 0
  <2>1. run \in Seq(Runs)
    BY DEF Fits, TypeOK
  <2> QED BY <2>1 DEF Fits, TypeOK
<1>2. worker'[w] = j /\ \A v \in Workers \ {w} : worker'[v] = worker[v]
  BY <1>1
<1>3. run'[r] = x /\ \A q \in DOMAIN run \ {r} : run'[q] = run[q]
  BY DEF Becomes
<1>4. ASSUME NEW v \in Workers, worker'[v].at # "idle" PROVE run'[worker'[v].run].status = "running"
  BY <1>1, <1>2, <1>3, <1>4 DEF Alone
<1>5. ASSUME NEW u \in Workers, NEW v \in Workers,
             worker'[u].at # "idle", worker'[u].run = worker'[v].run
      PROVE  u = v
  <2>1. CASE u # w /\ v # w
    BY <1>2, <1>5, <2>1 DEF Alone
  <2>2. CASE u = w /\ v # w
    BY <1>1, <1>2, <1>5, <2>2
  <2>3. CASE u # w /\ v = w
    BY <1>1, <1>2, <1>5, <2>3
  <2> QED BY <2>1, <2>2, <2>3
<1> QED BY <1>4, <1>5 DEF Alone

LEMMA SingleNext ==
    ASSUME Fits, Single, Steady, [Next]_vars PROVE Single'
<1> SUFFICES ASSUME Len(seats) # 1 PROVE Alone' /\ \A r \in DOMAIN run' : ~run'[r].silent
  <2>1. UNCHANGED seats
    BY ZenonT(40) DEF Next, vars, Queue, Janitor, ApplyFindings, HandEdit, RemoveBlock, CloseByHand, Dismiss,
           Reopen, Deliver, Work, ReadWindow, Answered, Check, Record, CallFails, Dies, Sleeps
  <2> QED BY <2>1 DEF Single, Alone
<1>1. Alone /\ \A r \in DOMAIN run : ~run[r].silent
  BY DEF Single, Alone
<1>2. MaxLosses[seats] = 0 /\ lost = 0
  BY InputAssumption DEF Steady, Fits, TypeOK
<1>3. worker \in [Workers -> Jobs] /\ 0 \notin DOMAIN run /\ IdleJob.at = "idle" /\ IdleJob.run = 0
  <2>1. run \in Seq(Runs)
    BY DEF Fits, TypeOK
  <2> QED BY <2>1, IdleIsJob DEF Fits, TypeOK
<1>4. ASSUME NEW r \in DOMAIN run, NEW x, Becomes(r, x), ~x.silent
      PROVE  \A q \in DOMAIN run' : ~run'[q].silent
  BY <1>1, <1>4 DEF Becomes
<1>5. ASSUME NEW r \in DOMAIN run, NEW x, Becomes(r, x), ~x.silent,
             run[r].status # "running" \/ x.status = "running", UNCHANGED worker
      PROVE  Alone' /\ \A q \in DOMAIN run' : ~run'[q].silent
  <2>1. \A v \in Workers : worker[v].at # "idle" => worker[v].run \in DOMAIN run
    BY DEF Fits
  <2>2. \A v \in Workers : worker[v].at # "idle" => run'[worker[v].run].status = "running"
    BY <1>1, <1>5, <2>1 DEF Becomes, Alone
  <2> QED BY <1>1, <1>4, <1>5, <2>2 DEF Alone
<1>6. CASE Queue
  <2>1. UNCHANGED worker
    BY <1>6 DEF Queue
  <2>2. CASE \E x \in Runs : run' = Append(run, x) /\ ~x.silent
    <3>1. PICK x \in Runs : run' = Append(run, x) /\ ~x.silent
      BY <2>2
    <3>2. run \in Seq(Runs)
      BY DEF Fits, TypeOK
    <3>3. /\ DOMAIN run' = DOMAIN run \cup {Len(run) + 1} /\ run'[Len(run) + 1] = x
          /\ \A i \in DOMAIN run : run'[i] = run[i]
      BY <3>1, <3>2, RowAdded
    <3> QED BY <1>1, <2>1, <3>1, <3>3 DEF Alone, Fits
  <2>3. CASE \E r \in DOMAIN run, x \in Runs :
               Becomes(r, x) /\ ~x.silent /\ (run[r].status = "running" => run[r].silent)
    BY <1>1, <1>5, <2>1, <2>3
  <2> QED BY <1>6, <2>2, <2>3, QueueDoes
<1>7. CASE Janitor
  BY <1>1, <1>7 DEF Janitor
<1>8. ASSUME NEW w \in Workers, NEW r \in msg, Deliver(w, r)
      PROVE  Alone' /\ \A q \in DOMAIN run' : ~run'[q].silent
  <2>1. r \in DOMAIN run /\ worker[w].at = "idle"
    BY <1>8 DEF Deliver, Fits, TypeOK
  <2>2. CASE UNCHANGED <<run, worker>>
    BY <1>1, <2>2 DEF Alone
  <2>3. CASE \E x \in Runs :
               /\ run[r].status = "queued" /\ Becomes(r, x)
               /\ x.status = "running" /\ ~x.silent
               /\ worker' = [worker EXCEPT ![w] = Claimed(r, text)]
    <3>1. PICK x \in Runs :
               /\ run[r].status = "queued" /\ Becomes(r, x)
               /\ x.status = "running" /\ ~x.silent
               /\ worker' = [worker EXCEPT ![w] = Claimed(r, text)]
      BY <2>3
    <3>2. Claimed(r, text).at = "read" /\ Claimed(r, text).run = r
      BY DEF Claimed, IdleJob
    <3>3. \A v \in Workers \ {w} : worker[v].at # "idle" => worker[v].run # r
      BY <1>1, <3>1 DEF Alone
    <3>4. Alone'
      BY <1>1, <2>1, <3>1, <3>2, <3>3, AloneStays
    <3> QED BY <1>4, <2>1, <3>1, <3>4
  <2>4. CASE \E x \in Runs :
               /\ run[r].status = "queued" /\ Becomes(r, x) /\ x.silent = run[r].silent
               /\ UNCHANGED worker
    BY <1>1, <1>5, <2>1, <2>4
  <2> QED BY <1>8, <2>2, <2>3, <2>4, DeliverDoes
<1>9. ASSUME NEW w \in Workers, worker[w].at # "idle", NEW x, NEW j,
             Becomes(worker[w].run, x), ~x.silent, worker' = [worker EXCEPT ![w] = j],
             IF j.at = "idle" THEN j.run = 0 ELSE j.run = worker[w].run /\ x.status = "running"
      PROVE  Alone' /\ \A q \in DOMAIN run' : ~run'[q].silent
  <2>1. worker[w].run \in DOMAIN run
    BY <1>9 DEF Fits
  <2>2. \A v \in Workers \ {w} : worker[v].at # "idle" => worker[v].run # worker[w].run
    BY <1>1 DEF Alone
  <2>3. Alone'
    BY <1>1, <1>9, <2>1, <2>2, AloneStays
  <2> QED BY <1>4, <1>9, <2>1, <2>3
<1>10. ASSUME NEW w \in Workers, worker[w].at # "idle", UNCHANGED run, NEW j,
              worker' = [worker EXCEPT ![w] = j], j.run = worker[w].run
       PROVE  Alone' /\ \A q \in DOMAIN run' : ~run'[q].silent
  <2>1. /\ \A v \in Workers : worker'[v].run = worker[v].run
        /\ \A v \in Workers : worker'[v].at # "idle" => worker[v].at # "idle"
    BY <1>3, <1>10
  <2> QED BY <1>1, <1>10, <2>1 DEF Alone
<1>11. ASSUME NEW w \in Workers, worker[w].at # "idle", Fails(w)
       PROVE  Alone' /\ \A q \in DOMAIN run' : ~run'[q].silent
  <2>1. PICK x \in Runs : Becomes(worker[w].run, x) /\ x.silent = run[worker[w].run].silent
    BY <1>11, FailsDoes
  <2>2. worker[w].run \in DOMAIN run /\ worker' = [worker EXCEPT ![w] = IdleJob]
    BY <1>11 DEF Fits, Fails
  <2> QED BY <1>1, <1>3, <1>9, <1>11, <2>1, <2>2
<1>12. ASSUME NEW w \in Workers, ReadWindow(w) \/ Answered(w)
       PROVE  Alone' /\ \A q \in DOMAIN run' : ~run'[q].silent
  <2>1. worker[w].at # "idle" /\ worker[w] \in Jobs
    BY <1>12, ReadingDoes, RunIs
  <2>2. CASE worker' = [worker EXCEPT ![w].at = "call"] /\ UNCHANGED run
    <3> DEFINE j == [worker[w] EXCEPT !.at = "call"]
    <3>1. worker' = [worker EXCEPT ![w] = j] /\ j.run = worker[w].run
      BY <1>3, <2>1, <2>2 DEF Jobs
    <3> HIDE DEF j
    <3> QED BY <1>10, <2>1, <2>2, <3>1
  <2>3. ASSUME NEW got \in SUBSET Nat, Progress(w, got)
        PROVE  Alone' /\ \A q \in DOMAIN run' : ~run'[q].silent
    <3> DEFINE j == [worker[w] EXCEPT !.at = "read", !.got = got]
    <3>1. PICK x \in Runs : Becomes(worker[w].run, x) /\ x.status = run[worker[w].run].status /\ ~x.silent
      BY <2>1, <2>3, ProgressDoes
    <3>2. worker' = [worker EXCEPT ![w] = j]
      BY <2>1, <2>3, ProgressDoes
    <3>3. j.at = "read" /\ j.run = worker[w].run
      BY <2>1 DEF Jobs
    <3> HIDE DEF j
    <3>4. x.status = "running"
      BY <1>1, <2>1, <3>1 DEF Alone
    <3> QED BY <1>9, <2>1, <3>1, <3>2, <3>3, <3>4
  <2> QED BY <1>12, <2>2, <2>3, ReadingDoes
<1>13. ASSUME NEW w \in Workers, Check(w)
       PROVE  Alone' /\ \A q \in DOMAIN run' : ~run'[q].silent
  <2>1. worker[w].at # "idle"
    BY <1>13 DEF Check
  <2>2. \/ Fails(w)
        \/ UNCHANGED run /\ \E j \in Jobs : worker' = [worker EXCEPT ![w] = j] /\ j.run = worker[w].run
    BY <1>13, CheckDoes
  <2> QED BY <1>10, <1>11, <2>1, <2>2
<1>14. ASSUME NEW w \in Workers, Record(w)
       PROVE  Alone' /\ \A q \in DOMAIN run' : ~run'[q].silent
  <2>1. worker[w].at # "idle" /\ worker' = [worker EXCEPT ![w] = IdleJob]
    BY <1>14 DEF Record
  <2>2. PICK x \in Runs : Becomes(worker[w].run, x) /\ ~x.silent
    BY <1>14, RecordDoes
  <2> QED BY <1>3, <1>9, <2>1, <2>2
<1>15. ASSUME NEW w \in Workers, CallFails(w) \/ Dies(w) \/ Sleeps(w)
       PROVE  Alone' /\ \A q \in DOMAIN run' : ~run'[q].silent
  <2>1. ~Dies(w) /\ ~Sleeps(w)
    BY <1>2 DEF Dies, Sleeps
  <2> QED BY <1>11, <1>15, <2>1, CallsBusy DEF CallFails
<1>16. CASE ApplyFindings
  <2>1. UNCHANGED worker
    BY <1>16 DEF ApplyFindings
  <2>2. PICK F, G :
          /\ F \subseteq finding /\ text' = Written(F)
          /\ UNCHANGED run \/ \E r \in DOMAIN run : Carry(r, text', G)
    BY <1>16, ApplyDoes DEF ApplyWith
  <2>3. CASE UNCHANGED run
    BY <1>1, <2>1, <2>3 DEF Alone
  <2>4. ASSUME NEW r \in DOMAIN run, Carry(r, text', G)
        PROVE  Alone' /\ \A q \in DOMAIN run' : ~run'[q].silent
    <3>1. PICK new \in Texts : new = text'
      BY <2>2, WrittenIs DEF ApplyWith
    <3>2. Carry(r, new, G)
      BY <2>4, <3>1
    <3>3. PICK x \in Runs : Becomes(r, x) /\ x.status = run[r].status /\ x.silent = run[r].silent
      BY <3>2, CarryDoes
    <3> QED BY <1>1, <1>5, <2>1, <3>3
  <2> QED BY <2>2, <2>3, <2>4
<1>17. CASE HandEdit \/ RemoveBlock \/ CloseByHand \/ Dismiss \/ Reopen \/ UNCHANGED vars
  <2>1. UNCHANGED <<run, worker>>
    BY <1>17 DEF HandEdit, RemoveBlock, CloseByHand, Dismiss, Reopen, vars
  <2> QED BY <1>1, <2>1 DEF Alone
<1> QED BY <1>6, <1>7, <1>8, <1>12, <1>13, <1>14, <1>15, <1>16, <1>17 DEF Next, Work

--------------------------------------------------------------------------------
(* The gate.                                                                 *)

\* No run becomes current but by a filing or a carry.
LEMMA CurrentShrinks ==
    ASSUME Fits, UNCHANGED text, QuietRuns
    PROVE  \A r \in Current' : r \in Current /\ Alike(run[r], run'[r])
BY DEF QuietRuns, Current, RunsOf, Alike

\* After an edit no audit is current.
LEMMA EditStales ==
    ASSUME Fits, Ordered, ~Reverts, HandEdit \/ RemoveBlock \/ CloseByHand
    PROVE  Current' = {}
<1>1. text' \in Texts /\ ~Before(text', text) /\ UNCHANGED run
  BY EditMoves, EditDoes
<1>2. \A r \in DOMAIN run : run[r].key # text'
  BY <1>1 DEF Ordered
<1> QED BY <1>1, <1>2 DEF Current, RunsOf

\* Where the suggestions written in change a text whose audit they leave behind, none is current.
LEMMA ApplyStales ==
    ASSUME Fits, Ordered, ApplyFindings, UNCHANGED run PROVE UNCHANGED text \/ Current' = {}
<1>1. PICK F, G : ApplyWith(F, G) /\ text' = Written(F)
  BY ApplyDoes
<1>2. text' \in Texts /\ Before(text, text')
  BY <1>1, WrittenFollows DEF ApplyWith
<1>3. ASSUME NEW r \in DOMAIN run, run[r].key = text' PROVE text' = text
  <2>1. PICK t \in Texts, u \in Texts : t = text /\ u = text'
    BY <1>2 DEF Fits, TypeOK
  <2>2. Before(t, u) /\ Before(u, t) /\ \A b \in Blocks : t[b].gone => t[b] = Gone
    BY <1>2, <1>3, <2>1 DEF Ordered
  <2> QED BY <2>1, <2>2, BeforeOrders
<1> QED BY <1>3 DEF Current, RunsOf

LEMMA FilingNext ==
    ASSUME Fits, Ordered, Filing, Prompt, ~Reverts, [Next]_vars PROVE Filing'
<1>1. worker \in [Workers -> Jobs]
  BY DEF Fits, TypeOK
<1>2. CASE Quiet
  <2>1. UNCHANGED <<text, seats>> /\ QuietRuns
    BY <1>2, QuietIs
  <2>2. Current' \subseteq Current
    BY <2>1, CurrentShrinks
  <2>3. ASSUME NEW v \in Workers, worker'[v].at = "record", worker'[v] = worker[v]
        PROVE  /\ run'[worker'[v].run].key = worker'[v].plan
               /\ text' # worker'[v].plan => Current' = {}
               /\ worker'[v].serious \subseteq Material
               /\ Len(seats') = 1 => worker'[v].kept \cap Material \subseteq worker'[v].serious
    <3>1. worker[v].run \in DOMAIN run
      BY <2>3 DEF Fits
    <3> QED BY <2>1, <2>2, <2>3, <3>1 DEF Filing, QuietRuns, Alike
  <2>4. CASE \A v \in Workers : QuietJob(v)
    <3>1. \A v \in Workers : worker'[v].at = "record" => worker'[v] = worker[v]
      BY <2>4 DEF QuietJob
    <3> QED BY <2>3, <3>1 DEF Filing
  <2>5. ASSUME NEW w \in Workers, Checked(w) PROVE Filing'
    <3>1. /\ worker[w].at = "read" /\ text = worker[w].plan /\ UNCHANGED run
          /\ \A v \in Workers : worker[v].at # "record"
          /\ worker'[w].plan = worker[w].plan /\ worker'[w].run = worker[w].run
          /\ worker'[w].serious \subseteq Material
          /\ Len(seats) = 1 => worker'[w].kept \cap Material \subseteq worker'[w].serious
          /\ \A v \in Workers \ {w} : worker'[v] = worker[v]
      BY <2>5 DEF Checked
    <3>2. run[worker[w].run].key = worker[w].plan
      <4>1. worker[w].run \in DOMAIN run /\ run[worker[w].run] \in Runs
        BY <3>1, RunIs
      <4>2. PICK t \in Texts, k \in Texts : t = text /\ k = run[worker[w].run].key
        BY <4>1 DEF Runs, Fits, TypeOK
      <4>3. Before(t, k) /\ Before(k, t) /\ \A b \in Blocks : t[b].gone => t[b] = Gone
        BY <3>1, <4>1, <4>2 DEF Ordered
      <4> QED BY <3>1, <4>2, <4>3, BeforeOrders
    <3> QED BY <2>1, <3>1, <3>2 DEF Filing
  <2> QED BY <1>2, <2>4, <2>5, QuietIs
<1>3. ASSUME NEW w \in Workers, Record(w) PROVE Filing'
  <2>1. worker' = [worker EXCEPT ![w] = IdleJob] /\ worker[w].at = "record" /\ IdleJob.at = "idle"
    BY <1>3, IdleIsJob DEF Record
  <2>2. \A v \in Workers : worker'[v].at # "record"
    BY <1>1, <2>1 DEF Filing
  <2> QED BY <2>2 DEF Filing
<1>4. CASE ApplyFindings
  <2>1. UNCHANGED worker /\ \A v \in Workers : worker[v].at # "record"
    BY <1>4 DEF ApplyFindings
  <2> QED BY <2>1 DEF Filing
<1>5. CASE HandEdit \/ RemoveBlock \/ CloseByHand
  <2>1. UNCHANGED <<seats, run, worker>>
    BY <1>5, EditDoes
  <2>2. Current' = {}
    BY <1>5, EditStales
  <2> QED BY <2>1, <2>2 DEF Filing
<1>6. CASE Dismiss \/ Reopen \/ UNCHANGED vars
  <2>1. UNCHANGED <<text, seats, run, worker>>
    BY <1>6 DEF Dismiss, Reopen, vars
  <2> QED BY <2>1 DEF Filing, Current, RunsOf
<1> QED BY <1>2, <1>3, <1>4, <1>5, <1>6 DEF Next, Work, Quiet

\* A filing answers for every serious issue of the audit it makes current.
LEMMA RecordDecidable ==
    ASSUME Fits, Ordered, Single, Filing, Decidable, NEW w \in Workers, Record(w) PROVE Decidable'
<1> DEFINE r == worker[w].run
<1>1. PICK x \in Runs :
        /\ Becomes(r, x) /\ x.key = run[r].key
        /\ x.raised = (IF run[r].status = "succeeded" THEN run[r].raised ELSE {})
                      \cup (Left(w) \cap worker[w].serious)
        /\ x.blind = (run[r].blind \/ \E i \in worker[w].got : ledger[i].blind)
  BY RecordDoes
<1>2. PICK raised \in SUBSET Issues, serious \in SUBSET Issues :
        /\ raised = Left(w) /\ serious = worker[w].serious
        /\ FiledAs(worker[w].plan, raised, serious, finding')
  BY RecordOpens
<1>3. /\ worker[w].at = "record" /\ UNCHANGED <<text, seats>> /\ r \in DOMAIN run
      /\ run[r].key = worker[w].plan /\ serious \subseteq Material
      /\ text # worker[w].plan => Current = {}
      /\ Len(seats) = 1 => worker[w].kept \cap Material \subseteq serious
  BY <1>2, RunIs DEF Record, Filing
<1>4. /\ DOMAIN run' = DOMAIN run /\ run'[r] = x /\ \A q \in DOMAIN run \ {r} : run'[q] = run[q]
  BY <1>1 DEF Becomes
<1>5. \A q \in DOMAIN run' : run'[q].raised \subseteq Material
  BY <1>1, <1>2, <1>3, <1>4 DEF Decidable
<1>6. \A f \in finding' : f.status \in {"applied", "dismissed"} => f.at > 0
  BY <1>2 DEF FiledAs, Decidable
<1>7. CASE text # worker[w].plan
  <2>1. Current' = {}
    BY <1>1, <1>3, <1>4, <1>7 DEF Current, RunsOf
  <2> QED BY <1>5, <1>6, <2>1 DEF Decidable
<1>8. CASE text = worker[w].plan
  <2>1. Current' \subseteq {r}
    BY <1>3, <1>4, <1>8 DEF Ordered, Current, RunsOf
  <2>2. ASSUME NEW i \in x.raised, ~x.blind, ~text[At[i]].gone
        PROVE  \E f \in finding' : AnswersFor(f, i, text)
    <3>1. CASE i \in raised /\ i \in serious
      <4>1. CASE \E f \in finding : f.issue = i /\ f.status = "applied"
        <5>1. PICK f \in finding : f.issue = i /\ f.status = "applied"
          BY <4>1
        <5>2. \/ f \in finding'
              \/ \E g \in finding' : g.of = text /\ g.issue = i /\ g.serious
                                     /\ g.status \in {"open", "dismissed"}
          BY <1>2, <1>8, <3>1, <5>1 DEF FiledAs
        <5> QED BY <5>1, <5>2 DEF AnswersFor
      <4>2. CASE \E g \in finding' : /\ g.of = text /\ g.issue = i /\ g.serious
                                     /\ g.status \in {"open", "dismissed"}
        BY <4>2 DEF AnswersFor
      <4> QED BY <1>2, <1>8, <3>1, <4>1, <4>2 DEF FiledAs
    <3>2. CASE run[r].status = "succeeded" /\ i \in run[r].raised
      <4>1. Len(seats) = 1
        BY <1>3, <3>2 DEF Single
      <4>2. r \in Current /\ ~run[r].blind
        BY <1>1, <1>3, <1>8, <2>2, <3>2 DEF Current, RunsOf
      <4>3. PICK f \in finding : AnswersFor(f, i, text)
        BY <2>2, <3>2, <4>2 DEF Decidable
      <4>4. CASE f \in finding'
        BY <4>3, <4>4
      <4>5. CASE /\ f.issue \in raised
                 /\ \E g \in finding' : /\ g.of = text /\ g.issue = f.issue
                                        /\ (g.serious <=> f.issue \in serious)
                                        /\ g.status \in {"open", "dismissed"}
        <5>1. f.issue = i /\ i \in Material
          BY <1>3, <3>2, <4>3 DEF AnswersFor, Decidable
        <5>2. i \in serious
          BY <1>2, <1>3, <4>1, <4>5, <5>1 DEF Left
        <5> QED BY <4>5, <5>1, <5>2 DEF AnswersFor
      <4> QED BY <1>2, <1>8, <4>3, <4>4, <4>5 DEF FiledAs, AnswersFor
    <3> QED BY <1>1, <1>2, <2>2, <3>1, <3>2
  <2>3. \A q \in Current' : run'[q].blind \/ \A i \in run'[q].raised :
           text'[At[i]].gone \/ \E f \in finding' : AnswersFor(f, i, text')
    BY <1>3, <1>4, <2>1, <2>2
  <2> QED BY <1>5, <1>6, <2>3 DEF Decidable
<1> QED BY <1>7, <1>8

\* Written in, a suggestion answers for its issue; a carried audit takes its findings along.
LEMMA ApplyDecidable ==
    ASSUME Fits, Ordered, Decidable, ApplyFindings PROVE Decidable'
<1>1. PICK F, G :
        /\ ApplyWith(F, G) /\ text' = Written(F)
        /\ \/ finding' = G /\ UNCHANGED <<run, ledger>>
           \/ \E r \in DOMAIN run : run[r].status = "succeeded" /\ Carry(r, text', G)
  BY ApplyDoes
<1>2. Dated
  BY ApplyOpensNone
<1>3. \A f \in finding' : f.status \in {"applied", "dismissed"} => f.at > 0
  BY <1>2 DEF Dated, Decidable
<1>4. ASSUME NEW f \in finding, NEW i, NEW t, AnswersFor(f, i, t)
      PROVE  \E g \in G : AnswersFor(g, i, t) /\ (g.of = f.of)
  <2>1. PICK g \in G :
          /\ g.of = f.of /\ g.issue = f.issue /\ g.serious = f.serious
          /\ IF f \in F THEN g.status = "applied" ELSE g.status = f.status
    BY <1>1 DEF ApplyWith
  <2> QED BY <1>4, <2>1 DEF AnswersFor
<1>5. CASE finding' = G /\ UNCHANGED run
  <2>1. CASE UNCHANGED text
    <3>1. Current' = Current
      BY <1>5, <2>1 DEF Current, RunsOf
    <3>2. \A r \in Current' : run'[r].blind \/ \A i \in run'[r].raised :
             text'[At[i]].gone \/ \E f \in finding' : AnswersFor(f, i, text')
      BY <1>4, <1>5, <2>1, <3>1 DEF Decidable
    <3> QED BY <1>3, <1>5, <3>2 DEF Decidable
  <2>2. CASE Current' = {}
    BY <1>3, <1>5, <2>2 DEF Decidable
  <2> QED BY <1>5, <2>1, <2>2, ApplyStales
<1>6. ASSUME NEW r \in DOMAIN run, run[r].status = "succeeded", Carry(r, text', G)
      PROVE  Decidable'
  <2>1. PICK new \in Texts : new = text' /\ \A b \in Blocks : new[b].gone = text[b].gone
    BY <1>1, WrittenIs DEF ApplyWith
  <2>2. Carry(r, new, G)
    BY <1>6, <2>1
  <2>3. PICK x \in Runs :
          /\ Becomes(r, x) /\ x.key = new /\ x.raised = run[r].raised
          /\ x.blind = (run[r].blind \/ run[r].key # text)
    BY <2>2, CarryDoes
  <2>4. /\ RunsOf(new) \subseteq {r}
        /\ finding' = {f \in G : f.of # run[r].key}
                      \cup {[f EXCEPT !.of = new] : f \in {g \in G : g.of = run[r].key}}
    BY <2>2, CarryDoes
  <2>5. /\ DOMAIN run' = DOMAIN run /\ run'[r] = x /\ \A q \in DOMAIN run \ {r} : run'[q] = run[q]
    BY <2>3 DEF Becomes
  <2>6. \A q \in DOMAIN run' : run'[q].raised \subseteq Material
    BY <2>3, <2>5 DEF Decidable
  <2>7. Current' \subseteq {r}
    BY <2>1, <2>4, <2>5 DEF Current, RunsOf
  <2>8. ASSUME NEW i \in x.raised, ~x.blind, ~text'[At[i]].gone
        PROVE  \E f \in finding' : AnswersFor(f, i, text')
    <3>1. run[r].key = text /\ ~run[r].blind /\ i \in run[r].raised
      BY <2>3, <2>8
    <3>2. r \in Current /\ ~text[At[i]].gone
      <4>1. i \in Issues
        BY <3>1, RunOf DEF Runs, Fits, TypeOK
      <4>2. At[i] \in Blocks
        BY <4>1, InputAssumption
      <4> QED BY <1>6, <2>1, <2>8, <3>1, <4>2 DEF Current, RunsOf
    <3>3. PICK f \in finding : AnswersFor(f, i, text)
      BY <3>1, <3>2 DEF Decidable
    <3>4. PICK g \in G : AnswersFor(g, i, text)
      BY <1>4, <3>3
    <3>5. CASE g.of = text
      <4>1. [g EXCEPT !.of = new] \in finding'
        BY <2>4, <3>1, <3>5
      <4>2. g \in Findings
        BY <1>1 DEF ApplyWith
      <4>3. AnswersFor([g EXCEPT !.of = new], i, new)
        BY <3>4, <4>2 DEF Findings, AnswersFor
      <4> QED BY <2>1, <4>1, <4>3
    <3>6. CASE g.of # text
      <4>1. g \in finding'
        BY <2>4, <3>1, <3>6
      <4> QED BY <3>4, <3>6, <4>1 DEF AnswersFor
    <3> QED BY <3>5, <3>6
  <2>9. \A q \in Current' : run'[q].blind \/ \A i \in run'[q].raised :
           text'[At[i]].gone \/ \E f \in finding' : AnswersFor(f, i, text')
    BY <2>5, <2>7, <2>8
  <2> QED BY <1>3, <2>6, <2>9 DEF Decidable
<1> QED BY <1>1, <1>5, <1>6

LEMMA DecidableNext ==
    ASSUME Fits, Ordered, Single, Filing, Decidable, ~Reverts, [Next]_vars PROVE Decidable'
<1>1. CASE Quiet
  <2>1. UNCHANGED <<text, finding>> /\ QuietRuns
    BY <1>1, QuietIs
  <2>2. \A r \in Current' : r \in Current /\ Alike(run[r], run'[r])
    BY <2>1, CurrentShrinks
  <2>3. \A r \in DOMAIN run' : run'[r].raised \subseteq Material
    BY <2>1 DEF QuietRuns, Alike, Decidable
  <2> QED BY <2>1, <2>2, <2>3 DEF Decidable, Alike
<1>2. CASE HandEdit \/ RemoveBlock \/ CloseByHand
  <2>1. UNCHANGED run /\ Dated
    BY <1>2, EditDoes
  <2>2. Current' = {}
    BY <1>2, EditStales
  <2> QED BY <2>1, <2>2 DEF Decidable, Dated
<1>3. CASE Dismiss \/ Reopen
  <2>1. /\ UNCHANGED <<text, run>> /\ Dated
        /\ \A f \in finding : \E g \in finding' :
             /\ g.of = f.of /\ g.issue = f.issue /\ g.serious = f.serious
             /\ g.status = f.status \/ {f.status, g.status} \subseteq {"open", "dismissed"}
    BY <1>3, DecideDoes
  <2>2. \A f \in finding, i \in Issues : AnswersFor(f, i, text) =>
           \E g \in finding' : AnswersFor(g, i, text)
    BY <2>1 DEF AnswersFor
  <2>3. Current' = Current
    BY <2>1 DEF Current, RunsOf
  <2>4. \A r \in DOMAIN run : run[r].raised \subseteq Issues
    BY RunOf DEF Runs, Fits, TypeOK
  <2>5. \A r \in Current' : run'[r].blind \/ \A i \in run'[r].raised :
           text'[At[i]].gone \/ \E f \in finding' : AnswersFor(f, i, text')
    BY <2>1, <2>2, <2>3, <2>4 DEF Decidable, Current, RunsOf
  <2> QED BY <2>1, <2>5 DEF Decidable, Dated
<1>4. CASE UNCHANGED vars
  BY <1>4 DEF Decidable, Current, RunsOf, vars, AnswersFor
<1> QED BY <1>1, <1>2, <1>3, <1>4, RecordDecidable, ApplyDecidable DEF Next, Work, Quiet

\* The audit shown as current read the text that stands, and the gate opens only when somebody
\* decided every serious issue it raised.
THEOREM GateReads ==
    ASSUME Steady PROVE Spec => []GateIsRead
<1> DEFINE Inv == Fits /\ Honest /\ Ordered /\ Single /\ Filing /\ Decidable
<1>1. Init => Inv
  <2> SUFFICES ASSUME Init PROVE Inv
    OBVIOUS
  <2>1. Fits
    BY InitFits
  <2>2. DOMAIN run = {} /\ DOMAIN ledger = {} /\ finding = {} /\ edits = 0
        /\ text = [b \in Blocks |-> First] /\ \A w \in Workers : worker[w] = IdleJob
    BY DEF Init
  <2>3. IdleJob.at = "idle" /\ IdleJob.got = {} /\ ~First.gone /\ First.hand = 0
    BY DEF IdleJob, First
  <2>4. Honest /\ Ordered /\ Single /\ Filing /\ Decidable
    BY <2>2, <2>3 DEF Honest, Ordered, Single, Filing, Decidable, Current, RunsOf
  <2> QED BY <2>1, <2>4
<1>2. Inv /\ [Next]_vars => Inv'
  BY NextFits, HonestNext, OrderedNext, SingleNext, FilingNext, DecidableNext DEF Steady
<1>3. Inv => GateIsRead
  <2> SUFFICES ASSUME Inv PROVE GateIsRead
    OBVIOUS
  <2>1. CurrentIsRead
    BY DEF CurrentIsRead, Covered, Current, RunsOf, Honest, Extends
  <2>2. GateIsEarned
    <3> SUFFICES ASSUME Gate, NEW r \in Current, ~run[r].blind, NEW i \in run[r].raised,
                        ~text[At[i]].gone
                 PROVE  \E f \in finding : f.issue = i /\ f.status \in {"applied", "dismissed"} /\ f.at > 0
      BY DEF GateIsEarned
    <3>1. PICK f \in finding : AnswersFor(f, i, text)
      BY DEF Decidable
    <3>2. f.status \in {"applied", "dismissed"}
      BY <3>1 DEF Gate, Open, AnswersFor
    <3>3. f.at > 0
      BY <3>2 DEF Decidable
    <3> QED BY <3>1, <3>2, <3>3 DEF AnswersFor
  <2> QED BY <2>1, <2>2 DEF GateIsRead
<1> QED BY <1>1, <1>2, <1>3, PTL DEF Spec

================================================================================
