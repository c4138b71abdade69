------------------------- MODULE ChapterAnalysisProofs -------------------------
(***************************************************************************)
(* Theorems about ChapterAnalysis for every set of workers, texts and       *)
(* windows and every value of the bounds.                                   *)
(***************************************************************************)
EXTENDS ChapterAnalysis, TLAPS

--------------------------------------------------------------------------------
(* Types.                                                                    *)

LEMMA Zeros ==
    /\ 0 \in 0 .. OldTicks /\ 0 \in 0 .. MaxClaims /\ 0 \in 0 .. MaxTries
    /\ 0 \in 0 .. MaxAsks /\ 0 \in 0 .. MaxEdits /\ 0 \in 0 .. MaxLosses /\ 0 \in Nat
BY BoundAssumption

LEMMA InitTyped == Init => TypeOK
BY Zeros, PlanAssumption
   DEF Init, TypeOK, NoRun, Idle, NoRow, Runs, Rows, Messages, Jobs, Ids, Statuses, Places

LEMMA MarkedTyped ==
    ASSUME run \in [Texts -> Runs], NEW t, NEW s \in Statuses
    PROVE  Marked(t, s) \in [Texts -> Runs]
BY Zeros DEF Marked, Runs

\* A message that changes its place only.
Moves(m) == msg' = msg \/ \E a \in {"ready", "delayed", "taken", "gone"} : msg' = [msg EXCEPT ![m].at = a]

LEMMA MovesTyped == ASSUME TypeOK, NEW m, Moves(m) PROVE msg' \in [Asks -> Messages]
  <1>1. ASSUME NEW a \in {"ready", "delayed", "taken", "gone"}, msg' = [msg EXCEPT ![m].at = a]
        PROVE  msg' \in [Asks -> Messages]
    <2>1. msg \in [Asks -> Messages] /\ \A j \in Messages : [j EXCEPT !.at = a] \in Messages
      BY DEF TypeOK, Messages
    <2> QED
      BY <1>1, <2>1
  <1> QED
    BY <1>1 DEF TypeOK, Moves

\* A worker that goes on to another place only, or stops.
GoesOn(w) ==
    \/ \E p \in Places : worker' = [worker EXCEPT ![w].at = p]
    \/ worker' = [worker EXCEPT ![w] = Idle]

LEMMA GoesOnTyped == ASSUME TypeOK, NEW w, GoesOn(w) PROVE worker' \in [Workers -> Jobs]
  <1>1. Idle \in Jobs
    BY Zeros DEF Idle, Jobs, Places
  <1>2. CASE worker' = [worker EXCEPT ![w] = Idle]
    BY <1>1, <1>2 DEF TypeOK
  <1>3. ASSUME NEW p \in Places, worker' = [worker EXCEPT ![w].at = p]
        PROVE  worker' \in [Workers -> Jobs]
    <2>1. worker \in [Workers -> Jobs]
      BY DEF TypeOK
    <2>2. \A j \in Jobs : [j EXCEPT !.at = p] \in Jobs
      BY DEF Jobs
    <2> QED
      BY <1>3, <2>1, <2>2
  <1> QED
    BY <1>2, <1>3 DEF GoesOn

\* The row of a run written with a status.
Writes(t) == run' = run \/ \E s \in Statuses : run' = Marked(t, s)

LEMMA WritesTyped == ASSUME TypeOK, NEW t, Writes(t) PROVE run' \in [Texts -> Runs]
BY MarkedTyped DEF TypeOK, Writes

\* A call that was answered: its row is closed.
Closes(x) ==
    \/ air' = air
    \/ air' = [air EXCEPT ![x].status = "failed"]
    \/ air' = [air EXCEPT ![x].status = "succeeded", ![x].words = TRUE]

LEMMA ClosesTyped == ASSUME TypeOK, NEW x, Closes(x) PROVE air' \in [Ids -> Rows]
  <1>1. air \in [Ids -> Rows]
    BY DEF TypeOK
  <1>2. CASE air' = [air EXCEPT ![x].status = "failed"]
    BY <1>1, <1>2 DEF Rows
  <1>3. CASE air' = [air EXCEPT ![x].status = "succeeded", ![x].words = TRUE]
    BY ZenonT(40), <1>1, <1>3 DEF Rows
  <1> QED
    BY <1>1, <1>2, <1>3 DEF Closes

LEMMA RefreshTyped ==
    ASSUME TypeOK, NEW t, Refresh(t)
    PROVE  shown' \in [of : Texts \cup {NoText}, read : SUBSET Windows, any : BOOLEAN]
  <1>1. Read \cap WindowsOf(t) \in SUBSET Windows
    BY DEF Read
  <1>2. \/ shown' = shown
        \/ text = t /\ shown' = [of |-> t, read |-> Read \cap WindowsOf(t), any |-> TRUE]
    BY DEF Refresh
  <1>3. CASE shown' = shown
    BY <1>3 DEF TypeOK
  <1>4. CASE text = t /\ shown' = [of |-> t, read |-> Read \cap WindowsOf(t), any |-> TRUE]
    BY <1>1, <1>4 DEF TypeOK
  <1> QED
    BY <1>2, <1>3, <1>4

LEMMA QueueTyped ==
    ASSUME TypeOK, QueueAnalysis
    PROVE  /\ made' \in Seq(Texts) /\ run' \in [Texts -> Runs] /\ msg' \in [Asks -> Messages]
           /\ toProject' \subseteq Texts /\ asked' \in 0 .. MaxAsks
  <1>1. text \in Texts
    BY DEF TypeOK, QueueAnalysis
  <1>2. made' \in Seq(Texts)
    BY <1>1 DEF TypeOK, QueueAnalysis
  <1>3. toProject' \subseteq Texts
    BY <1>1 DEF TypeOK, QueueAnalysis
  <1>4. asked' \in 0 .. MaxAsks
    BY BoundAssumption DEF TypeOK, QueueAnalysis
  <1>5. run' \in [Texts -> Runs]
    <2>1. run' = run \/ run' = Marked(text, "queued")
      BY DEF QueueAnalysis
    <2>2. Marked(text, "queued") \in [Texts -> Runs]
      BY MarkedTyped DEF Statuses, TypeOK
    <2> QED
      BY <2>1, <2>2 DEF TypeOK
  <1>6. msg' \in [Asks -> Messages]
    <2>1. [run |-> text, tries |-> 0, at |-> "unsent"] \in Messages
      BY <1>1, Zeros DEF Messages
    <2>2. \/ msg' = msg
          \/ msg' = [msg EXCEPT ![asked'] = [run |-> text, tries |-> 0, at |-> "unsent"]]
      BY DEF QueueAnalysis
    <2> QED
      BY <2>1, <2>2 DEF TypeOK
  <1> QED
    BY <1>2, <1>3, <1>4, <1>5, <1>6

--------------------------------------------------------------------------------
(* The shape of a worker's task: what it is about belongs to its message,    *)
(* its plan and its token.  TypeOK is not inductive without it.              *)

MessagesName == \A m \in Asks : msg[m].at # "none" => msg[m].run \in Texts

Busy(w) == worker[w].at # "idle"

Reading(w) == worker[w].at \in {"look", "call", "save", "record"}

Window(w) == Plan[worker[w].run][worker[w].done + 1]

InPlan(w) ==
    /\ Busy(w) => /\ worker[w].run \in Texts /\ worker[w].token \in 1 .. tokens
                  /\ worker[w].done \in 0 .. Len(Plan[worker[w].run])
    /\ Reading(w) => worker[w].done + 1 \in 1 .. Len(Plan[worker[w].run])
    /\ worker[w].at \in {"call", "save"} => worker[w].row = <<worker[w].token, Window(w)>>
    /\ worker[w].at = "record" => worker[w].row \in Ids

OwnTokens == \A v, w \in Workers : Busy(v) /\ Busy(w) /\ worker[v].token = worker[w].token => v = w

HasMessage == \A w \in Workers : Busy(w) => msg[worker[w].msg].at # "none" /\ worker[w].msg \in Asks

Shape == TypeOK /\ MessagesName /\ HasMessage /\ (\A w \in Workers : InPlan(w)) /\ OwnTokens

\* The window a worker reads is one of its plan, and its row one of the ledger.
LEMMA WindowTyped ==
    ASSUME Shape, NEW w \in Workers, Reading(w)
    PROVE  /\ Window(w) \in Windows /\ Window(w) \in WindowsOf(worker[w].run)
           /\ worker[w].token \in Tokens /\ <<worker[w].token, Window(w)>> \in Ids
  <1>1. Busy(w) /\ InPlan(w) /\ tokens \in 0 .. MaxClaims
    BY DEF Shape, TypeOK, Reading, Busy
  <1>2. worker[w].run \in Texts /\ worker[w].done + 1 \in 1 .. Len(Plan[worker[w].run])
    BY <1>1 DEF InPlan
  <1>3. Plan[worker[w].run] \in Seq(Windows)
    BY <1>2, PlanAssumption
  <1>4. worker[w].done + 1 \in DOMAIN Plan[worker[w].run]
    BY <1>2, <1>3
  <1>5. Window(w) \in Windows /\ Window(w) \in WindowsOf(worker[w].run)
    BY <1>3, <1>4 DEF Window, WindowsOf
  <1>6. worker[w].token \in Tokens
    BY <1>1, BoundAssumption DEF InPlan, Tokens
  <1> QED
    BY <1>5, <1>6 DEF Ids

\* What a worker that is about to read a window makes of it.
LEMMA LookTyped ==
    ASSUME Shape, NEW w \in Workers, Look(w)
    PROVE  worker' \in [Workers -> Jobs] /\ air' \in [Ids -> Rows]
  <1> DEFINE x == <<worker[w].token, Window(w)>>
  <1>1. Reading(w) /\ InPlan(w) /\ Busy(w) /\ worker[w] \in Jobs
    BY DEF Look, Shape, Reading, Busy, TypeOK
  <1>2. x \in Ids /\ Window(w) \in Windows /\ worker[w].run \in Texts
    BY <1>1, WindowTyped DEF InPlan
  <1>3. ASSUME NEW y \in Ids, worker' = [worker EXCEPT ![w].at = "record", ![w].row = y], air' = air
        PROVE  worker' \in [Workers -> Jobs] /\ air' \in [Ids -> Rows]
    <2>1. [worker[w] EXCEPT !.at = "record", !.row = y] \in Jobs
      BY <1>1 DEF Jobs, Places
    <2> QED
      BY <1>3, <2>1 DEF Shape, TypeOK
  <1>4. ASSUME /\ worker' = [worker EXCEPT ![w].at = "call", ![w].row = x]
               /\ air' = [air EXCEPT ![x] = [status |-> "submitted", of |-> worker[w].run,
                                             hash |-> Window(w), words |-> TRUE]]
        PROVE  worker' \in [Workers -> Jobs] /\ air' \in [Ids -> Rows]
    <2>1. [worker[w] EXCEPT !.at = "call", !.row = x] \in Jobs
      BY <1>1, <1>2 DEF Jobs, Places
    <2>2. [status |-> "submitted", of |-> worker[w].run, hash |-> Window(w), words |-> TRUE] \in Rows
      BY <1>2 DEF Rows
    <2> HIDE DEF x
    <2> QED
      BY <1>4, <2>1, <2>2 DEF Shape, TypeOK
  <1>5. CASE worker' = [worker EXCEPT ![w].at = "broken"] /\ air' = air
    <2>1. GoesOn(w)
      BY <1>5 DEF GoesOn, Places
    <2> QED
      BY <1>5, <2>1, GoesOnTyped DEF Shape, TypeOK
  <1> QED
    BY <1>3, <1>4, <1>5 DEF Look, Readings, Window

\* A window counted in the run's summary.
LEMMA RecordTyped ==
    ASSUME Shape, NEW w \in Workers, Record(w)
    PROVE  worker' \in [Workers -> Jobs] /\ run' \in [Texts -> Runs]
  <1> DEFINE results == worker[w].results \cup {worker[w].row}
  <1>1. worker[w] \in Jobs /\ worker[w].row \in Ids /\ worker[w].run \in Texts
    BY DEF Record, Shape, InPlan, Busy, TypeOK
  <1>2. results \in SUBSET Ids
    BY <1>1 DEF Jobs
  <1>3. CASE /\ run' = [run EXCEPT ![worker[w].run].results = results, ![worker[w].run].age = 0]
             /\ worker' = [worker EXCEPT ![w].at = "project", ![w].done = @ + 1,
                                         ![w].row = NoRow, ![w].results = results]
    <2>0. worker[w].done + 1 \in Nat
      BY <1>1 DEF Jobs
    <2>1. [worker[w] EXCEPT !.at = "project", !.done = worker[w].done + 1,
                            !.row = NoRow, !.results = results] \in Jobs
      <3> HIDE DEF results
      <3>1. "project" \in Places /\ NoRow \in Ids \cup {NoRow}
        BY DEF Places
      <3> QED
        BY <1>1, <1>2, <2>0, <3>1 DEF Jobs
    <2>2. worker' \in [Workers -> Jobs]
      BY <1>3, <2>1 DEF Shape, TypeOK
    <2>3. run[worker[w].run] \in Runs
      BY <1>1 DEF Shape, TypeOK
    <2>4. [run[worker[w].run] EXCEPT !.results = results, !.age = 0] \in Runs
      BY <1>2, <2>3, Zeros DEF Runs
    <2>5. run' \in [Texts -> Runs]
      BY <1>3, <2>4 DEF Shape, TypeOK
    <2> QED
      BY <2>2, <2>5
  <1>4. CASE worker' = [worker EXCEPT ![w].at = "stale"] /\ run' = run
    <2>1. GoesOn(w)
      BY <1>4 DEF GoesOn, Places
    <2> QED
      BY <1>4, <2>1, GoesOnTyped DEF Shape, TypeOK
  <1> QED
    BY <1>3, <1>4 DEF Record

LEMMA NextTyped == Shape /\ [Next]_vars => TypeOK'
  <1> SUFFICES ASSUME Shape, [Next]_vars PROVE TypeOK'
    OBVIOUS
  <1>0. TypeOK
    BY DEF Shape
  <1> USE <1>0
  <1>1. CASE Ask
    BY <1>1, QueueTyped DEF Ask, TypeOK
  <1>2. CASE AfterEdit
    <2>0. edits' \in 0 .. edited'
      BY <1>2, BoundAssumption DEF AfterEdit, TypeOK
    <2>1. CASE UNCHANGED <<run, made, air, msg, toProject, asked>>
      BY <1>2, <2>0, <2>1 DEF AfterEdit, TypeOK
    <2>2. ASSUME text # NoText, NEW r \in Texts, CanCarry(r), Carry(r), UNCHANGED asked PROVE TypeOK'
      <3>0. text \in Texts
        BY <2>2 DEF TypeOK
      <3>1. run' \in [Texts -> Runs]
        <4>1. NoRun \in Runs
          BY Zeros DEF NoRun, Runs, Statuses
        <4>2. run[r] \in Runs
          BY DEF TypeOK
        <4>3. run' = [run EXCEPT ![text] = run[r], ![r] = NoRun]
          BY <2>2 DEF Carry
        <4> QED
          BY <4>1, <4>2, <4>3 DEF TypeOK
      <3>2. made' \in Seq(Texts)
        <4>1. made' = [i \in DOMAIN made |-> IF made[i] = r THEN text ELSE made[i]]
          BY <2>2 DEF Carry
        <4>2. made \in Seq(Texts)
          BY DEF TypeOK
        <4> QED
          BY <3>0, <4>1, <4>2
      <3>3. air' \in [Ids -> Rows]
        <4> SUFFICES ASSUME NEW x \in Ids PROVE air'[x] \in Rows
          BY <2>2 DEF Carry
        <4> DEFINE missing == WindowsOf(text) \ Read
                   rekeyed == [h \in missing |-> CHOOSE y \in Carries(r, h) : TRUE]
                   moved == \E h \in missing : rekeyed[h] = x
                   hash == IF moved THEN CHOOSE h \in missing : rekeyed[h] = x ELSE air[x].hash
                   of == IF air[x].of = r THEN text ELSE air[x].of
        <4>1. air'[x] = [air[x] EXCEPT !.of = of, !.hash = hash]
          BY <2>2 DEF Carry
        <4>2. air[x] \in Rows
          BY DEF TypeOK
        <4>3. of \in Texts \cup {NoText}
          BY <3>0, <4>2 DEF Rows
        <4>4. missing \subseteq Windows
          BY <3>0, PlanAssumption DEF WindowsOf
        <4>5. hash \in Windows
          <5>1. CASE moved
            <6>1. (CHOOSE h \in missing : rekeyed[h] = x) \in missing
              BY <5>1
            <6> QED
              BY <5>1, <6>1, <4>4
          <5>2. CASE ~moved
            BY <5>2, <4>2 DEF Rows
          <5> QED
            BY <5>1, <5>2
        <4> HIDE DEF hash, of
        <4> QED
          BY <4>1, <4>2, <4>3, <4>5 DEF Rows
      <3>4. msg' \in [Asks -> Messages]
        <4> SUFFICES ASSUME NEW m \in Asks PROVE msg'[m] \in Messages
          BY <2>2 DEF Carry
        <4>1. msg'[m] = [msg[m] EXCEPT !.run = IF msg[m].run = r THEN text ELSE msg[m].run]
          BY <2>2 DEF Carry
        <4>2. msg[m] \in Messages
          BY DEF TypeOK
        <4>3. \A j \in Messages, t \in Texts \cup {NoText} : [j EXCEPT !.run = t] \in Messages
          BY DEF Messages
        <4>4. msg[m].run \in Texts \cup {NoText}
          BY <4>2 DEF Messages
        <4>5. \E t \in Texts \cup {NoText} : msg'[m] = [msg[m] EXCEPT !.run = t]
          BY <3>0, <4>1, <4>4
        <4> QED
          BY <4>2, <4>3, <4>5
      <3>5. toProject' \subseteq Texts
        BY <2>2, <3>0 DEF Carry, TypeOK
      <3> QED
        BY <1>2, <2>0, <2>2, <3>1, <3>2, <3>3, <3>4, <3>5 DEF AfterEdit, TypeOK
    <2>3. CASE QueueAnalysis /\ UNCHANGED air
      BY <1>2, <2>0, <2>3, QueueTyped DEF AfterEdit, TypeOK
    <2> QED
      BY <1>2, <2>1, <2>2, <2>3 DEF AfterEdit
  <1>3. CASE Purge
    <2>1. run' \in [Texts -> Runs]
      BY <1>3, Zeros DEF Purge, NoRun, Runs, Statuses
    <2>2. air' \in [Ids -> Rows]
      <3>1. air \in [Ids -> Rows] /\ \A j \in Rows : [j EXCEPT !.words = FALSE] \in Rows
        BY DEF TypeOK, Rows
      <3> QED
        BY <1>3, <3>1 DEF Purge
    <2>3. shown' \in [of : Texts \cup {NoText}, read : SUBSET Windows, any : BOOLEAN]
      BY <1>3 DEF Purge
    <2>4. made' \in Seq(Texts) /\ toProject' \subseteq Texts /\ text' \in Texts \cup {NoText}
      BY <1>3 DEF Purge
    <2> QED
      BY <1>3, <2>1, <2>2, <2>3, <2>4 DEF Purge, TypeOK
  <1>4. CASE Tick
    <2>1. run' \in [Texts -> Runs]
      <3> SUFFICES ASSUME NEW t \in Texts PROVE run'[t] \in Runs
        BY <1>4 DEF Tick
      <3>1. run[t] \in Runs
        BY DEF TypeOK
      <3>2. run[t].age < OldTicks => run[t].age + 1 \in 0 .. OldTicks
        BY <3>1, BoundAssumption DEF Runs
      <3>3. \/ run'[t] = run[t]
            \/ run[t].age < OldTicks /\ run'[t] = [run[t] EXCEPT !.age = run[t].age + 1]
        BY <1>4 DEF Tick
      <3> QED
        BY <3>1, <3>2, <3>3 DEF Runs
    <2>2. msg' \in [Asks -> Messages]
      <3> SUFFICES ASSUME NEW m \in Asks PROVE msg'[m] \in Messages
        BY <1>4 DEF Tick
      <3>1. msg[m] \in Messages
        BY DEF TypeOK
      <3>2. msg'[m] = msg[m] \/ msg'[m] = [msg[m] EXCEPT !.at = "ready"]
        BY <1>4 DEF Tick
      <3> QED
        BY <3>1, <3>2 DEF Messages
    <2> QED
      BY <1>4, <2>1, <2>2 DEF Tick, TypeOK
  <1>5. ASSUME NEW m \in Asks, Dispatch(m) PROVE TypeOK'
    <2>1. Moves(m) /\ Writes(msg[m].run)
      BY <1>5 DEF Dispatch, Moves, Writes, Statuses
    <2>2. msg' \in [Asks -> Messages] /\ run' \in [Texts -> Runs]
      BY <2>1, MovesTyped, WritesTyped
    <2>3. lost' \in 0 .. MaxLosses
      BY <1>5, BoundAssumption DEF Dispatch, TypeOK
    <2> QED
      BY <1>5, <2>2, <2>3 DEF Dispatch, TypeOK
  <1>6. ASSUME NEW w \in Workers, NEW m \in Asks, TakeSettled(w, m) PROVE TypeOK'
    <2>1. Moves(m)
      BY <1>6 DEF TakeSettled, Answered, Moves
    <2>2. msg' \in [Asks -> Messages]
      BY <2>1, MovesTyped
    <2>3. shown' \in [of : Texts \cup {NoText}, read : SUBSET Windows, any : BOOLEAN]
      <3>1. shown' = shown \/ Refresh(msg[m].run)
        BY <1>6 DEF TakeSettled
      <3> QED
        BY <3>1, RefreshTyped DEF TypeOK
    <2> QED
      BY <1>6, <2>2, <2>3 DEF TakeSettled, TypeOK
  <1>7. ASSUME NEW w \in Workers, NEW m \in Asks, TakeBusy(w, m) PROVE TypeOK'
    <2>1. msg[m] \in Messages
      BY DEF TypeOK
    <2>2. msg[m].tries < MaxTries => msg[m].tries + 1 \in 0 .. MaxTries
      BY <2>1, BoundAssumption DEF Messages
    <2>3. \/ msg' = [msg EXCEPT ![m].at = "gone"]
          \/ /\ msg[m].tries < MaxTries
             /\ msg' = [msg EXCEPT ![m].at = "delayed", ![m].tries = @ + 1]
      BY <1>7 DEF TakeBusy, Answered
    <2>4. CASE /\ msg[m].tries < MaxTries
               /\ msg' = [msg EXCEPT ![m].at = "delayed", ![m].tries = @ + 1]
      <3>1. [msg[m] EXCEPT !.at = "delayed", !.tries = @ + 1] \in Messages
        BY <2>1, <2>2, <2>4 DEF Messages
      <3>2. msg' = [msg EXCEPT ![m] = [msg[m] EXCEPT !.at = "delayed", !.tries = @ + 1]]
        BY <2>4 DEF TypeOK
      <3> QED
        BY <1>7, <3>1, <3>2 DEF TakeBusy, TypeOK
    <2>5. CASE msg' = [msg EXCEPT ![m].at = "gone"]
      <3>1. Moves(m)
        BY <2>5 DEF Moves
      <3> QED
        BY <1>7, <3>1, MovesTyped DEF TakeBusy, TypeOK
    <2> QED
      BY <2>3, <2>4, <2>5
  <1>8. ASSUME NEW w \in Workers, NEW m \in Asks, Claim(w, m) PROVE TypeOK'
    <2> DEFINE t == msg[m].run
    <2>1. tokens' \in 0 .. MaxClaims
      BY <1>8, BoundAssumption DEF Claim, TypeOK
    <2>2. run' \in [Texts -> Runs]
      <3>1. run' = [run EXCEPT ![t].status = "running", ![t].lease = tokens', ![t].age = 0]
        BY <1>8 DEF Claim
      <3>2. ASSUME NEW r \in Runs
            PROVE  [r EXCEPT !.status = "running", !.lease = tokens', !.age = 0] \in Runs
        BY <2>1, Zeros DEF Runs, Statuses
      <3>3. ASSUME NEW u \in Texts PROVE run'[u] \in Runs
        BY <3>1, <3>2 DEF TypeOK
      <3> QED
        BY <3>1, <3>3 DEF TypeOK
    <2>3. air' \in [Ids -> Rows]
      <3> SUFFICES ASSUME NEW x \in Ids PROVE air'[x] \in Rows
        BY <1>8 DEF Claim
      <3>1. air'[x] = air[x] \/ air'[x] = [air[x] EXCEPT !.status = "failed"]
        BY <1>8 DEF Claim
      <3> QED
        BY <3>1 DEF TypeOK, Rows
    <2>4. msg' \in [Asks -> Messages]
      <3>1. Moves(m)
        BY <1>8 DEF Claim, Moves
      <3> QED
        BY <3>1, MovesTyped
    <2>5. worker' \in [Workers -> Jobs]
      <3>1. msg[m] \in Messages
        BY DEF TypeOK
      <3>2. m \in 0 .. MaxAsks /\ t \in Texts \cup {NoText}
        BY <3>1, BoundAssumption DEF Asks, Messages
      <3>3. [Idle EXCEPT !.at = "project", !.msg = m, !.run = t, !.token = tokens'] \in Jobs
        BY <3>2, <2>1, Zeros DEF Idle, Jobs, Places
      <3> QED
        BY <1>8, <3>3 DEF Claim, TypeOK
    <2> QED
      BY <1>8, <2>1, <2>2, <2>3, <2>4, <2>5 DEF Claim, TypeOK
  <1>9. ASSUME NEW w \in Workers, Project(w) PROVE TypeOK'
    <2>1. GoesOn(w)
      BY <1>9 DEF Project, GoesOn, Places
    <2>2. shown' = shown \/ Refresh(worker[w].run)
      BY <1>9 DEF Project
    <2>3. shown' \in [of : Texts \cup {NoText}, read : SUBSET Windows, any : BOOLEAN]
      BY <2>2, RefreshTyped DEF TypeOK
    <2> QED
      BY <1>9, <2>1, <2>3, GoesOnTyped DEF Project, TypeOK
  <1>10. ASSUME NEW w \in Workers, Check(w) PROVE TypeOK'
    <2>1. GoesOn(w) /\ Writes(worker[w].run)
      BY <1>10 DEF Check, GoesOn, Writes, Places, Statuses
    <2> QED
      BY <1>10, <2>1, GoesOnTyped, WritesTyped DEF Check, TypeOK
  <1>11. ASSUME NEW w \in Workers, Look(w) PROVE TypeOK'
    BY <1>11, LookTyped DEF Look, TypeOK
  <1>12. ASSUME NEW w \in Workers, Answer(w) PROVE TypeOK'
    <2>1. GoesOn(w) /\ Closes(worker[w].row)
      BY <1>12 DEF Answer, GoesOn, Closes, Places
    <2> QED
      BY <1>12, <2>1, GoesOnTyped, ClosesTyped DEF Answer, TypeOK
  <1>13. ASSUME NEW w \in Workers, Save(w) PROVE TypeOK'
    <2>1. GoesOn(w) /\ Closes(worker[w].row)
      BY <1>13 DEF Save, GoesOn, Closes, Places
    <2> QED
      BY <1>13, <2>1, GoesOnTyped, ClosesTyped DEF Save, TypeOK
  <1>14. ASSUME NEW w \in Workers, Record(w) PROVE TypeOK'
    BY <1>14, RecordTyped DEF Record, TypeOK
  <1>15. ASSUME NEW w \in Workers, Finish(w) PROVE TypeOK'
    <2>1. GoesOn(w) /\ Writes(worker[w].run) /\ Moves(worker[w].msg)
      BY <1>15 DEF Finish, Answered, GoesOn, Writes, Moves, Places, Statuses
    <2> QED
      BY <1>15, <2>1, GoesOnTyped, WritesTyped, MovesTyped DEF Finish, TypeOK
  <1>16. ASSUME NEW w \in Workers, GiveUp(w) PROVE TypeOK'
    <2>1. GoesOn(w) /\ Writes(worker[w].run) /\ Moves(worker[w].msg)
      BY <1>16 DEF GiveUp, Answered, GoesOn, Writes, Moves, Statuses
    <2> QED
      BY <1>16, <2>1, GoesOnTyped, WritesTyped, MovesTyped DEF GiveUp, TypeOK
  <1>17. ASSUME NEW w \in Workers, NEW kind \in Losses, Lose(w, kind) PROVE TypeOK'
    <2>1. lost' \in 0 .. MaxLosses
      BY <1>17, BoundAssumption DEF Lose, TypeOK
    <2>2. GoesOn(w) /\ Moves(worker[w].msg)
      BY <1>17 DEF Lose, GoesOn, Moves
    <2> QED
      BY <1>17, <2>1, <2>2, GoesOnTyped, MovesTyped DEF Lose, TypeOK
  <1>18. ASSUME NEW t \in Texts, RefreshTask(t) PROVE TypeOK'
    BY <1>18, RefreshTyped DEF RefreshTask, TypeOK
  <1>19. ASSUME NEW t \in Texts, Edit(t) PROVE TypeOK'
    <2>1. edited' \in 0 .. MaxEdits
      BY <1>19, BoundAssumption DEF Edit, TypeOK
    <2>2. edits' \in 0 .. edited'
      BY <1>19, BoundAssumption DEF Edit, TypeOK
    <2> QED
      BY <1>19, <2>1, <2>2 DEF Edit, TypeOK
  <1>20. ASSUME NEW t \in Texts, CloseAbandoned(t) PROVE TypeOK'
    <2>1. Writes(t)
      BY <1>20 DEF CloseAbandoned, Writes, Statuses
    <2> QED
      BY <1>20, <2>1, WritesTyped DEF CloseAbandoned, TypeOK
  <1>21. CASE UNCHANGED vars
    BY <1>21 DEF vars, TypeOK
  <1> QED
    BY <1>1, <1>2, <1>3, <1>4, <1>5, <1>6, <1>7, <1>8, <1>9, <1>10, <1>11, <1>12, <1>13, <1>14,
       <1>15, <1>16, <1>17, <1>18, <1>19, <1>20, <1>21 DEF Next, Take, Work

\* A step that leaves a worker alone, or gives it a place where it reads nothing.
LEMMA InPlanKept ==
    ASSUME TypeOK, NEW v \in Workers, InPlan(v), tokens' \in {tokens, tokens + 1},
           \/ worker'[v] = worker[v]
           \/ worker'[v] = Idle
           \/ \E p \in {"project", "check", "stale", "broken"} :
                Busy(v) /\ worker'[v] = [worker[v] EXCEPT !.at = p]
    PROVE  InPlan(v)'
  <1>1. 1 .. tokens \subseteq 1 .. tokens'
    BY BoundAssumption DEF TypeOK
  <1>2. CASE worker'[v] = worker[v]
    BY <1>1, <1>2 DEF InPlan, Busy, Reading, Window
  <1>3. CASE worker'[v] = Idle
    BY <1>3 DEF InPlan, Busy, Reading, Idle
  <1>4. ASSUME NEW p \in {"project", "check", "stale", "broken"},
               Busy(v), worker'[v] = [worker[v] EXCEPT !.at = p]
        PROVE  InPlan(v)'
    <2>1. worker[v] \in Jobs
      BY DEF TypeOK
    <2>2. /\ worker'[v].at = p /\ worker'[v].run = worker[v].run
          /\ worker'[v].token = worker[v].token /\ worker'[v].done = worker[v].done
      BY <1>4, <2>1 DEF Jobs
    <2> QED
      BY <1>1, <1>4, <2>2 DEF InPlan, Busy, Reading
  <1> QED
    BY <1>2, <1>3, <1>4

\* A worker's step is its own: the others stay as they are, it keeps its message and its token
\* or stops, and it answers its message at most.
LEMMA WorkSteps ==
    ASSUME TypeOK, NEW w \in Workers, Work(w)
    PROVE  /\ Busy(w) /\ tokens' = tokens
           /\ \A v \in Workers : v # w => worker'[v] = worker[v]
           /\ \/ worker'[w] = Idle
              \/ worker'[w].token = worker[w].token /\ worker'[w].msg = worker[w].msg
           /\ msg' = msg \/ msg' = [msg EXCEPT ![worker[w].msg].at = "gone"]
  <1>1. worker \in [Workers -> Jobs] /\ worker[w] \in Jobs
    BY DEF TypeOK
  <1>2. CASE Project(w)
    BY <1>1, <1>2 DEF Project, Busy, Jobs
  <1>3. CASE Check(w)
    BY <1>1, <1>3 DEF Check, Busy, Jobs
  <1>4. CASE Look(w)
    BY <1>1, <1>4 DEF Look, Busy, Jobs
  <1>5. CASE Answer(w)
    BY <1>1, <1>5 DEF Answer, Busy, Jobs
  <1>6. CASE Save(w)
    BY <1>1, <1>6 DEF Save, Busy, Jobs
  <1>7. CASE Record(w)
    BY <1>1, <1>7 DEF Record, Busy, Jobs
  <1>8. CASE Finish(w)
    BY <1>1, <1>8 DEF Finish, Answered, Busy, Jobs
  <1>9. CASE GiveUp(w)
    BY <1>1, <1>9 DEF GiveUp, Answered, Busy, Jobs
  <1> QED
    BY <1>2, <1>3, <1>4, <1>5, <1>6, <1>7, <1>8, <1>9 DEF Work

\* Unless a run is claimed, a worker keeps its token or stops.
LEMMA OwnTokensKept ==
    ASSUME TypeOK, OwnTokens,
           \A v \in Workers : \/ worker'[v].at = "idle"
                              \/ Busy(v) /\ worker'[v].token = worker[v].token
    PROVE  OwnTokens'
BY DEF OwnTokens, Busy

\* The steps that touch a worker.
LEMMA WorkerSteps ==
    ASSUME [Next]_vars
    PROVE  \/ UNCHANGED <<worker, tokens>>
           \/ \E w \in Workers, m \in Asks : Claim(w, m)
           \/ \E w \in Workers : Work(w)
           \/ \E w \in Workers, kind \in Losses : Lose(w, kind)
  <1>1. CASE Ask \/ AfterEdit \/ Purge \/ Tick
    BY <1>1 DEF Ask, AfterEdit, Purge, Tick
  <1>2. CASE \E m \in Asks : Dispatch(m)
    BY <1>2 DEF Dispatch
  <1>3. CASE \E w \in Workers, m \in Asks : TakeSettled(w, m) \/ TakeBusy(w, m)
    BY <1>3 DEF TakeSettled, TakeBusy
  <1>4. CASE \E t \in Texts : RefreshTask(t) \/ Edit(t) \/ CloseAbandoned(t)
    BY <1>4 DEF RefreshTask, Edit, CloseAbandoned
  <1>5. CASE UNCHANGED vars
    BY <1>5 DEF vars
  <1> QED
    BY <1>1, <1>2, <1>3, <1>4, <1>5 DEF Next, Take

LEMMA WorkersKept ==
    ASSUME Shape, [Next]_vars
    PROVE  (\A v \in Workers : InPlan(v)') /\ OwnTokens'
  <1>0. TypeOK /\ OwnTokens /\ \A v \in Workers : InPlan(v) /\ worker[v] \in Jobs
    BY DEF Shape, TypeOK
  <1>1. CASE UNCHANGED <<worker, tokens>>
    <2>1. \A v \in Workers : InPlan(v)'
      BY <1>0, <1>1, InPlanKept
    <2>2. OwnTokens'
      BY <1>0, <1>1 DEF OwnTokens, Busy
    <2> QED
      BY <2>1, <2>2
  <1>2. ASSUME NEW w \in Workers, NEW m \in Asks, Claim(w, m)
        PROVE  (\A v \in Workers : InPlan(v)') /\ OwnTokens'
    <2>1. /\ worker'[w].at = "project" /\ worker'[w].run = msg[m].run
          /\ worker'[w].token = tokens + 1 /\ worker'[w].done = 0
          /\ tokens' = tokens + 1 /\ \A v \in Workers : v # w => worker'[v] = worker[v]
      BY <1>0, <1>2 DEF Claim, Idle, TypeOK
    <2>2. msg[m].run \in Texts /\ tokens \in Nat
      BY <1>2, BoundAssumption DEF Claim, Shape, MessagesName, TypeOK
    <2>3. Len(Plan[msg[m].run]) \in Nat
      BY <2>2, PlanAssumption
    <2>4. InPlan(w)'
      BY <2>1, <2>2, <2>3 DEF InPlan, Busy, Reading
    <2>5. \A v \in Workers : v # w => InPlan(v)'
      BY <1>0, <2>1, InPlanKept
    <2>6. \A v \in Workers : Busy(v) => worker[v].token \in 1 .. tokens
      BY <1>0 DEF InPlan
    <2>7. OwnTokens'
      BY <1>0, <2>1, <2>2, <2>6 DEF OwnTokens, Busy
    <2> QED
      BY <2>4, <2>5, <2>7
  <1>3. ASSUME NEW w \in Workers, Work(w)
        PROVE  (\A v \in Workers : InPlan(v)') /\ OwnTokens'
    <2>1. Busy(w) /\ tokens' = tokens /\ \A v \in Workers : v # w => worker'[v] = worker[v]
      BY <1>0, <1>3, WorkSteps
    <2>2. /\ worker[w].run \in Texts /\ worker[w].done \in 0 .. Len(Plan[worker[w].run])
          /\ Len(Plan[worker[w].run]) \in Nat /\ worker[w].token \in 1 .. tokens
      BY <1>0, <2>1, PlanAssumption DEF InPlan
    <2>3. worker'[w].token = worker[w].token \/ worker'[w] = Idle
      BY <1>0, <1>3, WorkSteps
    <2>4. OwnTokens'
      BY <1>0, <2>1, <2>3, OwnTokensKept DEF Idle, Busy, OwnTokens
    <2>5. \A v \in Workers : v # w => InPlan(v)'
      BY <1>0, <2>1, InPlanKept
    <2>6. CASE \/ worker'[w] = Idle
               \/ \E p \in {"project", "check", "stale", "broken"} :
                    worker'[w] = [worker[w] EXCEPT !.at = p]
      BY <1>0, <2>1, <2>5, <2>4, <2>6, InPlanKept
    <2>7. CASE Check(w) /\ worker'[w] = [worker[w] EXCEPT !.at = "look"]
      <3>1. worker[w].done + 1 \in 1 .. Len(Plan[worker[w].run])
        BY <2>2, <2>7 DEF Check
      <3>2. InPlan(w)'
        BY <1>0, <2>1, <2>2, <2>7, <3>1 DEF InPlan, Busy, Reading, Jobs
      <3> QED
        BY <2>4, <2>5, <3>2
    <2>8. CASE Look(w) /\ \E y \in Ids : worker'[w] = [worker[w] EXCEPT !.at = "record", !.row = y]
      <3>1. InPlan(w)'
        BY <1>0, <2>1, <2>8 DEF Look, InPlan, Busy, Reading, Jobs
      <3> QED
        BY <2>4, <2>5, <3>1
    <2>9. CASE /\ Look(w)
               /\ worker'[w] = [worker[w] EXCEPT !.at = "call", !.row = <<worker[w].token, Window(w)>>]
      <3>1. InPlan(w)'
        BY ZenonT(40), <1>0, <2>1, <2>9 DEF Look, InPlan, Busy, Reading, Jobs, Window
      <3> QED
        BY <2>4, <2>5, <3>1
    <2>10. CASE Answer(w) /\ worker'[w] = [worker[w] EXCEPT !.at = "save"]
      <3>1. InPlan(w)'
        BY <1>0, <2>1, <2>10 DEF Answer, InPlan, Busy, Reading, Jobs, Window
      <3> QED
        BY <2>4, <2>5, <3>1
    <2>11. CASE Save(w) /\ worker'[w] = [worker[w] EXCEPT !.at = "record"]
      <3>1. worker[w].row \in Ids
        BY <1>0, <2>11, WindowTyped DEF Save, InPlan, Reading
      <3>2. InPlan(w)'
        BY <1>0, <2>1, <2>11, <3>1 DEF Save, InPlan, Busy, Reading, Jobs, Window
      <3> QED
        BY <2>4, <2>5, <3>2
    <2>12. CASE /\ Record(w)
                /\ \E r \in SUBSET Ids :
                     worker'[w] = [worker[w] EXCEPT !.at = "project", !.done = @ + 1,
                                                    !.row = NoRow, !.results = r]
      <3>1. worker[w].done + 1 \in 0 .. Len(Plan[worker[w].run])
        BY <1>0, <2>2, <2>12 DEF Record, InPlan, Reading
      <3>2. InPlan(w)'
        BY <1>0, <2>1, <2>2, <2>12, <3>1 DEF InPlan, Busy, Reading, Jobs
      <3> QED
        BY <2>4, <2>5, <3>2
    <2>13. CASE Project(w) \/ Finish(w) \/ GiveUp(w)
      BY <1>0, <2>6, <2>13 DEF Project, Finish, GiveUp, TypeOK
    <2>14. CASE Check(w)
      BY <1>0, <2>6, <2>7, <2>14 DEF Check, TypeOK
    <2>15. CASE Look(w)
      <3>1. \/ \E y \in Ids : worker' = [worker EXCEPT ![w].at = "record", ![w].row = y]
            \/ worker' = [worker EXCEPT ![w].at = "call", ![w].row = <<worker[w].token, Window(w)>>]
            \/ worker' = [worker EXCEPT ![w].at = "broken"]
        BY <2>15 DEF Look, Readings, Window
      <3> QED
        BY <1>0, <2>6, <2>8, <2>9, <2>15, <3>1 DEF TypeOK
    <2>16. CASE Answer(w)
      BY <1>0, <2>6, <2>10, <2>16 DEF Answer, TypeOK
    <2>17. CASE Save(w)
      BY <1>0, <2>6, <2>11, <2>17 DEF Save, TypeOK
    <2>18. CASE Record(w)
      <3>1. worker[w].results \cup {worker[w].row} \in SUBSET Ids
        BY <1>0, <2>18 DEF Record, InPlan, Jobs
      <3> QED
        BY <1>0, <2>6, <2>12, <2>18, <3>1 DEF Record, TypeOK
    <2> QED
      BY <1>3, <2>13, <2>14, <2>15, <2>16, <2>17, <2>18 DEF Work
  <1>4. ASSUME NEW w \in Workers, NEW kind \in Losses, Lose(w, kind)
        PROVE  (\A v \in Workers : InPlan(v)') /\ OwnTokens'
    <2>1. worker'[w] = Idle /\ tokens' = tokens /\ \A v \in Workers : v # w => worker'[v] = worker[v]
      BY <1>0, <1>4 DEF Lose, TypeOK
    <2>2. \A v \in Workers : InPlan(v)'
      BY <1>0, <2>1, InPlanKept
    <2>3. OwnTokens'
      BY <1>0, <2>1 DEF OwnTokens, Busy, Idle
    <2> QED
      BY <2>2, <2>3
  <1> QED
    BY <1>1, <1>2, <1>3, <1>4, WorkerSteps

\* A message is about the run it was about, or about the text it was made or carried for.
LEMMA MessageRuns ==
    ASSUME Shape, [Next]_vars, NEW m \in Asks, msg'[m].at # "none"
    PROVE  \/ msg[m].at # "none" /\ msg'[m].run = msg[m].run
           \/ text # NoText /\ msg'[m].run = text
  <1> DEFINE Kept == msg[m].at # "none" /\ msg'[m].run = msg[m].run
             Named == text # NoText /\ msg'[m].run = text
  <1> SUFFICES Kept \/ Named
    OBVIOUS
  <1> USE DEF Shape
  <1>1. msg[m] \in Messages /\ msg \in [Asks -> Messages]
    BY DEF TypeOK
  <1>2. CASE msg'[m] = msg[m]
    BY <1>2
  <1>3. ASSUME NEW a, msg'[m] = [msg[m] EXCEPT !.at = a], msg[m].at # "none" PROVE Kept
    BY <1>1, <1>3 DEF Messages
  <1>4. CASE QueueAnalysis
    BY <1>1, <1>2, <1>4 DEF QueueAnalysis
  <1>5. CASE AfterEdit
    <2>1. CASE msg' = msg
      BY <1>2, <2>1
    <2>2. ASSUME text # NoText, NEW r \in Texts, Carry(r) PROVE Kept \/ Named
      <3>1. msg'[m] = [msg[m] EXCEPT !.run = IF msg[m].run = r THEN text ELSE msg[m].run]
        BY <2>2 DEF Carry
      <3>2. /\ msg'[m].at = msg[m].at
            /\ msg'[m].run = IF msg[m].run = r THEN text ELSE msg[m].run
        BY <1>1, <3>1 DEF Messages
      <3> QED
        BY <1>1, <2>2, <3>2
    <2> QED
      BY <1>4, <1>5, <2>1, <2>2 DEF AfterEdit
  <1>6. CASE Tick
    BY <1>1, <1>2, <1>3, <1>6 DEF Tick
  <1>7. ASSUME NEW n \in Asks, Dispatch(n) PROVE Kept \/ Named
    BY <1>1, <1>2, <1>3, <1>7 DEF Dispatch
  <1>8. ASSUME NEW w \in Workers, NEW n \in Asks, Take(w, n) PROVE Kept \/ Named
    <2>1. CASE msg[m].at = "none"
      BY <1>1, <1>2, <1>8, <2>1 DEF Take, TakeSettled, TakeBusy, Claim, Answered
    <2>2. CASE msg[m].at # "none"
      BY <1>1, <1>8, <2>2 DEF Take, TakeSettled, TakeBusy, Claim, Answered, Messages
    <2> QED
      BY <2>1, <2>2
  <1>9. ASSUME NEW w \in Workers, Work(w) PROVE Kept \/ Named
    <2>1. CASE msg' = msg
      BY <1>2, <2>1
    <2>2. CASE Finish(w) \/ GiveUp(w)
      <3>1. msg' = msg \/ msg' = [msg EXCEPT ![worker[w].msg].at = "gone"]
        BY <2>2 DEF Finish, GiveUp, Answered
      <3>2. Busy(w)
        BY <2>2 DEF Finish, GiveUp, Busy
      <3>3. CASE worker[w].msg = m
        BY <1>1, <1>2, <1>3, <3>1, <3>2, <3>3 DEF HasMessage
      <3> QED
        BY <1>1, <1>2, <1>3, <3>1, <3>3
    <2> QED
      BY <1>9, <2>1, <2>2 DEF Work, Project, Check, Look, Answer, Save, Record
  <1>10. ASSUME NEW w \in Workers, NEW kind, Lose(w, kind) PROVE Kept \/ Named
    <2>1. Busy(w)
      BY <1>10 DEF Lose, Busy
    <2>2. CASE worker[w].msg = m
      BY <1>1, <1>3, <1>10, <2>1, <2>2 DEF HasMessage, Lose
    <2> QED
      BY <1>1, <1>2, <1>10, <2>2 DEF Lose
  <1>11. CASE UNCHANGED vars
    BY <1>2, <1>11 DEF vars
  <1>12. CASE \/ Purge
              \/ \E t \in Texts : RefreshTask(t) \/ Edit(t) \/ CloseAbandoned(t)
    BY <1>2, <1>12 DEF Purge, RefreshTask, Edit, CloseAbandoned
  <1> QED
    BY <1>4, <1>5, <1>6, <1>7, <1>8, <1>9, <1>10, <1>11, <1>12 DEF Next, Ask

LEMMA MessagesKept == ASSUME Shape, [Next]_vars PROVE MessagesName'
BY MessageRuns DEF MessagesName, Shape, TypeOK

\* A message that was made stays made.
LEMMA StaysMade ==
    ASSUME TypeOK, [Next]_vars, NEW m \in Asks, msg[m].at # "none"
    PROVE  msg'[m].at # "none"
  <1>1. msg[m] \in Messages /\ msg \in [Asks -> Messages]
    BY DEF TypeOK
  <1>2. CASE msg' = msg
    BY <1>2
  <1>3. CASE \E n : Moves(n)
    BY <1>1, <1>3 DEF Moves, Messages
  <1>4. CASE QueueAnalysis
    BY <1>1, <1>4 DEF QueueAnalysis
  <1>5. CASE AfterEdit
    <2>1. ASSUME NEW r \in Texts, Carry(r) PROVE msg'[m].at # "none"
      BY <1>1, <2>1 DEF Carry, Messages
    <2> QED
      BY <1>2, <1>4, <1>5, <2>1 DEF AfterEdit
  <1>6. CASE Tick
    BY <1>1, <1>6 DEF Tick, Messages
  <1>7. ASSUME NEW n \in Asks, Dispatch(n) PROVE msg'[m].at # "none"
    BY <1>3, <1>7 DEF Dispatch, Moves
  <1>8. ASSUME NEW w \in Workers, NEW n \in Asks, Take(w, n) PROVE msg'[m].at # "none"
    BY <1>1, <1>8 DEF Take, TakeSettled, TakeBusy, Claim, Answered, Messages
  <1>9. ASSUME NEW w \in Workers, Work(w) PROVE msg'[m].at # "none"
    <2>1. msg' = msg \/ msg' = [msg EXCEPT ![worker[w].msg].at = "gone"]
      BY <1>9, WorkSteps
    <2> QED
      BY <1>1, <2>1 DEF Messages
  <1>10. ASSUME NEW w \in Workers, NEW kind, Lose(w, kind) PROVE msg'[m].at # "none"
    BY <1>1, <1>10 DEF Lose, Messages
  <1>11. CASE UNCHANGED vars
    BY <1>2, <1>11 DEF vars
  <1>12. CASE \/ Purge
              \/ \E t \in Texts : RefreshTask(t) \/ Edit(t) \/ CloseAbandoned(t)
    BY <1>2, <1>12 DEF Purge, RefreshTask, Edit, CloseAbandoned
  <1> QED
    BY <1>4, <1>5, <1>6, <1>7, <1>8, <1>9, <1>10, <1>11, <1>12 DEF Next, Ask

LEMMA HasMessageKept == ASSUME Shape, [Next]_vars PROVE HasMessage'
  <1> SUFFICES ASSUME NEW v \in Workers, Busy(v)'
               PROVE  msg'[worker'[v].msg].at # "none" /\ worker'[v].msg \in Asks
    BY DEF HasMessage
  <1>1. TypeOK /\ worker[v] \in Jobs
    BY DEF Shape, TypeOK
  <1>2. CASE Busy(v) /\ worker'[v].msg = worker[v].msg
    BY <1>1, <1>2, StaysMade DEF Shape, HasMessage
  <1>3. CASE UNCHANGED <<worker, tokens>>
    BY <1>2, <1>3 DEF Busy
  <1>4. ASSUME NEW w \in Workers, NEW m \in Asks, Claim(w, m)
        PROVE  msg'[worker'[v].msg].at # "none" /\ worker'[v].msg \in Asks
    <2>1. CASE v = w
      <3>1. worker'[v].msg = m
        BY <1>1, <1>4, <2>1 DEF Claim, Idle, TypeOK
      <3> QED
        BY <1>1, <1>4, <3>1, StaysMade DEF Claim
    <2>2. CASE v # w
      BY <1>1, <1>2, <1>4, <2>2 DEF Claim, Busy, TypeOK
    <2> QED
      BY <2>1, <2>2
  <1>5. ASSUME NEW w \in Workers, Work(w)
        PROVE  msg'[worker'[v].msg].at # "none" /\ worker'[v].msg \in Asks
    <2>1. CASE v = w
      <3>1. worker'[v].msg = worker[v].msg \/ worker'[v] = Idle
        BY <1>1, <1>5, <2>1, WorkSteps
      <3>2. Busy(v)
        BY <1>5, <2>1 DEF Work, Project, Check, Look, Answer, Save, Record, Finish, GiveUp, Busy
      <3> QED
        BY <1>2, <3>1, <3>2 DEF Busy, Idle
    <2>2. CASE v # w
      BY <1>1, <1>2, <1>5, <2>2 DEF Work, Project, Check, Look, Answer, Save, Record, Finish,
                                    GiveUp, Busy, TypeOK
    <2> QED
      BY <2>1, <2>2
  <1>6. ASSUME NEW w \in Workers, NEW kind, Lose(w, kind)
        PROVE  msg'[worker'[v].msg].at # "none" /\ worker'[v].msg \in Asks
    BY <1>1, <1>2, <1>6 DEF Lose, Busy, Idle, TypeOK
  <1> QED
    BY <1>3, <1>4, <1>5, <1>6, WorkerSteps

LEMMA ShapeKept == Shape /\ [Next]_vars => Shape'
BY NextTyped, MessagesKept, HasMessageKept, WorkersKept DEF Shape

LEMMA InitShape == Init => Shape
  <1>1. Init => TypeOK
    BY InitTyped
  <1> QED
    BY <1>1 DEF Init, Shape, MessagesName, HasMessage, InPlan, OwnTokens, Busy, Reading, Idle

LEMMA ShapeHolds == Spec => []Shape
BY InitShape, ShapeKept, PTL DEF Spec

\* Every state of the protocol is well typed: tokens, retries and ages stay in their bounds and
\* a worker stays in the plan of the text it reads, whatever the workers, texts and windows.
THEOREM Typed == Spec => []TypeOK
  <1>1. Shape => TypeOK
    BY DEF Shape
  <1> QED
    BY <1>1, ShapeHolds, PTL

--------------------------------------------------------------------------------
(* A succeeded analysis is read.                                             *)

\* A row is about the window it was made for: nothing is re-keyed while no edit is a phrase.
HashKept == \A x \in Ids : air[x].hash = x[2]

\* What a worker has counted was read, what it is about to count was read, and the row of the
\* call it waits for is its own.
Counted(w) ==
    /\ Busy(w) => \A i \in 1 .. worker[w].done : Plan[worker[w].run][i] \in Read
    /\ worker[w].at \in {"call", "save"} => air[worker[w].row].status # "succeeded"
    /\ worker[w].at = "record" => Window(w) \in Read

Sound == Shape /\ HashKept /\ (\A w \in Workers : Counted(w)) /\ SucceededIsRead

\* A reading that was validated is never lost.
Grows == \A x \in Ids : /\ air'[x].hash = air[x].hash
                        /\ air[x].status = "succeeded" => air'[x].status = "succeeded"

LEMMA ReadGrows == ASSUME Grows PROVE Read \subseteq Read'
  <1> SUFFICES ASSUME NEW h \in Windows, NEW x \in Readings(h) PROVE \E y \in Ids : y \in Readings(h)'
    BY DEF Read, Readings
  <1>1. x \in Ids /\ air[x].status = "succeeded" /\ air[x].hash = h
    BY DEF Readings
  <1>2. air'[x].status = "succeeded" /\ air'[x].hash = h
    BY <1>1 DEF Grows
  <1> QED
    BY <1>1, <1>2 DEF Readings

\* Without a phrase edit, the readings that are carried keep their windows.
LEMMA CarriedAsTheyAre ==
    ASSUME TypeOK, Phrase = {}, NEW r \in Texts, CanCarry(r), Carry(r)
    PROVE  /\ Grows /\ WindowsOf(text) \subseteq Read
           /\ \A x \in Ids : air'[x].status = air[x].status
  <1>1. \A h \in WindowsOf(text) \ Read : Carries(r, h) = {}
    BY DEF Carries
  <1>2. WindowsOf(text) \ Read = {}
    BY <1>1 DEF CanCarry
  <1>3. ASSUME NEW x \in Ids PROVE air'[x].hash = air[x].hash /\ air'[x].status = air[x].status
    <2> DEFINE missing == WindowsOf(text) \ Read
               rekeyed == [h \in missing |-> CHOOSE y \in Carries(r, h) : TRUE]
               hash == IF \E h \in missing : rekeyed[h] = x
                       THEN CHOOSE h \in missing : rekeyed[h] = x ELSE air[x].hash
               of == IF air[x].of = r THEN text ELSE air[x].of
    <2>1. air'[x] = [air[x] EXCEPT !.of = of, !.hash = hash]
      BY DEF Carry
    <2>2. hash = air[x].hash
      BY <1>2
    <2> HIDE DEF hash, of
    <2>3. air[x] \in Rows
      BY DEF TypeOK
    <2> QED
      BY <2>1, <2>2, <2>3 DEF Rows
  <1> QED
    BY <1>2, <1>3 DEF Grows

LEMMA RowsGrow ==
    ASSUME Phrase = {}, Sound, [Next]_vars
    PROVE  Grows
  <1>0. air \in [Ids -> Rows]
    BY DEF Sound, Shape, TypeOK
  <1>1. CASE air' = air
    BY <1>1 DEF Grows
  <1>2. CASE AfterEdit
    BY <1>1, <1>2, CarriedAsTheyAre DEF AfterEdit, Sound, Shape
  <1>3. CASE Purge
    BY <1>0, <1>3 DEF Purge, Grows, Rows
  <1>4. ASSUME NEW w \in Workers, NEW m \in Asks, Claim(w, m) PROVE Grows
    <2> SUFFICES ASSUME NEW x \in Ids
                 PROVE  /\ air'[x].hash = air[x].hash
                        /\ air[x].status = "succeeded" => air'[x].status = "succeeded"
      BY DEF Grows
    <2>1. air'[x] = IF air[x].of = msg[m].run /\ air[x].status = "submitted"
                    THEN [air[x] EXCEPT !.status = "failed"] ELSE air[x]
      BY <1>4 DEF Claim
    <2> QED
      BY <1>0, <2>1 DEF Rows
  <1>5. ASSUME NEW w \in Workers, Look(w) PROVE Grows
    <2> DEFINE x == <<worker[w].token, Window(w)>>
    <2>1. x \in Ids /\ air[x].hash = Window(w) /\ Window(w) \in Windows
      BY <1>5, WindowTyped DEF Look, Reading, Sound, HashKept
    <2>2. CASE /\ Readings(Window(w)) = {}
               /\ air' = [air EXCEPT ![x] = [status |-> "submitted", of |-> worker[w].run,
                                             hash |-> Window(w), words |-> TRUE]]
      <3>1. air[x].status # "succeeded"
        BY <2>1, <2>2 DEF Readings
      <3> HIDE DEF x
      <3> QED
        BY <1>0, <2>1, <2>2, <3>1 DEF Grows, Rows
    <2> QED
      BY <1>1, <1>5, <2>2 DEF Look, Window
  <1>6. ASSUME NEW w \in Workers, Answer(w) \/ Save(w) PROVE Grows
    <2>1. worker[w].row \in Ids /\ air[worker[w].row].status # "succeeded"
      BY <1>6, WindowTyped DEF Answer, Save, Sound, Shape, InPlan, Counted, Reading
    <2>2. Closes(worker[w].row)
      BY <1>6 DEF Answer, Save, Closes
    <2> QED
      BY <1>0, <2>1, <2>2 DEF Closes, Grows, Rows
  <1>7. CASE Ask \/ Tick \/ \E m \in Asks : Dispatch(m)
    BY <1>1, <1>7 DEF Ask, Tick, Dispatch
  <1>8. CASE \E w \in Workers, m \in Asks : TakeSettled(w, m) \/ TakeBusy(w, m)
    BY <1>1, <1>8 DEF TakeSettled, TakeBusy
  <1>9. CASE \E w \in Workers : Project(w) \/ Check(w) \/ Record(w) \/ Finish(w) \/ GiveUp(w)
    BY <1>1, <1>9 DEF Project, Check, Record, Finish, GiveUp
  <1>10. CASE \E w \in Workers, kind \in Losses : Lose(w, kind)
    BY <1>1, <1>10 DEF Lose
  <1>11. CASE \E t \in Texts : RefreshTask(t) \/ Edit(t) \/ CloseAbandoned(t)
    BY <1>1, <1>11 DEF RefreshTask, Edit, CloseAbandoned
  <1>12. CASE UNCHANGED vars
    BY <1>1, <1>12 DEF vars
  <1> QED
    BY <1>2, <1>3, <1>4, <1>5, <1>6, <1>7, <1>8, <1>9, <1>10, <1>11, <1>12 DEF Next, Take, Work

\* Only the worker that waits for a row gets it validated.
LEMMA NewlyRead ==
    ASSUME Phrase = {}, Sound, [Next]_vars,
           NEW x \in Ids, air[x].status # "succeeded", air'[x].status = "succeeded"
    PROVE  \E w \in Workers : Save(w) /\ worker[w].row = x
  <1>0. TypeOK /\ air[x] \in Rows /\ air \in [Ids -> Rows]
    BY DEF Sound, Shape, TypeOK
  <1>1. air' # air
    OBVIOUS
  <1>2. CASE AfterEdit
    BY <1>0, <1>1, <1>2, CarriedAsTheyAre DEF AfterEdit
  <1>3. CASE Purge
    BY <1>0, <1>3 DEF Purge, Rows
  <1>4. ASSUME NEW w \in Workers, NEW m \in Asks, Claim(w, m) PROVE FALSE
    <2>1. air'[x] = IF air[x].of = msg[m].run /\ air[x].status = "submitted"
                    THEN [air[x] EXCEPT !.status = "failed"] ELSE air[x]
      BY <1>4 DEF Claim
    <2> QED
      BY <1>0, <2>1 DEF Rows
  <1>5. ASSUME NEW w \in Workers, Look(w) \/ Answer(w) PROVE FALSE
    <2>1. CASE Look(w)
      <3>1. air' = air \/ \E i, r : r.status = "submitted" /\ air' = [air EXCEPT ![i] = r]
        BY <2>1 DEF Look
      <3> QED
        BY <1>0, <1>1, <3>1
    <2>2. CASE Answer(w)
      BY <1>0, <2>2 DEF Answer, Rows
    <2> QED
      BY <1>5, <2>1, <2>2
  <1>6. ASSUME NEW w \in Workers, Save(w) PROVE worker[w].row = x
    <2>1. Closes(worker[w].row)
      BY <1>6 DEF Save, Closes
    <2>2. x # worker[w].row => air'[x] = air[x]
      BY <1>0, <2>1 DEF Closes
    <2> QED
      BY <2>2
  <1>7. CASE Ask \/ Tick \/ \E m \in Asks : Dispatch(m)
    BY <1>1, <1>7 DEF Ask, Tick, Dispatch
  <1>8. CASE \E w \in Workers, m \in Asks : TakeSettled(w, m) \/ TakeBusy(w, m)
    BY <1>1, <1>8 DEF TakeSettled, TakeBusy
  <1>9. CASE \E w \in Workers : Project(w) \/ Check(w) \/ Record(w) \/ Finish(w) \/ GiveUp(w)
    BY <1>1, <1>9 DEF Project, Check, Record, Finish, GiveUp
  <1>10. CASE \E w \in Workers, kind \in Losses : Lose(w, kind)
    BY <1>1, <1>10 DEF Lose
  <1>11. CASE \E t \in Texts : RefreshTask(t) \/ Edit(t) \/ CloseAbandoned(t)
    BY <1>1, <1>11 DEF RefreshTask, Edit, CloseAbandoned
  <1>12. CASE UNCHANGED vars
    BY <1>1, <1>12 DEF vars
  <1> QED
    BY <1>2, <1>3, <1>4, <1>5, <1>6, <1>7, <1>8, <1>9, <1>10, <1>11, <1>12 DEF Next, Take, Work

LEMMA CountedKept ==
    ASSUME Phrase = {}, Sound, [Next]_vars, NEW v \in Workers
    PROVE  Counted(v)'
  <1>0. /\ TypeOK /\ worker[v] \in Jobs /\ worker \in [Workers -> Jobs] /\ air \in [Ids -> Rows]
        /\ InPlan(v) /\ Counted(v) /\ OwnTokens /\ HashKept /\ Shape
    BY DEF Sound, Shape, TypeOK
  <1>1. Grows /\ Read \subseteq Read'
    BY RowsGrow, ReadGrows
  <1>2. CASE worker'[v] = Idle
    BY <1>2 DEF Counted, Busy, Idle
  <1>3. CASE worker'[v] = worker[v]
    <2>1. CASE worker[v].at \in {"call", "save"}
      <3>1. worker[v].row = <<worker[v].token, Window(v)>> /\ worker[v].row \in Ids /\ Busy(v)
        BY <1>0, <2>1, WindowTyped DEF InPlan, Reading, Busy
      <3>2. SUFFICES ASSUME air'[worker[v].row].status = "succeeded" PROVE FALSE
        BY <1>0, <1>1, <1>3, <2>1 DEF Counted, Busy
      <3>3. PICK w \in Workers : Save(w) /\ worker[w].row = worker[v].row
        BY <1>0, <2>1, <3>1, <3>2, NewlyRead DEF Counted
      <3>4. worker[w].row = <<worker[w].token, Window(w)>> /\ Busy(w)
        BY <1>0, <3>3 DEF Save, Shape, InPlan, Busy
      <3>5. v = w
        BY <1>0, <3>1, <3>3, <3>4 DEF OwnTokens
      <3>6. worker[v].at = "save" /\ worker'[v].at # "save"
        BY <1>0, <3>3, <3>5 DEF Save, Jobs
      <3> QED
        BY <1>3, <3>6
    <2>2. CASE worker[v].at \notin {"call", "save"}
      BY <1>0, <1>1, <1>3, <2>2 DEF Counted, Busy, Window
    <2> QED
      BY <2>1, <2>2
  <1>4. ASSUME NEW p \in {"project", "check", "stale", "broken", "look"},
               Busy(v), worker'[v] = [worker[v] EXCEPT !.at = p]
        PROVE  Counted(v)'
    BY <1>0, <1>1, <1>4 DEF Counted, Busy, Jobs
  <1>5. CASE UNCHANGED <<worker, tokens>>
    BY <1>3, <1>5
  <1>6. ASSUME NEW w \in Workers, NEW m \in Asks, Claim(w, m) PROVE Counted(v)'
    <2>1. CASE v = w
      <3>1. worker'[v].at = "project" /\ worker'[v].done = 0
        BY <1>0, <1>6, <2>1 DEF Claim, Idle
      <3> QED
        BY <3>1 DEF Counted
    <2> QED
      BY <1>0, <1>3, <1>6, <2>1 DEF Claim
  <1>7. ASSUME Work(v) PROVE Counted(v)'
    <2>1. Busy(v)
      BY <1>7 DEF Work, Project, Check, Look, Answer, Save, Record, Finish, GiveUp, Busy
    <2>2. CASE Project(v) \/ Check(v) \/ Finish(v) \/ GiveUp(v)
      BY <1>0, <1>2, <1>4, <2>1, <2>2 DEF Project, Check, Finish, GiveUp
    <2>3. CASE Look(v)
      <3>1. CASE \E y \in Readings(Window(v)) : worker'[v] = [worker[v] EXCEPT !.at = "record", !.row = y]
        <4>1. Window(v) \in Read
          BY <1>0, <2>3, <3>1, WindowTyped DEF Look, Reading, Read
        <4> QED
          BY <1>0, <1>1, <2>1, <3>1, <4>1 DEF Counted, Busy, Jobs, Window
      <3>2. CASE worker'[v] = [worker[v] EXCEPT !.at = "call", !.row = <<worker[v].token, Window(v)>>]
                 /\ air'[<<worker[v].token, Window(v)>>].status = "submitted"
        BY <1>0, <1>1, <2>1, <3>2 DEF Counted, Busy, Jobs
      <3>3. <<worker[v].token, Window(v)>> \in Ids
        BY <1>0, <2>3, WindowTyped DEF Look, Reading
      <3>4. CASE worker' = [worker EXCEPT ![v].at = "broken"]
        BY <1>0, <1>4, <2>1, <3>4
      <3>5. CASE \E y \in Readings(Window(v)) :
                   worker' = [worker EXCEPT ![v].at = "record", ![v].row = y]
        BY <1>0, <3>1, <3>5
      <3>6. CASE /\ worker' = [worker EXCEPT ![v].at = "call",
                                             ![v].row = <<worker[v].token, Window(v)>>]
                 /\ air' = [air EXCEPT ![<<worker[v].token, Window(v)>>] =
                               [status |-> "submitted", of |-> worker[v].run,
                                hash |-> Window(v), words |-> TRUE]]
        BY <1>0, <3>2, <3>3, <3>6
      <3> QED
        BY <2>3, <3>4, <3>5, <3>6 DEF Look, Window
    <2>4. CASE Answer(v)
      <3>1. CASE worker'[v] = [worker[v] EXCEPT !.at = "save"] /\ air' = air
        BY <1>0, <1>1, <2>1, <2>4, <3>1 DEF Answer, Counted, Busy, Jobs
      <3> QED
        BY <1>0, <1>4, <2>1, <2>4, <3>1 DEF Answer
    <2>5. CASE Save(v)
      <3>1. CASE /\ worker'[v] = [worker[v] EXCEPT !.at = "record"]
                 /\ air' = [air EXCEPT ![worker[v].row].status = "succeeded",
                                       ![worker[v].row].words = TRUE]
        <4>1. worker[v].row = <<worker[v].token, Window(v)>> /\ worker[v].row \in Ids
              /\ Window(v) \in Windows
          BY <1>0, <2>5, WindowTyped DEF Save, InPlan, Reading
        <4>2. air'[worker[v].row].status = "succeeded" /\ air'[worker[v].row].hash = Window(v)
          BY <1>0, <3>1, <4>1 DEF HashKept, Rows
        <4>3. Window(v) \in Read'
          BY <4>1, <4>2 DEF Read, Readings
        <4> QED
          BY <1>0, <1>1, <2>1, <3>1, <4>3 DEF Counted, Busy, Jobs, Window
      <3> QED
        BY <1>0, <1>4, <2>1, <2>5, <3>1 DEF Save
    <2>6. CASE Record(v)
      <3>1. CASE \E r \in SUBSET Ids :
                   worker'[v] = [worker[v] EXCEPT !.at = "project", !.done = @ + 1,
                                                  !.row = NoRow, !.results = r]
        <4>1. Window(v) \in Read
          BY <1>0, <2>6 DEF Record, Counted
        <4>2. worker'[v].done = worker[v].done + 1 /\ worker'[v].run = worker[v].run
              /\ worker'[v].at = "project" /\ worker[v].done \in Nat
          BY <1>0, <3>1 DEF Jobs
        <4>3. \A i \in 1 .. worker'[v].done : i \in 1 .. worker[v].done \/ i = worker[v].done + 1
          BY <4>2
        <4>4. \A i \in 1 .. worker'[v].done : Plan[worker[v].run][i] \in Read
          BY <1>0, <2>1, <4>1, <4>3 DEF Counted, Window
        <4> QED
          BY <1>1, <4>2, <4>4 DEF Counted
      <3>2. worker[v].results \cup {worker[v].row} \in SUBSET Ids
        BY <1>0, <2>6 DEF Record, InPlan, Jobs
      <3> QED
        BY <1>0, <1>4, <2>1, <2>6, <3>1, <3>2 DEF Record
    <2> QED
      BY <1>7, <2>2, <2>3, <2>4, <2>5, <2>6 DEF Work
  <1>8. ASSUME NEW w \in Workers, Work(w), w # v PROVE Counted(v)'
    <2>1. worker'[v] = worker[v]
      BY <1>0, <1>8 DEF Work, Project, Check, Look, Answer, Save, Record, Finish, GiveUp
    <2> QED
      BY <1>3, <2>1
  <1>9. ASSUME NEW w \in Workers, NEW kind \in Losses, Lose(w, kind) PROVE Counted(v)'
    BY <1>0, <1>2, <1>3, <1>9 DEF Lose
  <1> QED
    BY <1>5, <1>6, <1>7, <1>8, <1>9, WorkerSteps

LEMMA SucceededKept == ASSUME Phrase = {}, Sound, [Next]_vars PROVE SucceededIsRead'
  <1>0. TypeOK /\ Read \subseteq Read'
    BY RowsGrow, ReadGrows DEF Sound, Shape
  <1> SUFFICES ASSUME NEW t \in Texts, run'[t].status = "succeeded"
               PROVE  WindowsOf(t) \subseteq Read'
    BY DEF SucceededIsRead, WindowsOf
  <1>1. CASE run[t].status = "succeeded"
    BY <1>0, <1>1 DEF Sound, SucceededIsRead
  <1>2. CASE run'[t] = run[t]
    BY <1>1, <1>2
  <1>3. ASSUME NEW u, NEW s \in Statuses, s # "succeeded", run' = Marked(u, s)
        PROVE  WindowsOf(t) \subseteq Read'
    BY <1>0, <1>1, <1>3 DEF Marked, TypeOK, Runs
  <1>4. CASE QueueAnalysis
    BY <1>2, <1>3, <1>4 DEF QueueAnalysis, Statuses
  <1>5. CASE AfterEdit
    <2>1. ASSUME text # NoText, NEW r \in Texts, CanCarry(r), Carry(r)
          PROVE  WindowsOf(t) \subseteq Read'
      <3>1. WindowsOf(text) \subseteq Read
        BY <1>0, <2>1, CarriedAsTheyAre
      <3>2. CASE t = text
        BY <1>0, <3>1, <3>2
      <3>3. CASE t # text
        BY <1>0, <1>1, <2>1, <3>3 DEF Carry, NoRun, TypeOK
      <3> QED
        BY <3>2, <3>3
    <2> QED
      BY <1>2, <1>4, <1>5, <2>1 DEF AfterEdit
  <1>6. CASE Purge
    BY <1>6 DEF Purge, NoRun
  <1>7. CASE Tick
    BY <1>0, <1>1, <1>7 DEF Tick, TypeOK, Runs
  <1>8. ASSUME NEW m \in Asks, Dispatch(m) PROVE WindowsOf(t) \subseteq Read'
    BY <1>2, <1>3, <1>8 DEF Dispatch, Statuses
  <1>9. ASSUME NEW w \in Workers, NEW m \in Asks, Claim(w, m) PROVE WindowsOf(t) \subseteq Read'
    BY <1>0, <1>1, <1>9 DEF Claim, TypeOK, Runs
  <1>10. ASSUME NEW w \in Workers, Check(w) \/ GiveUp(w) PROVE WindowsOf(t) \subseteq Read'
    BY <1>2, <1>3, <1>10 DEF Check, GiveUp, Statuses
  <1>11. ASSUME NEW w \in Workers, Record(w) PROVE WindowsOf(t) \subseteq Read'
    <2>1. ASSUME NEW r, run' = [run EXCEPT ![worker[w].run].results = r, ![worker[w].run].age = 0]
          PROVE  run'[t].status = run[t].status
      BY <1>0, <2>1 DEF TypeOK, Runs
    <2> QED
      BY <1>1, <1>2, <1>11, <2>1 DEF Record
  <1>12. ASSUME NEW w \in Workers, Finish(w) PROVE WindowsOf(t) \subseteq Read'
    <2>1. CASE run' = run
      BY <1>2, <2>1
    <2>2. CASE run' = Marked(worker[w].run, "succeeded") /\ t # worker[w].run
      BY <1>0, <1>1, <2>2 DEF Marked, TypeOK
    <2>3. CASE t = worker[w].run
      <3>1. worker[w].done = Len(Plan[t]) /\ Counted(w) /\ Busy(w)
        BY <1>12, <2>3 DEF Finish, Sound, Busy
      <3>2. \A i \in 1 .. Len(Plan[t]) : Plan[t][i] \in Read
        BY <2>3, <3>1 DEF Counted
      <3>3. DOMAIN Plan[t] = 1 .. Len(Plan[t])
        BY PlanAssumption
      <3> QED
        BY <1>0, <3>2, <3>3 DEF WindowsOf
    <2> QED
      BY <1>12, <2>1, <2>2, <2>3 DEF Finish
  <1>13. CASE \E w \in Workers : Project(w) \/ Look(w) \/ Answer(w) \/ Save(w)
    BY <1>2, <1>13 DEF Project, Look, Answer, Save
  <1>14. CASE \E w \in Workers, m \in Asks : TakeSettled(w, m) \/ TakeBusy(w, m)
    BY <1>2, <1>14 DEF TakeSettled, TakeBusy
  <1>15. CASE \E w \in Workers, kind \in Losses : Lose(w, kind)
    BY <1>2, <1>15 DEF Lose
  <1>16. ASSUME NEW u \in Texts, RefreshTask(u) \/ Edit(u) \/ CloseAbandoned(u)
         PROVE  WindowsOf(t) \subseteq Read'
    BY <1>2, <1>3, <1>16 DEF RefreshTask, Edit, CloseAbandoned, Statuses
  <1>17. CASE UNCHANGED vars
    BY <1>2, <1>17 DEF vars
  <1> QED
    BY <1>4, <1>5, <1>6, <1>7, <1>8, <1>9, <1>10, <1>11, <1>12, <1>13, <1>14, <1>15, <1>16, <1>17
       DEF Next, Ask, Take, Work

LEMMA SoundKept == Phrase = {} /\ Sound /\ [Next]_vars => Sound'
  <1> SUFFICES ASSUME Phrase = {}, Sound, [Next]_vars PROVE Sound'
    OBVIOUS
  <1>1. Shape'
    BY ShapeKept DEF Sound
  <1>2. HashKept'
    BY RowsGrow DEF Sound, HashKept, Grows
  <1> QED
    BY <1>1, <1>2, CountedKept, SucceededKept DEF Sound

LEMMA InitSound == Init => Sound
  <1> SUFFICES ASSUME Init PROVE Sound
    OBVIOUS
  <1>1. Shape
    BY InitShape
  <1>2. HashKept
    BY DEF Init, HashKept
  <1>3. \A w \in Workers : Counted(w)
    BY DEF Init, Counted, Busy, Idle
  <1>4. SucceededIsRead
    BY DEF Init, SucceededIsRead, NoRun
  <1> QED
    BY <1>1, <1>2, <1>3, <1>4 DEF Sound

\* While no edit counts as a phrase, an analysis that succeeded has a validated reading of every
\* window of its text, for any number of workers, takeovers, deliveries, edits and purges.  (With
\* phrase edits it has not: carry_analysis_forward re-keys readings another run relies on.)
THEOREM Complete == ASSUME Phrase = {} PROVE Spec => []SucceededIsRead
  <1>1. Init => Sound
    BY InitSound
  <1>2. Sound /\ [Next]_vars => Sound'
    BY SoundKept
  <1>3. Sound => SucceededIsRead
    BY DEF Sound
  <1> QED
    BY <1>1, <1>2, <1>3, PTL DEF Spec

--------------------------------------------------------------------------------
(* Purges and leases.                                                        *)

LEMMA PurgedKept == TypeOK /\ PurgedIsGone /\ [Next]_vars => PurgedIsGone'
  <1> SUFFICES ASSUME TypeOK, PurgedIsGone, [Next]_vars, text' = NoText, NEW x \in Ids
               PROVE  ~air'[x].words
    BY DEF PurgedIsGone
  <1>0. air \in [Ids -> Rows] /\ air[x] \in Rows
    BY DEF TypeOK
  <1>1. CASE Purge
    BY <1>0, <1>1 DEF Purge, Rows
  <1>2. CASE text = NoText /\ air'[x] = air[x]
    BY <1>2 DEF PurgedIsGone
  <1>3. ASSUME NEW w \in Workers, NEW m \in Asks, Claim(w, m) PROVE ~air'[x].words
    <2>1. air'[x] = IF air[x].of = msg[m].run /\ air[x].status = "submitted"
                    THEN [air[x] EXCEPT !.status = "failed"] ELSE air[x]
      BY <1>3 DEF Claim
    <2>2. ~air[x].words
      BY <1>3 DEF Claim, PurgedIsGone
    <2> QED
      BY <1>0, <2>1, <2>2 DEF Rows
  <1>4. ASSUME NEW w \in Workers, Look(w) PROVE ~air'[x].words
    BY <1>2, <1>4 DEF Look, Readings
  <1>5. ASSUME NEW w \in Workers, Answer(w) \/ Save(w) PROVE ~air'[x].words
    <2>1. text = NoText /\ ~air[x].words
      BY <1>5 DEF Answer, Save, PurgedIsGone
    <2>2. air' = air \/ air' = [air EXCEPT ![worker[w].row].status = "failed"]
      BY <1>5, <2>1 DEF Answer, Save
    <2> QED
      BY <1>0, <2>1, <2>2 DEF Rows
  <1>6. CASE AfterEdit
    BY <1>2, <1>6 DEF AfterEdit
  <1>7. CASE Ask \/ Tick \/ \E m \in Asks : Dispatch(m)
    BY <1>2, <1>7 DEF Ask, Tick, Dispatch
  <1>8. CASE \E w \in Workers, m \in Asks : TakeSettled(w, m) \/ TakeBusy(w, m)
    BY <1>2, <1>8 DEF TakeSettled, TakeBusy
  <1>9. CASE \E w \in Workers : Project(w) \/ Check(w) \/ Record(w) \/ Finish(w) \/ GiveUp(w)
    BY <1>2, <1>9 DEF Project, Check, Record, Finish, GiveUp
  <1>10. CASE \E w \in Workers, kind \in Losses : Lose(w, kind)
    BY <1>2, <1>10 DEF Lose
  <1>11. CASE \E t \in Texts : RefreshTask(t) \/ Edit(t) \/ CloseAbandoned(t)
    BY <1>2, <1>11, PlanAssumption DEF RefreshTask, Edit, CloseAbandoned
  <1>12. CASE UNCHANGED vars
    BY <1>2, <1>12 DEF vars
  <1> QED
    BY <1>1, <1>3, <1>4, <1>5, <1>6, <1>7, <1>8, <1>9, <1>10, <1>11, <1>12 DEF Next, Take, Work

\* A purged book leaves no words in the ledger, whatever calls are answered after the purge.
THEOREM Purged == Spec => []PurgedIsGone
  <1>1. Init => PurgedIsGone
    BY DEF Init, PurgedIsGone
  <1>2. TypeOK /\ PurgedIsGone /\ [Next]_vars => PurgedIsGone'
    BY PurgedKept
  <1> QED
    BY <1>1, <1>2, Typed, PTL DEF Spec

\* The step that closes a run under way.
ByItsHolder(t) ==
    \/ \E w \in Workers : /\ worker[w].run = t /\ worker[w].token = run[t].lease
                          /\ worker'[w] # worker[w]
    \/ run[t].age = OldTicks /\ run'[t].status = "failed"

\* Nobody but the worker whose token a running analysis carries closes it or writes its results,
\* except the janitor once the run was left alone for hours.
THEOREM Held == Spec => SettledByItsHolder
  <1> DEFINE Settles(t) ==
        /\ text' # NoText /\ run[t].status = "running" /\ run'[t].lease = run[t].lease
        /\ \/ run'[t].status \in {"succeeded", "failed", "cancelled"}
           \/ run'[t].results # run[t].results
  <1>1. TypeOK /\ [Next]_vars => \A t \in Texts : Settles(t) => ByItsHolder(t)
    <2> SUFFICES ASSUME TypeOK, [Next]_vars, NEW t \in Texts, Settles(t) PROVE ByItsHolder(t)
      OBVIOUS
    <2>0. run \in [Texts -> Runs] /\ run[t] \in Runs /\ run'[t] # run[t]
      BY DEF TypeOK
    <2>1. ASSUME QueueAnalysis PROVE FALSE
      BY <2>0, <2>1 DEF QueueAnalysis, Marked, Runs
    <2>2. ASSUME AfterEdit PROVE FALSE
      BY <2>0, <2>1, <2>2 DEF AfterEdit, CanCarry, IsNewest, Carry
    <2>3. ASSUME Purge PROVE FALSE
      BY <2>3 DEF Purge
    <2>4. ASSUME Tick PROVE FALSE
      BY <2>0, <2>4 DEF Tick, Runs
    <2>5. ASSUME NEW m \in Asks, Dispatch(m) PROVE FALSE
      BY <2>0, <2>5 DEF Dispatch, Marked, Runs
    <2>6. ASSUME NEW w \in Workers, NEW m \in Asks, Claim(w, m) PROVE FALSE
      <3>1. run'[t].status = "running" /\ run'[t].results = run[t].results
        BY <2>0, <2>6 DEF Claim, Runs
      <3> QED
        BY <3>1
    <2>7. ASSUME NEW w \in Workers, Check(w) PROVE FALSE
      BY <2>0, <2>7 DEF Check, Marked, Runs
    <2>8. ASSUME NEW w \in Workers, Record(w) \/ Finish(w) \/ GiveUp(w) PROVE ByItsHolder(t)
      <3>1. Holds(w) /\ (t # worker[w].run => run'[t] = run[t])
        BY <2>0, <2>8 DEF Record, Finish, GiveUp, Marked
      <3>2. worker'[w] # worker[w]
        BY <2>8 DEF Record, Finish, GiveUp, Idle, TypeOK, Jobs
      <3> QED
        BY <2>0, <3>1, <3>2 DEF ByItsHolder, Holds
    <2>9. ASSUME NEW u \in Texts, CloseAbandoned(u) PROVE ByItsHolder(t)
      BY <2>0, <2>9 DEF CloseAbandoned, Marked, ByItsHolder, Runs
    <2>10. CASE \E w \in Workers, m \in Asks : TakeSettled(w, m) \/ TakeBusy(w, m)
      BY <2>0, <2>10 DEF TakeSettled, TakeBusy
    <2>11. CASE \E w \in Workers : Project(w) \/ Look(w) \/ Answer(w) \/ Save(w)
      BY <2>0, <2>11 DEF Project, Look, Answer, Save
    <2>12. CASE \E w \in Workers, kind \in Losses : Lose(w, kind)
      BY <2>0, <2>12 DEF Lose
    <2>13. CASE \E u \in Texts : RefreshTask(u) \/ Edit(u)
      BY <2>0, <2>13 DEF RefreshTask, Edit
    <2>14. CASE UNCHANGED vars
      BY <2>0, <2>14 DEF vars
    <2> QED
      BY <2>1, <2>2, <2>3, <2>4, <2>5, <2>6, <2>7, <2>8, <2>9, <2>10, <2>11, <2>12, <2>13, <2>14
         DEF Next, Ask, Take, Work
  <1>2. TypeOK /\ [Next]_vars => [\A t \in Texts : Settles(t) => ByItsHolder(t)]_vars
    BY <1>1
  <1> QED
    BY <1>2, Typed, PTL DEF Spec, SettledByItsHolder, ByItsHolder

--------------------------------------------------------------------------------
(* A window is paid for once: while no call outlasts the lease, a run that    *)
(* is worked on is live, so that nobody else takes it, and the worker that    *)
(* holds it is the only one to read its windows.                              *)

Owned ==
    text # NoText =>
        \A w \in Workers : Busy(w) =>
            /\ run[worker[w].run].status = "running" /\ run[worker[w].run].lease = worker[w].token
            /\ run[worker[w].run].age < LeaseTicks

\* The row a worker waits for is its run's, which has no reading of the window yet.
OwnRow(w) ==
    text # NoText /\ worker[w].at \in {"call", "save"} =>
        /\ air[worker[w].row].of = worker[w].run
        /\ \A y \in Readings(Window(w)) : air[y].of # worker[w].run

\* A text without a run has no row; a reading belongs to a text, which has one of a window.
OfRuns ==
    text # NoText => \A t \in Texts : run[t].status = "none" => \A x \in Ids : air[x].of # t
OfTexts == \A x \in Ids : air[x].status = "succeeded" => air[x].of # NoText
Once == \A h \in Windows : \A x, y \in Readings(h) : air[x].of = air[y].of => x = y

\* Until the text is edited all is of the one text.
OneText ==
    edited = 0 =>
        /\ \A x, y \in Ids : air[x].of = NoText \/ air[y].of = NoText \/ air[x].of = air[y].of
        /\ text # NoText =>
             /\ \A m \in Asks : msg[m].at # "none" => msg[m].run = text
             /\ \A w \in Workers : Busy(w) => worker[w].run = text
             /\ \A x \in Ids : air[x].of \in {NoText, text}

Paid == Sound /\ Owned /\ (\A w \in Workers : OwnRow(w)) /\ OfRuns /\ OfTexts /\ Once /\ OneText

LEMMA TextStays == ASSUME [Next]_vars, text' # NoText PROVE text # NoText
BY DEF Next, Ask, AfterEdit, Purge, Tick, Dispatch, Take, TakeSettled, TakeBusy, Claim, Work, Project,
   Check, Look, Answer, Save, Record, Finish, GiveUp, Lose, RefreshTask, Edit, CloseAbandoned, vars

\* A run that is worked on is not written by anybody else.
LEMMA RunKept ==
    ASSUME TypeOK, NEW u \in Texts, run[u].status = "running", run[u].age < LeaseTicks, text # NoText,
           \/ QueueAnalysis \/ AfterEdit
           \/ \E m \in Asks : Dispatch(m)
           \/ \E w \in Workers, m \in Asks : Claim(w, m) /\ text' # NoText
           \/ \E t \in Texts : CloseAbandoned(t)
    PROVE  run'[u] = run[u]
  <1>0. run \in [Texts -> Runs] /\ LeaseTicks \in Nat /\ OldTicks \in Nat /\ LeaseTicks < OldTicks
    BY BoundAssumption DEF TypeOK
  <1>1. CASE QueueAnalysis
    BY <1>0, <1>1 DEF QueueAnalysis, Live, Marked
  <1>2. CASE AfterEdit
    <2>1. ASSUME NEW r \in Texts, CanCarry(r), Carry(r) PROVE run'[u] = run[u]
      BY <1>0, <2>1 DEF CanCarry, IsNewest, Carry
    <2> QED
      BY <1>1, <1>2, <2>1 DEF AfterEdit
  <1>3. CASE \E m \in Asks : Dispatch(m)
    BY <1>0, <1>3 DEF Dispatch, Marked
  <1>4. CASE \E w \in Workers, m \in Asks : Claim(w, m)
    BY <1>0, <1>4 DEF Claim, Live
  <1>5. CASE \E t \in Texts : CloseAbandoned(t)
    BY <1>0, <1>5 DEF CloseAbandoned, Marked
  <1> QED
    BY <1>1, <1>2, <1>3, <1>4, <1>5

\* Two workers never work on one run.
LEMMA SoleReader ==
    ASSUME Sound, Owned, text # NoText, NEW v \in Workers, NEW w \in Workers, Busy(v), Busy(w),
           worker[v].run = worker[w].run
    PROVE  v = w
BY DEF Sound, Shape, Owned, OwnTokens

\* What a worker's own step leaves of its run.
LEMMA WorkOnRun ==
    ASSUME TypeOK, NEW w \in Workers, Work(w), worker[w].run \in Texts
    PROVE  /\ text' = text
           /\ \A u \in Texts : u # worker[w].run => run'[u] = run[u]
           /\ \/ worker'[w] = Idle
              \/ /\ worker'[w].run = worker[w].run /\ worker'[w].token = worker[w].token
                 /\ \/ run' = run
                    \/ /\ run'[worker[w].run].status \in {"running", run[worker[w].run].status}
                       /\ run'[worker[w].run].lease = run[worker[w].run].lease
                       /\ run'[worker[w].run].age = 0
  <1>0. run \in [Texts -> Runs] /\ worker \in [Workers -> Jobs]
    BY DEF TypeOK
  <1>1. CASE Project(w) \/ Look(w) \/ Answer(w) \/ Save(w)
    <2>1. CASE Project(w) \/ Save(w)
      BY <1>0, <2>1 DEF Project, Save, Jobs
    <2>2. CASE Look(w)
      <3>1. /\ text' = text /\ run' = run
            /\ \E p, y : worker' = [worker EXCEPT ![w].at = p, ![w].row = y]
                        \/ worker' = [worker EXCEPT ![w].at = p]
        BY <2>2 DEF Look
      <3> QED BY <1>0, <3>1 DEF Jobs
    <2>3. CASE Answer(w)
      BY <1>0, <2>3 DEF Answer, Jobs
    <2> QED BY <1>1, <2>1, <2>2, <2>3
  <1>2. CASE Check(w)
    BY <1>0, <1>2 DEF Check, Marked, Jobs, Runs
  <1>3. CASE Record(w)
    BY <1>0, <1>3 DEF Record, Jobs, Runs
  <1>4. CASE Finish(w)
    BY <1>0, <1>4 DEF Finish, Marked, Jobs
  <1>5. CASE GiveUp(w)
    BY <1>0, <1>5 DEF GiveUp, Marked
  <1> QED
    BY <1>1, <1>2, <1>3, <1>4, <1>5 DEF Work

LEMMA OwnedKept == ASSUME Prompt, Paid, [Next]_vars PROVE Owned'
  <1> SUFFICES ASSUME text' # NoText, NEW v \in Workers, Busy(v)'
               PROVE  /\ run'[worker'[v].run].status = "running"
                      /\ run'[worker'[v].run].lease = worker'[v].token
                      /\ run'[worker'[v].run].age < LeaseTicks
    BY DEF Owned
  <1>0. /\ text # NoText /\ TypeOK /\ Sound /\ Owned /\ worker \in [Workers -> Jobs]
        /\ run \in [Texts -> Runs] /\ LeaseTicks \in Nat \ {0}
    BY TextStays, BoundAssumption DEF Paid, Sound, Shape, TypeOK
  <1>1. \A w \in Workers : Busy(w) =>
           /\ worker[w].run \in Texts /\ run[worker[w].run].status = "running"
           /\ run[worker[w].run].lease = worker[w].token /\ run[worker[w].run].age < LeaseTicks
    BY <1>0 DEF Sound, Shape, InPlan, Owned
  <1>2. CASE worker'[v] = worker[v] /\ run'[worker[v].run] = run[worker[v].run]
    BY <1>1, <1>2 DEF Busy
  <1>3. CASE worker' = worker /\ run' = run
    BY <1>2, <1>3
  <1>4. CASE Ask \/ AfterEdit \/ (\E m \in Asks : Dispatch(m)) \/ \E t \in Texts : CloseAbandoned(t)
    <2>1. worker' = worker
      BY <1>4 DEF Ask, AfterEdit, Dispatch, CloseAbandoned
    <2>2. Busy(v) /\ worker[v].run \in Texts
      BY <1>1, <2>1 DEF Busy
    <2> QED
      BY <1>0, <1>1, <1>2, <1>4, <2>1, <2>2, RunKept DEF Ask
  <1>5. CASE Tick
    <2>1. worker' = worker /\ Busy(v) /\ worker[v].run \in Texts
      BY <1>1, <1>5 DEF Tick, Busy
    <2>2. run[worker[v].run].age + 1 < LeaseTicks
      BY <1>0, <1>1, <1>5, <2>1 DEF Tick, Holds, Busy
    <2>3. /\ run'[worker[v].run].status = "running" /\ run'[worker[v].run].lease = worker[v].token
          /\ run'[worker[v].run].age \in {run[worker[v].run].age, run[worker[v].run].age + 1}
      BY <1>0, <1>1, <1>5, <2>1 DEF Tick, Runs
    <2> QED
      BY <1>1, <2>1, <2>2, <2>3
  <1>6. ASSUME NEW w \in Workers, NEW m \in Asks, Claim(w, m)
        PROVE  /\ run'[worker'[v].run].status = "running"
               /\ run'[worker'[v].run].lease = worker'[v].token
               /\ run'[worker'[v].run].age < LeaseTicks
    <2>1. CASE v = w
      <3>1. worker'[v].run = msg[m].run /\ worker'[v].token = tokens'
        BY <1>0, <1>6, <2>1 DEF Claim, Idle
      <3>2. msg[m].run \in Texts
        BY <1>0, <1>6 DEF Claim, Sound, Shape, MessagesName
      <3>3. /\ run'[msg[m].run].status = "running" /\ run'[msg[m].run].lease = tokens'
            /\ run'[msg[m].run].age = 0
        BY <1>0, <1>6, <3>2 DEF Claim, Runs
      <3> QED
        BY <1>0, <3>1, <3>3
    <2>2. CASE v # w
      <3>1. worker'[v] = worker[v] /\ Busy(v) /\ worker[v].run \in Texts
        BY <1>0, <1>1, <1>6, <2>2 DEF Claim, Busy
      <3> QED
        BY <1>0, <1>1, <1>2, <1>6, <3>1, RunKept
    <2> QED
      BY <2>1, <2>2
  <1>7. ASSUME NEW w \in Workers, Work(w)
        PROVE  /\ run'[worker'[v].run].status = "running"
               /\ run'[worker'[v].run].lease = worker'[v].token
               /\ run'[worker'[v].run].age < LeaseTicks
    <2>1. Busy(w) /\ \A u \in Workers : u # w => worker'[u] = worker[u]
      BY <1>0, <1>7, WorkSteps
    <2>2. CASE v # w
      <3>1. worker'[v] = worker[v] /\ Busy(v)
        BY <2>1, <2>2 DEF Busy
      <3>2. worker[v].run # worker[w].run
        BY <1>0, <2>1, <2>2, <3>1, SoleReader
      <3> QED
        BY <1>0, <1>1, <1>2, <1>7, <2>1, <3>1, <3>2, WorkOnRun
    <2>3. CASE v = w
      <3>1. worker'[v] # Idle
        BY DEF Busy, Idle
      <3> QED
        BY <1>0, <1>1, <1>7, <2>1, <2>3, <3>1, WorkOnRun
    <2> QED
      BY <2>2, <2>3
  <1>8. ASSUME NEW w \in Workers, NEW kind \in Losses, Lose(w, kind)
        PROVE  worker'[v] = worker[v] /\ run' = run
    BY <1>0, <1>8 DEF Lose, Busy, Idle
  <1>9. CASE \E w \in Workers, m \in Asks : TakeSettled(w, m) \/ TakeBusy(w, m)
    BY <1>3, <1>9 DEF TakeSettled, TakeBusy
  <1>10. CASE \E t \in Texts : RefreshTask(t) \/ Edit(t)
    BY <1>3, <1>10 DEF RefreshTask, Edit
  <1>11. CASE UNCHANGED vars
    BY <1>3, <1>11 DEF vars
  <1>12. CASE Purge
    BY <1>12 DEF Purge
  <1> QED
    BY <1>2, <1>4, <1>5, <1>6, <1>7, <1>8, <1>9, <1>10, <1>11, <1>12 DEF Next, Take

\* A run's readings are carried to the current text.
Carried(r) == text # NoText /\ edits > 0 /\ text' = text /\ worker' = worker /\ CanCarry(r) /\ Carry(r)

\* A row is of the run it was made for, until the readings of that run are carried.
LEMMA OfChanges ==
    ASSUME Phrase = {}, Sound, [Next]_vars, NEW x \in Ids
    PROVE  \/ air'[x].of = air[x].of
           \/ \E w \in Workers : /\ Look(w) /\ text # NoText /\ x = <<worker[w].token, Window(w)>>
                                 /\ Readings(Window(w)) = {}
                                 /\ air'[x].of = worker[w].run /\ air'[x].status = "submitted"
           \/ \E r \in Texts : Carried(r) /\ air[x].of = r /\ air'[x].of = text
  <1>0. TypeOK /\ air \in [Ids -> Rows] /\ air[x] \in Rows
    BY DEF Sound, Shape, TypeOK
  <1>1. CASE air' = air
    BY <1>1
  <1>2. CASE AfterEdit
    <2>1. ASSUME text # NoText, NEW r \in Texts, CanCarry(r), Carry(r)
          PROVE  air'[x].of = (IF air[x].of = r THEN text ELSE air[x].of)
      <3> PICK hash : air'[x] = [air[x] EXCEPT !.of = IF @ = r THEN text ELSE @, !.hash = hash]
        BY <2>1 DEF Carry
      <3> QED
        BY <1>0 DEF Rows
    <2>2. ASSUME text # NoText, NEW r \in Texts, CanCarry(r), Carry(r)
          PROVE  Carried(r)
      BY <1>2, <2>2 DEF Carried, AfterEdit
    <2> QED
      BY <1>1, <1>2, <2>1, <2>2 DEF AfterEdit
  <1>3. CASE Purge
    BY <1>0, <1>3 DEF Purge, Rows
  <1>4. ASSUME NEW w \in Workers, NEW m \in Asks, Claim(w, m) PROVE air'[x].of = air[x].of
    <2>1. air'[x] = IF air[x].of = msg[m].run /\ air[x].status = "submitted"
                    THEN [air[x] EXCEPT !.status = "failed"] ELSE air[x]
      BY <1>4 DEF Claim
    <2> QED
      BY <1>0, <2>1 DEF Rows
  <1>5. ASSUME NEW w \in Workers, Look(w), air' # air, air'[x] # air[x]
        PROVE  /\ text # NoText /\ x = <<worker[w].token, Window(w)>>
               /\ Readings(Window(w)) = {}
               /\ air'[x].of = worker[w].run /\ air'[x].status = "submitted"
    <2>1. /\ Readings(Window(w)) = {} /\ text # NoText
          /\ air' = [air EXCEPT ![<<worker[w].token, Window(w)>>] =
                        [status |-> "submitted", of |-> worker[w].run,
                         hash |-> Window(w), words |-> TRUE]]
      BY <1>5 DEF Look, Window
    <2> QED
      BY <1>0, <1>5, <2>1
  <1>6. ASSUME NEW w \in Workers, Answer(w) \/ Save(w) PROVE air'[x].of = air[x].of
    <2>1. Closes(worker[w].row)
      BY <1>6 DEF Answer, Save, Closes
    <2> QED
      BY <1>0, <2>1 DEF Closes, Rows
  <1>7. CASE Ask \/ Tick \/ \E m \in Asks : Dispatch(m)
    BY <1>1, <1>7 DEF Ask, Tick, Dispatch
  <1>8. CASE \E w \in Workers, m \in Asks : TakeSettled(w, m) \/ TakeBusy(w, m)
    BY <1>1, <1>8 DEF TakeSettled, TakeBusy
  <1>9. CASE \E w \in Workers : Project(w) \/ Check(w) \/ Record(w) \/ Finish(w) \/ GiveUp(w)
    BY <1>1, <1>9 DEF Project, Check, Record, Finish, GiveUp
  <1>10. CASE \E w \in Workers, kind \in Losses : Lose(w, kind)
    BY <1>1, <1>10 DEF Lose
  <1>11. CASE \E t \in Texts : RefreshTask(t) \/ Edit(t) \/ CloseAbandoned(t)
    BY <1>1, <1>11 DEF RefreshTask, Edit, CloseAbandoned
  <1>12. CASE UNCHANGED vars
    BY <1>1, <1>12 DEF vars
  <1> QED
    BY <1>2, <1>3, <1>4, <1>5, <1>6, <1>7, <1>8, <1>9, <1>10, <1>11, <1>12 DEF Next, Take, Work

\* A run that is carried succeeded, and the text it is carried to had none.
LEMMA CarriedRun ==
    ASSUME TypeOK, NEW r \in Texts, Carried(r)
    PROVE  /\ text \in Texts /\ run[text].status = "none" /\ run[r].status = "succeeded" /\ r # text
           /\ run'[text].status = "succeeded"
           /\ \A x \in Ids : air'[x].of = IF air[x].of = r THEN text ELSE air[x].of
  <1>1. text \in Texts /\ run \in [Texts -> Runs]
    BY DEF Carried, TypeOK
  <1>2. run[text].status = "none" /\ run[r].status = "succeeded"
    BY DEF Carried, CanCarry, IsNewest
  <1>3. run'[text].status = "succeeded"
    BY <1>1, <1>2 DEF Carried, Carry
  <1>4. ASSUME NEW x \in Ids PROVE air'[x].of = IF air[x].of = r THEN text ELSE air[x].of
    <2>1. air[x] \in Rows
      BY DEF TypeOK
    <2> PICK hash : air'[x] = [air[x] EXCEPT !.of = IF @ = r THEN text ELSE @, !.hash = hash]
      BY DEF Carried, Carry
    <2> QED
      BY <2>1 DEF Rows
  <1> QED
    BY <1>1, <1>2, <1>3, <1>4

\* A reading there is after a step was one before, or it is the row a worker has saved.
LEMMA ReadingsGrow ==
    ASSUME Phrase = {}, Sound, [Next]_vars, NEW h \in Windows, NEW x \in Readings(h)'
    PROVE  x \in Ids /\ (x \in Readings(h) \/ \E w \in Workers : Save(w) /\ worker[w].row = x)
  <1>1. x \in Ids /\ air'[x].status = "succeeded" /\ air'[x].hash = h
    BY DEF Readings
  <1>2. air'[x].hash = air[x].hash
    BY <1>1, RowsGrow DEF Grows
  <1> QED
    BY <1>1, <1>2, NewlyRead DEF Readings

\* A worker whose row is saved.
LEMMA SaveFacts ==
    ASSUME Sound, NEW w \in Workers, Save(w)
    PROVE  /\ Busy(w) /\ worker[w].row = <<worker[w].token, Window(w)>> /\ worker[w].row \in Ids
           /\ Window(w) \in Windows /\ air[worker[w].row].hash = Window(w)
           /\ air'[worker[w].row].of = air[worker[w].row].of
           /\ \A y \in Ids : y # worker[w].row => air'[y] = air[y]
  <1>1. Busy(w) /\ Reading(w) /\ InPlan(w) /\ air \in [Ids -> Rows]
    BY DEF Save, Busy, Reading, Sound, Shape, TypeOK
  <1>2. worker[w].row = <<worker[w].token, Window(w)>> /\ worker[w].row \in Ids /\ Window(w) \in Windows
    BY <1>1, WindowTyped DEF Save, InPlan, Sound
  <1>3. air[worker[w].row].hash = Window(w)
    BY <1>2 DEF Sound, HashKept
  <1>4. Closes(worker[w].row)
    BY DEF Save, Closes
  <1>5. air'[worker[w].row].of = air[worker[w].row].of
    BY <1>1, <1>2, <1>4 DEF Closes, Rows
  <1> QED
    BY <1>1, <1>2, <1>3, <1>4, <1>5 DEF Closes

\* A reading keeps its text, unless it is carried.
LEMMA ReadingOf ==
    ASSUME Phrase = {}, Sound, [Next]_vars, NEW x \in Ids, air'[x].status = "succeeded"
    PROVE  \/ air'[x].of = air[x].of
           \/ \E r \in Texts : Carried(r) /\ air[x].of = r /\ air'[x].of = text
BY OfChanges

\* A worker that waits for its row waited for it before, or it has just made the row, or it
\* has just been answered.
LEMMA Waiting ==
    ASSUME Sound, [Next]_vars, NEW v \in Workers, worker'[v].at \in {"call", "save"}
    PROVE  \/ worker'[v] = worker[v]
           \/ /\ Look(v) /\ worker'[v].run = worker[v].run /\ worker'[v].done = worker[v].done
              /\ worker'[v].row = <<worker[v].token, Window(v)>>
              /\ Readings(Window(v)) = {} /\ text # NoText
              /\ air' = [air EXCEPT ![<<worker[v].token, Window(v)>>] =
                            [status |-> "submitted", of |-> worker[v].run,
                             hash |-> Window(v), words |-> TRUE]]
           \/ /\ air' = air /\ worker[v].at = "call" /\ worker'[v].run = worker[v].run
              /\ worker'[v].done = worker[v].done /\ worker'[v].row = worker[v].row
  <1>0. TypeOK /\ worker \in [Workers -> Jobs] /\ worker[v] \in Jobs
    BY DEF Sound, Shape, TypeOK
  <1>1. CASE \E w \in Workers : Work(w) /\ w # v
    BY <1>0, <1>1, WorkSteps
  <1>2. ASSUME NEW w \in Workers, NEW m \in Asks, Claim(w, m) PROVE worker'[v] = worker[v]
    BY <1>0, <1>2 DEF Claim, Idle
  <1>3. ASSUME NEW w \in Workers, NEW kind \in Losses, Lose(w, kind) PROVE worker'[v] = worker[v]
    BY <1>0, <1>3 DEF Lose, Idle
  <1>4. CASE Look(v)
    <2>1. PICK h : h = Window(v)
      OBVIOUS
    <2>2. PICK m : m = [status |-> "submitted", of |-> worker[v].run, hash |-> h, words |-> TRUE]
      OBVIOUS
    <2>3. \/ worker' = [worker EXCEPT ![v].at = "call", ![v].row = <<worker[v].token, h>>]
             /\ Readings(h) = {} /\ text # NoText /\ air' = [air EXCEPT ![<<worker[v].token, h>>] = m]
          \/ \E y : worker' = [worker EXCEPT ![v].at = "record", ![v].row = y]
          \/ worker' = [worker EXCEPT ![v].at = "broken"]
      BY <1>4, <2>1, <2>2 DEF Look, Window
    <2>4. ASSUME NEW y PROVE worker' # [worker EXCEPT ![v].at = "record", ![v].row = y]
      BY <1>0 DEF Jobs
    <2>5. worker' # [worker EXCEPT ![v].at = "broken"]
      BY <1>0 DEF Jobs
    <2>6. CASE worker' = [worker EXCEPT ![v].at = "call", ![v].row = <<worker[v].token, h>>]
      <3>1. /\ worker'[v].run = worker[v].run /\ worker'[v].done = worker[v].done
            /\ worker'[v].row = <<worker[v].token, h>>
        BY <1>0, <2>6 DEF Jobs
      <3>2. /\ Readings(h) = {} /\ text # NoText /\ air' = [air EXCEPT ![<<worker[v].token, h>>] = m]
        BY <2>3, <2>4, <2>5
      <3> QED BY <1>4, <2>1, <2>2, <3>1, <3>2
    <2> QED BY <2>3, <2>4, <2>5, <2>6
  <1>5. CASE Answer(v)
    BY <1>0, <1>5 DEF Answer, Jobs
  <1>6. CASE Project(v) \/ Check(v) \/ Save(v)
    BY <1>0, <1>6 DEF Project, Check, Save, Jobs
  <1>7. CASE Record(v)
    BY <1>0, <1>7 DEF Record, Jobs
  <1>8. CASE Finish(v) \/ GiveUp(v)
    BY <1>0, <1>8 DEF Finish, GiveUp, Idle, Jobs
  <1> QED
    BY <1>1, <1>2, <1>3, <1>4, <1>5, <1>6, <1>7, <1>8, WorkerSteps DEF Work

LEMMA OwnRowKept ==
    ASSUME Phrase = {}, Paid, [Next]_vars, NEW v \in Workers
    PROVE  OwnRow(v)'
  <1> SUFFICES ASSUME text' # NoText, worker'[v].at \in {"call", "save"}
               PROVE  /\ air'[worker'[v].row].of = worker'[v].run
                      /\ \A y \in Readings(Window(v))' : air'[y].of # worker'[v].run
    BY DEF OwnRow
  <1>0. /\ text # NoText /\ Sound /\ Shape /\ TypeOK /\ Owned /\ OwnRow(v) /\ air \in [Ids -> Rows]
        /\ worker[v] \in Jobs /\ OwnTokens
    BY TextStays DEF Paid, Sound, Shape, TypeOK
  <1>1. CASE worker'[v] = worker[v]
    <2>1. /\ Busy(v) /\ Reading(v) /\ worker[v].run \in Texts /\ run[worker[v].run].status = "running"
          /\ worker[v].row = <<worker[v].token, Window(v)>> /\ worker[v].row \in Ids
          /\ Window(v) \in Windows
      <3>1. Busy(v) /\ Reading(v)
        BY <1>1 DEF Busy, Reading
      <3> QED
        BY <1>0, <1>1, <3>1, WindowTyped DEF Shape, InPlan, Owned
    <2>2. Window(v)' = Window(v)
      BY <1>1 DEF Window
    <2>3. ASSUME NEW r \in Texts, Carried(r) PROVE r # worker[v].run /\ text # worker[v].run
      BY <1>0, <2>1, <2>3, CarriedRun
    <2>4. air'[worker[v].row].of = worker[v].run
      <3>1. air[worker[v].row].of = worker[v].run
        BY <1>0, <1>1 DEF OwnRow
      <3>2. ASSUME NEW w \in Workers, Look(w) PROVE worker[v].row # <<worker[w].token, Window(w)>>
        <4>1. Busy(w) /\ w # v
          BY <1>1, <3>2 DEF Look, Busy
        <4> QED
          BY <1>0, <2>1, <4>1 DEF OwnTokens
      <3> QED
        BY <1>0, <2>1, <2>3, <3>1, <3>2, OfChanges
    <2>5. ASSUME NEW y \in Readings(Window(v))' PROVE air'[y].of # worker[v].run
      <3>0. y \in Readings(Window(v))'
        OBVIOUS
      <3>1. y \in Ids /\ air'[y].status = "succeeded"
        BY <3>0 DEF Readings
      <3>2. air[y].of # worker[v].run
        <4>1. CASE y \in Readings(Window(v))
          BY <1>0, <1>1, <4>1 DEF OwnRow
        <4>2. ASSUME NEW w \in Workers, Save(w), worker[w].row = y PROVE air[y].of # worker[v].run
          <5>1. Busy(w) /\ w # v
            BY <1>0, <1>1, <4>2 DEF Save, Busy, TypeOK, Jobs
          <5>2. worker[w].run # worker[v].run
            BY <1>0, <2>1, <5>1, SoleReader
          <5> QED
            BY <1>0, <4>2, <5>2 DEF Paid, OwnRow, Save
        <4> QED
          BY <1>0, <2>1, <2>2, <3>0, <4>1, <4>2, ReadingsGrow
      <3> QED
        BY <1>0, <2>3, <3>1, <3>2, ReadingOf
    <2> QED
      BY <1>1, <2>2, <2>4, <2>5
  <1>2. CASE /\ Look(v) /\ worker'[v].run = worker[v].run /\ worker'[v].done = worker[v].done
             /\ worker'[v].row = <<worker[v].token, Window(v)>>
             /\ Readings(Window(v)) = {} /\ text # NoText
             /\ air' = [air EXCEPT ![<<worker[v].token, Window(v)>>] =
                           [status |-> "submitted", of |-> worker[v].run,
                            hash |-> Window(v), words |-> TRUE]]
    <2>1. <<worker[v].token, Window(v)>> \in Ids /\ Window(v) \in Windows
      BY <1>0, <1>2, WindowTyped DEF Look, Reading
    <2>2. Window(v)' = Window(v)
      BY <1>2 DEF Window
    <2>3. \A y \in Ids : ~(air'[y].status = "succeeded" /\ air'[y].hash = Window(v))
      BY <1>0, <1>2, <2>1 DEF Readings
    <2>4. Readings(Window(v))' = {}
      BY <2>2, <2>3 DEF Readings
    <2> QED
      BY <1>0, <1>2, <2>1, <2>4
  <1>3. CASE /\ air' = air /\ worker[v].at = "call" /\ worker'[v].run = worker[v].run
             /\ worker'[v].done = worker[v].done /\ worker'[v].row = worker[v].row
    <2>1. Window(v)' = Window(v)
      BY <1>3 DEF Window
    <2>2. Readings(Window(v))' = Readings(Window(v))
      BY <1>3, <2>1 DEF Readings
    <2> QED
      BY <1>0, <1>3, <2>2 DEF OwnRow
  <1> QED
    BY <1>0, <1>1, <1>2, <1>3, Waiting

\* A run is not lost while the edition is there, but to the text its readings are carried to.
LEMMA RunsStay ==
    ASSUME TypeOK, [Next]_vars, text' # NoText, NEW t \in Texts, run'[t].status = "none"
    PROVE  run[t].status = "none" \/ Carried(t)
  <1>0. run \in [Texts -> Runs] /\ run[t] \in Runs
    BY DEF TypeOK
  <1>1. CASE run'[t].status = run[t].status
    BY <1>1
  <1>2. ASSUME NEW u, NEW s \in Statuses \ {"none"}, run' = Marked(u, s) PROVE run'[t].status = run[t].status
    BY <1>0, <1>2 DEF Marked, Runs
  <1>3. CASE QueueAnalysis
    BY <1>1, <1>2, <1>3 DEF QueueAnalysis, Statuses
  <1>4. CASE AfterEdit
    <2>1. ASSUME text # NoText, NEW r \in Texts, CanCarry(r), Carry(r)
          PROVE  run'[t].status = run[t].status \/ Carried(t)
      <3>1. CASE r = t
        BY <1>4, <2>1, <3>1 DEF Carried, AfterEdit
      <3>2. CASE r # t
        BY <1>0, <2>1, <3>2 DEF CanCarry, Carry
      <3> QED
        BY <3>1, <3>2
    <2> QED
      BY <1>1, <1>3, <1>4, <2>1 DEF AfterEdit
  <1>5. CASE Tick
    BY <1>0, <1>1, <1>5 DEF Tick, Runs
  <1>6. CASE \E m \in Asks : Dispatch(m)
    BY <1>1, <1>2, <1>6 DEF Dispatch, Statuses
  <1>7. CASE \E w \in Workers, m \in Asks : Claim(w, m)
    BY <1>0, <1>1, <1>7 DEF Claim, Runs
  <1>8. CASE \E w \in Workers : Check(w) \/ Finish(w) \/ GiveUp(w)
    BY <1>1, <1>2, <1>8 DEF Check, Finish, GiveUp, Statuses
  <1>9. CASE \E w \in Workers : Record(w)
    BY <1>0, <1>1, <1>9 DEF Record, Runs
  <1>10. CASE \E w \in Workers : Project(w) \/ Look(w) \/ Answer(w) \/ Save(w)
    BY <1>1, <1>10 DEF Project, Look, Answer, Save
  <1>11. CASE \E w \in Workers, m \in Asks : TakeSettled(w, m) \/ TakeBusy(w, m)
    BY <1>1, <1>11 DEF TakeSettled, TakeBusy
  <1>12. CASE \E w \in Workers, kind \in Losses : Lose(w, kind)
    BY <1>1, <1>12 DEF Lose
  <1>13. CASE \E u \in Texts : RefreshTask(u) \/ Edit(u) \/ CloseAbandoned(u)
    BY <1>1, <1>2, <1>13 DEF RefreshTask, Edit, CloseAbandoned, Statuses
  <1>14. CASE Purge \/ UNCHANGED vars
    BY <1>1, <1>14 DEF Purge, vars
  <1> QED
    BY <1>1, <1>3, <1>4, <1>5, <1>6, <1>7, <1>8, <1>9, <1>10, <1>11, <1>12, <1>13, <1>14
       DEF Next, Ask, Take, Work

LEMMA OfRunsKept == ASSUME Phrase = {}, Paid, [Next]_vars PROVE OfRuns'
  <1> SUFFICES ASSUME text' # NoText, NEW t \in Texts, run'[t].status = "none", NEW x \in Ids
               PROVE  air'[x].of # t
    BY DEF OfRuns
  <1>0. text # NoText /\ Sound /\ TypeOK /\ Owned
    BY TextStays DEF Paid, Sound, Shape
  <1>1. (run[t].status = "none" /\ air[x].of # t) \/ Carried(t)
    BY <1>0, RunsStay DEF Paid, OfRuns
  <1>2. ASSUME NEW r \in Texts, Carried(r) PROVE air'[x].of # t
    <2>1. text # t /\ air'[x].of = IF air[x].of = r THEN text ELSE air[x].of
      BY <1>0, <1>2, CarriedRun
    <2>2. CASE Carried(t)
      BY <1>0, <2>1, <2>2, CarriedRun
    <2> QED
      BY <1>1, <2>1, <2>2
  <1>3. ASSUME NEW w \in Workers, Look(w), air'[x].of = worker[w].run, ~Carried(t) PROVE air'[x].of # t
    <2>1. Busy(w)
      BY <1>3 DEF Look, Busy
    <2>2. run[worker[w].run].status = "running"
      BY <1>0, <2>1 DEF Owned
    <2> QED
      BY <1>1, <1>3, <2>2
  <1> QED
    BY <1>0, <1>1, <1>2, <1>3, OfChanges

LEMMA OfTextsKept == ASSUME Phrase = {}, Paid, [Next]_vars PROVE OfTexts'
  <1> SUFFICES ASSUME NEW x \in Ids, air'[x].status = "succeeded" PROVE air'[x].of # NoText
    BY DEF OfTexts
  <1>0. Sound /\ OfTexts /\ TypeOK
    BY DEF Paid, Sound, Shape
  <1>1. CASE air[x].status = "succeeded"
    BY <1>0, <1>1, ReadingOf DEF OfTexts, Carried
  <1>2. ASSUME NEW w \in Workers, Save(w), worker[w].row = x PROVE air'[x].of # NoText
    <2>1. Busy(w) /\ air'[x].of = air[x].of
      BY <1>0, <1>2, SaveFacts
    <2>2. text # NoText
      BY <1>0, <1>2 DEF Save, TypeOK, Rows
    <2>3. air[x].of = worker[w].run
      BY <1>2, <2>2 DEF Paid, OwnRow, Save
    <2> QED
      BY <1>0, <2>1, <2>3, PlanAssumption DEF Sound, Shape, InPlan
  <1> QED
    BY <1>0, <1>1, <1>2, NewlyRead

LEMMA OnceKept == ASSUME Phrase = {}, Paid, [Next]_vars PROVE Once'
  <1> SUFFICES ASSUME NEW h \in Windows, NEW x \in Readings(h)', NEW y \in Readings(h)',
                      air'[x].of = air'[y].of
               PROVE  x = y
    BY DEF Once
  <1>0. /\ Sound /\ TypeOK /\ OfRuns /\ Once
        /\ x \in Ids /\ air'[x].status = "succeeded" /\ air'[x].hash = h
        /\ y \in Ids /\ air'[y].status = "succeeded" /\ air'[y].hash = h
    BY DEF Paid, Sound, Shape, Readings
  <1>1. CASE x \in Readings(h) /\ y \in Readings(h)
    <2>1. CASE air'[x].of = air[x].of /\ air'[y].of = air[y].of
      BY <1>0, <1>1, <2>1 DEF Once
    <2>2. ASSUME NEW r \in Texts, Carried(r) PROVE x = y
      <3>1. air[x].of # text /\ air[y].of # text
        BY <1>0, <2>2, CarriedRun DEF OfRuns, Carried
      <3>2. air[x].of = air[y].of
        BY <1>0, <2>2, <3>1, CarriedRun
      <3> QED
        BY <1>0, <1>1, <3>2 DEF Once
    <2> QED
      BY <1>0, <2>1, <2>2, ReadingOf
  <1>2. ASSUME NEW w \in Workers, Save(w), NEW u \in Ids, NEW v \in Ids, worker[w].row = u, u # v,
               air'[u].status = "succeeded", air'[u].hash = h,
               air'[v].status = "succeeded", air'[v].hash = h
        PROVE  air'[u].of # air'[v].of
    <2>1. /\ air'[u].of = air[u].of /\ air[u].hash = Window(w) /\ air'[v] = air[v]
          /\ Window(w) \in Windows
      BY <1>0, <1>2, SaveFacts
    <2>2. h = Window(w)
      BY <1>0, <1>2, <2>1, RowsGrow DEF Grows
    <2>3. text # NoText
      BY <1>0, <1>2 DEF Save, TypeOK, Rows
    <2>4. v \in Readings(Window(w))
      BY <1>2, <2>1, <2>2 DEF Readings
    <2> QED
      BY <1>2, <2>1, <2>3, <2>4 DEF Paid, OwnRow, Save
  <1>3. CASE \E w \in Workers : Save(w) /\ worker[w].row \in {x, y}
    BY <1>0, <1>2, <1>3
  <1> QED
    BY <1>0, <1>1, <1>3, ReadingsGrow

LEMMA OneTextKept ==
    ASSUME Phrase = {}, Paid, [Next]_vars
    PROVE  OneText'
  <1> SUFFICES ASSUME edited' = 0 PROVE OneText'
    BY DEF OneText
  <1>0. Sound /\ Shape /\ TypeOK /\ OneText
    BY DEF Paid, Sound, Shape
  <1>1. edited = 0 /\ text' \in {text, NoText}
    <2>1. edited \in Nat
      BY <1>0, BoundAssumption DEF TypeOK
    <2>2. ~(\E t \in Texts : Edit(t))
      BY <2>1 DEF Edit
    <2>3. edited' = edited /\ text' \in {text, NoText}
      BY <2>2 DEF Next, Ask, AfterEdit, Purge, Tick, Dispatch, Take, TakeSettled, TakeBusy, Claim, Work,
            Project, Check, Look, Answer, Save, Record, Finish, GiveUp, Lose, RefreshTask, CloseAbandoned,
            vars
    <2> QED
      BY <2>3
  <1>2. edits = 0
    BY <1>0, <1>1 DEF TypeOK
  <1>3. /\ \A x, y \in Ids : air[x].of = NoText \/ air[y].of = NoText \/ air[x].of = air[y].of
        /\ text # NoText =>
             /\ \A m \in Asks : msg[m].at # "none" => msg[m].run = text
             /\ \A w \in Workers : Busy(w) => worker[w].run = text
             /\ \A x \in Ids : air[x].of \in {NoText, text}
    BY <1>0, <1>1 DEF OneText
  <1>4. ASSUME NEW x \in Ids
        PROVE  air'[x].of = air[x].of \/ (text # NoText /\ air'[x].of = text)
    <2>1. ~(\E r \in Texts : Carried(r))
      BY <1>2 DEF Carried
    <2>2. ASSUME NEW w \in Workers, Look(w), text # NoText PROVE worker[w].run = text
      BY <1>3, <2>2 DEF Look, Busy
    <2> QED
      BY <1>0, <2>1, <2>2, OfChanges
  <1>5. \A x, y \in Ids : air'[x].of = NoText \/ air'[y].of = NoText \/ air'[x].of = air'[y].of
    BY <1>3, <1>4
  <1>6. ASSUME text' # NoText
        PROVE  /\ \A m \in Asks : msg'[m].at # "none" => msg'[m].run = text'
               /\ \A w \in Workers : Busy(w)' => worker'[w].run = text'
               /\ \A x \in Ids : air'[x].of \in {NoText, text'}
    <2>1. text # NoText /\ text' = text
      BY <1>1, <1>6
    <2>2. \A m \in Asks : msg'[m].at # "none" => msg'[m].run = text'
      BY <1>0, <1>3, <2>1, MessageRuns
    <2>3. \A x \in Ids : air'[x].of \in {NoText, text'}
      BY <1>3, <1>4, <2>1
    <2>4. ASSUME NEW v \in Workers, Busy(v)' PROVE worker'[v].run = text
      <3>0. worker \in [Workers -> Jobs] /\ worker'[v] # Idle
        BY <1>0, <2>4 DEF TypeOK, Busy, Idle
      <3>1. CASE worker'[v] = worker[v]
        BY <1>3, <2>1, <2>4, <3>1 DEF Busy
      <3>2. ASSUME NEW w \in Workers, NEW m \in Asks, Claim(w, m), v = w PROVE worker'[v].run = text
        <4>1. worker'[v].run = msg[m].run /\ msg[m].at # "none"
          BY <3>0, <3>2 DEF Claim, Idle
        <4> QED
          BY <1>3, <2>1, <4>1
      <3>3. ASSUME NEW w \in Workers, NEW m \in Asks, Claim(w, m), v # w PROVE worker'[v] = worker[v]
        BY <3>0, <3>3 DEF Claim
      <3>4. ASSUME NEW w \in Workers, Work(w), v # w PROVE worker'[v] = worker[v]
        BY <1>0, <3>4, WorkSteps
      <3>5. CASE Work(v)
        <4>1. Busy(v) /\ worker[v].run \in Texts
          BY <1>0, <3>5, WorkSteps DEF Shape, InPlan
        <4>2. worker'[v].run = worker[v].run
          BY <1>0, <3>0, <3>5, <4>1, WorkOnRun
        <4> QED
          BY <1>3, <2>1, <4>1, <4>2
      <3>6. ASSUME NEW w \in Workers, NEW kind \in Losses, Lose(w, kind) PROVE worker'[v] = worker[v]
        BY <3>0, <3>6 DEF Lose
      <3> QED
        BY <3>1, <3>2, <3>3, <3>4, <3>5, <3>6, WorkerSteps
    <2> QED
      BY <2>1, <2>2, <2>3, <2>4
  <1> QED
    BY <1>5, <1>6 DEF OneText

LEMMA PaidKept == Prompt /\ Phrase = {} /\ Paid /\ [Next]_vars => Paid'
  <1> SUFFICES ASSUME Prompt, Phrase = {}, Paid, [Next]_vars PROVE Paid'
    OBVIOUS
  <1>1. Sound'
    BY SoundKept DEF Paid
  <1>2. \A v \in Workers : OwnRow(v)'
    BY OwnRowKept
  <1> QED
    BY <1>1, <1>2, OwnedKept, OfRunsKept, OfTextsKept, OnceKept, OneTextKept DEF Paid

LEMMA InitPaid == Init => Paid
  <1> SUFFICES ASSUME Init PROVE Paid
    OBVIOUS
  <1>1. Sound
    BY InitSound
  <1>2. /\ \A x \in Ids : air[x].of = NoText /\ air[x].status = "none"
        /\ \A w \in Workers : worker[w].at = "idle"
        /\ \A m \in Asks : msg[m].at = "none"
    BY DEF Init, Idle
  <1>3. \A h \in Windows : Readings(h) = {}
    BY <1>2 DEF Readings
  <1> QED
    BY <1>1, <1>2, <1>3, PlanAssumption DEF Paid, Owned, OwnRow, OfRuns, OfTexts, Once, OneText, Busy

LEMMA PaidIsOnce == Paid => ReadOnce
  <1> SUFFICES ASSUME Paid, NEW h \in Windows, NEW x \in Readings(h), NEW y \in Readings(h), x # y
               PROVE  edited > 0 /\ air[x].of # air[y].of
    BY DEF ReadOnce
  <1>1. x \in Ids /\ y \in Ids /\ air[x].of # NoText /\ air[y].of # NoText
    BY DEF Paid, OfTexts, Readings
  <1>2. air[x].of # air[y].of
    BY DEF Paid, Once
  <1>3. edited # 0
    BY <1>1, <1>2 DEF Paid, OneText
  <1>4. edited \in Nat
    BY BoundAssumption DEF Paid, Sound, Shape, TypeOK
  <1> QED
    BY <1>2, <1>3, <1>4

\* While no call outlasts the lease (_claim and _attempt), no window is paid for twice for one
\* text, and none at all before the text is edited, for any number of workers, claims, requests,
\* edits, losses and purges.  Prompt is what chapter_analysis.py:706 says of an answer and its
\* lease; without phrase edits carry_analysis_forward re-keys no reading.
THEOREM PaidOnce == ASSUME Prompt, Phrase = {} PROVE Spec => []ReadOnce
  <1>1. Init => Paid
    BY InitPaid
  <1>2. Paid /\ [Next]_vars => Paid'
    BY PaidKept
  <1>3. Paid => ReadOnce
    BY PaidIsOnce
  <1> QED
    BY <1>1, <1>2, <1>3, PTL DEF Spec
=============================================================================
