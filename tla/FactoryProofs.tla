---------------------------- MODULE FactoryProofs ----------------------------
(***************************************************************************)
(* The factory keeps to its limit and forgets no book, the shelf has its   *)
(* texts and Almonium is told how a book ended, for every shelf of books.  *)
(*                                                                         *)
(* The argument is per book: what its row, its messages and the worker say *)
(* fits together (Begun), somebody will bring it to its end (Tended), and  *)
(* one that nobody took up again goes its way once (Straight).  So a book  *)
(* takes up a place only when a tick creates it, below the limit; and what *)
(* a tick posted of a production that has ended is what it stays.          *)
(***************************************************************************)
EXTENDS Factory, FiniteSetTheorems, TLAPS

----------------------------------------------------------------------------
(* The shape of the state. *)

Statuses == {"none", "queued", "processing", "failed"} \cup Shelf
Rows == [want : {"wanted", "reserved"}, dl : {"none", "pending", "downloaded", "failed"},
         st : Statuses, text : BOOLEAN, open : BOOLEAN,
         ingest : {"none", "running", "failed", "succeeded"},
         prod : {"none", "active", "failed", "succeeded"},
         final : BOOLEAN, told : Phases \cup {"nothing"}, bare : BOOLEAN]
Letters == [down : SUBSET (0..Retries), pipe : Nat]
Steps == {"download", "send", "ingest", "persist", "normalize", "split", "continue", "ack"}
Busy == [at : Steps, on : Books, tries : 0..Retries]
Ticks == {"off", "report", "settle", "start", "create", "send", "tell"}
Pasts == [asks : Nat, crashes : Nat, losses : Nat, refusals : Nat, again : SUBSET Books,
          left : SUBSET Books, missed : SUBSET Books, untold : SUBSET Books]

Ticking ==
  /\ tick = [at |-> tick.at, todo |-> tick.todo, on |-> tick.on, seen |-> tick.seen, phase |-> tick.phase]
  /\ tick.at \in Ticks /\ tick.todo \in SUBSET Books /\ tick.phase \in Phases \cup {"nothing"}
  /\ tick.on \in Books \cup {Nobody}
  /\ tick.at \in {"settle", "create", "send", "tell"} => tick.on \in Books

Shape ==
  /\ book \in [Books -> Rows] /\ mail \in [Books -> Letters]
  /\ worker \in Busy \cup {Free} /\ past \in Pasts /\ Ticking

----------------------------------------------------------------------------
(* The invariant of a book: its row x, its messages m and the step s of its worker. *)

Step(b) == IF worker.on = b THEN worker.at ELSE "away"

\* What a book's row, its messages and its worker have to do with each other.
Begun(x, m, s) ==
  /\ x.want = "wanted" => x.dl = "none"
  /\ x.dl = "none" <=> x.st = "none"
  /\ x.dl = "none" => ~x.final
  /\ m.down # {} => x.dl \in {"pending", "downloaded"}
  /\ s = "download" => x.dl = "pending"
  /\ m.pipe > 0 \/ s \in Steps \ {"download"} => x.dl = "downloaded"
  /\ s \in {"download", "send"} => m.down = {}
  /\ \A i, n \in m.down : i = n
  /\ x.dl = "failed" => x.st = "failed"
  /\ x.dl = "pending" => x.st = "queued"
  /\ x.prod # "none" => x.dl = "downloaded"

\* Somebody will bring it to its end, unless its message was lost.
Tended(x, m, s, lost) ==
  ~lost =>
    /\ x.dl = "pending" => m.down # {} \/ s = "download"
    /\ x.dl = "downloaded" /\ x.st \in {"queued", "processing"} =>
         m.pipe > 0 \/ s \in {"send", "ingest", "persist", "normalize", "split"}
    /\ x.dl = "downloaded" /\ x.st \in Shelf =>
         x.prod # "none" \/ m.pipe > 0 \/ s \in Steps \ {"download", "ack"}

\* A book nobody took up again goes its way once.
Straight(x, m, s, again) ==
  ~again =>
    /\ m.pipe <= 1 /\ (s \in Steps \ {"download"} => m.pipe = 0)
    /\ x.dl = "downloaded" => m.down = {}
    /\ x.st = "failed" => m.pipe = 0 /\ m.down = {} /\ s = "away"
    /\ x.prod # "none" => m.pipe = 0 /\ s \in {"ack", "away"} /\ x.st \in Shelf \cup {"failed"}
    /\ s = "continue" => x.st \in Shelf

\* What was reported as the end is how it ended.
Ended(x, excused) ==
  x.final /\ ~excused => x.prod \in {"failed", "succeeded"} /\ x.told = Phase(x, x.prod)

\* A text on the shelf is there, unless it was taken away under the worker.
Texted(x, s) ==
  ~x.bare /\ (x.ingest = "succeeded" \/ x.st \in Shelf \/ s \in {"normalize", "split"}) => x.text

Fits(x, m, s, lost, again, missed) ==
  /\ Begun(x, m, s) /\ Tended(x, m, s, lost) /\ Straight(x, m, s, again)
  /\ Ended(x, again \/ missed) /\ Texted(x, s)

Fitting(b) ==
  Fits(book[b], mail[b], Step(b), b \in past.left \/ Sending(b), b \in past.again, b \in past.missed)

----------------------------------------------------------------------------
(* The invariant of the tick. *)

\* Whose end is to be reported it has not been; who is to be started is wanted.
Rounds ==
  /\ tick.at \in {"report", "settle"} => \A b \in tick.todo : ~book[b].final
  /\ tick.at \in {"start", "create", "send", "tell"} => \A b \in tick.todo : book[b].want = "wanted"
  /\ tick.at = "create" => book[tick.on].want = "reserved" /\ book[tick.on].dl = "none"
  /\ tick.at \in {"send", "tell"} => ~book[tick.on].final

\* A production that ended before the post was told as it ended.
Posted ==
  tick.at = "settle" /\ book[tick.on].prod \in {"failed", "succeeded"} =>
    \/ book[tick.on].told = Phase(book[tick.on], book[tick.on].prod)
    \/ tick.on \in past.again \cup past.missed

\* What the tick has committed and not sent, nobody has touched.
Unsent ==
  tick.at = "send" => /\ book[tick.on].dl = "pending" /\ mail[tick.on].down = {}
                      /\ worker.on # tick.on

\* The books the limit is about, and that there is room for the one a tick is about to create.
Counted == UnderWay \ (past.again \cup past.untold)

Room ==
  /\ IsFiniteSet(UnderWay) /\ Cardinality(Counted) <= MaxBooks
  /\ tick.at \in {"start", "create"} => Cardinality(Counted) < MaxBooks
  /\ tick.at \in {"send", "tell"} => Cardinality(Counted \ {tick.on}) < MaxBooks

Inv == Shape /\ (\A b \in Books : Fitting(b)) /\ Rounds /\ Posted /\ Unsent /\ Room

----------------------------------------------------------------------------
(* A step of one book. *)

\* It takes up a place.
Held(x) == x.dl # "none" /\ x.st # "failed" /\ ~Done(x, x.prod)

\* Only book b, its messages and its worker change, and nothing of the past is forgotten.
Apart(b) ==
  /\ book' \in [Books -> Rows] /\ mail' \in [Books -> Letters]
  /\ worker' \in Busy \cup {Free} /\ past' \in Pasts
  /\ \A c \in Books \ {b} : book'[c] = book[c] /\ mail'[c] = mail[c] /\ Step(c)' = Step(c)
  /\ \A c \in Books \ {b} : c \in past.left \/ Sending(c) => c \in past'.left \/ Sending(c)'
  /\ past.again \subseteq past'.again /\ past.missed \subseteq past'.missed
  /\ past.untold \subseteq past'.untold

\* What a worker, a production and people leave of a row x when they make it y.
Turns(x, y, between, again) ==
  /\ y.want = x.want /\ y.told = x.told
  /\ y.final => x.final
  /\ x.dl = "none" => y.dl = "none"
  /\ y.prod \in {"failed", "succeeded"} /\ between => y.prod = x.prod
  /\ ~again /\ Held(y) => Held(x)

\* How a production ended is told alike of any state of its edition.
LEMMA PhaseOfEnd ==
  \A e, f : \A prod \in {"failed", "succeeded"} : Phase(e, prod) = Phase(f, prod)
BY DEF Phase

\* Losing a message or being taken up again excuses.
LEMMA FitsOn ==
  ASSUME NEW x, NEW m, NEW s, NEW lost, NEW again, NEW missed, NEW lost1, NEW again1, NEW missed1,
         lost => lost1, again => again1, missed => missed1, Fits(x, m, s, lost, again, missed)
  PROVE  Fits(x, m, s, lost1, again1, missed1)
<1>1. Tended(x, m, s, lost1)
  BY DEF Fits, Tended
<1>2. Straight(x, m, s, again1)
  BY DEF Fits, Straight
<1>3. Ended(x, again1 \/ missed1)
  BY DEF Fits, Ended
<1> QED BY <1>1, <1>2, <1>3 DEF Fits

\* The books that are left alone fit as before.
LEMMA OthersFit ==
  ASSUME Inv, NEW b \in Books, Apart(b), Fitting(b)'
  PROVE  \A c \in Books : Fitting(c)'
<1> TAKE c \in Books
<1>1. CASE c = b
  BY <1>1
<1>2. CASE c # b
  <2>1. book'[c] = book[c] /\ mail'[c] = mail[c] /\ Step(c)' = Step(c)
    BY <1>2 DEF Apart
  <2>2. /\ c \in past.left \/ Sending(c) => c \in past'.left \/ Sending(c)'
        /\ c \in past.again => c \in past'.again
        /\ c \in past.missed => c \in past'.missed
    BY <1>2 DEF Apart
  <2>3. Fits(book[c], mail[c], Step(c), c \in past.left \/ Sending(c), c \in past.again,
             c \in past.missed)
    BY DEF Inv, Fitting
  <2>4. Fits(book[c], mail[c], Step(c), c \in past'.left \/ Sending(c)', c \in past'.again,
             c \in past'.missed)
    BY <2>2, <2>3 DEF Fits, Tended, Straight, Ended
  <2> QED BY <2>1, <2>4 DEF Fitting
<1> QED BY <1>1, <1>2

\* Nobody has touched a book whose download is to be sent.
LEMMA SendingFacts ==
  ASSUME Inv, NEW b \in Books, Sending(b)
  PROVE  /\ book[b].dl = "pending" /\ book[b].st = "queued" /\ book[b].prod = "none"
         /\ mail[b].down = {} /\ mail[b].pipe = 0 /\ worker.on # b
<1>1. book[b].dl = "pending" /\ mail[b].down = {} /\ worker.on # b
  BY DEF Inv, Unsent, Sending
<1>2. Begun(book[b], mail[b], Step(b)) /\ mail[b].pipe \in Nat
  BY DEF Inv, Fitting, Fits, Shape, Letters
<1> QED BY <1>1, <1>2 DEF Begun

\* No place more is taken up than before, or the tick leaves the book it created out of account.
LEMMA RoomStays ==
  ASSUME Inv, NEW b, UnderWay' \subseteq UnderWay \cup {b}, Counted' \subseteq Counted,
         tick'.at \in {"start", "create"} =>
           \/ tick.at \in {"start", "create"}
           \/ tick.at = "tell" /\ Counted' \subseteq Counted \ {tick.on},
         tick'.at \in {"send", "tell"} => tick.at \in {"send", "tell"} /\ tick'.on = tick.on
  PROVE  Room'
<1>1. /\ IsFiniteSet(UnderWay) /\ Cardinality(Counted) <= MaxBooks
      /\ tick.at \in {"start", "create"} => Cardinality(Counted) < MaxBooks
      /\ tick.at \in {"send", "tell"} => Cardinality(Counted \ {tick.on}) < MaxBooks
  BY DEF Inv, Room
<1>2. IsFiniteSet(UnderWay')
  <2>1. IsFiniteSet(UnderWay \cup {b})
    BY <1>1, FS_AddElement
  <2> QED BY <2>1, FS_Subset
<1>3. IsFiniteSet(Counted) /\ IsFiniteSet(Counted \ {tick.on})
  <2>1. Counted \subseteq UnderWay
    BY DEF Counted
  <2>2. IsFiniteSet(Counted)
    BY <1>1, <2>1, FS_Subset
  <2> QED BY <2>2, FS_Subset
<1>4. IsFiniteSet(Counted') /\ Cardinality(Counted') <= Cardinality(Counted)
  BY <1>3, FS_Subset
<1>5. /\ Cardinality(Counted) \in Nat /\ Cardinality(Counted') \in Nat /\ MaxBooks \in Nat
      /\ Cardinality(Counted \ {tick.on}) \in Nat
  BY <1>3, <1>4, FS_CardinalityType, FactoryAssumption
<1>6. ASSUME tick'.at \in {"start", "create"} PROVE Cardinality(Counted') < MaxBooks
  <2>1. CASE tick.at \in {"start", "create"}
    BY <1>1, <1>4, <1>5, <2>1
  <2>2. CASE tick.at = "tell" /\ Counted' \subseteq Counted \ {tick.on}
    <3>1. Cardinality(Counted') <= Cardinality(Counted \ {tick.on})
      BY <1>3, <2>2, FS_Subset
    <3>2. Cardinality(Counted \ {tick.on}) < MaxBooks
      BY <1>1, <2>2
    <3> QED BY <1>5, <3>1, <3>2
  <2> QED BY <1>6, <2>1, <2>2
<1>7. ASSUME tick'.at \in {"send", "tell"} PROVE Cardinality(Counted' \ {tick'.on}) < MaxBooks
  <2>1. Counted' \ {tick'.on} \subseteq Counted \ {tick.on}
    BY <1>7
  <2>2. Cardinality(Counted' \ {tick'.on}) <= Cardinality(Counted \ {tick.on})
    BY <1>3, <2>1, FS_Subset
  <2>3. Cardinality(Counted \ {tick.on}) < MaxBooks
    BY <1>1, <1>7
  <2>4. Cardinality(Counted' \ {tick'.on}) \in Nat
    BY <1>3, <2>1, FS_Subset, FS_CardinalityType
  <2> QED BY <1>5, <2>2, <2>3, <2>4
<1>8. Cardinality(Counted') <= MaxBooks
  BY <1>1, <1>4, <1>5
<1> QED BY <1>2, <1>6, <1>7, <1>8 DEF Room

LEMMA HeldIsUnderWay == UnderWay = {b \in Books : Held(book[b])}
BY DEF UnderWay, Held

\* A step of one book by a worker, its production or people keeps the invariant.
LEMMA BookTurns ==
  ASSUME Inv, NEW b \in Books, Apart(b), tick' = tick, Fitting(b)', ~Sending(b),
         tick.at = "send" => worker'.on # tick.on,
         Turns(book[b], book'[b], tick.at = "settle" /\ tick.on = b /\ b \notin past'.again \cup past'.missed,
               b \in past'.again)
  PROVE  Inv'
<1>1. Shape'
  BY DEF Inv, Shape, Ticking, Apart
<1>2. \A c \in Books : Fitting(c)'
  BY OthersFit
<1>3. \A c \in Books : /\ book'[c].want = book[c].want /\ (book'[c].final => book[c].final)
                       /\ (book[c].dl = "none" => book'[c].dl = "none")
                       /\ book'[c].told = book[c].told
  BY DEF Apart, Turns
<1>4. Rounds'
  BY <1>3 DEF Inv, Shape, Ticking, Rounds
<1>5. Posted'
  <2> SUFFICES ASSUME tick.at = "settle", book'[tick.on].prod \in {"failed", "succeeded"},
                      tick.on \notin past'.again \cup past'.missed
               PROVE  book'[tick.on].told = Phase(book'[tick.on], book'[tick.on].prod)
    BY DEF Posted
  <2>1. tick.on \in Books
    BY DEF Inv, Shape, Ticking
  <2>2. book'[tick.on].prod = book[tick.on].prod
    BY <2>1 DEF Apart, Turns
  <2>3. tick.on \notin past.again \cup past.missed
    BY DEF Apart
  <2>4. book[tick.on].told = Phase(book[tick.on], book[tick.on].prod)
    BY <2>2, <2>3 DEF Inv, Posted
  <2> QED BY <2>1, <2>2, <2>4, <1>3, PhaseOfEnd
<1>6. Room'
  <2>1. Counted' \subseteq Counted
    <3> SUFFICES ASSUME NEW c \in Books, Held(book'[c]), c \notin past'.again \cup past'.untold
                 PROVE  Held(book[c]) /\ c \notin past.again \cup past.untold
      BY HeldIsUnderWay DEF UnderWay, Held, Counted
    <3> QED BY DEF Apart, Turns
  <2>2. UnderWay' \subseteq UnderWay \cup {b}
    <3> SUFFICES ASSUME NEW c \in Books \ {b}, Held(book'[c])
                 PROVE  Held(book[c])
      BY HeldIsUnderWay DEF UnderWay, Held
    <3> QED BY DEF Apart
  <2> QED BY <2>1, <2>2, RoomStays
<1>7. Unsent'
  <2> SUFFICES ASSUME tick.at = "send"
               PROVE  book'[tick.on].dl = "pending" /\ mail'[tick.on].down = {}
    BY DEF Unsent
  <2>1. tick.on \in Books \ {b}
    BY DEF Inv, Shape, Ticking, Sending
  <2> QED BY <2>1 DEF Apart, Inv, Unsent
<1> QED BY <1>1, <1>2, <1>4, <1>5, <1>6, <1>7 DEF Inv

----------------------------------------------------------------------------
(* The worker. *)

LEMMA SetFacts ==
  ASSUME Inv, NEW b \in Books, NEW f \in Rows, Set(b, f)
  PROVE  /\ book' \in [Books -> Rows] /\ book'[b] = f
         /\ \A c \in Books \ {b} : book'[c] = book[c]
BY DEF Inv, Shape, Set

\* A row stays one when a field of it is set.
LEMMA RowWith ==
  ASSUME NEW x \in Rows
  PROVE  /\ \A v \in Statuses : [x EXCEPT !.st = v] \in Rows
         /\ \A v \in {"none", "pending", "downloaded", "failed"} : [x EXCEPT !.dl = v] \in Rows
         /\ \A v \in BOOLEAN : /\ [x EXCEPT !.text = v] \in Rows /\ [x EXCEPT !.open = v] \in Rows
                               /\ [x EXCEPT !.final = v] \in Rows /\ [x EXCEPT !.bare = v] \in Rows
         /\ \A v \in {"none", "running", "failed", "succeeded"} : [x EXCEPT !.ingest = v] \in Rows
         /\ \A v \in {"none", "active", "failed", "succeeded"} : [x EXCEPT !.prod = v] \in Rows
         /\ \A v \in Phases \cup {"nothing"} : [x EXCEPT !.told = v] \in Rows
         /\ [x EXCEPT !.want = "reserved"] \in Rows
BY DEF Rows

\* The past stays one when it goes on.
LEMMA PastWith ==
  ASSUME NEW p \in Pasts
  PROVE  /\ [p EXCEPT !.asks = @ + 1] \in Pasts /\ [p EXCEPT !.crashes = @ + 1] \in Pasts
         /\ [p EXCEPT !.losses = @ + 1] \in Pasts /\ [p EXCEPT !.refusals = @ + 1] \in Pasts
         /\ \A b \in Books : /\ [p EXCEPT !.again = @ \cup {b}] \in Pasts
                             /\ [p EXCEPT !.left = @ \cup {b}] \in Pasts
                             /\ [p EXCEPT !.missed = @ \cup {b}] \in Pasts
                             /\ [p EXCEPT !.untold = @ \cup {b}] \in Pasts
<1>1. p.asks + 1 \in Nat /\ p.crashes + 1 \in Nat /\ p.losses + 1 \in Nat /\ p.refusals + 1 \in Nat
  BY DEF Pasts
<1>2. /\ [p EXCEPT !.asks = p.asks + 1] \in Pasts /\ [p EXCEPT !.crashes = p.crashes + 1] \in Pasts
      /\ [p EXCEPT !.losses = p.losses + 1] \in Pasts
      /\ [p EXCEPT !.refusals = p.refusals + 1] \in Pasts
  BY <1>1 DEF Pasts
<1>4. ASSUME NEW b \in Books
      PROVE  /\ [p EXCEPT !.again = @ \cup {b}] \in Pasts /\ [p EXCEPT !.left = @ \cup {b}] \in Pasts
             /\ [p EXCEPT !.missed = @ \cup {b}] \in Pasts
             /\ [p EXCEPT !.untold = @ \cup {b}] \in Pasts
  BY DEF Pasts
<1> QED BY <1>2, <1>4

LEMMA Parts ==
  ASSUME Inv, NEW b \in Books, ~Sending(b)
  PROVE  /\ book[b] \in Rows /\ mail[b] \in Letters
         /\ Begun(book[b], mail[b], Step(b)) /\ Tended(book[b], mail[b], Step(b), b \in past.left)
         /\ Straight(book[b], mail[b], Step(b), b \in past.again)
         /\ Ended(book[b], b \in past.again \/ b \in past.missed) /\ Texted(book[b], Step(b))
BY DEF Inv, Shape, Fitting, Fits

LEMMA AtWork ==
  ASSUME Inv, worker.at # "free"
  PROVE  /\ worker \in Busy /\ worker.on \in Books /\ Step(worker.on) = worker.at
         /\ ~Sending(worker.on)
         /\ \A c \in Books \ {worker.on} : Step(c) = "away"
BY DEF Inv, Shape, Busy, Step, Free, Unsent, Sending

LEMMA AtRestNow ==
  ASSUME Inv, worker.at = "free"
  PROVE  worker = Free /\ \A c \in Books : Step(c) = "away"
<1>1. worker = Free
  BY DEF Inv, Shape, Busy, Steps
<1> QED BY <1>1, FactoryAssumption DEF Step, Free

LEMMA Rests ==
  ASSUME Acked
  PROVE  worker' \in Busy \cup {Free} /\ \A c \in Books : Step(c)' = "away"
BY FactoryAssumption DEF Acked, Free, Step

LEMMA Goes ==
  ASSUME Inv, worker.at # "free", NEW b \in Books, b = worker.on, NEW s \in Steps, Goto(s)
  PROVE  /\ worker' \in Busy \cup {Free} /\ Step(b)' = s
         /\ \A c \in Books \ {b} : Step(c)' = "away"
<1>1. worker \in Busy
  BY AtWork
<1>2. worker' = [at |-> s, on |-> b, tries |-> worker.tries]
  BY <1>1 DEF Goto, Busy
<1> QED BY <1>1, <1>2 DEF Busy, Step

\* The worker goes from one step of its book to the next.
LEMMA WorkerTurns ==
  ASSUME Inv, worker.at # "free", NEW f \in Rows, Set(worker.on, f),
         NEW m \in Letters, mail' = [mail EXCEPT ![worker.on] = m],
         NEW s \in Steps \cup {"away"}, IF s = "away" THEN Acked ELSE Goto(s),
         UNCHANGED <<tick, past>>,
         Fits(f, m, s, worker.on \in past.left, worker.on \in past.again, worker.on \in past.missed),
         Turns(book[worker.on], f, TRUE, worker.on \in past.again)
  PROVE  Inv'
<1> PICK b \in Books : b = worker.on /\ ~Sending(b)
  BY AtWork
<1>1. book' \in [Books -> Rows] /\ book'[b] = f /\ \A c \in Books \ {b} : book'[c] = book[c]
  BY SetFacts
<1>2. mail' \in [Books -> Letters] /\ mail'[b] = m /\ \A c \in Books \ {b} : mail'[c] = mail[c]
  BY DEF Inv, Shape
<1>3. worker' \in Busy \cup {Free} /\ Step(b)' = s /\ \A c \in Books \ {b} : Step(c)' = "away"
  <2>1. CASE s = "away"
    BY <2>1, Rests
  <2>2. CASE s # "away"
    <3>1. s \in Steps /\ Goto(s)
      BY <2>2
    <3> QED BY <2>2, <3>1, Goes
  <2> QED BY <2>1, <2>2
<1>4. \A c \in Books \ {b} : Step(c) = "away"
  BY AtWork
<1>5. Apart(b)
  BY <1>1, <1>2, <1>3, <1>4 DEF Apart, Inv, Shape, Sending
<1>6. Fitting(b)'
  BY <1>1, <1>2, <1>3 DEF Fitting, Sending
<1>7. Turns(book[b], book'[b], tick.at = "settle" /\ tick.on = b /\ b \notin past'.again \cup past'.missed,
            b \in past'.again)
  BY <1>1 DEF Turns
<1>8. tick.at = "send" => worker'.on # tick.on
  <2>1. CASE s = "away"
    BY <2>1, FactoryAssumption DEF Acked, Free, Inv, Shape, Ticking
  <2>2. CASE s # "away"
    <3>1. worker'.on = worker.on
      BY <2>2, AtWork DEF Goto, Busy
    <3> QED BY <3>1 DEF Inv, Unsent
  <2> QED BY <2>1, <2>2
<1> QED BY <1>5, <1>6, <1>7, <1>8, BookTurns

LEMMA Unmoved ==
  ASSUME Inv, NEW b \in Books
  PROVE  mail = [mail EXCEPT ![b] = mail[b]] /\ book = [book EXCEPT ![b] = book[b]]
BY DEF Inv, Shape

\* The worker has done with the book b, or goes on to its next step: the row only changes.
LEMMA WorkerOnly ==
  ASSUME Inv, worker.at # "free", NEW f \in Rows, Set(worker.on, f), UNCHANGED <<mail, tick, past>>,
         NEW s \in Steps \cup {"away"}, IF s = "away" THEN Acked ELSE Goto(s),
         Fits(f, mail[worker.on], s, worker.on \in past.left, worker.on \in past.again,
              worker.on \in past.missed),
         Turns(book[worker.on], f, TRUE, worker.on \in past.again)
  PROVE  Inv'
<1>1. worker.on \in Books /\ mail[worker.on] \in Letters
  BY AtWork DEF Inv, Shape
<1>2. mail' = [mail EXCEPT ![worker.on] = mail[worker.on]]
  BY <1>1, Unmoved
<1> QED BY <1>1, <1>2, WorkerTurns

LEMMA FailDownloadKeeps ==
  ASSUME Inv, FailDownload
  PROVE  Inv'
<1> PICK b \in Books : b = worker.on /\ ~Sending(b)
  BY AtWork DEF FailDownload, At
<1> DEFINE x == book[b]  m == mail[b]  y == [x EXCEPT !.dl = "failed", !.st = "failed"]
<1>1. x \in Rows /\ m \in Letters /\ Step(b) = "download" /\ m.pipe \in Nat
  BY Parts, AtWork DEF FailDownload, At, Letters
<1>2. y \in Rows
  <2>1. PICK z : z = [x EXCEPT !.dl = "failed"]
    OBVIOUS
  <2>2. z \in Rows
    BY <1>1, <2>1 DEF Rows
  <2>3. [z EXCEPT !.st = "failed"] \in Rows
    BY <2>2 DEF Rows, Statuses
  <2>4. y = [z EXCEPT !.st = "failed"]
    BY <2>1
  <2> QED BY <2>3, <2>4
<1>3. /\ y.want = x.want /\ y.dl = "failed" /\ y.st = "failed" /\ y.text = x.text /\ y.open = x.open
      /\ y.ingest = x.ingest /\ y.prod = x.prod /\ y.final = x.final /\ y.told = x.told
      /\ y.bare = x.bare
  BY <1>1 DEF Rows
<1>4. Begun(x, m, "download") /\ Tended(x, m, "download", b \in past.left) /\ Straight(x, m, "download", b \in past.again)
      /\ Ended(x, b \in past.again \/ b \in past.missed) /\ Texted(x, "download")
  BY <1>1, Parts
<1>5. Begun(y, m, "away")
  BY <1>1, <1>3, <1>4 DEF Begun, Steps, Shelf
<1>6. Tended(y, m, "away", b \in past.left)
  BY <1>1, <1>3, <1>4 DEF Tended, Begun, Steps, Shelf
<1>7. Straight(y, m, "away", b \in past.again)
  BY <1>1, <1>3, <1>4 DEF Straight, Begun, Steps, Shelf
<1>8. Ended(y, b \in past.again \/ b \in past.missed)
  BY <1>3, <1>4, PhaseOfEnd DEF Ended, Straight, Steps, Begun
<1>9. Texted(y, "away")
  BY <1>3, <1>4 DEF Texted, Shelf
<1>10. Turns(x, y, TRUE, b \in past.again)
  BY <1>1, <1>3, <1>4 DEF Turns, Held, Done, Straight, Begun, Steps, Shelf
<1> HIDE DEF x, m, y
<1>11. Set(b, y) /\ UNCHANGED <<mail, tick, past>> /\ worker.at # "free"
       /\ Acked
  BY Unmoved DEF FailDownload, At, Set, x, m, y
<1> QED BY <1>2, <1>5, <1>6, <1>7, <1>8, <1>9, <1>10, <1>11, WorkerOnly DEF Fits, x, m, Steps

LEMMA DownloadedKeeps ==
  ASSUME Inv, Downloaded
  PROVE  Inv'
<1> PICK b \in Books : b = worker.on /\ ~Sending(b)
  BY AtWork DEF Downloaded, At
<1> DEFINE x == book[b]  m == mail[b]  y == [x EXCEPT !.dl = "downloaded"]
<1>1. x \in Rows /\ m \in Letters /\ Step(b) = "download" /\ m.pipe \in Nat
  BY Parts, AtWork DEF Downloaded, At, Letters
<1>2. y \in Rows
  BY <1>1 DEF Rows, Statuses, Shelf
<1>3. /\ y.want = x.want /\ y.dl = "downloaded" /\ y.st = x.st /\ y.text = x.text /\ y.open = x.open
      /\ y.ingest = x.ingest /\ y.prod = x.prod /\ y.final = x.final /\ y.told = x.told
      /\ y.bare = x.bare
  BY <1>1 DEF Rows
<1>4. Begun(x, m, "download") /\ Tended(x, m, "download", b \in past.left) /\ Straight(x, m, "download", b \in past.again)
      /\ Ended(x, b \in past.again \/ b \in past.missed) /\ Texted(x, "download")
  BY <1>1, Parts
<1>5. Begun(y, m, "send")
  BY <1>1, <1>3, <1>4 DEF Begun, Steps, Shelf
<1>6. Tended(y, m, "send", b \in past.left)
  BY <1>1, <1>3, <1>4 DEF Tended, Begun, Steps, Shelf
<1>7. Straight(y, m, "send", b \in past.again)
  BY <1>1, <1>3, <1>4 DEF Straight, Begun, Steps, Shelf
<1>8. Ended(y, b \in past.again \/ b \in past.missed)
  BY <1>3, <1>4, PhaseOfEnd DEF Ended, Straight, Steps, Begun
<1>9. Texted(y, "send")
  BY <1>3, <1>4 DEF Texted, Shelf
<1>10. Turns(x, y, TRUE, b \in past.again)
  BY <1>1, <1>3, <1>4 DEF Turns, Held, Done, Straight, Begun, Steps, Shelf
<1> HIDE DEF x, m, y
<1>11. Set(b, y) /\ UNCHANGED <<mail, tick, past>> /\ worker.at # "free"
       /\ Goto("send")
  BY Unmoved DEF Downloaded, At, Set, x, m, y
<1> QED BY <1>2, <1>5, <1>6, <1>7, <1>8, <1>9, <1>10, <1>11, WorkerOnly DEF Fits, x, m, Steps

LEMMA NormalizeKeeps ==
  ASSUME Inv, Normalize
  PROVE  Inv'
<1> PICK b \in Books : b = worker.on /\ ~Sending(b)
  BY AtWork DEF Normalize, At
<1> DEFINE x == book[b]  m == mail[b]  y == [x EXCEPT !.st = "processing"]
<1>1. x \in Rows /\ m \in Letters /\ Step(b) = "normalize" /\ m.pipe \in Nat
  BY Parts, AtWork DEF Normalize, At, Letters
<1>2. y \in Rows
  BY <1>1 DEF Rows, Statuses, Shelf
<1>3. /\ y.want = x.want /\ y.dl = x.dl /\ y.st = "processing" /\ y.text = x.text /\ y.open = x.open
      /\ y.ingest = x.ingest /\ y.prod = x.prod /\ y.final = x.final /\ y.told = x.told
      /\ y.bare = x.bare
  BY <1>1 DEF Rows
<1>4. Begun(x, m, "normalize") /\ Tended(x, m, "normalize", b \in past.left) /\ Straight(x, m, "normalize", b \in past.again)
      /\ Ended(x, b \in past.again \/ b \in past.missed) /\ Texted(x, "normalize")
  BY <1>1, Parts
<1>5. Begun(y, m, "split")
  BY <1>1, <1>3, <1>4 DEF Begun, Steps, Shelf
<1>6. Tended(y, m, "split", b \in past.left)
  BY <1>1, <1>3, <1>4 DEF Tended, Begun, Steps, Shelf
<1>7. Straight(y, m, "split", b \in past.again)
  BY <1>1, <1>3, <1>4 DEF Straight, Begun, Steps, Shelf
<1>8. Ended(y, b \in past.again \/ b \in past.missed)
  BY <1>3, <1>4, PhaseOfEnd DEF Ended, Straight, Steps, Begun
<1>9. Texted(y, "split")
  BY <1>3, <1>4 DEF Texted, Shelf
<1>10. Turns(x, y, TRUE, b \in past.again)
  BY <1>1, <1>3, <1>4 DEF Turns, Held, Done, Straight, Begun, Steps, Shelf
<1> HIDE DEF x, m, y
<1>11. Set(b, y) /\ UNCHANGED <<mail, tick, past>> /\ worker.at # "free"
       /\ Goto("split")
  BY Unmoved DEF Normalize, At, Set, x, m, y
<1> QED BY <1>2, <1>5, <1>6, <1>7, <1>8, <1>9, <1>10, <1>11, WorkerOnly DEF Fits, x, m, Steps

LEMMA NormalizeFailsKeeps ==
  ASSUME Inv, NormalizeFails
  PROVE  Inv'
<1> PICK b \in Books : b = worker.on /\ ~Sending(b)
  BY AtWork DEF NormalizeFails, At
<1> DEFINE x == book[b]  m == mail[b]
<1> PICK s \in {"split", "continue"} : s = worker.at
  BY DEF NormalizeFails, At
<1>0. \E prod \in {x.prod, "active"} :
        /\ Set(b, [x EXCEPT !.st = "failed", !.prod = prod])
        /\ s = "split" => prod = x.prod
  <2>1. x \in Rows
    BY Parts
  <2>2. CASE s = "split"
    <3>1. [x EXCEPT !.st = "failed", !.prod = x.prod] = [x EXCEPT !.st = "failed"]
      BY <2>1 DEF Rows
    <3>2. Set(b, [x EXCEPT !.st = "failed"])
      BY <2>2 DEF NormalizeFails, At
    <3> QED BY <2>2, <3>1, <3>2
  <2>3. CASE s = "continue"
    <3>1. \E prod \in {x.prod, "active"} : Set(b, [x EXCEPT !.st = "failed", !.prod = prod])
      BY <2>3 DEF NormalizeFails, At
    <3> QED BY <2>3, <3>1
  <2> QED BY <2>2, <2>3
<1> PICK prod \in {x.prod, "active"} :
      /\ Set(b, [x EXCEPT !.st = "failed", !.prod = prod])
      /\ s = "split" => prod = x.prod
  BY <1>0
<1> DEFINE y == [x EXCEPT !.st = "failed", !.prod = prod]
<1>1. x \in Rows /\ m \in Letters /\ Step(b) = s /\ m.pipe \in Nat
  BY Parts, AtWork DEF NormalizeFails, At, Letters
<1>2. y \in Rows
  <2> PICK z1 \in Rows : z1 = [x EXCEPT !.st = "failed"]
    BY <1>1, RowWith DEF Statuses
  <2> prod \in {"none", "active", "failed", "succeeded"}
    BY <1>1 DEF Rows
  <2> [z1 EXCEPT !.prod = prod] \in Rows
    BY RowWith
  <2> QED OBVIOUS
<1>3. /\ y.want = x.want /\ y.dl = x.dl /\ y.st = "failed" /\ y.text = x.text /\ y.open = x.open
      /\ y.ingest = x.ingest /\ y.prod = prod /\ y.final = x.final /\ y.told = x.told
      /\ y.bare = x.bare
  BY <1>1 DEF Rows
<1>4. Begun(x, m, s) /\ Tended(x, m, s, b \in past.left) /\ Straight(x, m, s, b \in past.again)
      /\ Ended(x, b \in past.again \/ b \in past.missed) /\ Texted(x, s)
  <2>1. Step(b) = s
    BY <1>1
  <2> QED BY <2>1, Parts
<1>5. Begun(y, m, "away")
  BY <1>1, <1>3, <1>4 DEF Begun, Steps, Shelf
<1>6. Tended(y, m, "away", b \in past.left)
  BY <1>1, <1>3, <1>4 DEF Tended, Begun, Steps, Shelf
<1>7. Straight(y, m, "away", b \in past.again)
  BY <1>1, <1>3, <1>4 DEF Straight, Begun, Steps, Shelf
<1>8. Ended(y, b \in past.again \/ b \in past.missed)
  BY <1>3, <1>4, PhaseOfEnd DEF Ended, Straight, Steps, Begun
<1>9. Texted(y, "away")
  BY <1>3, <1>4 DEF Texted, Shelf
<1>10. Turns(x, y, TRUE, b \in past.again)
  BY <1>1, <1>3, <1>4 DEF Turns, Held, Done, Straight, Begun, Steps, Shelf
<1> HIDE DEF x, m, y
<1>11. Set(b, y) /\ UNCHANGED <<mail, tick, past>> /\ worker.at # "free"
       /\ Acked
  BY Unmoved DEF NormalizeFails, At, Set, x, m, y
<1> QED BY <1>2, <1>5, <1>6, <1>7, <1>8, <1>9, <1>10, <1>11, WorkerOnly DEF Fits, x, m, Steps

LEMMA ContinueQueues ==
  ASSUME Inv, Continue, Set(worker.on, [book[worker.on] EXCEPT !.prod = "active"]), UNCHANGED past
  PROVE  Inv'
<1> PICK b \in Books : b = worker.on /\ ~Sending(b)
  BY AtWork DEF Continue, At
<1> DEFINE x == book[b]  m == mail[b]  y == [x EXCEPT !.prod = "active"]
<1>1. x \in Rows /\ m \in Letters /\ Step(b) = "continue" /\ m.pipe \in Nat
  BY Parts, AtWork DEF Continue, At, Letters
<1>2. y \in Rows
  BY <1>1 DEF Rows, Statuses, Shelf
<1>3. /\ y.want = x.want /\ y.dl = x.dl /\ y.st = x.st /\ y.text = x.text /\ y.open = x.open
      /\ y.ingest = x.ingest /\ y.prod = "active" /\ y.final = x.final /\ y.told = x.told
      /\ y.bare = x.bare
  BY <1>1 DEF Rows
<1>4. Begun(x, m, "continue") /\ Tended(x, m, "continue", b \in past.left) /\ Straight(x, m, "continue", b \in past.again)
      /\ Ended(x, b \in past.again \/ b \in past.missed) /\ Texted(x, "continue")
  BY <1>1, Parts
<1>5. Begun(y, m, "ack")
  BY <1>1, <1>3, <1>4 DEF Begun, Steps, Shelf
<1>6. Tended(y, m, "ack", b \in past.left)
  BY <1>1, <1>3, <1>4 DEF Tended, Begun, Steps, Shelf
<1>7. Straight(y, m, "ack", b \in past.again)
  BY <1>1, <1>3, <1>4 DEF Straight, Begun, Steps, Shelf
<1>8. Ended(y, b \in past.again \/ b \in past.missed)
  BY <1>3, <1>4, PhaseOfEnd DEF Ended, Straight, Steps, Begun
<1>9. Texted(y, "ack")
  BY <1>3, <1>4 DEF Texted, Shelf
<1>10. Turns(x, y, TRUE, b \in past.again)
  BY <1>1, <1>3, <1>4 DEF Turns, Held, Done, Straight, Begun, Steps, Shelf
<1> HIDE DEF x, m, y
<1>11. Set(b, y) /\ UNCHANGED <<mail, tick, past>> /\ worker.at # "free"
       /\ Goto("ack")
  BY Unmoved DEF Continue, At, Set, x, m, y
<1> QED BY <1>2, <1>5, <1>6, <1>7, <1>8, <1>9, <1>10, <1>11, WorkerOnly DEF Fits, x, m, Steps

LEMMA AckKeeps ==
  ASSUME Inv, Ack
  PROVE  Inv'
<1> PICK b \in Books : b = worker.on /\ ~Sending(b)
  BY AtWork DEF Ack, At
<1> DEFINE x == book[b]  m == mail[b]  y == x
<1>1. x \in Rows /\ m \in Letters /\ Step(b) = "ack" /\ m.pipe \in Nat
  BY Parts, AtWork DEF Ack, At, Letters
<1>2. y \in Rows
  BY <1>1 DEF Rows, Statuses, Shelf
<1>3. /\ y.want = x.want /\ y.dl = x.dl /\ y.st = x.st /\ y.text = x.text /\ y.open = x.open
      /\ y.ingest = x.ingest /\ y.prod = x.prod /\ y.final = x.final /\ y.told = x.told
      /\ y.bare = x.bare
  BY <1>1 DEF Rows
<1>4. Begun(x, m, "ack") /\ Tended(x, m, "ack", b \in past.left) /\ Straight(x, m, "ack", b \in past.again)
      /\ Ended(x, b \in past.again \/ b \in past.missed) /\ Texted(x, "ack")
  BY <1>1, Parts
<1>5. Begun(y, m, "away")
  BY <1>1, <1>3, <1>4 DEF Begun, Steps, Shelf
<1>6. Tended(y, m, "away", b \in past.left)
  BY <1>1, <1>3, <1>4 DEF Tended, Begun, Steps, Shelf
<1>7. Straight(y, m, "away", b \in past.again)
  BY <1>1, <1>3, <1>4 DEF Straight, Begun, Steps, Shelf
<1>8. Ended(y, b \in past.again \/ b \in past.missed)
  BY <1>3, <1>4, PhaseOfEnd DEF Ended, Straight, Steps, Begun
<1>9. Texted(y, "away")
  BY <1>3, <1>4 DEF Texted, Shelf
<1>10. Turns(x, y, TRUE, b \in past.again)
  BY <1>1, <1>3, <1>4 DEF Turns, Held, Done, Straight, Begun, Steps, Shelf
<1> HIDE DEF x, m, y
<1>11. Set(b, y) /\ UNCHANGED <<mail, tick, past>> /\ worker.at # "free"
       /\ Acked
  BY Unmoved DEF Ack, At, Set, x, m, y
<1> QED BY <1>2, <1>5, <1>6, <1>7, <1>8, <1>9, <1>10, <1>11, WorkerOnly DEF Fits, x, m, Steps

LEMMA IngestAgainKeeps ==
  ASSUME Inv, Ingest, book[worker.on].ingest = "succeeded"
  PROVE  Inv'
<1> PICK b \in Books : b = worker.on /\ ~Sending(b)
  BY AtWork DEF Ingest, At
<1> DEFINE x == book[b]  m == mail[b]
<1> DEFINE y == x
<1>1. x \in Rows /\ m \in Letters /\ Step(b) = "ingest" /\ m.pipe \in Nat
  BY Parts, AtWork DEF Ingest, At, Letters
<1>2. y \in Rows
  BY <1>1 DEF Rows, Statuses, Shelf, ShelfStatus
<1>3. /\ y.want = x.want /\ y.dl = x.dl /\ y.st = x.st /\ y.text = x.text /\ y.open = x.open
      /\ y.ingest = x.ingest /\ y.prod = x.prod /\ y.final = x.final /\ y.told = x.told
      /\ y.bare = x.bare
  BY <1>1 DEF Rows
<1>4. Begun(x, m, "ingest") /\ Tended(x, m, "ingest", b \in past.left) /\ Straight(x, m, "ingest", b \in past.again)
      /\ Ended(x, b \in past.again \/ b \in past.missed) /\ Texted(x, "ingest")
  BY <1>1, Parts
<1>5. Begun(y, m, "normalize")
  BY <1>1, <1>3, <1>4 DEF Begun, Steps, Shelf, ShelfStatus
<1>6. Tended(y, m, "normalize", b \in past.left)
  BY <1>1, <1>3, <1>4 DEF Tended, Begun, Steps, Shelf, ShelfStatus
<1>7. Straight(y, m, "normalize", b \in past.again)
  BY <1>1, <1>3, <1>4 DEF Straight, Begun, Steps, Shelf, ShelfStatus
<1>8. Ended(y, b \in past.again \/ b \in past.missed)
  BY <1>3, <1>4, PhaseOfEnd DEF Ended, Straight, Steps, Begun
<1>9. Texted(y, "normalize")
  BY <1>3, <1>4 DEF Texted, Shelf
<1>10. Turns(x, y, TRUE, b \in past.again)
  BY <1>1, <1>3, <1>4 DEF Turns, Held, Done, Straight, Begun, Steps, Shelf, ShelfStatus
<1> HIDE DEF x, m, y
<1>11. Set(b, y) /\ UNCHANGED <<mail, tick, past>> /\ worker.at # "free"
       /\ Goto("normalize")
  BY Unmoved DEF Ingest, At, Set, x, m, y
<1> QED BY <1>2, <1>5, <1>6, <1>7, <1>8, <1>9, <1>10, <1>11, WorkerOnly DEF Fits, x, m, Steps

LEMMA IngestFirstKeeps ==
  ASSUME Inv, Ingest, book[worker.on].ingest # "succeeded"
  PROVE  Inv'
<1> PICK b \in Books : b = worker.on /\ ~Sending(b)
  BY AtWork DEF Ingest, At
<1> DEFINE x == book[b]  m == mail[b]
<1> DEFINE y == [x EXCEPT !.st = "processing", !.ingest = "running"]
<1>1. x \in Rows /\ m \in Letters /\ Step(b) = "ingest" /\ m.pipe \in Nat
  BY Parts, AtWork DEF Ingest, At, Letters
<1>2. y \in Rows
  <2> PICK z1 \in Rows : z1 = [x EXCEPT !.st = "processing"]
    BY <1>1, RowWith DEF Statuses
  <2> [z1 EXCEPT !.ingest = "running"] \in Rows
    BY RowWith
  <2> QED OBVIOUS
<1>3. /\ y.want = x.want /\ y.dl = x.dl /\ y.st = "processing" /\ y.text = x.text /\ y.open = x.open
      /\ y.ingest = "running" /\ y.prod = x.prod /\ y.final = x.final /\ y.told = x.told
      /\ y.bare = x.bare
  BY <1>1 DEF Rows
<1>4. Begun(x, m, "ingest") /\ Tended(x, m, "ingest", b \in past.left) /\ Straight(x, m, "ingest", b \in past.again)
      /\ Ended(x, b \in past.again \/ b \in past.missed) /\ Texted(x, "ingest")
  BY <1>1, Parts
<1>5. Begun(y, m, "persist")
  BY <1>1, <1>3, <1>4 DEF Begun, Steps, Shelf, ShelfStatus
<1>6. Tended(y, m, "persist", b \in past.left)
  BY <1>1, <1>3, <1>4 DEF Tended, Begun, Steps, Shelf, ShelfStatus
<1>7. Straight(y, m, "persist", b \in past.again)
  BY <1>1, <1>3, <1>4 DEF Straight, Begun, Steps, Shelf, ShelfStatus
<1>8. Ended(y, b \in past.again \/ b \in past.missed)
  BY <1>3, <1>4, PhaseOfEnd DEF Ended, Straight, Steps, Begun
<1>9. Texted(y, "persist")
  BY <1>3, <1>4 DEF Texted, Shelf
<1>10. Turns(x, y, TRUE, b \in past.again)
  BY <1>1, <1>3, <1>4 DEF Turns, Held, Done, Straight, Begun, Steps, Shelf, ShelfStatus
<1> HIDE DEF x, m, y
<1>11. Set(b, y) /\ UNCHANGED <<mail, tick, past>> /\ worker.at # "free"
       /\ Goto("persist")
  BY Unmoved DEF Ingest, At, Set, x, m, y
<1> QED BY <1>2, <1>5, <1>6, <1>7, <1>8, <1>9, <1>10, <1>11, WorkerOnly DEF Fits, x, m, Steps

LEMMA PersistKeeps ==
  ASSUME Inv, Persist
  PROVE  Inv'
<1> PICK b \in Books : b = worker.on /\ ~Sending(b)
  BY AtWork DEF Persist, At
<1> DEFINE x == book[b]  m == mail[b]
<1>0. \E open \in BOOLEAN :
        Set(b, [x EXCEPT !.text = TRUE, !.open = open, !.st = ShelfStatus(open), !.ingest = "succeeded",
                   !.bare = FALSE])
  BY DEF Persist
<1> PICK o \in BOOLEAN :
      Set(b, [x EXCEPT !.text = TRUE, !.open = o, !.st = ShelfStatus(o), !.ingest = "succeeded",
                   !.bare = FALSE])
  BY <1>0
<1> DEFINE y == [x EXCEPT !.text = TRUE, !.open = o, !.st = ShelfStatus(o), !.ingest = "succeeded",
                   !.bare = FALSE]
<1>1. x \in Rows /\ m \in Letters /\ Step(b) = "persist" /\ m.pipe \in Nat
  BY Parts, AtWork DEF Persist, At, Letters
<1>2. y \in Rows
  <2> ShelfStatus(o) \in Statuses
    BY DEF ShelfStatus, Statuses, Shelf
  <2> PICK z1 \in Rows : z1 = [x EXCEPT !.text = TRUE]
    BY <1>1, RowWith DEF Statuses
  <2> PICK z2 \in Rows : z2 = [z1 EXCEPT !.open = o]
    BY <1>1, RowWith DEF Statuses
  <2> PICK z3 \in Rows : z3 = [z2 EXCEPT !.st = ShelfStatus(o)]
    BY <1>1, RowWith DEF Statuses
  <2> PICK z4 \in Rows : z4 = [z3 EXCEPT !.ingest = "succeeded"]
    BY RowWith
  <2> [z4 EXCEPT !.bare = FALSE] \in Rows
    BY RowWith
  <2> QED OBVIOUS
<1>3. /\ y.want = x.want /\ y.dl = x.dl /\ y.st = ShelfStatus(o) /\ y.text = TRUE /\ y.open = o
      /\ y.ingest = "succeeded" /\ y.prod = x.prod /\ y.final = x.final /\ y.told = x.told
      /\ y.bare = FALSE
  BY <1>1 DEF Rows
<1>4. Begun(x, m, "persist") /\ Tended(x, m, "persist", b \in past.left) /\ Straight(x, m, "persist", b \in past.again)
      /\ Ended(x, b \in past.again \/ b \in past.missed) /\ Texted(x, "persist")
  BY <1>1, Parts
<1>5. Begun(y, m, "normalize")
  BY <1>1, <1>3, <1>4 DEF Begun, Steps, Shelf, ShelfStatus
<1>6. Tended(y, m, "normalize", b \in past.left)
  BY <1>1, <1>3, <1>4 DEF Tended, Begun, Steps, Shelf, ShelfStatus
<1>7. Straight(y, m, "normalize", b \in past.again)
  BY <1>1, <1>3, <1>4 DEF Straight, Begun, Steps, Shelf, ShelfStatus
<1>8. Ended(y, b \in past.again \/ b \in past.missed)
  BY <1>3, <1>4, PhaseOfEnd DEF Ended, Straight, Steps, Begun
<1>9. Texted(y, "normalize")
  BY <1>3, <1>4 DEF Texted, Shelf
<1>10. Turns(x, y, TRUE, b \in past.again)
  BY <1>1, <1>3, <1>4 DEF Turns, Held, Done, Straight, Begun, Steps, Shelf, ShelfStatus
<1> HIDE DEF x, m, y
<1>11. Set(b, y) /\ UNCHANGED <<mail, tick, past>> /\ worker.at # "free"
       /\ Goto("normalize")
  BY Unmoved DEF Persist, At, Set, x, m, y
<1> QED BY <1>2, <1>5, <1>6, <1>7, <1>8, <1>9, <1>10, <1>11, WorkerOnly DEF Fits, x, m, Steps

LEMMA PersistFailsKeeps ==
  ASSUME Inv, PersistFails
  PROVE  Inv'
<1> PICK b \in Books : b = worker.on /\ ~Sending(b)
  BY AtWork DEF PersistFails, At
<1> DEFINE x == book[b]  m == mail[b]
<1> DEFINE i == IF x.ingest = "none" THEN "none" ELSE "failed"
<1> DEFINE y == [x EXCEPT !.st = "failed", !.ingest = i]
<1>1. x \in Rows /\ m \in Letters /\ Step(b) = "persist" /\ m.pipe \in Nat
  BY Parts, AtWork DEF PersistFails, At, Letters
<1>2. y \in Rows
  <2> PICK z1 \in Rows : z1 = [x EXCEPT !.st = "failed"]
    BY <1>1, RowWith DEF Statuses
  <2> [z1 EXCEPT !.ingest = i] \in Rows
    BY RowWith
  <2> QED OBVIOUS
<1>3. /\ y.want = x.want /\ y.dl = x.dl /\ y.st = "failed" /\ y.text = x.text /\ y.open = x.open
      /\ y.ingest = i /\ y.prod = x.prod /\ y.final = x.final /\ y.told = x.told
      /\ y.bare = x.bare
  BY <1>1 DEF Rows
<1>4. Begun(x, m, "persist") /\ Tended(x, m, "persist", b \in past.left) /\ Straight(x, m, "persist", b \in past.again)
      /\ Ended(x, b \in past.again \/ b \in past.missed) /\ Texted(x, "persist")
  BY <1>1, Parts
<1>5. Begun(y, m, "away")
  BY <1>1, <1>3, <1>4 DEF Begun, Steps, Shelf, ShelfStatus
<1>6. Tended(y, m, "away", b \in past.left)
  BY <1>1, <1>3, <1>4 DEF Tended, Begun, Steps, Shelf, ShelfStatus
<1>7. Straight(y, m, "away", b \in past.again)
  BY <1>1, <1>3, <1>4 DEF Straight, Begun, Steps, Shelf, ShelfStatus
<1>8. Ended(y, b \in past.again \/ b \in past.missed)
  BY <1>3, <1>4, PhaseOfEnd DEF Ended, Straight, Steps, Begun
<1>9. Texted(y, "away")
  BY <1>3, <1>4 DEF Texted, Shelf
<1>10. Turns(x, y, TRUE, b \in past.again)
  BY <1>1, <1>3, <1>4 DEF Turns, Held, Done, Straight, Begun, Steps, Shelf, ShelfStatus
<1> HIDE DEF x, m, y
<1>11. Set(b, y) /\ UNCHANGED <<mail, tick, past>> /\ worker.at # "free"
       /\ Acked
  BY Unmoved DEF PersistFails, At, Set, x, m, y
<1> QED BY <1>2, <1>5, <1>6, <1>7, <1>8, <1>9, <1>10, <1>11, WorkerOnly DEF Fits, x, m, Steps

LEMMA FinishKeeps ==
  ASSUME Inv, Finish
  PROVE  Inv'
<1> PICK b \in Books : b = worker.on /\ ~Sending(b)
  BY AtWork DEF Finish, At
<1> DEFINE x == book[b]  m == mail[b]
<1> DEFINE y == [x EXCEPT !.st = ShelfStatus(x.open)]
<1>1. x \in Rows /\ m \in Letters /\ Step(b) = "split" /\ m.pipe \in Nat
  BY Parts, AtWork DEF Finish, At, Letters
<1>2. y \in Rows
  BY <1>1 DEF Rows, Statuses, Shelf, ShelfStatus
<1>3. /\ y.want = x.want /\ y.dl = x.dl /\ y.st = ShelfStatus(x.open) /\ y.text = x.text /\ y.open = x.open
      /\ y.ingest = x.ingest /\ y.prod = x.prod /\ y.final = x.final /\ y.told = x.told
      /\ y.bare = x.bare
  BY <1>1 DEF Rows
<1>4. Begun(x, m, "split") /\ Tended(x, m, "split", b \in past.left) /\ Straight(x, m, "split", b \in past.again)
      /\ Ended(x, b \in past.again \/ b \in past.missed) /\ Texted(x, "split")
  BY <1>1, Parts
<1>5. Begun(y, m, "continue")
  BY <1>1, <1>3, <1>4 DEF Begun, Steps, Shelf, ShelfStatus
<1>6. Tended(y, m, "continue", b \in past.left)
  BY <1>1, <1>3, <1>4 DEF Tended, Begun, Steps, Shelf, ShelfStatus
<1>7. Straight(y, m, "continue", b \in past.again)
  BY <1>1, <1>3, <1>4 DEF Straight, Begun, Steps, Shelf, ShelfStatus
<1>8. Ended(y, b \in past.again \/ b \in past.missed)
  BY <1>3, <1>4, PhaseOfEnd DEF Ended, Straight, Steps, Begun
<1>9. Texted(y, "continue")
  BY <1>3, <1>4 DEF Texted, Shelf
<1>10. Turns(x, y, TRUE, b \in past.again)
  BY <1>1, <1>3, <1>4 DEF Turns, Held, Done, Straight, Begun, Steps, Shelf, ShelfStatus
<1> HIDE DEF x, m, y
<1>11. Set(b, y) /\ UNCHANGED <<mail, tick, past>> /\ worker.at # "free"
       /\ Goto("continue")
  BY Unmoved DEF Finish, At, Set, x, m, y
<1> QED BY <1>2, <1>5, <1>6, <1>7, <1>8, <1>9, <1>10, <1>11, WorkerOnly DEF Fits, x, m, Steps

LEMMA DownloadLaterKeeps ==
  ASSUME Inv, DownloadLater
  PROVE  Inv'
<1> PICK b \in Books : b = worker.on /\ ~Sending(b)
  BY AtWork DEF DownloadLater, At
<1> DEFINE x == book[b]  m == mail[b]  n == [m EXCEPT !.down = @ \cup {worker.tries + 1}]
<1>1. x \in Rows /\ m \in Letters /\ Step(b) = "download" /\ m.pipe \in Nat
  BY Parts, AtWork DEF DownloadLater, At, Letters
<1>2. worker.tries + 1 \in 0..Retries
  <2>1. worker.tries \in 0..Retries
    BY AtWork DEF Busy, DownloadLater, At
  <2>2. worker.tries < Retries
    BY DEF DownloadLater, Fetched
  <2> QED BY <2>1, <2>2, FactoryAssumption
<1>3. /\ x.dl = "pending" /\ x.st = "queued" /\ x.prod = "none" /\ m.down = {} /\ m.pipe = 0
  BY <1>1, Parts DEF Begun, Steps
<1>4. n.pipe = m.pipe /\ n.down = {worker.tries + 1}
  BY <1>1, <1>3 DEF Letters
<1>5. n \in Letters
  BY <1>1, <1>2 DEF Letters
<1>6. Begun(x, n, "away")
  BY <1>1, <1>3, <1>4, Parts DEF Begun, Steps
<1>7. Tended(x, n, "away", b \in past.left) /\ Straight(x, n, "away", b \in past.again)
  BY <1>3, <1>4 DEF Tended, Straight, Steps, Shelf
<1>8. Ended(x, b \in past.again \/ b \in past.missed) /\ Texted(x, "away")
  BY Parts DEF Texted
<1>9. Turns(x, x, TRUE, b \in past.again)
  BY DEF Turns
<1> HIDE DEF x, m, n
<1>10. Set(b, x) /\ mail' = [mail EXCEPT ![b] = n] /\ Acked /\ UNCHANGED <<tick, past>> /\ worker.at # "free"
  BY Unmoved DEF DownloadLater, At, Set, x, m, n
<1> QED BY <1>1, <1>5, <1>6, <1>7, <1>8, <1>9, <1>10, WorkerTurns DEF Fits, x

LEMMA SendPipelineKeeps ==
  ASSUME Inv, SendPipeline
  PROVE  Inv'
<1> PICK b \in Books : b = worker.on /\ ~Sending(b)
  BY AtWork DEF SendPipeline, At
<1> DEFINE x == book[b]  m == mail[b]  n == [m EXCEPT !.pipe = @ + 1]
<1>1. x \in Rows /\ m \in Letters /\ Step(b) = "send" /\ m.pipe \in Nat
  BY Parts, AtWork DEF SendPipeline, At, Letters
<1>2. n.pipe = m.pipe + 1 /\ n.down = m.down /\ n \in Letters
  BY <1>1 DEF Letters
<1>3. Begun(x, m, "send") /\ Straight(x, m, "send", b \in past.again)
      /\ Ended(x, b \in past.again \/ b \in past.missed) /\ Texted(x, "send")
  BY <1>1, Parts
<1>4. x.dl = "downloaded" /\ m.down = {}
  BY <1>3 DEF Begun, Steps
<1>6. Begun(x, n, "away")
  BY <1>1, <1>2, <1>3, <1>4 DEF Begun, Steps
<1>7. Tended(x, n, "away", b \in past.left)
  BY <1>1, <1>2, <1>4 DEF Tended
<1>8. Straight(x, n, "away", b \in past.again)
  BY <1>1, <1>2, <1>3, <1>4 DEF Straight, Steps
<1>9. Texted(x, "away")
  BY <1>3 DEF Texted
<1>10. Turns(x, x, TRUE, b \in past.again)
  BY DEF Turns
<1> HIDE DEF x, m, n
<1>11. Set(b, x) /\ mail' = [mail EXCEPT ![b] = n] /\ Acked /\ UNCHANGED <<tick, past>>
       /\ worker.at # "free"
  BY Unmoved DEF SendPipeline, At, Set, x, m, n
<1> QED BY <1>1, <1>2, <1>3, <1>6, <1>7, <1>8, <1>9, <1>10, <1>11, WorkerTurns DEF Fits, x

\* A message is taken: its book's row stays.
LEMMA MessageTurns ==
  ASSUME Inv, NEW b \in Books, UNCHANGED <<book, tick>>,
         NEW m \in Letters, mail' = [mail EXCEPT ![b] = m],
         worker' \in Busy \cup {Free}, NEW s, Step(b)' = s,
         \A c \in Books \ {b} : Step(c)' = Step(c), tick.at = "send" => worker'.on # tick.on,
         past' \in Pasts, past.left \subseteq past'.left, past.again \subseteq past'.again,
         past.missed \subseteq past'.missed, past.untold \subseteq past'.untold, ~Sending(b),
         Fits(book[b], m, s, b \in past'.left, b \in past'.again, b \in past'.missed)
  PROVE  Inv'
<1>1. mail' \in [Books -> Letters] /\ mail'[b] = m /\ \A c \in Books \ {b} : mail'[c] = mail[c]
  BY DEF Inv, Shape
<1>2. Apart(b)
  BY <1>1 DEF Apart, Inv, Shape, Sending
<1>3. Fitting(b)'
  BY <1>1 DEF Fitting, Sending
<1>4. Turns(book[b], book'[b], tick.at = "settle" /\ tick.on = b /\ b \notin past'.again \cup past'.missed,
            b \in past'.again)
  BY DEF Turns
<1> QED BY <1>2, <1>3, <1>4, BookTurns

\* A production that is refused leaves the book to itself.
LEMMA ContinueRefused ==
  ASSUME Inv, Continue, UNCHANGED book,
         past' = [past EXCEPT !.refusals = @ + 1, !.left = @ \cup {worker.on}]
  PROVE  Inv'
<1> PICK b \in Books : b = worker.on /\ ~Sending(b)
  BY AtWork DEF Continue, At
<1> DEFINE x == book[b]  m == mail[b]
<1>1. m \in Letters /\ m.pipe \in Nat /\ Step(b) = "continue"
  BY Parts, AtWork DEF Letters, Continue, At
<1>2. Begun(x, m, "continue") /\ Straight(x, m, "continue", b \in past.again)
      /\ Ended(x, b \in past.again \/ b \in past.missed) /\ Texted(x, "continue")
  BY <1>1, Parts
<1>3. past' \in Pasts /\ past'.left = past.left \cup {b} /\ past'.missed = past.missed
      /\ past'.again = past.again /\ past'.untold = past.untold
  <2>1. past \in Pasts
    BY DEF Inv, Shape
  <2> PICK q \in Pasts : q = [past EXCEPT !.refusals = @ + 1]
    BY <2>1, PastWith
  <2>2. [q EXCEPT !.left = @ \cup {b}] \in Pasts
    BY PastWith
  <2>3. past' = [q EXCEPT !.left = @ \cup {b}]
    BY <2>1 DEF Pasts
  <2> QED BY <2>1, <2>2, <2>3 DEF Pasts
<1>4. Begun(x, m, "ack")
  BY <1>2 DEF Begun, Steps
<1>5. Texted(x, "ack") /\ Tended(x, m, "ack", b \in past'.left)
  BY <1>2, <1>3 DEF Texted, Tended
<1>6. Straight(x, m, "ack", b \in past'.again) /\ Ended(x, b \in past'.again \/ b \in past'.missed)
  BY <1>1, <1>2, <1>3 DEF Straight, Steps
<1>7. Fits(x, m, "ack", b \in past'.left, b \in past'.again, b \in past'.missed)
  BY <1>4, <1>5, <1>6 DEF Fits
<1>8. /\ worker' \in Busy \cup {Free} /\ Step(b)' = "ack" /\ worker'.on = b
      /\ \A c \in Books \ {b} : Step(c)' = Step(c)
  <2>1. worker.at # "free" /\ "ack" \in Steps
    BY DEF Continue, At, Steps
  <2>2. Goto("ack")
    BY DEF Continue
  <2>3. worker' \in Busy \cup {Free} /\ Step(b)' = "ack" /\ \A c \in Books \ {b} : Step(c)' = "away"
    BY <2>1, <2>2, Goes
  <2>4. worker'.on = worker.on
    BY <2>1, <2>2, AtWork DEF Goto, Busy
  <2> QED BY <2>1, <2>3, <2>4, AtWork
<1>9. UNCHANGED <<book, tick>> /\ mail' = [mail EXCEPT ![b] = m]
  BY Unmoved DEF Continue
<1>10. tick.at = "send" => worker'.on # tick.on
  BY <1>8 DEF Sending
<1> HIDE DEF m
<1> QED BY <1>1, <1>3, <1>7, <1>8, <1>9, <1>10, MessageTurns

LEMMA TakePipelineKeeps ==
  ASSUME Inv, NEW b \in Books, TakePipeline(b)
  PROVE  Inv'
<1> DEFINE x == book[b]  m == mail[b]  n == [m EXCEPT !.pipe = @ - 1]
<1>0. ~Sending(b)
  BY SendingFacts DEF TakePipeline
<1>1. m \in Letters /\ m.pipe \in Nat /\ m.pipe > 0
  BY <1>0, Parts DEF TakePipeline, Letters
<1>2. n \in Letters /\ n.pipe = m.pipe - 1 /\ n.down = m.down
  BY <1>1 DEF Letters
<1>3. Begun(x, m, "away") /\ Tended(x, m, "away", b \in past.left) /\ Straight(x, m, "away", b \in past.again)
      /\ Ended(x, b \in past.again \/ b \in past.missed) /\ Texted(x, "away")
  BY <1>0, Parts, AtRestNow DEF TakePipeline, At
<1>4. Begun(x, n, "ingest")
  BY <1>1, <1>2, <1>3 DEF Begun, Steps
<1>5. Tended(x, n, "ingest", b \in past.left)
  BY <1>1, <1>2, <1>3 DEF Begun, Tended, Steps
<1>6. Straight(x, n, "ingest", b \in past.again)
  BY <1>1, <1>2, <1>3 DEF Begun, Straight, Steps
<1>7. Texted(x, "ingest")
  BY <1>3 DEF Texted
<1>8. Fits(x, n, "ingest", b \in past.left, b \in past.again, b \in past.missed)
  BY <1>3, <1>4, <1>5, <1>6, <1>7 DEF Fits
<1>9. worker' \in Busy
  BY FactoryAssumption DEF TakePipeline, Busy, Steps
<1>10. Step(b)' = "ingest" /\ \A c \in Books \ {b} : Step(c)' = Step(c)
  BY AtRestNow DEF TakePipeline, At, Step
<1>11. UNCHANGED <<book, tick, past>> /\ mail' = [mail EXCEPT ![b] = n] /\ past \in Pasts
  BY DEF TakePipeline, Inv, Shape
<1>12. tick.at = "send" => worker'.on # tick.on
  BY <1>0 DEF TakePipeline, Sending
<1> HIDE DEF m, n
<1> QED BY <1>0, <1>2, <1>8, <1>9, <1>10, <1>11, <1>12, MessageTurns

LEMMA TakeDownloadKeeps ==
  ASSUME Inv, NEW b \in Books, NEW i \in 0..Retries, TakeDownload(b, i)
  PROVE  Inv'
<1> DEFINE x == book[b]  m == mail[b]  n == [m EXCEPT !.down = @ \ {i}]
<1>0. ~Sending(b)
  BY SendingFacts DEF TakeDownload
<1>1. m \in Letters /\ m.pipe \in Nat /\ i \in m.down
  BY <1>0, Parts DEF TakeDownload, Letters
<1>2. n \in Letters /\ n.pipe = m.pipe /\ n.down = m.down \ {i}
  BY <1>1 DEF Letters
<1>3. Begun(x, m, "away") /\ Tended(x, m, "away", b \in past.left) /\ Straight(x, m, "away", b \in past.again)
      /\ Ended(x, b \in past.again \/ b \in past.missed) /\ Texted(x, "away")
  BY <1>0, Parts, AtRestNow DEF TakeDownload, At
<1>4. n.down = {} /\ past \in Pasts
  BY <1>1, <1>2, <1>3 DEF Begun, Inv, Shape
<1>5. UNCHANGED <<book, tick, past>> /\ mail' = [mail EXCEPT ![b] = n]
  BY DEF TakeDownload
<1>6. CASE x.dl = "pending"
  <2>1. x.st = "queued" /\ x.prod = "none" /\ m.pipe = 0
    BY <1>1, <1>3, <1>6 DEF Begun
  <2>2. Begun(x, n, "download")
    BY <1>1, <1>2, <1>3, <1>4, <1>6, <2>1 DEF Begun, Steps
  <2>3. Tended(x, n, "download", b \in past.left) /\ Straight(x, n, "download", b \in past.again)
    BY <1>2, <1>4, <1>6, <2>1 DEF Tended, Straight, Shelf
  <2>4. Texted(x, "download")
    BY <1>3 DEF Texted
  <2>5. Fits(x, n, "download", b \in past.left, b \in past.again, b \in past.missed)
    BY <1>3, <2>2, <2>3, <2>4 DEF Fits
  <2>6. worker' = [at |-> "download", on |-> b, tries |-> i]
    BY <1>6 DEF TakeDownload
  <2>7. worker' \in Busy
    BY <2>6 DEF Busy, Steps
  <2>8. Step(b)' = "download" /\ \A c \in Books \ {b} : Step(c)' = Step(c)
    BY <2>6, AtRestNow DEF TakeDownload, At, Step
  <2>9. tick.at = "send" => worker'.on # tick.on
    BY <1>0, <2>6 DEF Sending
  <2> HIDE DEF m, n
  <2> QED BY <1>0, <1>2, <1>4, <1>5, <2>5, <2>7, <2>8, <2>9, MessageTurns
<1>7. CASE x.dl # "pending"
  <2>1. Begun(x, n, "away")
    BY <1>1, <1>2, <1>3, <1>4 DEF Begun, Steps
  <2>2. Tended(x, n, "away", b \in past.left) /\ Straight(x, n, "away", b \in past.again)
    BY <1>2, <1>3, <1>4, <1>7 DEF Tended, Straight
  <2>3. Fits(x, n, "away", b \in past.left, b \in past.again, b \in past.missed)
    BY <1>3, <2>1, <2>2 DEF Fits
  <2>4. Acked
    BY <1>7 DEF TakeDownload
  <2>5. worker' \in Busy \cup {Free} /\ \A c \in Books : Step(c)' = "away"
    BY <2>4, Rests
  <2>6. \A c \in Books : Step(c) = "away"
    BY AtRestNow DEF TakeDownload, At
  <2>7. tick.at = "send" => worker'.on # tick.on
    BY <2>4, FactoryAssumption DEF Acked, Free, Inv, Shape, Ticking
  <2> HIDE DEF m, n
  <2> QED BY <1>0, <1>2, <1>4, <1>5, <2>3, <2>5, <2>6, <2>7, MessageTurns
<1> QED BY <1>6, <1>7

\* A worker that is restarted gives its message back.
LEMMA WorkerRestarts ==
  ASSUME Inv, WorkerDies,
         mail' = [mail EXCEPT ![worker.on] =
                    IF worker.at \in {"download", "send"}
                    THEN [mail[worker.on] EXCEPT !.down = @ \cup {worker.tries}]
                    ELSE [mail[worker.on] EXCEPT !.pipe = @ + 1]],
         past' = [past EXCEPT !.crashes = @ + 1, !.again = @ \cup {worker.on},
                              !.left = IF At("send") THEN @ \cup {worker.on} ELSE @]
  PROVE  Inv'
<1> PICK b \in Books : b = worker.on /\ ~Sending(b)
  BY AtWork DEF WorkerDies, At
<1> PICK s \in Steps : s = worker.at
  BY AtWork DEF WorkerDies, At, Busy
<1> DEFINE x == book[b]  m == mail[b]
           n == IF s \in {"download", "send"} THEN [m EXCEPT !.down = @ \cup {worker.tries}]
                ELSE [m EXCEPT !.pipe = @ + 1]
<1>1. m \in Letters /\ m.pipe \in Nat /\ worker.tries \in 0..Retries
  BY Parts, AtWork DEF WorkerDies, At, Letters, Busy
<1>2. n \in Letters /\ n.down = (IF s \in {"download", "send"} THEN m.down \cup {worker.tries} ELSE m.down)
      /\ n.pipe = (IF s \in {"download", "send"} THEN m.pipe ELSE m.pipe + 1)
  <2>1. CASE s \in {"download", "send"}
    BY <1>1, <2>1 DEF Letters
  <2>2. CASE s \notin {"download", "send"}
    BY <1>1, <2>2 DEF Letters
  <2> QED BY <2>1, <2>2
<1>3. Begun(x, m, s) /\ Tended(x, m, s, b \in past.left)
      /\ Ended(x, b \in past.again \/ b \in past.missed) /\ Texted(x, s)
  BY Parts, AtWork DEF WorkerDies, At
<1>4. past' \in Pasts /\ past.left \subseteq past'.left /\ past'.missed = past.missed
      /\ past'.again = past.again \cup {b} /\ past'.untold = past.untold
      /\ (s = "send" => b \in past'.left)
  <2>1. past \in Pasts
    BY DEF Inv, Shape
  <2> PICK q \in Pasts : q = [past EXCEPT !.crashes = @ + 1]
    BY <2>1, PastWith
  <2> PICK z \in Pasts : z = [q EXCEPT !.again = @ \cup {b}]
    BY PastWith
  <2>0. /\ z.again = past.again \cup {b} /\ z.left = past.left /\ z.missed = past.missed
        /\ z.untold = past.untold
    BY <2>1 DEF Pasts
  <2>2. CASE s = "send"
    <3>1. [z EXCEPT !.left = @ \cup {b}] \in Pasts
      BY PastWith
    <3>2. past' = [z EXCEPT !.left = @ \cup {b}]
      BY <2>1, <2>2 DEF Pasts, At
    <3>3. past'.again = z.again /\ past'.left = z.left \cup {b} /\ past'.missed = z.missed
          /\ past'.untold = z.untold
      BY <3>2 DEF Pasts
    <3> QED BY <2>0, <3>1, <3>2, <3>3
  <2>3. CASE s # "send"
    <3>1. past' = z
      BY <2>1, <2>3 DEF Pasts, At
    <3> QED BY <2>0, <2>3, <3>1
  <2> QED BY <2>2, <2>3
<1>5. Begun(x, n, "away")
  <2>1. CASE s \in {"download", "send"}
    BY <1>1, <1>2, <1>3, <2>1 DEF Begun, Steps
  <2>2. CASE s \notin {"download", "send"}
    BY <1>1, <1>2, <1>3, <2>2 DEF Begun, Steps
  <2> QED BY <2>1, <2>2
<1>6. Tended(x, n, "away", b \in past'.left)
  BY <1>1, <1>2, <1>3, <1>4 DEF Begun, Tended, Steps
<1>7. Straight(x, n, "away", b \in past'.again) /\ Ended(x, b \in past'.again \/ b \in past'.missed)
  BY <1>4 DEF Straight, Ended
<1>8. Texted(x, "away")
  BY <1>3 DEF Texted
<1>9. Fits(x, n, "away", b \in past'.left, b \in past'.again, b \in past'.missed)
  BY <1>4, <1>5, <1>6, <1>7, <1>8 DEF Fits
<1>10. worker' \in Busy \cup {Free} /\ Step(b)' = "away" /\ \A c \in Books \ {b} : Step(c)' = Step(c)
  BY Rests, AtWork DEF WorkerDies, At
<1>11. UNCHANGED <<book, tick>> /\ mail' = [mail EXCEPT ![b] = n]
  BY DEF WorkerDies, At
<1> HIDE DEF m, n
<1>12. tick.at = "send" => worker'.on # tick.on
  BY FactoryAssumption DEF WorkerDies, Acked, Free, Inv, Shape, Ticking
<1> QED BY <1>2, <1>4, <1>9, <1>10, <1>11, <1>12, MessageTurns

\* One that is killed takes it with it.
LEMMA WorkerIsKilled ==
  ASSUME Inv, WorkerDies, UNCHANGED mail,
         past' = [past EXCEPT !.crashes = @ + 1, !.left = @ \cup {worker.on}]
  PROVE  Inv'
<1> PICK b \in Books : b = worker.on /\ ~Sending(b)
  BY AtWork DEF WorkerDies, At
<1> PICK s \in Steps : s = worker.at
  BY AtWork DEF WorkerDies, At, Busy
<1> DEFINE x == book[b]  m == mail[b]
<1>1. m \in Letters /\ m.pipe \in Nat
  BY Parts DEF Letters
<1>3. Begun(x, m, s) /\ Straight(x, m, s, b \in past.again)
      /\ Ended(x, b \in past.again \/ b \in past.missed) /\ Texted(x, s)
  BY Parts, AtWork DEF WorkerDies, At
<1>4. past' \in Pasts /\ past'.left = past.left \cup {b} /\ past'.missed = past.missed
      /\ past'.again = past.again /\ past'.untold = past.untold
  <2>1. past \in Pasts
    BY DEF Inv, Shape
  <2> PICK q \in Pasts : q = [past EXCEPT !.crashes = @ + 1]
    BY <2>1, PastWith
  <2>2. [q EXCEPT !.left = @ \cup {b}] \in Pasts
    BY PastWith
  <2>3. past' = [q EXCEPT !.left = @ \cup {b}]
    BY <2>1 DEF Pasts
  <2> QED BY <2>1, <2>2, <2>3 DEF Pasts
<1>5. Begun(x, m, "away") /\ Texted(x, "away") /\ Tended(x, m, "away", b \in past'.left)
  <2>1. Begun(x, m, "away")
    BY <1>3 DEF Begun, Steps
  <2>2. Texted(x, "away")
    BY <1>3 DEF Texted
  <2>3. Tended(x, m, "away", b \in past'.left)
    BY <1>4 DEF Tended
  <2> QED BY <2>1, <2>2, <2>3
<1>7. Straight(x, m, "away", b \in past'.again) /\ Ended(x, b \in past'.again \/ b \in past'.missed)
  BY <1>1, <1>3, <1>4 DEF Straight, Steps
<1>9. Fits(x, m, "away", b \in past'.left, b \in past'.again, b \in past'.missed)
  BY <1>5, <1>7 DEF Fits
<1>10. worker' \in Busy \cup {Free} /\ Step(b)' = "away" /\ \A c \in Books \ {b} : Step(c)' = Step(c)
  BY Rests, AtWork DEF WorkerDies, At
<1>11. UNCHANGED <<book, tick>> /\ mail' = [mail EXCEPT ![b] = m]
  BY Unmoved DEF WorkerDies
<1> HIDE DEF m
<1>12. tick.at = "send" => worker'.on # tick.on
  BY FactoryAssumption DEF WorkerDies, Acked, Free, Inv, Shape, Ticking
<1> QED BY <1>1, <1>4, <1>9, <1>10, <1>11, <1>12, MessageTurns

----------------------------------------------------------------------------
(* The production and people. *)

LEMMA AsksFacts ==
  ASSUME Inv, NEW b \in Books, past' = Asked(b)
  PROVE  /\ past' \in Pasts /\ past'.again = past.again \cup {b} /\ past'.left = past.left
         /\ past'.missed = past.missed /\ past'.untold = past.untold
<1>1. past \in Pasts
  BY DEF Inv, Shape
<1> PICK q \in Pasts : q = [past EXCEPT !.asks = @ + 1]
  BY <1>1, PastWith
<1>2. [q EXCEPT !.again = @ \cup {b}] \in Pasts
  BY PastWith
<1>3. past' = [q EXCEPT !.again = @ \cup {b}]
  BY <1>1 DEF Asked, Pasts
<1> QED BY <1>1, <1>2, <1>3 DEF Pasts

\* What people ask for is sent, or its book is left to itself.
LEMMA SendsFacts ==
  ASSUME Inv, NEW b \in Books, NEW k, Sends(b, k)
  PROVE  /\ past' \in Pasts /\ past'.again = past.again \cup {b} /\ past.left \subseteq past'.left
         /\ past'.missed = past.missed /\ past'.untold = past.untold
         /\ \/ mail' = [mail EXCEPT ![b] = k]
            \/ mail' = mail /\ b \in past'.left
<1>1. CASE mail' = [mail EXCEPT ![b] = k] /\ past' = Asked(b)
  BY <1>1, AsksFacts
<1>2. CASE UNCHANGED mail /\ past' = [Asked(b) EXCEPT !.left = @ \cup {b}]
  <2>1. past \in Pasts
    BY DEF Inv, Shape
  <2> PICK q \in Pasts : q = [past EXCEPT !.asks = @ + 1]
    BY <2>1, PastWith
  <2> PICK z \in Pasts : z = [q EXCEPT !.again = @ \cup {b}]
    BY PastWith
  <2>2. [z EXCEPT !.left = @ \cup {b}] \in Pasts
    BY PastWith
  <2>3. z = Asked(b)
    BY <2>1 DEF Asked, Pasts
  <2>4. past' = [z EXCEPT !.left = @ \cup {b}]
    BY <1>2, <2>3
  <2>5. /\ z.again = past.again \cup {b} /\ z.left = past.left /\ z.missed = past.missed
        /\ z.untold = past.untold
    BY <2>1 DEF Pasts
  <2>6. past'.again = z.again /\ past'.left = z.left \cup {b} /\ past'.missed = z.missed
        /\ past'.untold = z.untold
    BY <2>4 DEF Pasts
  <2> QED BY <1>2, <2>2, <2>4, <2>5, <2>6
<1> QED BY <1>1, <1>2 DEF Sends

\* What is done to a book beside its worker.
LEMMA BesideTurns ==
  ASSUME Inv, NEW b \in Books, NEW f \in Rows, Set(b, f), UNCHANGED <<worker, tick>>,
         NEW m \in Letters, mail' = [mail EXCEPT ![b] = m],
         past' \in Pasts, past.left \subseteq past'.left, past.again \subseteq past'.again,
         past.missed \subseteq past'.missed, past.untold \subseteq past'.untold, ~Sending(b),
         Fits(f, m, Step(b), b \in past'.left, b \in past'.again, b \in past'.missed),
         Turns(book[b], f, tick.at = "settle" /\ tick.on = b /\ b \notin past'.again \cup past'.missed,
               b \in past'.again)
  PROVE  Inv'
<1>1. book' \in [Books -> Rows] /\ book'[b] = f /\ \A c \in Books \ {b} : book'[c] = book[c]
  BY SetFacts
<1>2. mail' \in [Books -> Letters] /\ mail'[b] = m /\ \A c \in Books \ {b} : mail'[c] = mail[c]
  BY DEF Inv, Shape
<1>3. \A c \in Books : Step(c)' = Step(c)
  BY DEF Step
<1>4. Apart(b)
  BY <1>1, <1>2, <1>3 DEF Apart, Inv, Shape, Sending
<1>5. Fitting(b)'
  BY <1>1, <1>2, <1>3 DEF Fitting, Sending
<1>6. tick.at = "send" => worker'.on # tick.on
  BY DEF Inv, Unsent
<1> QED BY <1>1, <1>4, <1>5, <1>6, BookTurns

LEMMA RetryDownloadKeeps ==
  ASSUME Inv, NEW b \in Books, Retry(b), book[b].dl = "failed"
  PROVE  Inv'
<1>99. ~Sending(b)
  BY SendingFacts DEF Retry
<1> DEFINE x == book[b]  m == mail[b]  s == Step(b)
<1> DEFINE y == [x EXCEPT !.dl = "pending", !.st = "queued"]  k == [m EXCEPT !.down = @ \cup {0}]
<1>98. /\ past' \in Pasts /\ past'.again = past.again \cup {b} /\ past.left \subseteq past'.left
       /\ past'.missed = past.missed /\ past'.untold = past.untold
       /\ \/ mail' = [mail EXCEPT ![b] = k]
          \/ mail' = mail /\ b \in past'.left
  BY SendsFacts DEF Retry, Redownload
<1> PICK n \in {m, k} : mail' = [mail EXCEPT ![b] = n] /\ (n # k => b \in past'.left)
  BY <1>98, Unmoved
<1>1. x \in Rows /\ m \in Letters /\ m.pipe \in Nat
  BY <1>99, Parts DEF Letters
<1>2. y \in Rows
  <2> PICK z1 \in Rows : z1 = [x EXCEPT !.dl = "pending"]
    BY <1>1, RowWith DEF Statuses, Shelf
  <2> [z1 EXCEPT !.st = "queued"] \in Rows
    BY RowWith DEF Statuses, Shelf
  <2> QED OBVIOUS
<1>3. /\ y.want = x.want /\ y.dl = "pending" /\ y.st = "queued" /\ y.text = x.text /\ y.open = x.open
      /\ y.ingest = x.ingest /\ y.prod = x.prod /\ y.final = x.final /\ y.told = x.told
      /\ y.bare = x.bare
  BY <1>1 DEF Rows
<1>4. n \in Letters /\ n.pipe = m.pipe /\ n.down \in {m.down, m.down \cup {0}}
      /\ (b \notin past'.left => n.down = m.down \cup {0})
  BY <1>1, FactoryAssumption DEF Letters
<1>5. Begun(x, m, s) /\ Tended(x, m, s, b \in past.left) /\ Straight(x, m, s, b \in past.again)
      /\ Ended(x, b \in past.again \/ b \in past.missed) /\ Texted(x, s)
  BY <1>99, Parts
<1>6. past' \in Pasts /\ past'.again = past.again \cup {b} /\ past.left \subseteq past'.left
      /\ past'.missed = past.missed /\ past'.untold = past.untold
  BY <1>98
<1>7. x.dl = "failed" /\ x.st = "failed" /\ x.prod = "none" /\ m.down = {} /\ m.pipe = 0 /\ s \notin Steps
  BY <1>1, <1>5 DEF Begun, Retry
<1>8. Begun(y, n, s)
  BY <1>1, <1>3, <1>4, <1>5, <1>7 DEF Begun, Steps, Shelf
<1>9. Tended(y, n, s, b \in past'.left)
  BY <1>1, <1>3, <1>4, <1>5, <1>6, <1>7 DEF Begun, Tended, Steps, Shelf
<1>10. Straight(y, n, s, b \in past'.again)
  BY <1>1, <1>3, <1>4, <1>5, <1>6, <1>7 DEF Begun, Straight, Steps, Shelf
<1>11. Ended(y, b \in past'.again \/ b \in past'.missed)
  BY <1>3, <1>5, <1>6, <1>7, PhaseOfEnd DEF Ended
<1>12. Texted(y, s)
  BY <1>3, <1>5, <1>7 DEF Texted, Shelf
<1>13. Turns(x, y, tick.at = "settle" /\ tick.on = b /\ b \notin past'.again \cup past'.missed,
             b \in past'.again)
  BY <1>1, <1>3, <1>5, <1>6, <1>7 DEF Turns, Held, Done, Straight, Begun, Steps, Shelf
<1>14. Fits(y, n, s, b \in past'.left, b \in past'.again, b \in past'.missed)
  BY <1>8, <1>9, <1>10, <1>11, <1>12 DEF Fits
<1> HIDE DEF x, m, y, k, s
<1>15. Set(b, y) /\ UNCHANGED <<worker, tick>> /\ mail' = [mail EXCEPT ![b] = n]
  BY <1>7, Unmoved DEF Retry, Set, x, m, y, Redownload
<1> QED BY <1>99, <1>2, <1>4, <1>6, <1>13, <1>14, <1>15, BesideTurns DEF x, s

LEMMA RetryPipelineKeeps ==
  ASSUME Inv, NEW b \in Books, Retry(b), book[b].dl # "failed"
  PROVE  Inv'
<1>99. ~Sending(b)
  BY SendingFacts DEF Retry
<1> DEFINE x == book[b]  m == mail[b]  s == Step(b)
<1> DEFINE y == x  n == [m EXCEPT !.pipe = @ + 1]
<1>1. x \in Rows /\ m \in Letters /\ m.pipe \in Nat
  BY <1>99, Parts DEF Letters
<1>2. y \in Rows
  BY <1>1
<1>3. /\ y.want = x.want /\ y.dl = x.dl /\ y.st = x.st /\ y.text = x.text /\ y.open = x.open
      /\ y.ingest = x.ingest /\ y.prod = x.prod /\ y.final = x.final /\ y.told = x.told
      /\ y.bare = x.bare
  BY <1>1 DEF Rows
<1>4. n \in Letters /\ n.pipe = m.pipe + 1 /\ n.down = m.down
  BY <1>1, FactoryAssumption DEF Letters
<1>5. Begun(x, m, s) /\ Tended(x, m, s, b \in past.left) /\ Straight(x, m, s, b \in past.again)
      /\ Ended(x, b \in past.again \/ b \in past.missed) /\ Texted(x, s)
  BY <1>99, Parts
<1>6. past' \in Pasts /\ past'.again = past.again \cup {b} /\ past'.left = past.left
      /\ past'.missed = past.missed /\ past'.untold = past.untold
  BY <1>1, AsksFacts DEF Retry
<1>7. x.dl = "downloaded" /\ x.dl # "failed" /\ x.st = "failed"
  BY <1>1, <1>5 DEF Begun, Retry, Rows
<1>8. Begun(y, n, s)
  BY <1>1, <1>3, <1>4, <1>5, <1>7 DEF Begun, Steps, Shelf
<1>9. Tended(y, n, s, b \in past'.left)
  BY <1>1, <1>3, <1>4, <1>5, <1>6, <1>7 DEF Begun, Tended, Steps, Shelf
<1>10. Straight(y, n, s, b \in past'.again)
  BY <1>1, <1>3, <1>4, <1>5, <1>6, <1>7 DEF Begun, Straight, Steps, Shelf
<1>11. Ended(y, b \in past'.again \/ b \in past'.missed)
  BY <1>3, <1>5, <1>6, <1>7, PhaseOfEnd DEF Ended
<1>12. Texted(y, s)
  BY <1>3, <1>5, <1>7 DEF Texted, Shelf
<1>13. Turns(x, y, tick.at = "settle" /\ tick.on = b /\ b \notin past'.again \cup past'.missed,
             b \in past'.again)
  BY <1>1, <1>3, <1>5, <1>6, <1>7 DEF Turns, Held, Done, Straight, Begun, Steps, Shelf
<1>14. Fits(y, n, s, b \in past'.left, b \in past'.again, b \in past'.missed)
  BY <1>8, <1>9, <1>10, <1>11, <1>12 DEF Fits
<1> HIDE DEF x, m, y, n, s
<1>15. Set(b, y) /\ UNCHANGED <<worker, tick>> /\ mail' = [mail EXCEPT ![b] = n]
  BY <1>7, Unmoved DEF Retry, Set, x, m, y, n
<1> QED BY <1>99, <1>2, <1>4, <1>6, <1>13, <1>14, <1>15, BesideTurns DEF x, s

LEMMA RequeueKeeps ==
  ASSUME Inv, NEW b \in Books, Requeue(b)
  PROVE  Inv'
<1>99. ~Sending(b)
  BY SendingFacts DEF Requeue
<1> DEFINE x == book[b]  m == mail[b]  s == Step(b)
<1> DEFINE y == [x EXCEPT !.prod = "active"]  n == m
<1>1. x \in Rows /\ m \in Letters /\ m.pipe \in Nat
  BY <1>99, Parts DEF Letters
<1>2. y \in Rows
  BY <1>1, RowWith DEF Statuses, Shelf
<1>3. /\ y.want = x.want /\ y.dl = x.dl /\ y.st = x.st /\ y.text = x.text /\ y.open = x.open
      /\ y.ingest = x.ingest /\ y.prod = "active" /\ y.final = x.final /\ y.told = x.told
      /\ y.bare = x.bare
  BY <1>1 DEF Rows
<1>4. n \in Letters /\ n.down = m.down
  BY <1>1, FactoryAssumption DEF Letters
<1>5. Begun(x, m, s) /\ Tended(x, m, s, b \in past.left) /\ Straight(x, m, s, b \in past.again)
      /\ Ended(x, b \in past.again \/ b \in past.missed) /\ Texted(x, s)
  BY <1>99, Parts
<1>6. past' \in Pasts /\ past'.again = past.again \cup {b} /\ past'.left = past.left
      /\ past'.missed = past.missed /\ past'.untold = past.untold
  BY <1>1, AsksFacts DEF Requeue
<1>7. x.prod = "failed" /\ x.dl = "downloaded"
  BY <1>5 DEF Begun, Requeue
<1>8. Begun(y, n, s)
  BY <1>1, <1>3, <1>4, <1>5, <1>7 DEF Begun, Steps, Shelf
<1>9. Tended(y, n, s, b \in past'.left)
  BY <1>1, <1>3, <1>4, <1>5, <1>6, <1>7 DEF Begun, Tended, Steps, Shelf
<1>10. Straight(y, n, s, b \in past'.again)
  BY <1>1, <1>3, <1>4, <1>5, <1>6, <1>7 DEF Begun, Straight, Steps, Shelf
<1>11. Ended(y, b \in past'.again \/ b \in past'.missed)
  BY <1>3, <1>5, <1>6, <1>7, PhaseOfEnd DEF Ended
<1>12. Texted(y, s)
  BY <1>3, <1>5, <1>7 DEF Texted, Shelf
<1>13. Turns(x, y, tick.at = "settle" /\ tick.on = b /\ b \notin past'.again \cup past'.missed,
             b \in past'.again)
  BY <1>1, <1>3, <1>5, <1>6, <1>7 DEF Turns, Held, Done, Straight, Begun, Steps, Shelf
<1>14. Fits(y, n, s, b \in past'.left, b \in past'.again, b \in past'.missed)
  BY <1>8, <1>9, <1>10, <1>11, <1>12 DEF Fits
<1> HIDE DEF x, m, y, n, s
<1>15. Set(b, y) /\ UNCHANGED <<worker, tick>> /\ mail' = [mail EXCEPT ![b] = n]
  BY <1>7, Unmoved DEF Requeue, Set, x, m, y, n
<1> QED BY <1>99, <1>2, <1>4, <1>6, <1>13, <1>14, <1>15, BesideTurns DEF x, s

LEMMA ReingestKeeps ==
  ASSUME Inv, NEW b \in Books, Reingest(b)
  PROVE  Inv'
<1>99. ~Sending(b)
  BY SendingFacts DEF Reingest
<1> DEFINE x == book[b]  m == mail[b]  s == Step(b)
<1> PICK v \in BOOLEAN : v = (x.bare \/ Shelving(b))
  BY <1>99, Parts DEF Rows
<1> DEFINE y == [x EXCEPT !.text = FALSE, !.open = FALSE, !.ingest = "none", !.prod = "none", !.final = FALSE, !.bare = v, !.st = "queued"]  k == [m EXCEPT !.pipe = @ + 1]
<1>98. /\ past' \in Pasts /\ past'.again = past.again \cup {b} /\ past.left \subseteq past'.left
       /\ past'.missed = past.missed /\ past'.untold = past.untold
       /\ \/ mail' = [mail EXCEPT ![b] = k]
          \/ mail' = mail /\ b \in past'.left
  BY SendsFacts DEF Reingest
<1> PICK n \in {m, k} : mail' = [mail EXCEPT ![b] = n] /\ (n # k => b \in past'.left)
  BY <1>98, Unmoved
<1>1. x \in Rows /\ m \in Letters /\ m.pipe \in Nat
  BY <1>99, Parts DEF Letters
<1>2. y \in Rows
  <2> PICK z1 \in Rows : z1 = [x EXCEPT !.text = FALSE]
    BY <1>1, RowWith DEF Statuses, Shelf
  <2> PICK z2 \in Rows : z2 = [z1 EXCEPT !.open = FALSE]
    BY <1>1, RowWith DEF Statuses, Shelf
  <2> PICK z3 \in Rows : z3 = [z2 EXCEPT !.ingest = "none"]
    BY <1>1, RowWith DEF Statuses, Shelf
  <2> PICK z4 \in Rows : z4 = [z3 EXCEPT !.prod = "none"]
    BY <1>1, RowWith DEF Statuses, Shelf
  <2> PICK z5 \in Rows : z5 = [z4 EXCEPT !.final = FALSE]
    BY <1>1, RowWith DEF Statuses, Shelf
  <2> PICK z6 \in Rows : z6 = [z5 EXCEPT !.bare = v]
    BY RowWith
  <2> [z6 EXCEPT !.st = "queued"] \in Rows
    BY RowWith DEF Statuses, Shelf
  <2> QED OBVIOUS
<1>3. /\ y.want = x.want /\ y.dl = x.dl /\ y.st = "queued" /\ y.text = FALSE /\ y.open = FALSE
      /\ y.ingest = "none" /\ y.prod = "none" /\ y.final = FALSE /\ y.told = x.told /\ y.bare = v
  BY <1>1 DEF Rows
<1>4. n \in Letters /\ n.pipe \in {m.pipe, m.pipe + 1} /\ n.down = m.down /\ n.pipe \in Nat
      /\ (n.pipe = m.pipe => b \in past'.left)
  BY <1>1, FactoryAssumption DEF Letters
<1>5. Begun(x, m, s) /\ Tended(x, m, s, b \in past.left) /\ Straight(x, m, s, b \in past.again)
      /\ Ended(x, b \in past.again \/ b \in past.missed) /\ Texted(x, s)
  BY <1>99, Parts
<1>6. past' \in Pasts /\ past'.again = past.again \cup {b} /\ past.left \subseteq past'.left
      /\ past'.missed = past.missed /\ past'.untold = past.untold
  BY <1>98
<1>7. x.dl = "downloaded" /\ (s \in {"normalize", "split"} => v)
  BY DEF Reingest, Shelving, Step
<1>8. Begun(y, n, s)
  BY <1>1, <1>3, <1>4, <1>5, <1>7 DEF Begun, Steps, Shelf
<1>9. Tended(y, n, s, b \in past'.left)
  BY <1>1, <1>3, <1>4, <1>5, <1>6, <1>7 DEF Begun, Tended, Steps, Shelf
<1>10. Straight(y, n, s, b \in past'.again)
  BY <1>1, <1>3, <1>4, <1>5, <1>6, <1>7 DEF Begun, Straight, Steps, Shelf
<1>11. Ended(y, b \in past'.again \/ b \in past'.missed)
  BY <1>3, <1>5, <1>6, <1>7, PhaseOfEnd DEF Ended
<1>12. Texted(y, s)
  BY <1>3, <1>5, <1>7 DEF Texted, Shelf
<1>13. Turns(x, y, tick.at = "settle" /\ tick.on = b /\ b \notin past'.again \cup past'.missed,
             b \in past'.again)
  BY <1>1, <1>3, <1>5, <1>6, <1>7 DEF Turns, Held, Done, Straight, Begun, Steps, Shelf
<1>14. Fits(y, n, s, b \in past'.left, b \in past'.again, b \in past'.missed)
  BY <1>8, <1>9, <1>10, <1>11, <1>12 DEF Fits
<1> HIDE DEF x, m, y, k, s
<1>15. Set(b, y) /\ UNCHANGED <<worker, tick>> /\ mail' = [mail EXCEPT ![b] = n]
  BY <1>7, Unmoved DEF Reingest, Set, x, m, y, Emptied
<1> QED BY <1>99, <1>2, <1>4, <1>6, <1>13, <1>14, <1>15, BesideTurns DEF x, s

LEMMA ReviewKeeps ==
  ASSUME Inv, NEW b \in Books, Review(b)
  PROVE  Inv'
<1>99. ~Sending(b)
  BY SendingFacts DEF Review
<1> DEFINE x == book[b]  m == mail[b]  s == Step(b)
<1> DEFINE y == [x EXCEPT !.open = FALSE, !.st = "ready"]  n == m
<1>1. x \in Rows /\ m \in Letters /\ m.pipe \in Nat
  BY <1>99, Parts DEF Letters
<1>2. y \in Rows
  <2> PICK z1 \in Rows : z1 = [x EXCEPT !.open = FALSE]
    BY <1>1, RowWith DEF Statuses, Shelf
  <2> [z1 EXCEPT !.st = "ready"] \in Rows
    BY RowWith DEF Statuses, Shelf
  <2> QED OBVIOUS
<1>3. /\ y.want = x.want /\ y.dl = x.dl /\ y.st = "ready" /\ y.text = x.text /\ y.open = FALSE
      /\ y.ingest = x.ingest /\ y.prod = x.prod /\ y.final = x.final /\ y.told = x.told
      /\ y.bare = x.bare
  BY <1>1 DEF Rows
<1>4. n \in Letters /\ n.down = m.down
  BY <1>1, FactoryAssumption DEF Letters
<1>5. Begun(x, m, s) /\ Tended(x, m, s, b \in past.left) /\ Straight(x, m, s, b \in past.again)
      /\ Ended(x, b \in past.again \/ b \in past.missed) /\ Texted(x, s)
  BY <1>99, Parts
<1>6. past' \in Pasts /\ past' = past
  BY <1>1 DEF Review, Inv, Shape
<1>7. x.st = "review"
  BY DEF Review
<1>8. Begun(y, n, s)
  BY <1>1, <1>3, <1>4, <1>5, <1>7 DEF Begun, Steps, Shelf
<1>9. Tended(y, n, s, b \in past'.left)
  BY <1>1, <1>3, <1>4, <1>5, <1>6, <1>7 DEF Begun, Tended, Steps, Shelf
<1>10. Straight(y, n, s, b \in past'.again)
  BY <1>1, <1>3, <1>4, <1>5, <1>6, <1>7 DEF Begun, Straight, Steps, Shelf
<1>11. Ended(y, b \in past'.again \/ b \in past'.missed)
  BY <1>3, <1>5, <1>6, <1>7, PhaseOfEnd DEF Ended
<1>12. Texted(y, s)
  BY <1>3, <1>5, <1>7 DEF Texted, Shelf
<1>13. Turns(x, y, tick.at = "settle" /\ tick.on = b /\ b \notin past'.again \cup past'.missed,
             b \in past'.again)
  BY <1>1, <1>3, <1>5, <1>6, <1>7 DEF Turns, Held, Done, Straight, Begun, Steps, Shelf
<1>14. Fits(y, n, s, b \in past'.left, b \in past'.again, b \in past'.missed)
  BY <1>8, <1>9, <1>10, <1>11, <1>12 DEF Fits
<1> HIDE DEF x, m, y, n, s
<1>15. Set(b, y) /\ UNCHANGED <<worker, tick>> /\ mail' = [mail EXCEPT ![b] = n]
  BY <1>7, Unmoved DEF Review, Set, x, m, y, n
<1> QED BY <1>99, <1>2, <1>4, <1>6, <1>13, <1>14, <1>15, BesideTurns DEF x, s

LEMMA ProductionEndsKeeps ==
  ASSUME Inv, NEW b \in Books, ProductionEnds(b)
  PROVE  Inv'
<1>99. ~Sending(b)
  BY SendingFacts DEF ProductionEnds
<1> DEFINE x == book[b]  m == mail[b]  s == Step(b)
<1>0. \E end \in {"failed", "succeeded"} : Set(b, [x EXCEPT !.prod = end])
  BY DEF ProductionEnds
<1> PICK o \in {"failed", "succeeded"} : Set(b, [x EXCEPT !.prod = o])
  BY <1>0
<1> DEFINE y == [x EXCEPT !.prod = o]  n == m
<1>1. x \in Rows /\ m \in Letters /\ m.pipe \in Nat
  BY <1>99, Parts DEF Letters
<1>2. y \in Rows
  BY <1>1, RowWith DEF Statuses, Shelf
<1>3. /\ y.want = x.want /\ y.dl = x.dl /\ y.st = x.st /\ y.text = x.text /\ y.open = x.open
      /\ y.ingest = x.ingest /\ y.prod = o /\ y.final = x.final /\ y.told = x.told
      /\ y.bare = x.bare
  BY <1>1 DEF Rows
<1>4. n \in Letters /\ n.down = m.down
  BY <1>1, FactoryAssumption DEF Letters
<1>5. Begun(x, m, s) /\ Tended(x, m, s, b \in past.left) /\ Straight(x, m, s, b \in past.again)
      /\ Ended(x, b \in past.again \/ b \in past.missed) /\ Texted(x, s)
  BY <1>99, Parts
<1>6. /\ past' \in Pasts /\ past'.again = past.again /\ past'.left = past.left
      /\ past.missed \subseteq past'.missed /\ past'.untold = past.untold
      /\ tick.at = "settle" /\ tick.on = b => b \in past'.missed
  <2>1. past \in Pasts
    BY DEF Inv, Shape
  <2>2. past' = past \/ past' = [past EXCEPT !.missed = @ \cup {b}]
    BY DEF ProductionEnds
  <2>3. tick.at = "settle" /\ tick.on = b => past' = [past EXCEPT !.missed = @ \cup {b}]
    BY DEF ProductionEnds
  <2>4. CASE past' = [past EXCEPT !.missed = @ \cup {b}]
    <3>1. past' \in Pasts
      BY <2>1, <2>4, PastWith
    <3> QED BY <2>1, <2>4, <3>1 DEF Pasts
  <2> QED BY <2>1, <2>2, <2>3, <2>4
<1>7. x.prod = "active" /\ x.dl = "downloaded"
  BY <1>5 DEF Begun, ProductionEnds
<1>8. Begun(y, n, s)
  BY <1>1, <1>3, <1>4, <1>5, <1>7 DEF Begun, Steps, Shelf
<1>9. Tended(y, n, s, b \in past'.left)
  BY <1>1, <1>3, <1>4, <1>5, <1>6, <1>7 DEF Begun, Tended, Steps, Shelf
<1>10. Straight(y, n, s, b \in past'.again)
  BY <1>1, <1>3, <1>4, <1>5, <1>6, <1>7 DEF Begun, Straight, Steps, Shelf
<1>11. Ended(y, b \in past'.again \/ b \in past'.missed)
  BY <1>3, <1>5, <1>6, <1>7, PhaseOfEnd DEF Ended
<1>12. Texted(y, s)
  BY <1>3, <1>5, <1>7 DEF Texted, Shelf
<1>13. Turns(x, y, tick.at = "settle" /\ tick.on = b /\ b \notin past'.again \cup past'.missed,
             b \in past'.again)
  BY <1>1, <1>3, <1>5, <1>6, <1>7 DEF Turns, Held, Done, Straight, Begun, Steps, Shelf
<1>14. Fits(y, n, s, b \in past'.left, b \in past'.again, b \in past'.missed)
  BY <1>8, <1>9, <1>10, <1>11, <1>12 DEF Fits
<1> HIDE DEF x, m, y, n, s
<1>15. Set(b, y) /\ UNCHANGED <<worker, tick>> /\ mail' = [mail EXCEPT ![b] = n]
  BY <1>0, <1>7, Unmoved DEF ProductionEnds, Set, x, m, y, n
<1> QED BY <1>99, <1>2, <1>4, <1>6, <1>13, <1>14, <1>15, BesideTurns DEF x, s

----------------------------------------------------------------------------
(* The tick. *)

\* A step of the tick that changes no row keeps the books.
LEMMA TickOnly ==
  ASSUME Inv, UNCHANGED <<book, mail, worker>>, past' \in Pasts, past'.again = past.again,
         \A b \in Books : b \in past.left \/ Sending(b) => b \in past'.left \/ Sending(b)',
         past'.missed = past.missed, past'.untold = past.untold,
         Ticking', Rounds', Posted', Unsent',
         tick'.at \in {"start", "create"} =>
           tick.at \in {"start", "create"} \/ Cardinality(UnderWay) < MaxBooks,
         tick'.at \notin {"send", "tell"}
  PROVE  Inv'
<1>1. Shape'
  BY DEF Inv, Shape
<1>2. \A b \in Books : Fitting(b)'
  <2> TAKE b \in Books
  <2>1. Fits(book[b], mail[b], Step(b), b \in past.left \/ Sending(b), b \in past.again,
             b \in past.missed)
    BY DEF Inv, Fitting
  <2>2. Fits(book[b], mail[b], Step(b), b \in past'.left \/ Sending(b)', b \in past'.again,
             b \in past'.missed)
    BY <2>1 DEF Fits, Tended, Straight, Ended
  <2>3. Step(b)' = Step(b)
    BY DEF Step
  <2> QED BY <2>2, <2>3 DEF Fitting
<1>3. UnderWay' = UnderWay /\ Counted' = Counted
  BY DEF UnderWay, Counted
<1>4. IsFiniteSet(UnderWay) /\ IsFiniteSet(Counted) /\ Cardinality(Counted) <= Cardinality(UnderWay)
  <2>1. IsFiniteSet(UnderWay) /\ Counted \subseteq UnderWay
    BY DEF Inv, Room, Counted
  <2> QED BY <2>1, FS_Subset
<1>5. Cardinality(UnderWay) \in Nat /\ Cardinality(Counted) \in Nat /\ MaxBooks \in Nat
  BY <1>4, FS_CardinalityType, FactoryAssumption
<1>6. Cardinality(UnderWay) < MaxBooks => Cardinality(Counted) < MaxBooks
  BY <1>4, <1>5
<1>7. Room'
  BY <1>3, <1>6 DEF Inv, Room
<1> QED BY <1>1, <1>2, <1>7 DEF Inv

\* One that changes what Almonium or the processor has of a report, or the reservation.
LEMMA TickTurns ==
  ASSUME Inv, NEW b \in Books, NEW f \in Rows, Set(b, f), UNCHANGED <<mail, worker>>,
         past' \in Pasts, past'.again = past.again, past'.left = past.left,
         past'.missed = past.missed, past.untold \subseteq past'.untold,
         f.dl = book[b].dl, f.st = book[b].st, f.text = book[b].text, f.ingest = book[b].ingest,
         f.prod = book[b].prod, f.bare = book[b].bare, f.want = "wanted" => book[b].want = "wanted",
         f.dl = "none" => ~f.final, Ended(f, b \in past.again \/ b \in past.missed),
         Ticking', Rounds', Posted', tick.at # "send", tick'.at \notin {"send", "tell"},
         tick'.at \in {"start", "create"} =>
           \/ tick.at \in {"start", "create"}
           \/ tick.at = "tell" /\ tick.on \in past'.untold
  PROVE  Inv'
<1>1. book' \in [Books -> Rows] /\ book'[b] = f /\ \A c \in Books \ {b} : book'[c] = book[c]
  BY SetFacts
<1>2. \A c \in Books : Step(c)' = Step(c) /\ ~Sending(c) /\ ~Sending(c)'
  BY DEF Step, Sending
<1>3. Shape'
  BY <1>1 DEF Inv, Shape
<1>4. Apart(b)
  BY <1>1, <1>2 DEF Apart, Inv, Shape
<1>5. Begun(f, mail[b], Step(b))
  BY <1>2, Parts DEF Begun
<1>6. Tended(f, mail[b], Step(b), b \in past.left) /\ Straight(f, mail[b], Step(b), b \in past.again)
      /\ Texted(f, Step(b))
  BY <1>2, Parts DEF Tended, Straight, Texted
<1>7. Fitting(b)'
  BY <1>1, <1>2, <1>5, <1>6 DEF Fitting, Fits
<1>8. \A c \in Books : Fitting(c)'
  BY <1>4, <1>7, OthersFit
<1>9. UnderWay' \subseteq UnderWay
  BY <1>1, HeldIsUnderWay DEF UnderWay, Done
<1>10. Counted' \subseteq Counted
  BY <1>9 DEF Counted
<1>11. tick'.at \in {"start", "create"} =>
         \/ tick.at \in {"start", "create"}
         \/ tick.at = "tell" /\ Counted' \subseteq Counted \ {tick.on}
  BY <1>10 DEF Counted
<1>12. Room'
  BY <1>9, <1>10, <1>11, RoomStays
<1>13. Unsent'
  BY DEF Unsent
<1> QED BY <1>3, <1>8, <1>12, <1>13 DEF Inv

LEMMA TickNow ==
  ASSUME Inv
  PROVE  /\ tick = [at |-> tick.at, todo |-> tick.todo, on |-> tick.on, seen |-> tick.seen,
                    phase |-> tick.phase]
         /\ tick.at \in Ticks /\ tick.todo \in SUBSET Books /\ tick.phase \in Phases \cup {"nothing"}
         /\ tick.on \in Books \cup {Nobody}
         /\ tick.at \in {"settle", "create", "send", "tell"} => tick.on \in Books
         /\ past \in Pasts
BY DEF Inv, Shape, Ticking

LEMMA PhaseTyped == \A e, prod : Phase(e, prod) \in Phases \/ prod \notin {"none", "active", "failed", "succeeded"}
BY DEF Phase, IngestPhase, Phases, Shelf

\* A post that fails is counted.
LEMMA LossFacts ==
  ASSUME Inv, past' = [past EXCEPT !.losses = @ + 1]
  PROVE  /\ past' \in Pasts /\ past'.again = past.again /\ past'.left = past.left
         /\ past'.missed = past.missed /\ past'.untold = past.untold
<1>1. past \in Pasts
  BY TickNow
<1> QED BY <1>1, PastWith DEF Pasts

LEMMA TickStartsKeeps ==
  ASSUME Inv, TickStarts
  PROVE  Inv'
<1> PICK todo \in SUBSET Books : todo = {b \in Books : book[b].dl # "none" /\ ~book[b].final}
  OBVIOUS
<1> PICK seen : tick' = [at |-> "report", todo |-> todo, on |-> Nobody, seen |-> seen, phase |-> "nothing"]
  BY DEF TickStarts, Off
<1>1. Ticking'
  BY DEF Ticking, Ticks
<1>2. tick'.at = "report" /\ tick'.todo = todo /\ book' = book
  BY DEF TickStarts
<1>3. Rounds' /\ Posted'
  BY <1>2 DEF Rounds, Posted
<1>4. \A b \in Books : ~Sending(b) /\ ~Sending(b)'
  BY <1>2 DEF TickStarts, Sending
<1>5. Unsent'
  BY <1>2 DEF Unsent
<1> QED BY <1>1, <1>2, <1>3, <1>4, <1>5, TickOnly, TickNow DEF TickStarts

LEMMA CountKeeps ==
  ASSUME Inv, Count
  PROVE  Inv'
<1>1. CASE tick' = Off
  <2>1. Ticking'
    BY <1>1, FactoryAssumption DEF Ticking, Ticks, Off
  <2>2. Rounds' /\ Posted'
    BY <1>1 DEF Rounds, Posted, Off
  <2>3. Unsent' /\ \A b \in Books : ~Sending(b)
    BY <1>1 DEF Count, Sending, Unsent, Off
  <2> QED BY <1>1, <2>1, <2>2, <2>3, TickOnly, TickNow DEF Count, Off
<1>2. CASE tick' # Off
  <2>1. Cardinality(UnderWay) < MaxBooks
    BY <1>2 DEF Count
  <2> PICK todo \in SUBSET Books : todo = {b \in Books : book[b].want = "wanted"}
    OBVIOUS
  <2>2. tick' = [at |-> "start", todo |-> todo, on |-> Nobody, seen |-> <<>>, phase |-> "nothing"]
    BY <1>2 DEF Count, Off
  <2>3. Ticking'
    BY <2>2 DEF Ticking, Ticks
  <2>4. Rounds' /\ Posted'
    BY <2>2 DEF Rounds, Posted, Count
  <2>5. Unsent' /\ \A b \in Books : ~Sending(b)
    BY <2>2 DEF Count, Sending, Unsent
  <2> QED BY <2>1, <2>2, <2>3, <2>4, <2>5, TickOnly, TickNow DEF Count
<1> QED BY <1>1, <1>2

LEMMA OffKeeps ==
  ASSUME Inv, tick' = Off, UNCHANGED <<book, mail, worker>>, past' \in Pasts, past'.again = past.again,
         past'.missed = past.missed, past'.untold = past.untold,
         \A b \in Books : b \in past.left \/ Sending(b) => b \in past'.left
  PROVE  Inv'
<1>1. Ticking'
  BY FactoryAssumption DEF Ticking, Ticks, Off
<1>2. Rounds' /\ Posted'
  BY DEF Rounds, Posted, Off
<1>3. Unsent'
  BY DEF Unsent, Off
<1> QED BY <1>1, <1>2, <1>3, TickOnly DEF Off

LEMMA TickDiesKeeps ==
  ASSUME Inv, TickDies
  PROVE  Inv'
<1>1. past \in Pasts
  BY TickNow
<1> PICK q \in Pasts : q = [past EXCEPT !.crashes = @ + 1]
  BY <1>1, PastWith
<1>2. CASE tick.at = "send"
  <2>1. tick.on \in Books
    BY <1>2, TickNow
  <2>2. [q EXCEPT !.left = @ \cup {tick.on}] \in Pasts
    BY <2>1, PastWith
  <2>3. past' = [q EXCEPT !.left = @ \cup {tick.on}]
    BY <1>1, <1>2 DEF TickDies, Pasts
  <2>4. /\ past' \in Pasts /\ past'.again = past.again /\ past'.left = past.left \cup {tick.on}
        /\ past'.missed = past.missed /\ past'.untold = past.untold
    BY <1>1, <2>2, <2>3 DEF Pasts
  <2>5. \A b \in Books : b \in past.left \/ Sending(b) => b \in past'.left
    BY <2>4 DEF Sending
  <2> QED BY <2>4, <2>5, OffKeeps DEF TickDies
<1>3. CASE tick.at # "send"
  <2>1. past' = q
    BY <1>1, <1>3 DEF TickDies, Pasts
  <2>2. /\ past' \in Pasts /\ past'.again = past.again /\ past'.left = past.left
        /\ past'.missed = past.missed /\ past'.untold = past.untold
    BY <1>1, <2>1 DEF Pasts
  <2>3. \A b \in Books : b \in past.left \/ Sending(b) => b \in past'.left
    BY <1>3, <2>2 DEF Sending
  <2> QED BY <2>2, <2>3, OffKeeps DEF TickDies
<1> QED BY <1>2, <1>3

\* What the tick is at when it has told of book b.
LEMMA ReportedFacts ==
  ASSUME Inv, NEW b \in Books, tick' = Reported(b)
  PROVE  Ticking' /\ tick'.at = "report" /\ tick'.todo = tick.todo \ {b}
<1> PICK todo \in SUBSET Books : todo = tick.todo \ {b}
  BY TickNow
<1> PICK seen : tick' = [at |-> "report", todo |-> todo, on |-> Nobody, seen |-> seen, phase |-> "nothing"]
  BY DEF Reported, Off
<1> QED BY DEF Ticking, Ticks

\* The books whose end is to be told: that of b may have been told, the others' has not.
LEMMA RoundGoesOn ==
  ASSUME Inv, NEW b \in Books, NEW f \in Rows, Set(b, f), tick.at \in {"report", "settle"},
         tick' = Reported(b)
  PROVE  Ticking' /\ Rounds' /\ Posted' /\ tick'.at = "report"
<1>1. Ticking' /\ tick'.at = "report" /\ tick'.todo = tick.todo \ {b}
  BY ReportedFacts
<1>2. \A c \in tick.todo \ {b} : book'[c] = book[c]
  BY SetFacts, TickNow
<1>3. \A c \in tick.todo : ~book[c].final
  BY DEF Inv, Rounds
<1> QED BY <1>1, <1>2, <1>3 DEF Rounds, Posted

LEMMA ReportKeeps ==
  ASSUME Inv, NEW b \in Books, Report(b)
  PROVE  Inv'
<1> DEFINE x == book[b]
<1> PICK phase : phase = Phase(tick.seen[b], x.prod)
  OBVIOUS
<1>1. x \in Rows /\ tick.at = "report" /\ b \in tick.todo /\ ~x.final
  BY Parts DEF Report, Inv, Rounds, Sending
<1>2. phase \in Phases
  BY <1>1, PhaseTyped DEF Rows
<1>3. PICK heard \in {x.told, phase} : Set(b, [x EXCEPT !.told = heard])
  BY DEF Report
<1> DEFINE y == [x EXCEPT !.told = heard]
<1>4. heard \in Phases \cup {"nothing"}
  BY <1>1, <1>2 DEF Rows
<1>5. y \in Rows
  BY <1>1, <1>4, RowWith
<1>6. /\ y.want = x.want /\ y.dl = x.dl /\ y.st = x.st /\ y.text = x.text /\ y.ingest = x.ingest
      /\ y.prod = x.prod /\ y.final = x.final /\ y.bare = x.bare
  BY <1>1 DEF Rows
<1>7. Ended(y, b \in past.again \/ b \in past.missed)
  BY <1>1, <1>6 DEF Ended
<1>8. CASE tick' = Reported(b) /\ past' = [past EXCEPT !.losses = @ + 1]
  <2>1. Ticking' /\ Rounds' /\ Posted' /\ tick'.at = "report"
    BY <1>1, <1>3, <1>5, <1>8, RoundGoesOn
  <2>2. /\ past' \in Pasts /\ past'.again = past.again /\ past'.left = past.left
        /\ past'.missed = past.missed /\ past'.untold = past.untold
    BY <1>8, LossFacts
  <2> HIDE DEF x, y
  <2>3. UNCHANGED <<mail, worker>>
    BY DEF Report
  <2> QED BY <1>1, <1>3, <1>5, <1>6, <1>7, <2>1, <2>2, <2>3, TickTurns DEF x, y
<1>9. CASE /\ Set(b, [x EXCEPT !.told = phase])
           /\ tick' = [tick EXCEPT !.at = "settle", !.on = b, !.phase = phase] /\ UNCHANGED past
  <2>1. tick' = [at |-> "settle", todo |-> tick.todo, on |-> b, seen |-> tick.seen, phase |-> phase]
    BY <1>9, TickNow
  <2>2. Ticking'
    BY <1>2, <2>1, TickNow DEF Ticking, Ticks
  <2> DEFINE z == [x EXCEPT !.told = phase]
  <2>3. z \in Rows
    BY <1>1, <1>2, RowWith
  <2>4. /\ z.want = x.want /\ z.dl = x.dl /\ z.st = x.st /\ z.text = x.text /\ z.ingest = x.ingest
        /\ z.prod = x.prod /\ z.final = x.final /\ z.told = phase /\ z.bare = x.bare
    BY <1>1 DEF Rows
  <2>5. book'[b] = z /\ \A c \in Books \ {b} : book'[c] = book[c]
    BY <1>9, <2>3, SetFacts
  <2>6. \A c \in Books : book'[c].final = book[c].final
    BY <2>4, <2>5
  <2>7. Rounds'
    BY <1>1, <2>1, <2>6, TickNow DEF Inv, Rounds
  <2>8. z.prod \in {"failed", "succeeded"} => z.told = Phase(z, z.prod)
    BY <2>4, PhaseOfEnd
  <2>9. Posted'
    BY <2>1, <2>5, <2>8 DEF Posted
  <2>10. Ended(z, b \in past.again \/ b \in past.missed)
    BY <1>1, <2>4 DEF Ended
  <2> HIDE DEF x, y, z
  <2>11. UNCHANGED <<mail, worker>> /\ past \in Pasts
    BY TickNow DEF Report
  <2> QED BY <1>1, <1>9, <2>1, <2>2, <2>3, <2>4, <2>7, <2>9, <2>10, <2>11, TickTurns DEF x, z
<1> QED BY <1>8, <1>9 DEF Report

LEMMA SettleKeeps ==
  ASSUME Inv, Settle
  PROVE  Inv'
<1> PICK b \in Books : b = tick.on
  BY TickNow DEF Settle
<1> DEFINE x == book[b]
<1> PICK fin \in BOOLEAN :
      fin = (x.final \/ (/\ tick.phase \in {"published", "failed", "ready"}
                         /\ Done(tick.seen[b], x.prod)))
  OBVIOUS
<1> DEFINE y == [x EXCEPT !.final = fin]
<1>1. x \in Rows
  BY Parts DEF Settle, Sending
<1>2. y \in Rows
  BY <1>1, RowWith
<1>3. /\ y.want = x.want /\ y.dl = x.dl /\ y.st = x.st /\ y.text = x.text /\ y.ingest = x.ingest
      /\ y.prod = x.prod /\ y.final = fin /\ y.told = x.told /\ y.bare = x.bare
  BY <1>1 DEF Rows
<1>4. fin => x.final \/ x.prod \in {"failed", "succeeded"}
  BY DEF Done
<1>5. y.dl = "none" => ~y.final
  BY <1>3, <1>4, Parts DEF Begun, Settle, Sending
<1>6. Ended(y, b \in past.again \/ b \in past.missed)
  <2>1. CASE x.final
    BY <1>3, <2>1, Parts, PhaseOfEnd DEF Ended, Settle, Sending
  <2>2. CASE ~x.final
    <3> SUFFICES ASSUME fin, b \notin past.again \cup past.missed
                 PROVE  y.prod \in {"failed", "succeeded"} /\ y.told = Phase(y, y.prod)
      BY <1>3 DEF Ended
    <3>1. x.prod \in {"failed", "succeeded"}
      BY <1>4, <2>2
    <3>2. x.told = Phase(x, x.prod)
      BY <3>1 DEF Inv, Posted, Settle
    <3> QED BY <1>3, <3>1, <3>2, PhaseOfEnd
  <2> QED BY <2>1, <2>2
<1>7. Set(b, y)
  BY DEF Settle
<1>8. Ticking' /\ Rounds' /\ Posted' /\ tick'.at = "report"
  BY <1>2, <1>7, RoundGoesOn DEF Settle
<1> HIDE DEF x, y
<1>9. UNCHANGED <<mail, worker, past>> /\ past \in Pasts /\ tick.at = "settle"
  BY TickNow DEF Settle
<1> QED BY <1>2, <1>3, <1>5, <1>6, <1>7, <1>8, <1>9, TickTurns DEF x

LEMMA PassOverKeeps ==
  ASSUME Inv, NEW b \in Books, PassOver(b)
  PROVE  Inv'
<1> DEFINE x == book[b]  y == [x EXCEPT !.want = "reserved"]
<1> PICK todo \in SUBSET Books : todo = tick.todo \ {b}
  BY TickNow
<1>1. tick' = [at |-> "start", todo |-> todo, on |-> tick.on, seen |-> tick.seen, phase |-> tick.phase]
  BY TickNow DEF PassOver
<1>2. Ticking'
  BY <1>1, TickNow DEF Ticking, Ticks
<1>3. x \in Rows /\ y \in Rows
  BY Parts, RowWith DEF PassOver, Sending
<1>4. /\ y.want = "reserved" /\ y.dl = x.dl /\ y.st = x.st /\ y.text = x.text /\ y.ingest = x.ingest
      /\ y.prod = x.prod /\ y.final = x.final /\ y.told = x.told
      /\ y.bare = x.bare
  BY <1>3 DEF Rows
<1>5. \A c \in tick.todo : book[c].want = "wanted"
  BY DEF Inv, Rounds, PassOver
<1>6. CASE UNCHANGED <<book, past>>
  <2>1. Rounds' /\ Posted'
    BY <1>1, <1>5, <1>6 DEF Rounds, Posted
  <2>2. Unsent' /\ \A c \in Books : ~Sending(c)
    BY <1>1 DEF PassOver, Sending, Unsent
  <2> QED BY <1>1, <1>2, <1>6, <2>1, <2>2, TickOnly, TickNow DEF PassOver
<1>7. CASE past' = [past EXCEPT !.losses = @ + 1] /\ Set(b, y)
  <2>1. \A c \in todo : book'[c] = book[c]
    BY <1>3, <1>7, SetFacts
  <2>2. Rounds' /\ Posted'
    BY <1>1, <1>5, <2>1 DEF Rounds, Posted
  <2>3. Ended(y, b \in past.again \/ b \in past.missed)
    BY <1>4, Parts, PhaseOfEnd DEF Ended, PassOver, Sending
  <2>4. y.dl = "none" => ~y.final
    BY <1>4, Parts DEF Begun, PassOver, Sending
  <2>5. /\ past' \in Pasts /\ past'.again = past.again /\ past'.left = past.left
        /\ past'.missed = past.missed /\ past'.untold = past.untold
    BY <1>7, LossFacts
  <2> HIDE DEF x, y
  <2>6. UNCHANGED <<mail, worker>> /\ tick.at = "start"
    BY DEF PassOver
  <2> QED BY <1>1, <1>2, <1>3, <1>4, <1>7, <2>2, <2>3, <2>4, <2>5, <2>6, TickTurns DEF x
<1> QED BY <1>6, <1>7 DEF PassOver

LEMMA ReserveKeeps ==
  ASSUME Inv, NEW b \in Books, Reserve(b)
  PROVE  Inv'
<1> DEFINE x == book[b]  y == [x EXCEPT !.want = "reserved"]
<1> PICK todo \in SUBSET Books : todo = tick.todo \ {b}
  BY TickNow
<1>1. tick' = [at |-> "create", todo |-> todo, on |-> b, seen |-> tick.seen, phase |-> tick.phase]
  BY TickNow DEF Reserve
<1>2. Ticking'
  BY <1>1, TickNow DEF Ticking, Ticks
<1>3. x \in Rows /\ y \in Rows
  BY Parts, RowWith DEF Reserve, Sending
<1>4. /\ y.want = "reserved" /\ y.dl = x.dl /\ y.st = x.st /\ y.text = x.text /\ y.ingest = x.ingest
      /\ y.prod = x.prod /\ y.final = x.final /\ y.told = x.told
      /\ y.bare = x.bare
  BY <1>3 DEF Rows
<1>5. \A c \in tick.todo : book[c].want = "wanted"
  BY DEF Inv, Rounds, Reserve
<1>6. x.dl = "none"
  BY <1>5, Parts DEF Begun, Reserve, Sending
<1>7. Set(b, y)
  BY DEF Reserve
<1>8. book'[b] = y /\ \A c \in todo : book'[c] = book[c]
  BY <1>3, <1>7, SetFacts
<1>9. Rounds' /\ Posted'
  BY <1>1, <1>4, <1>5, <1>6, <1>8 DEF Rounds, Posted
<1>10. Ended(y, b \in past.again \/ b \in past.missed)
  BY <1>4, Parts, PhaseOfEnd DEF Ended, Reserve, Sending
<1>11. y.dl = "none" => ~y.final
  BY <1>4, Parts DEF Begun, Reserve, Sending
<1> HIDE DEF x, y
<1>12. UNCHANGED <<mail, worker, past>> /\ tick.at = "start" /\ past \in Pasts
  BY TickNow DEF Reserve
<1> QED BY <1>1, <1>2, <1>3, <1>4, <1>7, <1>9, <1>10, <1>11, <1>12, TickTurns DEF x

LEMMA TellStartedKeeps ==
  ASSUME Inv, TellStarted
  PROVE  Inv'
<1> PICK b \in Books : b = tick.on
  BY TickNow DEF TellStarted
<1> DEFINE x == book[b]
<1>1. x \in Rows /\ ~x.final /\ (\A c \in tick.todo : book[c].want = "wanted")
  BY Parts DEF TellStarted, Inv, Rounds, Sending
<1>2. PICK heard \in {"nothing", "downloading"} : Set(b, [x EXCEPT !.told = heard])
  BY DEF TellStarted
<1> DEFINE y == [x EXCEPT !.told = heard]
<1>3. y \in Rows
  BY <1>1, RowWith DEF Phases
<1>4. /\ y.want = x.want /\ y.dl = x.dl /\ y.st = x.st /\ y.text = x.text /\ y.ingest = x.ingest
      /\ y.prod = x.prod /\ y.final = x.final /\ y.bare = x.bare
  BY <1>1 DEF Rows
<1>5. Ended(y, b \in past.again \/ b \in past.missed)
  BY <1>1, <1>4 DEF Ended
<1>6. book'[b] = y /\ \A c \in Books \ {b} : book'[c] = book[c]
  BY <1>2, <1>3, SetFacts
<1>7. \A c \in tick.todo : book'[c].want = "wanted"
  <2> SUFFICES ASSUME NEW c \in Books, book[c].want = "wanted"
               PROVE  book'[c].want = "wanted"
    BY <1>1, TickNow
  <2> HIDE DEF y
  <2> QED BY <1>4, <1>6
<1>8. CASE tick' = Off /\ UNCHANGED past
  <2>1. Ticking'
    BY <1>8, FactoryAssumption DEF Ticking, Ticks, Off
  <2>2. Rounds' /\ Posted' /\ tick'.at = "off"
    BY <1>8 DEF Rounds, Posted, Off
  <2> HIDE DEF x, y
  <2>3. UNCHANGED <<mail, worker>> /\ past \in Pasts /\ tick.at = "tell"
    BY TickNow DEF TellStarted
  <2> QED BY <1>1, <1>2, <1>3, <1>4, <1>5, <1>8, <2>1, <2>2, <2>3, TickTurns DEF x, y
<1>9. CASE /\ tick' = [tick EXCEPT !.at = "start", !.on = Nobody]
           /\ past' = [past EXCEPT !.losses = @ + 1, !.untold = @ \cup {b}]
  <2>1. tick' = [at |-> "start", todo |-> tick.todo, on |-> Nobody, seen |-> tick.seen, phase |-> tick.phase]
    BY <1>9, TickNow
  <2>2. Ticking'
    BY <2>1, TickNow DEF Ticking, Ticks
  <2>3. Rounds' /\ Posted'
    BY <1>7, <2>1 DEF Rounds, Posted
  <2>4. /\ past' \in Pasts /\ past'.again = past.again /\ past'.left = past.left
        /\ past'.missed = past.missed /\ past.untold \subseteq past'.untold /\ b \in past'.untold
    <3>1. past \in Pasts
      BY TickNow
    <3> PICK q \in Pasts : q = [past EXCEPT !.losses = @ + 1]
      BY <3>1, PastWith
    <3>2. [q EXCEPT !.untold = @ \cup {b}] \in Pasts
      BY PastWith
    <3>3. past' = [q EXCEPT !.untold = @ \cup {b}]
      BY <1>9, <3>1 DEF Pasts
    <3> QED BY <3>1, <3>2, <3>3 DEF Pasts
  <2> HIDE DEF x, y
  <2>5. UNCHANGED <<mail, worker>> /\ tick.at = "tell" /\ tick'.at = "start"
    BY <2>1 DEF TellStarted
  <2> QED BY <1>1, <1>2, <1>3, <1>4, <1>5, <2>2, <2>3, <2>4, <2>5, TickTurns DEF x, y
<1> QED BY <1>8, <1>9 DEF TellStarted

\* A book is created: the one step that takes up a place, and there is room for it.
LEMMA CreateKeeps ==
  ASSUME Inv, Create
  PROVE  Inv'
<1> PICK b \in Books : b = tick.on
  BY TickNow DEF Create
<1> DEFINE x == book[b]  m == mail[b]  s == Step(b)
           y == [x EXCEPT !.dl = "pending", !.st = "queued"]
<1>1. x \in Rows /\ m \in Letters /\ m.pipe \in Nat
  BY Parts DEF Letters, Create, Sending
<1>2. y \in Rows
  <2> PICK z1 \in Rows : z1 = [x EXCEPT !.dl = "pending"]
    BY <1>1, RowWith
  <2> [z1 EXCEPT !.st = "queued"] \in Rows
    BY RowWith DEF Statuses
  <2> QED OBVIOUS
<1>3. /\ y.want = x.want /\ y.dl = "pending" /\ y.st = "queued" /\ y.text = x.text /\ y.ingest = x.ingest
      /\ y.prod = x.prod /\ y.final = x.final /\ y.told = x.told
      /\ y.bare = x.bare
  BY <1>1 DEF Rows
<1>5. Begun(x, m, s) /\ Texted(x, s)
  BY Parts DEF Create, Sending
<1>6. x.dl = "none" /\ x.st = "none" /\ x.prod = "none" /\ ~x.final /\ m.down = {} /\ m.pipe = 0
      /\ s \notin Steps
  BY <1>1, <1>5 DEF Inv, Rounds, Create, Begun
<1>97. worker.on # b
  <2>1. CASE worker \in Busy
    BY <1>6, <2>1 DEF Step, Busy
  <2>2. CASE worker = Free
    BY <2>2, FactoryAssumption DEF Free
  <2> QED BY <2>1, <2>2 DEF Inv, Shape
<1>7. x.want # "wanted"
  BY DEF Inv, Rounds, Create
<1>8. Begun(y, m, s) /\ Tended(y, m, s, TRUE)
  BY <1>3, <1>5, <1>6, <1>7 DEF Begun, Tended, Steps, Shelf
<1>9. Straight(y, m, s, b \in past.again) /\ Ended(y, b \in past.again \/ b \in past.missed)
  BY <1>3, <1>6 DEF Straight, Steps, Ended
<1>10. Texted(y, s)
  BY <1>3, <1>5 DEF Texted, Shelf
<1>11. Fits(y, m, s, TRUE, b \in past.again, b \in past.missed)
  BY <1>8, <1>9, <1>10 DEF Fits
<1> HIDE DEF x, m, y, s
<1>12. Set(b, y) /\ UNCHANGED <<mail, worker, past>>
  BY DEF Create, Set, x, y
<1>13. book' \in [Books -> Rows] /\ book'[b] = y /\ \A c \in Books \ {b} : book'[c] = book[c]
  BY <1>2, <1>12, SetFacts
<1>14. mail' \in [Books -> Letters] /\ mail'[b] = m
  BY <1>12 DEF Inv, Shape, m
<1>15. \A c \in Books : Step(c)' = Step(c)
  BY <1>12 DEF Step
<1>16. tick' = [at |-> "send", todo |-> tick.todo, on |-> b, seen |-> tick.seen, phase |-> tick.phase]
  BY TickNow DEF Create
<1>17. Shape'
  <2>1. Ticking'
    BY <1>16, TickNow DEF Ticking, Ticks
  <2> QED BY <1>12, <1>13, <1>14, <2>1 DEF Inv, Shape
<1>18. \A c \in Books : Fitting(c)'
  <2>1. Apart(b)
    <3>1. \A c \in Books : ~Sending(c)
      BY DEF Create, Sending
    <3> QED BY <1>12, <1>13, <1>14, <1>15, <3>1 DEF Apart, Inv, Shape
  <2>2. Fitting(b)'
    BY <1>11, <1>12, <1>13, <1>14, <1>15, <1>16 DEF Fitting, s, Sending
  <2> QED BY <2>1, <2>2, OthersFit
<1>19. Rounds' /\ Posted'
  <2>1. \A c \in tick.todo : book[c].want = "wanted"
    BY DEF Inv, Rounds, Create
  <2>2. \A c \in tick.todo : book'[c].want = "wanted"
    BY <1>3, <1>13, <2>1, TickNow DEF x
  <2> QED BY <1>3, <1>6, <1>13, <1>16, <2>2 DEF Rounds, Posted
<1>20. Room'
  <2>1. IsFiniteSet(UnderWay) /\ Cardinality(Counted) < MaxBooks
    BY DEF Inv, Room, Create
  <2>2. UnderWay' \subseteq UnderWay \cup {b}
    BY <1>13, HeldIsUnderWay DEF UnderWay, Done
  <2>3. Counted' \subseteq Counted \cup {b} /\ Counted' \ {b} \subseteq Counted
    BY <1>12, <2>2 DEF Counted
  <2>4. IsFiniteSet(Counted) /\ IsFiniteSet(UnderWay')
    <3>1. IsFiniteSet(UnderWay \cup {b}) /\ Counted \subseteq UnderWay
      BY <2>1, FS_AddElement DEF Counted
    <3> QED BY <2>1, <2>2, <3>1, FS_Subset
  <2>5. /\ IsFiniteSet(Counted \cup {b})
        /\ Cardinality(Counted \cup {b}) <= Cardinality(Counted) + 1
    <3>1. Cardinality(Counted) \in Nat
      BY <2>4, FS_CardinalityType
    <3>2. /\ IsFiniteSet(Counted \cup {b})
          /\ \/ Cardinality(Counted \cup {b}) = Cardinality(Counted)
             \/ Cardinality(Counted \cup {b}) = Cardinality(Counted) + 1
      BY <2>4, FS_AddElement
    <3> QED BY <3>1, <3>2
  <2>6. IsFiniteSet(Counted') /\ Cardinality(Counted') <= Cardinality(Counted \cup {b})
    BY <2>3, <2>5, FS_Subset
  <2>7. IsFiniteSet(Counted' \ {b}) /\ Cardinality(Counted' \ {b}) <= Cardinality(Counted)
    BY <2>3, <2>4, FS_Subset
  <2>8. /\ Cardinality(Counted) \in Nat /\ Cardinality(Counted') \in Nat /\ MaxBooks \in Nat
        /\ Cardinality(Counted \cup {b}) \in Nat /\ Cardinality(Counted' \ {b}) \in Nat
    BY <2>4, <2>5, <2>6, <2>7, FS_CardinalityType, FactoryAssumption
  <2>9. Cardinality(Counted') <= MaxBooks /\ Cardinality(Counted' \ {b}) < MaxBooks
    BY <2>1, <2>5, <2>6, <2>7, <2>8
  <2> QED BY <1>16, <2>4, <2>9 DEF Room
<1>21. Unsent'
  <2>1. worker.on # b
    BY <1>97
  <2> QED BY <1>3, <1>6, <1>12, <1>13, <1>14, <1>16, <2>1 DEF Unsent
<1> QED BY <1>17, <1>18, <1>19, <1>20, <1>21 DEF Inv

\* The download of the book that was created is sent.
LEMMA SendDownloadKeeps ==
  ASSUME Inv, SendDownload
  PROVE  Inv'
<1> PICK b \in Books : b = tick.on
  BY TickNow DEF SendDownload
<1> DEFINE x == book[b]  m == mail[b]  n == [m EXCEPT !.down = @ \cup {0}]
<1>1. Sending(b) /\ tick.at = "send"
  BY DEF SendDownload, Sending
<1>2. x.dl = "pending" /\ x.st = "queued" /\ x.prod = "none" /\ m.down = {} /\ m.pipe = 0
      /\ worker.on # b
  BY <1>1, SendingFacts
<1>3. x \in Rows /\ m \in Letters /\ Step(b) = "away"
  BY <1>2 DEF Inv, Shape, Step
<1>4. n \in Letters /\ n.pipe = 0 /\ n.down = {0}
  BY <1>2, <1>3, FactoryAssumption DEF Letters
<1>5. Begun(x, m, "away") /\ Ended(x, b \in past.again \/ b \in past.missed) /\ Texted(x, "away")
  BY <1>3 DEF Inv, Fitting, Fits
<1>6. Begun(x, n, "away")
  BY <1>2, <1>4, <1>5 DEF Begun, Steps
<1>7. Tended(x, n, "away", b \in past.left) /\ Straight(x, n, "away", b \in past.again)
  BY <1>2, <1>4 DEF Tended, Straight, Steps
<1>8. Fits(x, n, "away", b \in past.left, b \in past.again, b \in past.missed)
  BY <1>5, <1>6, <1>7 DEF Fits
<1> HIDE DEF n
<1>9. tick' = [at |-> "tell", todo |-> tick.todo, on |-> b, seen |-> tick.seen, phase |-> tick.phase]
  BY TickNow DEF SendDownload
<1>10. mail' = [mail EXCEPT ![b] = n] /\ UNCHANGED <<book, worker, past>>
  BY DEF SendDownload, n
<1>11. mail' \in [Books -> Letters] /\ mail'[b] = n /\ \A c \in Books \ {b} : mail'[c] = mail[c]
  BY <1>4, <1>10 DEF Inv, Shape
<1>12. Shape'
  <2>1. Ticking'
    BY <1>9, TickNow DEF Ticking, Ticks
  <2> QED BY <1>10, <1>11, <2>1 DEF Inv, Shape
<1>13. \A c \in Books : Step(c)' = Step(c) /\ ~Sending(c)' /\ (c # b => ~Sending(c))
  BY <1>1, <1>9, <1>10 DEF Step, Sending
<1>14. \A c \in Books : Fitting(c)'
  <2>1. Apart(b)
    BY <1>10, <1>11, <1>13 DEF Apart, Inv, Shape
  <2>2. Fitting(b)'
    BY <1>3, <1>8, <1>10, <1>11, <1>13 DEF Fitting
  <2> QED BY <2>1, <2>2, OthersFit
<1>15. Rounds' /\ Posted' /\ Unsent'
  BY <1>1, <1>9, <1>10 DEF Inv, Rounds, Posted, Unsent
<1>16. Room'
  <2>1. UnderWay' = UnderWay /\ Counted' = Counted
    BY <1>10 DEF UnderWay, Counted
  <2> QED BY <1>1, <1>9, <2>1, RoomStays
<1> QED BY <1>12, <1>14, <1>15, <1>16 DEF Inv

----------------------------------------------------------------------------
(* The factory. *)

LEMMA WorkerKeeps ==
  ASSUME Inv, WorkerStep
  PROVE  Inv'
<1>1. ASSUME NEW b \in Books, TakePipeline(b) PROVE Inv'
  BY <1>1, TakePipelineKeeps
<1>2. ASSUME NEW b \in Books, NEW n \in 0..Retries, TakeDownload(b, n) PROVE Inv'
  BY <1>2, TakeDownloadKeeps
<1>3. CASE Ingest
  BY <1>3, IngestAgainKeeps, IngestFirstKeeps
<1>4. CASE Downloaded
  BY <1>4, DownloadedKeeps
<1>5. CASE DownloadLater
  BY <1>5, DownloadLaterKeeps
<1>6. CASE FailDownload
  BY <1>6, FailDownloadKeeps
<1>7. CASE Persist
  BY <1>7, PersistKeeps
<1>8. CASE PersistFails
  BY <1>8, PersistFailsKeeps
<1>9. CASE Normalize
  BY <1>9, NormalizeKeeps
<1>10. CASE NormalizeFails
  BY <1>10, NormalizeFailsKeeps
<1>11. CASE Finish
  BY <1>11, FinishKeeps
<1>12. CASE Continue
  BY <1>12, ContinueQueues, ContinueRefused DEF Continue
<1>13. CASE Ack
  BY <1>13, AckKeeps
<1>14. CASE SendPipeline
  BY <1>14, SendPipelineKeeps
<1> QED BY <1>14, <1>1, <1>2, <1>3, <1>4, <1>5, <1>6, <1>7, <1>8, <1>9, <1>10, <1>11, <1>12, <1>13 DEF WorkerStep

LEMMA TickKeeps ==
  ASSUME Inv, TickStep
  PROVE  Inv'
<1>1. CASE TickStarts
  BY <1>1, TickStartsKeeps
<1>2. CASE Settle
  BY <1>2, SettleKeeps
<1>3. CASE Count
  BY <1>3, CountKeeps
<1>4. CASE NothingLeft
  BY <1>4, OffKeeps, TickNow DEF NothingLeft, Sending
<1>5. CASE Create
  BY <1>5, CreateKeeps
<1>6. CASE TellStarted
  BY <1>6, TellStartedKeeps
<1>7. ASSUME NEW b \in Books, Report(b) PROVE Inv'
  BY <1>7, ReportKeeps
<1>8. ASSUME NEW b \in Books, PassOver(b) PROVE Inv'
  BY <1>8, PassOverKeeps
<1>9. ASSUME NEW b \in Books, Reserve(b) PROVE Inv'
  BY <1>9, ReserveKeeps
<1>10. CASE SendDownload
  BY <1>10, SendDownloadKeeps
<1> QED BY <1>10, <1>1, <1>2, <1>3, <1>4, <1>5, <1>6, <1>7, <1>8, <1>9 DEF TickStep

LEMMA WorkerDiesKeeps ==
  ASSUME Inv, WorkerDies
  PROVE  Inv'
BY WorkerRestarts, WorkerIsKilled DEF WorkerDies

LEMMA PeopleKeep ==
  ASSUME Inv, People
  PROVE  Inv'
<1>1. ASSUME NEW b \in Books, Retry(b) PROVE Inv'
  BY <1>1, RetryDownloadKeeps, RetryPipelineKeeps
<1>2. ASSUME NEW b \in Books, Requeue(b) PROVE Inv'
  BY <1>2, RequeueKeeps
<1>3. ASSUME NEW b \in Books, Reingest(b) PROVE Inv'
  BY <1>3, ReingestKeeps
<1>4. ASSUME NEW b \in Books, Review(b) PROVE Inv'
  BY <1>4, ReviewKeeps
<1> QED BY <1>1, <1>2, <1>3, <1>4 DEF People

LEMMA InvStays == Inv /\ [Next]_vars => Inv'
<1> SUFFICES ASSUME Inv, [Next]_vars PROVE Inv'
  OBVIOUS
<1>1. CASE UNCHANGED vars
  <2>1. Shape' /\ Rounds' /\ Posted' /\ Unsent'
    BY <1>1 DEF vars, Inv, Shape, Ticking, Rounds, Posted, Unsent
  <2>2. \A b \in Books : Fitting(b)'
    BY <1>1 DEF vars, Inv, Fitting, Step, Sending
  <2>3. Room'
    BY <1>1 DEF vars, Inv, Room, UnderWay, Counted
  <2> QED BY <2>1, <2>2, <2>3 DEF Inv
<1>2. ASSUME NEW b \in Books, ProductionEnds(b) PROVE Inv'
  BY <1>2, ProductionEndsKeeps
<1> QED BY <1>1, <1>2, TickKeeps, WorkerKeeps, WorkerDiesKeeps, TickDiesKeeps, PeopleKeep DEF Next

\* No book is here at first.
LEMMA InvBegins == Init => Inv
<1> SUFFICES ASSUME Init PROVE Inv
  OBVIOUS
<1>1. NotHere \in Rows /\ [down |-> {}, pipe |-> 0] \in Letters
  BY DEF NotHere, Rows, Letters, Statuses
<1>2. Ticking
  BY FactoryAssumption DEF Init, Quiet, Ticking, Ticks, Off
<1>3. Shape
  BY <1>1, <1>2 DEF Init, Quiet, Shape, Pasts
<1>4. ASSUME NEW b \in Books PROVE Fitting(b)
  <2>1. book[b] = NotHere /\ mail[b] = [down |-> {}, pipe |-> 0] /\ Step(b) = "away"
    BY FactoryAssumption DEF Init, Quiet, Step, Free
  <2>2. Begun(book[b], mail[b], Step(b))
    BY <2>1 DEF NotHere, Begun, Steps
  <2>5. ~Sending(b)
    BY DEF Init, Quiet, Off, Sending
  <2>3. Tended(book[b], mail[b], Step(b), b \in past.left)
        /\ Straight(book[b], mail[b], Step(b), b \in past.again)
    BY <2>1 DEF NotHere, Tended, Straight, Steps
  <2>4. Ended(book[b], b \in past.again \/ b \in past.missed) /\ Texted(book[b], Step(b))
    BY <2>1 DEF NotHere, Ended, Texted, Shelf
  <2> QED BY <2>2, <2>3, <2>4, <2>5 DEF Fitting, Fits
<1>5. Rounds /\ Posted
  BY DEF Init, Quiet, Rounds, Posted, Off
<1>6. Unsent /\ Room
  <2>1. UnderWay = {} /\ Counted = {}
    BY DEF Init, UnderWay, NotHere, Counted
  <2> QED BY <2>1, FS_EmptySet, FactoryAssumption DEF Unsent, Room, Init, Quiet, Off
<1> QED BY <1>3, <1>4, <1>5, <1>6 DEF Inv

LEMMA InvAlways == Spec => []Inv
BY InvBegins, InvStays, PTL DEF Spec

\* Whatever posts are lost, whoever dies and whenever people step in, a book's row, its messages, the
\* worker and the tick are what they are declared to be, and a failed download is a failed edition.
THEOREM FactoryTyped == Spec => []TypeOK
<1>1. Inv => TypeOK
  <2> SUFFICES ASSUME Inv PROVE TypeOK
    OBVIOUS
  <2>1. book \in [Books -> Rows] /\ mail \in [Books -> Letters]
    BY DEF Inv, Shape
  <2>2. worker.at \in Steps \cup {"free"} /\ (worker.on = Nobody) = (worker = Free)
    BY FactoryAssumption DEF Inv, Shape, Busy, Free
  <2>3. tick.at \in Ticks /\ tick.todo \subseteq Books /\ tick.on \in Books \cup {Nobody}
    BY TickNow
  <2>4. \A b \in Books : book[b].dl = "failed" => book[b].st = "failed"
    BY DEF Inv, Fitting, Fits, Begun
  <2> QED BY <2>1, <2>2, <2>3, <2>4 DEF TypeOK, Rows, Letters, Statuses, Steps, Ticks
<1> QED BY <1>1, InvAlways, PTL

\* For every shelf of books, every limit and any number of retries, crashes and lost posts, the
\* factory never has more than its limit under way, not counting the books that were taken up
\* again and the ones whose first report Almonium did not answer; and a book that takes up a place
\* has a message, a worker, a tick that is about to send its message, or a production, except the
\* ones left to themselves: whose worker was killed, whose sender died between the commit and the
\* message, whose production was refused (tick, under_way, continue_production).
THEOREM FactoryPlaces == Spec => []PlacesMove
<1>1. Inv => PlacesMove
  <2> SUFFICES ASSUME Inv PROVE WithinLimit /\ Attended
    BY DEF PlacesMove
  <2>1. WithinLimit
    BY DEF Inv, Room, WithinLimit, Counted
  <2>2. ASSUME NEW b \in UnderWay, AtRest(b), book[b].prod # "active"
        PROVE  b \in past.left
    <3>1. b \in Books /\ Held(book[b]) /\ ~Sending(b)
      BY <2>2, HeldIsUnderWay DEF AtRest
    <3>2. book[b] \in Rows /\ Begun(book[b], mail[b], "away")
          /\ Tended(book[b], mail[b], "away", b \in past.left)
      BY <2>2, <3>1, Parts DEF AtRest, Step
    <3> QED BY <2>2, <3>1, <3>2
            DEF AtRest, Held, Done, Tended, Begun, Rows, Statuses, Shelf, Steps
  <2> QED BY <2>1, <2>2 DEF Attended
<1> QED BY <1>1, InvAlways, PTL

\* Whose end counts as reported, Almonium was told how it ended, whatever posts were lost and
\* whenever the tick died (report, reported_final).
THEOREM EndsAreTold == Spec => []ToldAsEnded
<1>1. Inv => ToldAsEnded
  BY DEF Inv, Fitting, Fits, Ended, ToldAsEnded
<1> QED BY <1>1, InvAlways, PTL

\* Whenever people re-ingest, workers die and messages come again, an edition on the shelf has its
\* text, except the one whose text was taken away under the worker that was about to shelve it, and
\* that one only until its next ingest (persist_artifact, reset_for_reingest).
THEOREM ShelfIsText == Spec => []ShelfHasText
<1>1. Inv => ShelfHasText
  BY DEF Inv, Fitting, Fits, Shape, Rows, Texted, ShelfHasText
<1> QED BY <1>1, InvAlways, PTL
=============================================================================
