--------------------------- MODULE ProductionProofs ----------------------------
(***************************************************************************)
(* Proofs about Production for any levels, languages, chapters, paragraphs  *)
(* and limits.                                                              *)
(***************************************************************************)
EXTENDS Production, TLAPS

StepsOf(k) ==
    IF k = "levels"
    THEN {"source", "probe", "write", "levels", "mend", "audit", "settle", "verdict", "promote"}
    ELSE {"translate", "review", "corrections", "promote"}

\* The cursors of a production p are in its lists, at steps of their tracks.
Placed(p) ==
    \A k \in Tracks : /\ p.track[k].index \in 1 .. Len(Lists[k]) + 1
                      /\ p.track[k].step \in StepsOf(k)

\* No limit is passed.
Limited(p) ==
    /\ \A j \in Jobs : p.starts[j] <= Limit(j)
    /\ \A t \in Targets : p.settled[t] <= Rounds(t)

Fits(p) == p \in Productions /\ Limited(p) /\ Placed(p)

--------------------------------------------------------------------------------
(* The lists.                                                                *)

LEMMA ListFacts ==
    ASSUME NEW k \in Tracks
    PROVE  /\ k \in {"levels", "languages"}
           /\ Lists[k] = IF k = "levels" THEN Levels ELSE Languages
           /\ Lists[k] \in Seq(STRING) /\ Len(Lists[k]) \in Nat \ {0}
           /\ DOMAIN Lists[k] = 1 .. Len(Lists[k])
           /\ \A i \in 1 .. Len(Lists[k]) :
                 /\ Lists[k][i] \in Targets
                 /\ Lists[k][i] \in IF k = "levels" THEN Names(Levels) ELSE Names(Languages)
<1>1. k \in {"levels", "languages"} /\ Lists[k] # <<>>
  BY DEF Tracks
<1>2. CASE k = "levels"
  <2>1. Lists[k] = Levels
    BY <1>2 DEF Lists
  <2> QED BY <1>1, <1>2, <2>1, ProductionAssumption DEF Targets, Names
<1>3. CASE k = "languages"
  <2>1. Lists[k] = Languages
    BY <1>3 DEF Lists
  <2> QED BY <1>1, <1>3, <2>1, ProductionAssumption DEF Targets, Names
<1> QED BY <1>1, <1>2, <1>3

\* Each target has one place.
LEMMA OnePlace ==
    ASSUME NEW k \in Tracks, NEW l \in Tracks,
           NEW i \in 1 .. Len(Lists[k]), NEW j \in 1 .. Len(Lists[l]), Lists[k][i] = Lists[l][j]
    PROVE  k = l /\ i = j
<1>1. /\ k \in {"levels", "languages"} /\ l \in {"levels", "languages"}
      /\ Lists[k] = IF k = "levels" THEN Levels ELSE Languages
      /\ Lists[l] = IF l = "levels" THEN Levels ELSE Languages
      /\ DOMAIN Lists[k] = 1 .. Len(Lists[k]) /\ DOMAIN Lists[l] = 1 .. Len(Lists[l])
  BY ListFacts
<1>2. Names(Levels) \cap Names(Languages) = {}
  BY ProductionAssumption DEF AskedInOrder
<1>3. k = l
  <2>1. Lists[k][i] \in Names(Lists[k]) /\ Lists[l][j] \in Names(Lists[l])
    BY <1>1 DEF Names
  <2> QED BY <1>1, <1>2, <2>1
<1>4. Distinct(Lists[k])
  BY <1>1, ProductionAssumption DEF AskedInOrder
<1> QED BY <1>1, <1>3, <1>4 DEF Distinct

LEMMA EveryPlace ==
    ASSUME NEW t \in Targets
    PROVE  \E k \in Tracks : \E i \in 1 .. Len(Lists[k]) : t = Lists[k][i]
<1>1. CASE t \in Names(Levels)
  <2>1. PICK i \in DOMAIN Levels : t = Levels[i]
    BY <1>1 DEF Names
  <2>2. Lists["levels"] = Levels /\ DOMAIN Levels = 1 .. Len(Levels)
    BY ProductionAssumption DEF Lists
  <2>3. "levels" \in Tracks
    BY <2>1, <2>2 DEF Tracks
  <2> QED BY <2>1, <2>2, <2>3
<1>2. CASE t \in Names(Languages)
  <2>1. PICK i \in DOMAIN Languages : t = Languages[i]
    BY <1>2 DEF Names
  <2>2. Lists["languages"] = Languages /\ DOMAIN Languages = 1 .. Len(Languages)
    BY ProductionAssumption DEF Lists
  <2>3. "languages" \in Tracks
    BY <2>1, <2>2 DEF Tracks
  <2> QED BY <2>1, <2>2, <2>3
<1> QED BY <1>1, <1>2 DEF Targets

LEMMA SomeTrack == Tracks # {}
<1>1. Levels # <<>> \/ Languages # <<>>
  BY ProductionAssumption DEF AskedInOrder
<1> QED BY <1>1 DEF Tracks, Lists

--------------------------------------------------------------------------------
(* What the code does to a production keeps it one.                          *)

LEMMA GoToFits ==
    ASSUME NEW p, Fits(p), NEW k \in Tracks, NEW s \in StepsOf(k)
    PROVE  Fits([p EXCEPT !.track[k] = [@ EXCEPT !.step = s, !.old = FALSE]])
<1> DEFINE q == [p EXCEPT !.track[k] = [@ EXCEPT !.step = s, !.old = FALSE]]
<1>1. s \in Steps
  BY DEF StepsOf, Steps
<1>2. [p.track EXCEPT ![k] = [@ EXCEPT !.step = s, !.old = FALSE]]
         \in [Tracks -> [index : Nat, step : Steps, old : BOOLEAN]]
  BY ZenonT(40), <1>1 DEF Fits, Productions
<1>3. q = [p EXCEPT !.track = [p.track EXCEPT ![k] = [@ EXCEPT !.step = s, !.old = FALSE]]]
  BY DEF Fits, Productions
<1>4. q \in Productions
  BY <1>2, <1>3 DEF Fits, Productions
<1>5. /\ q.starts = p.starts /\ q.settled = p.settled
      /\ \A l \in Tracks : /\ q.track[l].index = p.track[l].index
                           /\ q.track[l].step = IF l = k THEN s ELSE p.track[l].step
  BY <1>1 DEF Fits, Productions
<1>6. Limited(q) /\ Placed(q)
  BY <1>5 DEF Fits, Limited, Placed
<1> QED BY <1>4, <1>6 DEF Fits

LEMMA WaitFits ==
    ASSUME NEW p, Fits(p), NEW k \in Tracks
    PROVE  Fits([p EXCEPT !.track[k].old = TRUE])
<1> DEFINE q == [p EXCEPT !.track[k].old = TRUE]
<1>2. [p.track EXCEPT ![k].old = TRUE]
         \in [Tracks -> [index : Nat, step : Steps, old : BOOLEAN]]
  BY ZenonT(40) DEF Fits, Productions
<1>3. q = [p EXCEPT !.track = [p.track EXCEPT ![k].old = TRUE]]
  BY DEF Fits, Productions
<1>4. q \in Productions
  BY <1>2, <1>3 DEF Fits, Productions
<1>5. /\ q.starts = p.starts /\ q.settled = p.settled
      /\ \A l \in Tracks : /\ q.track[l].index = p.track[l].index
                           /\ q.track[l].step = p.track[l].step
  BY DEF Fits, Productions
<1>6. Limited(q) /\ Placed(q)
  BY <1>5 DEF Fits, Limited, Placed
<1> QED BY <1>4, <1>6 DEF Fits

\* How a step may close its target.
Closings == Promise!Good \cup Promise!Holds \cup {"not_reached"}

LEMMA CloseDoes ==
    ASSUME NEW p, Fits(p), NEW k \in Tracks, ~Ended(p, k), NEW o \in Closings, Close(k, o, p)
    PROVE  LET at == p.track[k].index
               stops == k = "levels" /\ o \notin Promise!Good
               for == IF o = "not_reached" THEN "not_reached" ELSE "not_attempted"
           IN
           /\ Fits(mem')
           /\ tick' = Moved(k)
           /\ \A l \in Tracks \ {k} : mem'.track[l] = p.track[l]
           /\ mem'.track[k].index = IF stops THEN Len(Lists[k]) + 1 ELSE at + 1
           /\ ~stops => mem'.track[k].step = FirstStep(k)
           /\ \A t \in Targets : mem'.outcome[t] =
                 IF t = Lists[k][at] THEN o
                 ELSE IF stops /\ t \in {Lists[k][i] : i \in at + 1 .. Len(Lists[k])} THEN for
                 ELSE p.outcome[t]
           /\ mem'.status = p.status /\ mem'.signOff = p.signOff
           /\ mem'.settled = p.settled
<1> DEFINE at == p.track[k].index
           stops == k = "levels" /\ o \notin Promise!Good
           for == IF o = "not_reached" THEN "not_reached" ELSE "not_attempted"
           out == [t \in Targets |-> IF t = Lists[k][at] THEN o
                     ELSE IF stops /\ t \in {Lists[k][i] : i \in at + 1 .. Len(Lists[k])} THEN for
                     ELSE p.outcome[t]]
           cur == IF stops THEN [p.track[k] EXCEPT !.index = Len(Lists[k]) + 1]
                  ELSE [index |-> at + 1, step |-> FirstStep(k), old |-> FALSE]
<1>1. mem' = [p EXCEPT !.outcome = out, !.track = [p.track EXCEPT ![k] = cur]] /\ tick' = Moved(k)
  BY DEF Close, Fits, Productions
<1>2. /\ at \in 1 .. Len(Lists[k]) /\ Len(Lists[k]) \in Nat
      /\ p.track[k].step \in StepsOf(k)
      /\ FirstStep(k) \in StepsOf(k) /\ StepsOf(k) \subseteq Steps
  <2>1. Len(Lists[k]) \in Nat
    BY ListFacts
  <2>2. /\ p.track[k].index \in 1 .. Len(Lists[k]) + 1 /\ p.track[k].step \in StepsOf(k)
        /\ ~(p.track[k].index > Len(Lists[k]))
    BY DEF Fits, Placed, Ended
  <2> QED BY <2>1, <2>2 DEF FirstStep, StepsOf, Steps
<1>3. cur \in [index : Nat, step : Steps, old : BOOLEAN]
  <2>1. p.track[k] \in [index : Nat, step : Steps, old : BOOLEAN]
    BY DEF Fits, Productions
  <2> QED BY <1>2, <2>1
<1>4. out \in [Targets -> Promise!Outcomes]
  <2>1. /\ o \in Promise!Outcomes /\ for \in Promise!Outcomes
        /\ p.outcome \in [Targets -> Promise!Outcomes]
    BY DEF Closings, Promise!Outcomes, Fits, Productions
  <2> QED BY <2>1
<1>5. [p.track EXCEPT ![k] = cur] \in [Tracks -> [index : Nat, step : Steps, old : BOOLEAN]]
  <2> HIDE DEF cur
  <2> QED BY <1>3 DEF Fits, Productions
<1>6. /\ mem' \in Productions
      /\ mem'.outcome = out /\ mem'.track = [p.track EXCEPT ![k] = cur]
      /\ mem'.starts = p.starts /\ mem'.settled = p.settled
      /\ mem'.status = p.status /\ mem'.signOff = p.signOff
  <2> HIDE DEF cur, out
  <2> QED BY <1>1, <1>4, <1>5 DEF Fits, Productions
<1>7. /\ \A l \in Tracks \ {k} : mem'.track[l] = p.track[l]
      /\ mem'.track[k] = cur
  BY <1>6 DEF Fits, Productions
<1>8. /\ cur.index = IF stops THEN Len(Lists[k]) + 1 ELSE at + 1
      /\ cur.step = IF stops THEN p.track[k].step ELSE FirstStep(k)
  <2>1. p.track[k] \in [index : Nat, step : Steps, old : BOOLEAN]
    BY DEF Fits, Productions
  <2> QED BY <2>1
<1>9. Limited(mem') /\ Placed(mem')
  <2> HIDE DEF cur
  <2>1. cur.index \in 1 .. Len(Lists[k]) + 1 /\ cur.step \in StepsOf(k)
    BY <1>2, <1>8
  <2> QED BY <1>6, <1>7, <2>1 DEF Fits, Limited, Placed
<1>10. \A t \in Targets : mem'.outcome[t] =
         IF t = Lists[k][at] THEN o
         ELSE IF stops /\ t \in {Lists[k][i] : i \in at + 1 .. Len(Lists[k])} THEN for
         ELSE p.outcome[t]
  <2> HIDE DEF at, stops, for, cur
  <2> QED BY <1>6
<1>11. /\ mem'.track[k].index = IF stops THEN Len(Lists[k]) + 1 ELSE at + 1
       /\ ~stops => mem'.track[k].step = FirstStep(k)
  <2> HIDE DEF at, stops, for, cur, out
  <2> QED BY <1>7, <1>8
<1>12. tick' = Moved(k) /\ Fits(mem')
  <2> HIDE DEF at, stops, for, cur, out
  <2> QED BY <1>1, <1>6, <1>9 DEF Fits
<1>13. \A l \in Tracks \ {k} : mem'.track[l] = p.track[l]
  BY <1>7
<1> QED
  <2> HIDE DEF out, cur
  <2> QED BY <1>6, <1>10, <1>11, <1>12, <1>13, Zenon

--------------------------------------------------------------------------------
(* What a step does: some data of its production, and then one of three      *)
(* things to its cursor.                                                     *)

\* A production that differs from the tick's copy in its data alone.
Updated(p) ==
    /\ Fits(p)
    /\ p.track = mem.track /\ p.outcome = mem.outcome
    /\ p.status = mem.status /\ p.signOff = mem.signOff

Turned(k, p) ==
    \/ \E s \in StepsOf(k) : GoTo(k, s, p)
    \/ \E o \in Closings : Close(k, o, p)
    \/ mem' = p /\ tick' = Stays(k)

Turns(k) == \E p \in Productions : Updated(p) /\ Turned(k, p)

\* What the world and the tick are made of.
WorldOK ==
    /\ ed \in [Names(Rungs) \cup Targets -> Editions]
    /\ job \in [Jobs -> JobStates]
    /\ unreached \subseteq Names(Levels) /\ begun \subseteq Targets

HappenedOK ==
    /\ hurt \subseteq Targets \cup Names(Rungs) \cup {Source} /\ torn \subseteq Targets
    /\ crashes \in 0 .. MaxCrashes /\ breaks \in 0 .. MaxBreaks
    /\ edits \in 0 .. MaxEdits /\ stalls \in 0 .. MaxStalls

Typed ==
    /\ Fits(row) /\ Fits(mem)
    /\ tick \in [open : BOOLEAN, todo : SUBSET Tracks, moved : SUBSET Tracks]
    /\ \A k \in tick.todo : ~Ended(mem, k)
    /\ ~tick.open => tick.todo = {}
    /\ source.read \in BOOLEAN /\ source.rungs \subseteq Names(Rungs)
    /\ WorldOK /\ HappenedOK

\* Track k is asked.
Asking(k) == Typed /\ k \in Tracks /\ tick.open /\ k \in tick.todo

LEMMA AskingFacts ==
    ASSUME NEW k, Asking(k)
    PROVE  /\ k \in Tracks /\ ~Ended(mem, k) /\ Fits(mem) /\ Updated(mem)
           /\ mem.track[k].index \in 1 .. Len(Lists[k])
           /\ mem.track[k].step \in StepsOf(k)
           /\ Target(k) = Lists[k][mem.track[k].index] /\ Target(k) \in Targets
           /\ k = "levels" => Target(k) \in Names(Levels)
           /\ k = "languages" => Target(k) \in Names(Languages)
<1>1. k \in Tracks /\ Fits(mem) /\ ~Ended(mem, k)
  BY DEF Asking, Typed
<1>2. mem.track[k].index \in 1 .. Len(Lists[k])
  BY <1>1, ListFacts DEF Fits, Placed, Ended
<1> QED BY <1>1, <1>2, ListFacts DEF Updated, Target, Fits, Placed

LEMMA GoToTurns ==
    ASSUME NEW k, NEW p, Updated(p), NEW s \in StepsOf(k), GoTo(k, s, p)
    PROVE  Turns(k)
  BY DEF Turns, Turned, Updated, Fits

LEMMA CloseTurns ==
    ASSUME NEW k, NEW p, Updated(p), NEW o \in Closings, Close(k, o, p)
    PROVE  Turns(k)
  BY DEF Turns, Turned, Updated, Fits

LEMMA WaitTurns ==
    ASSUME NEW k, NEW p, Updated(p), Wait(k, p)
    PROVE  Turns(k)
<1>1. "timeout" \in Closings
  BY DEF Closings, Promise!Holds
<1> QED BY <1>1 DEF Turns, Turned, Updated, Fits, Wait

LEMMA RaiseTurns ==
    ASSUME NEW k, Asking(k), NEW p, Updated(p), Raise(k, p)
    PROVE  Turns(k)
<1> DEFINE e == <<Target(k), p.track[k].step>>
           q == [p EXCEPT !.errors[e] = @ + 1]
<1>1. "error" \in Closings
  BY DEF Closings, Promise!Holds
<1>2. CASE p.errors[e] >= Starts + 1
  BY <1>1, <1>2, CloseTurns DEF Raise
<1>3. CASE ~(p.errors[e] >= Starts + 1)
  <2>1. mem' = q /\ tick' = Stays(k)
    BY <1>3 DEF Raise
  <2>2. e \in Targets \X Steps
    <3>1. p.track[k].step \in StepsOf(k) /\ StepsOf(k) \subseteq Steps
      BY AskingFacts DEF Updated, StepsOf, Steps
    <3> QED BY <3>1, AskingFacts
  <2>3. [p.errors EXCEPT ![e] = @ + 1] \in [Targets \X Steps -> Nat]
    BY <2>2 DEF Updated, Fits, Productions
  <2>4. q = [p EXCEPT !.errors = [p.errors EXCEPT ![e] = @ + 1]]
    BY DEF Updated, Fits, Productions
  <2> HIDE DEF q, e
  <2>5. /\ q \in Productions
        /\ q.track = p.track /\ q.outcome = p.outcome /\ q.status = p.status
        /\ q.signOff = p.signOff /\ q.starts = p.starts /\ q.settled = p.settled
    BY <2>3, <2>4 DEF Updated, Fits, Productions
  <2>6. Updated(q)
    BY <2>5 DEF Updated, Fits, Limited, Placed
  <2> QED BY <2>1, <2>5, <2>6 DEF Turns, Turned
<1> QED BY <1>2, <1>3

\* A start that is counted.
LEMMA StartedFits ==
    ASSUME NEW p, Updated(p), NEW j \in Jobs, ~(p.starts[j] >= Limit(j))
    PROVE  Updated([p EXCEPT !.starts[j] = @ + 1])
<1> DEFINE q == [p EXCEPT !.starts[j] = @ + 1]
<1>1. Limit(j) \in Nat
  BY ProductionAssumption DEF Limit
<1>2. p.starts \in [Jobs -> Nat] /\ p.starts[j] + 1 <= Limit(j)
  BY <1>1 DEF Updated, Fits, Productions
<1>3. [p.starts EXCEPT ![j] = @ + 1] \in [Jobs -> Nat]
  BY <1>2
<1>4. q = [p EXCEPT !.starts = [p.starts EXCEPT ![j] = @ + 1]]
  BY DEF Updated, Fits, Productions
<1> HIDE DEF q
<1>5. /\ q \in Productions
      /\ q.track = p.track /\ q.outcome = p.outcome /\ q.status = p.status
      /\ q.signOff = p.signOff /\ q.settled = p.settled
      /\ q.starts = [p.starts EXCEPT ![j] = @ + 1]
  BY <1>3, <1>4 DEF Updated, Fits, Productions
<1>6. \A i \in Jobs : q.starts[i] <= Limit(i)
  BY <1>2, <1>5 DEF Updated, Fits, Limited
<1>7. Updated(q)
  BY <1>5, <1>6 DEF Updated, Fits, Limited, Placed
<1> QED BY <1>7 DEF q

\* A job of track k, started as often as its limit at most.
LEMMA StartTurns ==
    ASSUME NEW k, Asking(k), NEW p, Updated(p), NEW j \in Jobs, Start(k, j, Limit(j), p)
    PROVE  /\ Turns(k)
           /\ job' \in [Jobs -> JobStates]
           /\ begun' = begun \/ begun' = begun \cup {Target(k)}
<1>1. "started" \in Closings
  BY DEF Closings, Promise!Holds
<1>2. Starts \in Nat /\ Limit(j) \in Nat
  BY ProductionAssumption DEF Limit
<1>3. CASE p.starts[j] >= Limit(j)
  <2>1. Close(k, "started", p) /\ job' = job /\ begun' = begun
    BY <1>3 DEF Start
  <2> QED BY <1>1, <2>1, CloseTurns DEF Asking, Typed, WorldOK
<1>4. CASE ~(p.starts[j] >= Limit(j))
  <2> DEFINE q == [p EXCEPT !.starts[j] = @ + 1]
  <2>1. /\ job' = [job EXCEPT ![j] = IF j \in Unseen THEN "sent" ELSE "active"]
        /\ begun' = begun \cup {Target(k)}
        /\ Wait(k, q)
    BY <1>4 DEF Start
  <2>7. Updated(q)
    BY <1>4, StartedFits
  <2> HIDE DEF q
  <2>8. job' \in [Jobs -> JobStates]
    BY <2>1 DEF Asking, Typed, WorldOK, JobStates
  <2> QED BY <2>1, <2>7, <2>8, WaitTurns
<1> QED BY <1>3, <1>4

--------------------------------------------------------------------------------
(* The steps, one by one: each turns its track and leaves the world one.     *)

Does(k) ==
    /\ Turns(k)
    /\ row' = row /\ source' = source
    /\ WorldOK' /\ HappenedOK'
    /\ begun' = begun \/ begun' = begun \cup {Target(k)}

\* The steps of the levels' track.
LEMMA AtALevel ==
    ASSUME NEW k, Asking(k), NEW s \in StepsOf("levels") \ {"promote"}, At(k, s)
    PROVE  k = "levels" /\ Target(k) \in Names(Levels) /\ Target(k) \in Names(Rungs)
<1>1. mem.track[k].step = s
  BY DEF At
<1>2. k = "levels"
  BY <1>1, AskingFacts, ListFacts DEF StepsOf
<1> QED BY <1>2, AskingFacts, ProductionAssumption DEF AskedInOrder

LEMMA AtALanguage ==
    ASSUME NEW k, Asking(k), NEW s \in StepsOf("languages") \ {"promote"}, At(k, s)
    PROVE  k = "languages" /\ Target(k) \in Names(Languages)
<1>1. mem.track[k].step = s
  BY DEF At
<1>2. k = "languages"
  BY <1>1, AskingFacts, ListFacts DEF StepsOf
<1> QED BY <1>2, AskingFacts

\* A step that only looks.
LEMMA LooksDoes ==
    ASSUME NEW k, Asking(k), Looks, Apart, Turns(k)
    PROVE  Does(k)
  BY DEF Does, Looks, Apart, Asking, Typed, WorldOK, HappenedOK, happened

LEMMA ReadSourceDoes ==
    ASSUME NEW k, Asking(k), ReadSource(k) PROVE Does(k)
<1> DEFINE j == <<Source, "analysis">>
<1>1. At(k, "source") /\ k = "levels"
  BY AtALevel DEF ReadSource, StepsOf
<1>2. j \in Jobs /\ Limit(j) = Starts /\ "probe" \in StepsOf(k)
  BY <1>1 DEF Jobs, Limit, StepsOf
<1>3. Updated(mem)
  BY AskingFacts
<1>4. /\ Turns(k) /\ job' \in [Jobs -> JobStates]
      /\ begun' = begun \/ begun' = begun \cup {Target(k)}
  <2>1. CASE GoTo(k, "probe", mem) /\ UNCHANGED <<job, begun>>
    BY <2>1, <1>2, <1>3, GoToTurns DEF Asking, Typed, WorldOK
  <2>2. CASE Wait(k, mem) /\ UNCHANGED <<job, begun>>
    BY <2>2, <1>3, WaitTurns DEF Asking, Typed, WorldOK
  <2>3. CASE Start(k, j, Starts, mem)
    BY <2>3, <1>2, <1>3, StartTurns
  <2> QED BY <2>1, <2>2, <2>3 DEF ReadSource
<1>5. UNCHANGED <<ed, unreached>> /\ Apart
  BY DEF ReadSource
<1> QED BY <1>4, <1>5, AskingFacts DEF Does, Apart, Asking, Typed, WorldOK, HappenedOK, happened

LEMMA ProbeNotNeededDoes ==
    ASSUME NEW k, Asking(k), ProbeNotNeeded(k) PROVE Does(k)
<1>1. Close(k, "not_needed", mem) /\ Looks /\ Apart
  BY DEF ProbeNotNeeded
<1>2. "not_needed" \in Closings
  BY DEF Closings, Promise!Good
<1> QED BY <1>1, <1>2, AskingFacts, CloseTurns, LooksDoes

LEMMA ProbeNotReachedDoes ==
    ASSUME NEW k, Asking(k), ProbeNotReached(k) PROVE Does(k)
<1>1. Close(k, "not_reached", mem) /\ Looks /\ Apart
  BY DEF ProbeNotReached
<1>2. "not_reached" \in Closings
  BY DEF Closings
<1> QED BY <1>1, <1>2, AskingFacts, CloseTurns, LooksDoes

LEMMA ProbeAdoptsDoes ==
    ASSUME NEW k, Asking(k), ProbeAdopts(k) PROVE Does(k)
<1> DEFINE q == [mem EXCEPT !.editions = @ \cup {Target(k)}]
<1>1. At(k, "probe") /\ GoTo(k, "levels", q) /\ Looks /\ Apart
  BY DEF ProbeAdopts
<1>2. k = "levels"
  BY <1>1, AtALevel DEF StepsOf
<1>3. Updated(q)
  BY ZenonT(40), AskingFacts DEF Updated, Fits, Productions, Limited, Placed
<1>4. "levels" \in StepsOf(k)
  BY <1>2 DEF StepsOf
<1> QED BY <1>1, <1>3, <1>4, GoToTurns, LooksDoes

LEMMA ProbeDoes ==
    ASSUME NEW k, Asking(k), Probe(k) PROVE Does(k)
<1> DEFINE j == <<Target(k), "probe">>
<1>1. At(k, "probe") /\ k = "levels" /\ Target(k) \in Names(Rungs)
  BY AtALevel DEF Probe, StepsOf
<1>2. /\ j \in Jobs /\ Limit(j) = Starts /\ "write" \in StepsOf(k) /\ "no_probe" \in Closings
  BY <1>1 DEF Jobs, Limit, StepsOf, Closings, Promise!Holds
<1>3. Updated(mem)
  BY AskingFacts
<1>4. /\ Turns(k) /\ job' \in [Jobs -> JobStates]
      /\ begun' = begun \/ begun' = begun \cup {Target(k)}
  <2>1. CASE GoTo(k, "write", mem) /\ UNCHANGED <<job, begun>>
    BY <2>1, <1>2, <1>3, GoToTurns DEF Asking, Typed, WorldOK
  <2>2. CASE Wait(k, mem) /\ UNCHANGED <<job, begun>>
    BY <2>2, <1>3, WaitTurns DEF Asking, Typed, WorldOK
  <2>3. CASE Close(k, "no_probe", mem) /\ UNCHANGED <<job, begun>>
    BY <2>3, <1>2, <1>3, CloseTurns DEF Asking, Typed, WorldOK
  <2>4. CASE Start(k, j, Starts, mem)
    BY <2>4, <1>2, <1>3, StartTurns
  <2> QED BY <2>1, <2>2, <2>3, <2>4 DEF Probe
<1>5. UNCHANGED <<ed, unreached>> /\ Apart
  BY DEF Probe
<1> QED BY <1>4, <1>5, AskingFacts DEF Does, Apart, Asking, Typed, WorldOK, HappenedOK, happened

LEMMA WriteWaitsDoes ==
    ASSUME NEW k, Asking(k), WriteWaits(k) PROVE Does(k)
<1> DEFINE q == [mem EXCEPT !.editions = @ \cup {Target(k)}]
<1>1. At(k, "write") /\ Looks /\ Apart
  BY DEF WriteWaits
<1>2. k = "levels" /\ "levels" \in StepsOf(k)
  BY <1>1, AtALevel DEF StepsOf
<1>3. Updated(q) /\ Updated(mem)
  BY ZenonT(40), AskingFacts DEF Updated, Fits, Productions, Limited, Placed
<1>4. GoTo(k, "levels", q) \/ GoTo(k, "levels", mem) \/ Wait(k, mem)
  BY DEF WriteWaits
<1>5. Turns(k)
  BY <1>2, <1>3, <1>4, GoToTurns, WaitTurns
<1> QED BY <1>1, <1>5, LooksDoes

LEMMA WriteDoes ==
    ASSUME NEW k, Asking(k), Write(k) PROVE Does(k)
<1> DEFINE t == Target(k)
           b == <<t, "book">>
           q == [mem EXCEPT !.books = @ \cup {t}, !.editions = @ \cup {t}, !.starts[b] = @ + 1]
<1>1. At(k, "write") /\ Apart
  BY DEF Write
<1>2. k = "levels" /\ t \in Names(Rungs) /\ t \in Targets
  BY <1>1, AtALevel, AskingFacts DEF StepsOf
<1>3. b \in Jobs /\ Limit(b) = Starts /\ "started" \in Closings /\ Starts \in Nat
  BY <1>2, ProductionAssumption DEF Jobs, Limit, Closings, Promise!Holds
<1>4. CASE mem.starts[b] >= Starts
  <2>1. Close(k, "started", mem) /\ Looks
    BY <1>4 DEF Write
  <2> QED BY <1>1, <1>3, <2>1, AskingFacts, CloseTurns, LooksDoes
<1>5. CASE ~(mem.starts[b] >= Starts)
  <2>1. /\ job' = [job EXCEPT ![b] = IF @ = "stalled" THEN @ ELSE "active"]
        /\ ed' = [ed EXCEPT ![t].text = "empty"]
        /\ begun' = begun \cup {t}
        /\ Wait(k, q)
        /\ UNCHANGED unreached
    BY <1>5 DEF Write
  <2>2. mem \in Productions /\ Fits(mem) /\ Updated(mem)
    BY AskingFacts DEF Fits
  <2>3. mem.starts \in [Jobs -> Nat] /\ mem.starts[b] + 1 <= Limit(b)
    BY <1>3, <1>5, <2>2 DEF Productions
  <2>4. [mem.starts EXCEPT ![b] = @ + 1] \in [Jobs -> Nat]
    BY <1>3, <2>3
  <2>5. q = [mem EXCEPT !.books = @ \cup {t}, !.editions = @ \cup {t},
                        !.starts = [mem.starts EXCEPT ![b] = @ + 1]]
    BY <2>2 DEF Productions
  <2> HIDE DEF q, b, t
  <2>6. /\ q \in Productions
        /\ q.track = mem.track /\ q.outcome = mem.outcome /\ q.status = mem.status
        /\ q.signOff = mem.signOff /\ q.settled = mem.settled
        /\ q.starts = [mem.starts EXCEPT ![b] = @ + 1]
    BY <1>2, <2>2, <2>4, <2>5 DEF Productions
  <2>7. \A i \in Jobs : q.starts[i] <= Limit(i)
    BY <2>2, <2>3, <2>6 DEF Fits, Limited
  <2>8. Updated(q)
    BY <2>2, <2>6, <2>7 DEF Updated, Fits, Limited, Placed
  <2>9. job' \in [Jobs -> JobStates] /\ ed' \in [Names(Rungs) \cup Targets -> Editions]
    <3>1. job' \in [Jobs -> JobStates]
      BY <2>1 DEF Asking, Typed, WorldOK, JobStates
    <3>2. ed \in [Names(Rungs) \cup Targets -> Editions] /\ t \in Names(Rungs) \cup Targets
      BY <1>2 DEF Asking, Typed, WorldOK
    <3>3. [ed[t] EXCEPT !.text = "empty"] \in Editions
      BY <3>2 DEF Editions
    <3>4. ed' = [ed EXCEPT ![t] = [ed[t] EXCEPT !.text = "empty"]]
      BY <2>1, <3>2
    <3> QED BY <3>1, <3>2, <3>3, <3>4
  <2>10. begun' \subseteq Targets
    BY <1>2, <2>1 DEF Asking, Typed, WorldOK
  <2>11. begun' = begun \cup {Target(k)}
    BY <2>1 DEF t
  <2> QED
    BY <1>1, <2>1, <2>8, <2>9, <2>10, <2>11, WaitTurns
       DEF Does, Apart, Asking, Typed, WorldOK, HappenedOK, happened
<1> QED BY <1>4, <1>5

LEMMA JudgeLevelsDoes ==
    ASSUME NEW k, Asking(k), JudgeLevels(k) PROVE Does(k)
<1> DEFINE j == <<Target(k), "analysis">>
<1>1. At(k, "levels") /\ k = "levels" /\ Target(k) \in Names(Rungs)
  BY AtALevel DEF JudgeLevels, AtEdition, StepsOf
<1>2. /\ j \in Jobs /\ Limit(j) = Starts + 1 /\ "mend" \in StepsOf(k)
  BY <1>1, ProductionAssumption DEF Jobs, Limit, StepsOf
<1>3. Updated(mem)
  BY AskingFacts
<1>4. /\ Turns(k) /\ job' \in [Jobs -> JobStates]
      /\ begun' = begun \/ begun' = begun \cup {Target(k)}
  <2>1. CASE GoTo(k, "mend", mem) /\ UNCHANGED <<job, begun>>
    BY <2>1, <1>2, <1>3, GoToTurns DEF Asking, Typed, WorldOK
  <2>2. CASE Wait(k, mem) /\ UNCHANGED <<job, begun>>
    BY <2>2, <1>3, WaitTurns DEF Asking, Typed, WorldOK
  <2>4. CASE Start(k, j, Starts + 1, mem)
    BY <2>4, <1>2, <1>3, StartTurns
  <2> QED BY <2>1, <2>2, <2>4 DEF JudgeLevels
<1>5. UNCHANGED <<ed, unreached>> /\ Apart
  BY DEF JudgeLevels
<1> QED BY <1>4, <1>5, AskingFacts DEF Does, Apart, Asking, Typed, WorldOK, HappenedOK, happened

\* What a rewriting does to an edition, to the jobs and to what is counted.
LEMMA RewrittenFits ==
    ASSUME NEW e \in Editions, NEW carried \in BOOLEAN
    PROVE  Rewritten(e, carried) \in Editions
  BY DEF Editions, Rewritten

LEMMA RejudgedFits ==
    ASSUME job \in [Jobs -> JobStates], NEW t \in Names(Rungs), NEW carried
    PROVE  Rejudged(t, carried) \in [Jobs -> JobStates]
  BY DEF Rejudged, JobStates

LEMMA EditionFits ==
    ASSUME NEW k, Asking(k)
    PROVE  /\ ed \in [Names(Rungs) \cup Targets -> Editions]
           /\ job \in [Jobs -> JobStates]
           /\ ed[Target(k)] \in Editions /\ ed[Target(k)].read \in BOOLEAN
           /\ \A e \in Editions : [ed EXCEPT ![Target(k)] = e] \in [Names(Rungs) \cup Targets -> Editions]
<1>1. ed \in [Names(Rungs) \cup Targets -> Editions] /\ job \in [Jobs -> JobStates]
  BY DEF Asking, Typed, WorldOK
<1>2. ed[Target(k)] \in Editions
  BY <1>1, AskingFacts
<1> QED BY <1>1, <1>2 DEF Editions

LEMMA CountedFits ==
    ASSUME NEW p, Updated(p), NEW t \in Names(Levels)
    PROVE  Updated(Counted(t, p)) /\ Counted(t, p).settled = p.settled
<1> DEFINE a == <<t, "analysis">>
           b == <<t, "audit">>
           starts == [p.starts EXCEPT ![a] = 0, ![b] = 0]
           q == [p EXCEPT !.starts = starts]
<1>1. a \in Jobs /\ b \in Jobs
  BY ProductionAssumption DEF AskedInOrder, Jobs
<1>2. p \in Productions /\ p.starts \in [Jobs -> Nat]
  BY DEF Updated, Fits, Productions
<1>3. Counted(t, p) = q
  BY <1>2 DEF Counted, Productions
<1>4. starts \in [Jobs -> Nat] /\ \A j \in Jobs : starts[j] <= p.starts[j]
  <2> HIDE DEF a, b
  <2> QED BY <1>1, <1>2
<1>5. /\ q \in Productions
      /\ q.track = p.track /\ q.outcome = p.outcome /\ q.status = p.status
      /\ q.signOff = p.signOff /\ q.settled = p.settled /\ q.starts = starts
  <2> HIDE DEF starts
  <2> QED BY <1>2, <1>4 DEF Productions
<1>6. \A j \in Jobs : q.starts[j] <= Limit(j)
  <2>1. \A j \in Jobs : p.starts[j] <= Limit(j) /\ Limit(j) \in Nat /\ p.starts[j] \in Nat
    BY <1>2, ProductionAssumption DEF Updated, Fits, Limited, Limit
  <2> HIDE DEF starts, q
  <2> QED BY <1>4, <1>5, <2>1
<1> HIDE DEF q
<1> QED BY <1>3, <1>5, <1>6 DEF Updated, Fits, Limited, Placed

LEMMA MendedFits ==
    ASSUME NEW k, Asking(k), k = "levels", NEW tries \in [Chapters -> SUBSET Tries]
    PROVE  /\ Updated(Mended(Target(k), tries))
           /\ Mended(Target(k), tries).settled = mem.settled
<1> DEFINE t == Target(k)
           q == [mem EXCEPT !.mended = [mem.mended EXCEPT ![t] = tries]]
<1>1. t \in Names(Levels) /\ Updated(mem) /\ mem \in Productions
  BY AskingFacts DEF Fits
<1>2. [mem.mended EXCEPT ![t] = tries] \in [Names(Levels) -> [Chapters -> SUBSET Tries]]
  BY <1>1 DEF Productions
<1>3. q = [mem EXCEPT !.mended[t] = tries]
  BY <1>1 DEF Productions
<1>4. /\ q \in Productions
      /\ q.track = mem.track /\ q.outcome = mem.outcome /\ q.status = mem.status
      /\ q.signOff = mem.signOff /\ q.settled = mem.settled /\ q.starts = mem.starts
  BY <1>1, <1>2 DEF Productions
<1>5. Updated(q)
  <2> HIDE DEF q
  <2> QED BY <1>1, <1>4 DEF Updated, Fits, Limited, Placed
<1>6. Updated(Counted(t, q)) /\ Counted(t, q).settled = mem.settled
  <2> HIDE DEF q
  <2> QED BY <1>1, <1>4, <1>5, CountedFits
<1>7. Mended(t, tries) = IF tries = mem.mended[t] THEN mem ELSE Counted(t, q)
  BY <1>3 DEF Mended
<1> HIDE DEF q
<1> QED BY <1>1, <1>6, <1>7

LEMMA ThroughFits ==
    ASSUME NEW k, Asking(k), k = "levels", NEW c, NEW tries \in SUBSET Tries
    PROVE  Through(Target(k), c, tries) \in [Chapters -> SUBSET Tries]
<1>1. mem \in Productions /\ Target(k) \in Names(Levels)
  BY AskingFacts DEF Fits
<1> QED BY <1>1 DEF Through, Productions

LEMMA AllTriedFits ==
    ASSUME NEW k, Asking(k), k = "levels"
    PROVE  Updated(AllTried(Target(k)))
<1>1. mem \in Productions /\ Target(k) \in Names(Levels)
  BY AskingFacts DEF Fits
<1>2. [x \in Chapters |-> IF x \in ed[Target(k)].above THEN Tries ELSE mem.mended[Target(k)][x]]
         \in [Chapters -> SUBSET Tries]
  BY <1>1 DEF Productions
<1> QED BY <1>2, MendedFits DEF AllTried

LEMMA MendNothingDoes ==
    ASSUME NEW k, Asking(k), MendNothing(k) PROVE Does(k)
<1>1. At(k, "mend") /\ Looks /\ Apart
  BY DEF MendNothing, AtEdition
<1>2. "audit" \in StepsOf(k) /\ "unread" \in Closings
  BY <1>1, AtALevel DEF StepsOf, Closings, Promise!Holds
<1>3. GoTo(k, "audit", mem) \/ Close(k, "unread", mem)
  BY DEF MendNothing
<1> QED BY <1>1, <1>2, <1>3, AskingFacts, GoToTurns, CloseTurns, LooksDoes

LEMMA MendDoes ==
    ASSUME NEW k, Asking(k), Mend(k) PROVE Does(k)
<1> DEFINE t == Target(k)
<1>1. At(k, "mend") /\ Apart /\ k = "levels" /\ t \in Names(Rungs) /\ t \in Names(Levels)
  BY AtALevel DEF Mend, AtEdition, StepsOf
<1>2. PICK c \in ed[t].above, try \in Tries :
         GoTo(k, "levels", Mended(t, Through(t, c, IF try = "chapter" THEN Tries
                                                   ELSE mem.mended[t][c] \cup {try})))
  BY DEF Mend
<1>3. c \in Chapters
  BY EditionFits DEF Editions
<1>4. (IF try = "chapter" THEN Tries ELSE mem.mended[t][c] \cup {try}) \in SUBSET Tries
  <2>1. mem \in Productions
    BY AskingFacts DEF Fits
  <2> QED BY <1>1, <1>3, <2>1 DEF Productions
<1>5. Turns(k)
  <2>1. "levels" \in StepsOf(k)
    BY <1>1 DEF StepsOf
  <2> QED BY <1>1, <1>2, <1>4, <2>1, ThroughFits, MendedFits, GoToTurns
<1>6. /\ ed' = [ed EXCEPT ![t] = Rewritten(@, FALSE)] /\ job' = Rejudged(t, FALSE)
      /\ begun' = begun \cup {t} /\ UNCHANGED unreached
  BY DEF Mend
<1>7. ed' = [ed EXCEPT ![t] = Rewritten(ed[t], FALSE)]
  BY <1>6, EditionFits
<1>8. ed' \in [Names(Rungs) \cup Targets -> Editions] /\ job' \in [Jobs -> JobStates]
  <2>1. Rewritten(ed[t], FALSE) \in Editions
    BY EditionFits, RewrittenFits
  <2>2. ed' \in [Names(Rungs) \cup Targets -> Editions]
    BY <1>7, <2>1, EditionFits
  <2> QED BY <1>1, <1>6, <2>2, EditionFits, RejudgedFits
<1>9. /\ row' = row /\ source' = source /\ hurt' = hurt /\ torn' = torn /\ crashes' = crashes
      /\ breaks' = breaks /\ edits' = edits /\ stalls' = stalls
  BY <1>1 DEF Apart, happened
<1>10. HappenedOK'
  BY <1>9 DEF Asking, Typed, HappenedOK
<1>11. WorldOK'
  BY <1>1, <1>6, <1>8 DEF Asking, Typed, WorldOK, Targets
<1> QED
  BY <1>5, <1>6, <1>9, <1>10, <1>11 DEF Does

\* A step that raises may leave happened one further.
LEMMA BreaksFits ==
    ASSUME Typed, breaks < MaxBreaks, breaks' = breaks + 1,
           torn' \subseteq Targets, UNCHANGED <<hurt, crashes, edits, stalls>>
    PROVE  HappenedOK'
  BY ProductionAssumption DEF Typed, HappenedOK

LEMMA MendBreaksDoes ==
    ASSUME NEW k, Asking(k), MendBreaks(k) PROVE Does(k)
<1> DEFINE t == Target(k)
<1>1. /\ At(k, "mend") /\ Looks /\ k = "levels" /\ t \in Names(Levels)
      /\ breaks < MaxBreaks /\ breaks' = breaks + 1
      /\ UNCHANGED <<row, source, hurt, torn, crashes, edits, stalls>>
  BY AtALevel DEF MendBreaks, AtEdition, StepsOf
<1>2. PICK c \in ed[t].above : Raise(k, Mended(t, Through(t, c, mem.mended[t][c])))
  BY DEF MendBreaks
<1>3. mem.mended[t][c] \in SUBSET Tries
  <2>1. mem \in Productions
    BY AskingFacts DEF Fits
  <2>2. c \in Chapters
    BY EditionFits DEF Editions
  <2> QED BY <1>1, <2>1, <2>2 DEF Productions
<1>4. Turns(k)
  BY <1>1, <1>2, <1>3, ThroughFits, MendedFits, RaiseTurns
<1> QED BY <1>1, <1>4, BreaksFits DEF Does, Looks, Asking, Typed, WorldOK, HappenedOK

LEMMA MendEndsDoes ==
    ASSUME NEW k, Asking(k), MendEnds(k) PROVE Does(k)
<1>1. At(k, "mend") /\ Looks /\ Apart /\ k = "levels"
  BY AtALevel DEF MendEnds, AtEdition, StepsOf
<1>2. "audit" \in StepsOf(k) /\ "too_long" \in Closings
  BY <1>1 DEF StepsOf, Closings, Promise!Holds
<1>3. GoTo(k, "audit", AllTried(Target(k))) \/ Close(k, "too_long", AllTried(Target(k)))
  BY DEF MendEnds
<1> QED BY <1>1, <1>2, <1>3, AllTriedFits, GoToTurns, CloseTurns, LooksDoes

\* What purge_edition leaves of level t.
LEMMA PurgeFits ==
    ASSUME Typed, NEW t \in Names(Levels), Purge(t)
    PROVE  /\ ed' \in [Names(Rungs) \cup Targets -> Editions]
           /\ job' \in [Jobs -> JobStates]
<1>1. NoEdition \in Editions
  BY DEF NoEdition, Editions
<1> QED BY <1>1 DEF Purge, Typed, WorldOK, JobStates

LEMMA DropDoes ==
    ASSUME NEW k, Asking(k), Drop(k) PROVE Does(k)
<1> DEFINE t == Target(k)
           p == AllTried(t)
           q == [p EXCEPT !.editions = @ \ {t}]
<1>1. /\ At(k, "mend") /\ Apart /\ k = "levels" /\ t \in Names(Levels) /\ Purge(t)
      /\ unreached' = unreached \cup {t} /\ begun' = begun /\ Close(k, "not_reached", q)
  BY AtALevel DEF Drop, AtEdition, StepsOf
<1>2. Updated(p)
  BY <1>1, AllTriedFits
<1>3. Updated(q)
  <2> HIDE DEF p, t
  <2> QED BY <1>2 DEF Updated, Fits, Productions, Limited, Placed
<1>4. Turns(k)
  <2>1. "not_reached" \in Closings
    BY DEF Closings
  <2> QED BY <1>1, <1>3, <2>1, CloseTurns
<1> QED
  BY <1>1, <1>4, PurgeFits DEF Does, Apart, Asking, Typed, WorldOK, HappenedOK, happened

LEMMA AuditDoes ==
    ASSUME NEW k, Asking(k), Audit(k) PROVE Does(k)
<1> DEFINE j == <<Target(k), "audit">>
<1>1. At(k, "audit") /\ k = "levels" /\ Target(k) \in Names(Rungs)
  BY AtALevel DEF Audit, AtEdition, StepsOf
<1>2. j \in Jobs /\ Limit(j) = Starts /\ "settle" \in StepsOf(k) /\ Updated(mem)
  BY <1>1, AskingFacts DEF Jobs, Limit, StepsOf
<1>4. /\ Turns(k) /\ job' \in [Jobs -> JobStates]
      /\ begun' = begun \/ begun' = begun \cup {Target(k)}
  <2>1. CASE GoTo(k, "settle", mem) /\ UNCHANGED <<job, begun>>
    BY <2>1, <1>2, GoToTurns DEF Asking, Typed, WorldOK
  <2>2. CASE Wait(k, mem) /\ UNCHANGED <<job, begun>>
    BY <2>2, <1>2, WaitTurns DEF Asking, Typed, WorldOK
  <2>4. CASE Start(k, j, Starts, mem)
    BY <2>4, <1>2, StartTurns
  <2> QED BY <2>1, <2>2, <2>4 DEF Audit
<1>5. UNCHANGED <<ed, unreached>> /\ Apart
  BY DEF Audit
<1> QED BY <1>4, <1>5, AskingFacts DEF Does, Apart, Asking, Typed, WorldOK, HappenedOK, happened

LEMMA SettleNothingDoes ==
    ASSUME NEW k, Asking(k), SettleNothing(k) PROVE Does(k)
<1>1. At(k, "settle") /\ GoTo(k, "verdict", mem) /\ Looks /\ Apart /\ k = "levels"
  BY AtALevel DEF SettleNothing, AtEdition, StepsOf
<1>2. "verdict" \in StepsOf(k) /\ Updated(mem)
  BY <1>1, AskingFacts DEF StepsOf
<1> QED BY <1>1, <1>2, GoToTurns, LooksDoes

\* A round of a level that has one left.
LEMMA RoundFits ==
    ASSUME NEW p, Updated(p), NEW t \in Names(Levels), p.settled[t] < SettleRounds
    PROVE  /\ Updated(Round(t, p))
           /\ \A u \in Targets \ {t} : Round(t, p).settled[u] = p.settled[u]
<1> DEFINE q == [p EXCEPT !.settled = [p.settled EXCEPT ![t] = @ + 1]]
<1>1. p \in Productions /\ t \in Targets /\ SettleRounds \in Nat
  BY ProductionAssumption DEF Updated, Fits, Targets
<1>2. [p.settled EXCEPT ![t] = @ + 1] \in [Targets -> Nat]
  BY <1>1 DEF Productions
<1>3. q = [p EXCEPT !.settled[t] = @ + 1]
  BY <1>1 DEF Productions
<1>4. /\ q \in Productions
      /\ q.track = p.track /\ q.outcome = p.outcome /\ q.status = p.status
      /\ q.signOff = p.signOff /\ q.starts = p.starts
      /\ q.settled = [p.settled EXCEPT ![t] = @ + 1]
  BY <1>1, <1>2 DEF Productions
<1>5. \A u \in Targets : q.settled[u] <= Rounds(u)
  <2>1. \A u \in Targets : p.settled[u] <= Rounds(u) /\ p.settled[u] \in Nat
    BY <1>1 DEF Updated, Fits, Limited, Productions
  <2>2. p.settled[t] + 1 <= Rounds(t)
    BY <1>1, <2>1 DEF Rounds
  <2> HIDE DEF q
  <2> QED BY <1>1, <1>4, <2>1, <2>2 DEF Productions
<1>6. Updated(q)
  <2> HIDE DEF q
  <2> QED BY <1>4, <1>5 DEF Updated, Fits, Limited, Placed
<1>7. \A u \in Targets \ {t} : q.settled[u] = p.settled[u]
  BY <1>1, <1>4 DEF Productions
<1>8. Round(t, p) = Counted(t, q)
  BY <1>3 DEF Round
<1> HIDE DEF q
<1> QED BY <1>6, <1>7, <1>8, CountedFits

LEMMA SettleDoes ==
    ASSUME NEW k, Asking(k), Settle(k) PROVE Does(k)
<1> DEFINE t == Target(k)
<1>1. /\ At(k, "settle") /\ Apart /\ k = "levels" /\ t \in Names(Levels) /\ t \in Names(Rungs)
      /\ mem.settled[t] < SettleRounds /\ GoTo(k, "levels", Round(t, mem))
      /\ UNCHANGED <<unreached, begun>>
  BY AtALevel DEF Settle, AtEdition, StepsOf
<1>2. PICK carried \in {FALSE, ed[t].read} :
         /\ \E left \in Overlapping(ed[t].fixes) :
                ed' = [ed EXCEPT ![t] = [Rewritten(@, carried) EXCEPT !.fixes = left]]
         /\ job' = Rejudged(t, carried)
  BY DEF Settle
<1>3. PICK left \in Overlapping(ed[t].fixes) :
         ed' = [ed EXCEPT ![t] = [Rewritten(@, carried) EXCEPT !.fixes = left]]
  BY <1>2
<1>4. ed' = [ed EXCEPT ![t] = [Rewritten(ed[t], carried) EXCEPT !.fixes = left]]
  BY <1>3, EditionFits
<1>5. [Rewritten(ed[t], carried) EXCEPT !.fixes = left] \in Editions
  <2>1. ed[t] \in Editions /\ carried \in BOOLEAN
    BY EditionFits
  <2>2. left \in SUBSET Severities
    BY <2>1 DEF Overlapping, Editions
  <2>3. Rewritten(ed[t], carried) \in Editions
    BY <2>1, RewrittenFits
  <2> QED BY <2>2, <2>3 DEF Editions
<1>6. Turns(k)
  <2>1. "levels" \in StepsOf(k)
    BY <1>1 DEF StepsOf
  <2> QED BY <1>1, <2>1, AskingFacts, RoundFits, GoToTurns
<1>7. ed' \in [Names(Rungs) \cup Targets -> Editions]
  BY <1>4, <1>5, EditionFits
<1>8. job' \in [Jobs -> JobStates]
  BY <1>1, <1>2, EditionFits, RejudgedFits
<1> QED
  BY <1>1, <1>6, <1>7, <1>8 DEF Does, Apart, Asking, Typed, WorldOK, HappenedOK, happened

LEMMA RepairedFits ==
    ASSUME NEW k, Asking(k), k = "levels", NEW some \in SUBSET Paras
    PROVE  LET p == [mem EXCEPT !.repaired[Target(k)] = @ \cup some]
           IN  Updated(p) /\ p.settled = mem.settled
<1> DEFINE t == Target(k)
           repaired == [mem.repaired EXCEPT ![t] = @ \cup some]
           p == [mem EXCEPT !.repaired = repaired]
<1>1. t \in Names(Levels) /\ Updated(mem) /\ mem \in Productions
  BY AskingFacts DEF Fits
<1>2. repaired \in [Names(Levels) -> SUBSET Paras]
  BY <1>1 DEF Productions
<1>3. p = [mem EXCEPT !.repaired[t] = @ \cup some]
  BY <1>1 DEF Productions
<1>4. /\ p \in Productions
      /\ p.track = mem.track /\ p.outcome = mem.outcome /\ p.status = mem.status
      /\ p.signOff = mem.signOff /\ p.starts = mem.starts /\ p.settled = mem.settled
  <2> HIDE DEF repaired
  <2> QED BY <1>1, <1>2 DEF Productions
<1>5. Updated(p)
  <2> HIDE DEF p
  <2> QED BY <1>1, <1>4 DEF Updated, Fits, Limited, Placed
<1> QED BY <1>3, <1>4, <1>5

LEMMA RepairDoes ==
    ASSUME NEW k, Asking(k), Repair(k) PROVE Does(k)
<1> DEFINE t == Target(k)
           p == [mem EXCEPT !.repaired[t] = @ \cup ed[t].stuck]
<1>1. /\ At(k, "settle") /\ Apart /\ k = "levels" /\ t \in Names(Levels) /\ t \in Names(Rungs)
      /\ mem.settled[t] < SettleRounds
      /\ begun' = begun \cup {t} /\ UNCHANGED unreached
  BY AtALevel DEF Repair, AtEdition, StepsOf
<1>2. Updated(p) /\ p.settled = mem.settled
  <2>1. ed[t].stuck \in SUBSET Paras
    BY EditionFits DEF Editions
  <2> QED BY <1>1, <2>1, RepairedFits
<1>3. /\ Turns(k) /\ job' \in [Jobs -> JobStates]
      /\ ed' \in [Names(Rungs) \cup Targets -> Editions]
  <2>1. CASE GoTo(k, "verdict", p) /\ UNCHANGED <<ed, job>>
    <3>1. "verdict" \in StepsOf(k)
      BY <1>1 DEF StepsOf
    <3> QED BY <1>2, <2>1, <3>1, GoToTurns DEF Asking, Typed, WorldOK
  <2>2. CASE /\ GoTo(k, "levels", Round(t, p))
             /\ \E carried \in {FALSE, ed[t].read} :
                   ed' = [ed EXCEPT ![t] = Rewritten(@, carried)] /\ job' = Rejudged(t, carried)
    <3>1. PICK carried \in {FALSE, ed[t].read} :
             ed' = [ed EXCEPT ![t] = Rewritten(@, carried)] /\ job' = Rejudged(t, carried)
      BY <2>2
    <3>2. ed' = [ed EXCEPT ![t] = Rewritten(ed[t], carried)]
      BY <3>1, EditionFits
    <3>3. Rewritten(ed[t], carried) \in Editions
      BY EditionFits, RewrittenFits
    <3>4. ed' \in [Names(Rungs) \cup Targets -> Editions]
      BY <3>2, <3>3, EditionFits
    <3>5. "levels" \in StepsOf(k)
      BY <1>1 DEF StepsOf
    <3>6. Updated(Round(t, p))
      <4> HIDE DEF p
      <4> QED BY <1>1, <1>2, RoundFits
    <3>7. Turns(k)
      <4> HIDE DEF p
      <4> QED BY <2>2, <3>5, <3>6, GoToTurns
    <3> QED BY <1>1, <3>1, <3>4, <3>7, EditionFits, RejudgedFits
  <2> QED BY <2>1, <2>2 DEF Repair
<1> QED
  BY <1>1, <1>3, AskingFacts DEF Does, Apart, Asking, Typed, WorldOK, HappenedOK, happened

LEMMA RepairBreaksDoes ==
    ASSUME NEW k, Asking(k), RepairBreaks(k) PROVE Does(k)
<1> DEFINE t == Target(k)
<1>1. /\ At(k, "settle") /\ k = "levels" /\ t \in Names(Levels) /\ t \in Names(Rungs)
      /\ breaks < MaxBreaks /\ breaks' = breaks + 1
      /\ begun' = begun \cup {t} /\ torn' = torn \cup {t} /\ job' = Rejudged(t, FALSE)
      /\ ed' = [ed EXCEPT ![t] = Rewritten(@, FALSE)]
      /\ UNCHANGED <<row, source, unreached, hurt, crashes, edits, stalls>>
  BY AtALevel DEF RepairBreaks, AtEdition, StepsOf
<1>2. PICK some \in SUBSET Stuck(t) \ {Stuck(t), {}} :
         Raise(k, [mem EXCEPT !.repaired[t] = @ \cup some])
  BY DEF RepairBreaks
<1>3. some \in SUBSET Paras
  BY EditionFits DEF Editions, Stuck
<1>4. Turns(k)
  <2>1. Updated([mem EXCEPT !.repaired[t] = @ \cup some])
    BY <1>1, <1>3, RepairedFits
  <2> QED BY <1>2, <2>1, RaiseTurns
<1>5. ed' = [ed EXCEPT ![t] = Rewritten(ed[t], FALSE)]
  BY <1>1, EditionFits
<1>6. Rewritten(ed[t], FALSE) \in Editions
  BY EditionFits, RewrittenFits
<1>7. ed' \in [Names(Rungs) \cup Targets -> Editions]
  BY <1>5, <1>6, EditionFits
<1>8. job' \in [Jobs -> JobStates]
  BY <1>1, EditionFits, RejudgedFits
<1>9. torn' \subseteq Targets
  BY <1>1 DEF Asking, Typed, HappenedOK, Targets, Lists
<1>10. HappenedOK'
  BY <1>1, <1>9, BreaksFits DEF Asking
<1> QED
  BY ZenonT(40), <1>1, <1>10, <1>4, <1>7, <1>8, AskingFacts DEF Does, Asking, Typed, WorldOK

\* A passed verdict, and what _sign_off adds to it.
LEMMA SignedOffDoes ==
    ASSUME NEW k, Asking(k), NEW p, Updated(p), SignedOff(k, p)
    PROVE  Turns(k) /\ ed' \in [Names(Rungs) \cup Targets -> Editions]
<1>1. "promote" \in StepsOf(k) /\ "ready" \in Closings /\ "review" \in Closings
  BY DEF StepsOf, Closings, Promise!Good, Promise!Holds
<1>2. CASE Passed(k, p) /\ ed' = IF p.signOff THEN [ed EXCEPT ![Target(k)].text = "ready"] ELSE ed
  <2>1. Turns(k)
    BY <1>1, <1>2, GoToTurns, CloseTurns DEF Passed
  <2>2. [ed[Target(k)] EXCEPT !.text = "ready"] \in Editions
    BY EditionFits DEF Editions
  <2>3. [ed EXCEPT ![Target(k)].text = "ready"] \in [Names(Rungs) \cup Targets -> Editions]
    BY <2>2, EditionFits
  <2> QED BY <1>2, <2>1, <2>3, EditionFits
<1>3. CASE p.signOff /\ Close(k, "review", p) /\ UNCHANGED ed
  BY <1>1, <1>3, CloseTurns, EditionFits
<1> QED BY <1>2, <1>3 DEF SignedOff

LEMMA VerdictDoes ==
    ASSUME NEW k, Asking(k), Verdict(k) PROVE Does(k)
<1> DEFINE t == Target(k)
<1>1. /\ At(k, "verdict") /\ Apart /\ UNCHANGED <<job, unreached, begun>> /\ Updated(mem)
  BY AskingFacts DEF Verdict, AtEdition
<1>2. Turns(k) /\ ed' \in [Names(Rungs) \cup Targets -> Editions]
  <2>1. CASE SignedOff(k, mem)
    BY <1>1, <2>1, SignedOffDoes
  <2>2. CASE Close(k, IF ed[t].read THEN "gates" ELSE "unread", mem) /\ UNCHANGED ed
    <3>1. (IF ed[t].read THEN "gates" ELSE "unread") \in Closings
      BY DEF Closings, Promise!Holds
    <3> QED BY <1>1, <2>2, <3>1, CloseTurns, EditionFits
  <2> QED BY <2>1, <2>2 DEF Verdict
<1> QED
  BY <1>1, <1>2 DEF Does, Apart, Asking, Typed, WorldOK, HappenedOK, happened

LEMMA PromoteDoes ==
    ASSUME NEW k, Asking(k), Promote(k) PROVE Does(k)
<1> DEFINE t == Target(k)
           j == <<t, "promotion">>
           q == [mem EXCEPT !.promoted = @ \cup {t}]
<1>1. /\ At(k, "promote") /\ Apart /\ UNCHANGED <<ed, unreached, begun>> /\ Updated(mem)
  BY AskingFacts DEF Promote, AtEdition
<1>2. j \in Jobs /\ "promotion" \in Closings /\ "ready" \in Closings
  BY AskingFacts DEF Jobs, Closings, Promise!Good, Promise!Holds
<1>3. Updated(q)
  BY ZenonT(40), AskingFacts DEF Updated, Fits, Productions, Limited, Placed
<1>4. Turns(k) /\ job' \in [Jobs -> JobStates]
  <2>1. CASE Close(k, "promotion", mem) /\ UNCHANGED job
    BY <1>1, <1>2, <2>1, CloseTurns, EditionFits
  <2>2. CASE job' = [job EXCEPT ![j] = "active"] /\ Wait(k, q)
    BY <1>3, <2>2, WaitTurns, EditionFits DEF JobStates
  <2>3. CASE UNCHANGED job /\ Close(k, "ready", mem)
    BY <1>1, <1>2, <2>3, CloseTurns, EditionFits
  <2>4. CASE UNCHANGED job /\ Wait(k, mem)
    BY <1>1, <2>4, WaitTurns, EditionFits
  <2>5. \/ Close(k, "promotion", mem) /\ UNCHANGED job
        \/ job' = [job EXCEPT ![j] = "active"] /\ Wait(k, q)
        \/ UNCHANGED job /\ Close(k, "ready", mem)
        \/ UNCHANGED job /\ Wait(k, mem)
    BY DEF Promote
  <2> QED BY <2>1, <2>2, <2>3, <2>4, <2>5
<1> QED
  BY <1>1, <1>4 DEF Does, Apart, Asking, Typed, WorldOK, HappenedOK, happened

LEMMA TranslateDoes ==
    ASSUME NEW k, Asking(k), Translate(k) PROVE Does(k)
<1> DEFINE t == Target(k)
           j == <<t, "translation">>
           here == [mem EXCEPT !.editions = @ \cup {t}]
<1>1. /\ At(k, "translate") /\ Apart /\ UNCHANGED unreached
      /\ k = "languages" /\ t \in Names(Languages)
  BY AtALanguage DEF Translate, StepsOf
<1>2. Updated(here)
  BY ZenonT(40), AskingFacts DEF Updated, Fits, Productions, Limited, Placed
<1>3. j \in Jobs /\ Limit(j) = Starts /\ "review" \in StepsOf(k)
  BY <1>1 DEF Jobs, Limit, StepsOf
<1>4. CASE GoTo(k, "review", here) /\ UNCHANGED <<ed, job, begun>>
  BY <1>1, <1>2, <1>3, <1>4, GoToTurns DEF Does, Apart, Asking, Typed, WorldOK, HappenedOK, happened
<1>5. CASE /\ ed' = [ed EXCEPT ![t].text = "empty"]
           /\ IF job[j] = "active"
              THEN Wait(k, here) /\ UNCHANGED <<job, begun>>
              ELSE Start(k, j, Starts, here)
  <2>1. [ed[t] EXCEPT !.text = "empty"] \in Editions
    BY EditionFits DEF Editions
  <2>2. ed' \in [Names(Rungs) \cup Targets -> Editions]
    BY <1>5, <2>1, EditionFits
  <2> HIDE DEF here
  <2>3. /\ Turns(k) /\ job' \in [Jobs -> JobStates]
        /\ begun' = begun \/ begun' = begun \cup {t}
    BY <1>2, <1>3, <1>5, WaitTurns, StartTurns, EditionFits
  <2> QED
    BY <1>1, <2>2, <2>3, AskingFacts
       DEF Does, Apart, Asking, Typed, WorldOK, HappenedOK, happened
<1> QED BY <1>4, <1>5 DEF Translate

LEMMA ReviewDoes ==
    ASSUME NEW k, Asking(k), Review(k) PROVE Does(k)
<1> DEFINE j == <<Target(k), "review">>
<1>1. At(k, "review") /\ k = "languages" /\ Target(k) \in Names(Languages)
  BY AtALanguage DEF Review, AtEdition, StepsOf
<1>2. j \in Jobs /\ Limit(j) = Starts /\ "corrections" \in StepsOf(k) /\ Updated(mem)
  BY <1>1, AskingFacts DEF Jobs, Limit, StepsOf
<1>4. /\ Turns(k) /\ job' \in [Jobs -> JobStates]
      /\ begun' = begun \/ begun' = begun \cup {Target(k)}
  <2>1. CASE GoTo(k, "corrections", mem) /\ UNCHANGED <<job, begun>>
    BY <2>1, <1>2, GoToTurns DEF Asking, Typed, WorldOK
  <2>2. CASE Wait(k, mem) /\ UNCHANGED <<job, begun>>
    BY <2>2, <1>2, WaitTurns DEF Asking, Typed, WorldOK
  <2>4. CASE Start(k, j, Starts, mem)
    BY <2>4, <1>2, StartTurns
  <2> QED BY <2>1, <2>2, <2>4 DEF Review
<1>5. UNCHANGED <<ed, unreached>> /\ Apart
  BY DEF Review
<1> QED BY <1>4, <1>5, AskingFacts DEF Does, Apart, Asking, Typed, WorldOK, HappenedOK, happened

\* A language's one round of corrections.
LEMMA SettledFits ==
    ASSUME NEW k, Asking(k), k = "languages"
    PROVE  Updated([mem EXCEPT !.settled[Target(k)] = 1])
<1> DEFINE t == Target(k)
           q == [mem EXCEPT !.settled = [mem.settled EXCEPT ![t] = 1]]
<1>1. t \in Targets /\ t \in Names(Languages) /\ Updated(mem) /\ mem \in Productions
  BY AskingFacts DEF Fits
<1>2. [mem.settled EXCEPT ![t] = 1] \in [Targets -> Nat]
  BY <1>1 DEF Productions
<1>3. q = [mem EXCEPT !.settled[t] = 1]
  BY <1>1 DEF Productions
<1>4. /\ q \in Productions
      /\ q.track = mem.track /\ q.outcome = mem.outcome /\ q.status = mem.status
      /\ q.signOff = mem.signOff /\ q.starts = mem.starts
      /\ q.settled = [mem.settled EXCEPT ![t] = 1]
  BY <1>1, <1>2 DEF Productions
<1>5. \A u \in Targets : q.settled[u] <= Rounds(u)
  <2>1. Rounds(t) = 1
    BY <1>1, ProductionAssumption DEF Rounds, AskedInOrder
  <2> HIDE DEF q
  <2> QED BY <1>1, <1>4, <2>1 DEF Updated, Fits, Limited, Productions
<1>6. Updated(q)
  <2> HIDE DEF q
  <2> QED BY <1>1, <1>4, <1>5 DEF Updated, Fits, Limited, Placed
<1> QED BY <1>3, <1>6

LEMMA CorrectDoes ==
    ASSUME NEW k, Asking(k), Correct(k) PROVE Does(k)
<1> DEFINE t == Target(k)
<1>1. /\ At(k, "corrections") /\ k = "languages" /\ UNCHANGED <<job, unreached, begun>> /\ Apart
      /\ GoTo(k, "corrections", [mem EXCEPT !.settled[t] = 1])
  BY AtALanguage DEF Correct, AtEdition, StepsOf
<1>2. PICK left \in Overlapping(ed[t].fixes) :
         ed' = [ed EXCEPT ![t].fixes = left, ![t].audited = FALSE]
  BY DEF Correct
<1>3. [ed[t] EXCEPT !.fixes = left, !.audited = FALSE] \in Editions
  <2>1. left \in SUBSET Severities
    BY EditionFits DEF Overlapping, Editions
  <2> QED BY <2>1, EditionFits DEF Editions
<1>4. ed' = [ed EXCEPT ![t] = [ed[t] EXCEPT !.fixes = left, !.audited = FALSE]]
  BY <1>2, EditionFits
<1>5. ed' \in [Names(Rungs) \cup Targets -> Editions]
  BY <1>3, <1>4, EditionFits
<1>6. Turns(k)
  <2>1. "corrections" \in StepsOf(k)
    BY <1>1 DEF StepsOf
  <2> QED BY <1>1, <2>1, SettledFits, GoToTurns
<1> QED
  BY <1>1, <1>5, <1>6 DEF Does, Apart, Asking, Typed, WorldOK, HappenedOK, happened

LEMMA CorrectBreaksDoes ==
    ASSUME NEW k, Asking(k), CorrectBreaks(k) PROVE Does(k)
<1>1. /\ At(k, "corrections") /\ k = "languages" /\ Looks
      /\ breaks < MaxBreaks /\ breaks' = breaks + 1
      /\ UNCHANGED <<row, source, hurt, torn, crashes, edits, stalls>>
      /\ Raise(k, [mem EXCEPT !.settled[Target(k)] = 1])
  BY AtALanguage DEF CorrectBreaks, AtEdition, StepsOf
<1>2. Turns(k)
  BY <1>1, SettledFits, RaiseTurns
<1> QED BY <1>1, <1>2, BreaksFits DEF Does, Looks, Asking, Typed, WorldOK, HappenedOK

LEMMA CorrectionsDoes ==
    ASSUME NEW k, Asking(k), Corrections(k) PROVE Does(k)
<1> DEFINE p == [mem EXCEPT !.settled[Target(k)] = 1]
<1>1. /\ At(k, "corrections") /\ k = "languages" /\ UNCHANGED <<job, unreached, begun>> /\ Apart
  BY AtALanguage DEF Corrections, AtEdition, StepsOf
<1>2. Updated(p)
  BY <1>1, SettledFits
<1>3. SignedOff(k, p) \/ (Close(k, "gates", p) /\ UNCHANGED ed)
  BY DEF Corrections
<1>4. "gates" \in Closings
  BY DEF Closings, Promise!Holds
<1>5. Turns(k) /\ ed' \in [Names(Rungs) \cup Targets -> Editions]
  <2> HIDE DEF p
  <2> QED BY <1>2, <1>3, <1>4, SignedOffDoes, CloseTurns, EditionFits
<1> QED
  BY <1>1, <1>5 DEF Does, Apart, Asking, Typed, WorldOK, HappenedOK, happened

LEMMA RefusedDoes ==
    ASSUME NEW k, Asking(k), Refused(k) PROVE Does(k)
<1>1. Close(k, "refused", mem) /\ Looks /\ Apart
  BY DEF Refused
<1>2. "refused" \in Closings
  BY DEF Closings, Promise!Holds
<1> QED BY <1>1, <1>2, AskingFacts, CloseTurns, LooksDoes

LEMMA EditionGoneDoes ==
    ASSUME NEW k, Asking(k), EditionGone(k) PROVE Does(k)
<1>1. Raise(k, mem) /\ Looks /\ Apart
  BY DEF EditionGone
<1> QED BY <1>1, AskingFacts, RaiseTurns, LooksDoes

LEMMA BreakDoes ==
    ASSUME NEW k, Asking(k), Break(k) PROVE Does(k)
<1>1. /\ Raise(k, mem) /\ Looks /\ breaks < MaxBreaks /\ breaks' = breaks + 1
      /\ UNCHANGED <<row, source, hurt, torn, crashes, edits, stalls>>
  BY DEF Break
<1>2. Turns(k)
  BY <1>1, AskingFacts, RaiseTurns
<1> QED BY <1>1, <1>2, BreaksFits DEF Does, Looks, Asking, Typed, WorldOK, HappenedOK

--------------------------------------------------------------------------------
(* Types.                                                                    *)

\* Production n is m with the target of track k closed as o.
ClosedBy(m, n, k, o) ==
    LET at == m.track[k].index
        stops == k = "levels" /\ o \notin Promise!Good
        for == IF o = "not_reached" THEN "not_reached" ELSE "not_attempted"
    IN
    /\ n.track[k].index = IF stops THEN Len(Lists[k]) + 1 ELSE at + 1
    /\ ~stops => n.track[k].step = FirstStep(k)
    /\ \A t \in Targets : n.outcome[t] =
          IF t = Lists[k][at] THEN o
          ELSE IF stops /\ t \in {Lists[k][i] : i \in at + 1 .. Len(Lists[k])} THEN for
          ELSE m.outcome[t]

LEMMA TurnsFits ==
    ASSUME NEW k, Asking(k), Turns(k)
    PROVE  /\ Fits(mem')
           /\ tick' \in [open : BOOLEAN, todo : SUBSET Tracks, moved : SUBSET Tracks]
           /\ tick'.open = tick.open /\ tick'.todo = tick.todo \ {k}
           /\ mem'.status = mem.status /\ mem'.signOff = mem.signOff
           /\ \A l \in Tracks \ {k} : mem'.track[l] = mem.track[l]
           /\ \/ mem'.outcome = mem.outcome /\ mem'.track[k].index = mem.track[k].index
              \/ \E o \in Closings : ClosedBy(mem, mem', k, o)
<1>1. PICK p \in Productions : Updated(p) /\ Turned(k, p)
  BY DEF Turns
<1>2. /\ Fits(p) /\ p.track = mem.track /\ p.outcome = mem.outcome
      /\ p.status = mem.status /\ p.signOff = mem.signOff
  BY <1>1 DEF Updated
<1>3. tick \in [open : BOOLEAN, todo : SUBSET Tracks, moved : SUBSET Tracks] /\ k \in Tracks
  BY DEF Asking, Typed
<1>4. ASSUME tick' = Stays(k) \/ tick' = Moved(k)
      PROVE  /\ tick' \in [open : BOOLEAN, todo : SUBSET Tracks, moved : SUBSET Tracks]
             /\ tick'.open = tick.open /\ tick'.todo = tick.todo \ {k}
  BY <1>3, <1>4 DEF Stays, Moved
<1>5. CASE \E s \in StepsOf(k) : GoTo(k, s, p)
  <2>1. PICK s \in StepsOf(k) : GoTo(k, s, p)
    BY <1>5
  <2>2. mem' = [p EXCEPT !.track[k] = [@ EXCEPT !.step = s, !.old = FALSE]] /\ tick' = Moved(k)
    BY <2>1 DEF GoTo
  <2>3. Fits(mem')
    BY <1>2, <1>3, <2>2, GoToFits
  <2>4. /\ mem'.outcome = p.outcome /\ mem'.status = p.status /\ mem'.signOff = p.signOff
        /\ mem'.track[k].index = p.track[k].index
        /\ \A l \in Tracks \ {k} : mem'.track[l] = p.track[l]
    BY <1>2, <1>3, <2>2 DEF Fits, Productions
  <2> QED BY <1>2, <1>4, <2>2, <2>3, <2>4
<1>6. CASE \E o \in Closings : Close(k, o, p)
  <2>1. PICK o \in Closings : Close(k, o, p)
    BY <1>6
  <2>2. ~Ended(p, k)
    BY <1>2, AskingFacts DEF Ended
  <2>3. /\ Fits(mem') /\ tick' = Moved(k)
        /\ \A l \in Tracks \ {k} : mem'.track[l] = p.track[l]
        /\ mem'.status = p.status /\ mem'.signOff = p.signOff
        /\ ClosedBy(p, mem', k, o)
    BY SMTT(30), <1>2, <1>3, <2>1, <2>2, CloseDoes DEF ClosedBy
  <2>4. ClosedBy(mem, mem', k, o)
    BY <1>2, <2>3 DEF ClosedBy
  <2> QED BY <1>2, <1>4, <2>3, <2>4
<1>7. CASE mem' = p /\ tick' = Stays(k)
  BY <1>2, <1>4, <1>7
<1> QED BY <1>1, <1>5, <1>6, <1>7 DEF Turned

LEMMA StepDoes ==
    ASSUME NEW k, Asking(k), Step(k) PROVE Does(k)
  BY ReadSourceDoes, ProbeNotNeededDoes, ProbeNotReachedDoes, ProbeAdoptsDoes, ProbeDoes,
     WriteWaitsDoes, WriteDoes, JudgeLevelsDoes, MendNothingDoes, MendDoes, MendEndsDoes, DropDoes,
     AuditDoes, SettleNothingDoes, SettleDoes, RepairDoes, VerdictDoes, PromoteDoes,
     TranslateDoes, ReviewDoes, CorrectDoes, CorrectionsDoes, RefusedDoes, EditionGoneDoes
  DEF Step

LEMMA FaultDoes ==
    ASSUME NEW k, Asking(k), Fault(k) PROVE Does(k) \/ DropDies(k)
  BY MendBreaksDoes, RepairBreaksDoes, CorrectBreaksDoes, BreakDoes DEF Fault

\* Only a track that is asked takes a step.
LEMMA OnlyTheAsked ==
    ASSUME NEW k, k \in Tracks, Step(k) \/ Fault(k)
    PROVE  tick.open /\ k \in tick.todo
  BY DEF Step, Fault, At, AtEdition, ReadSource, ProbeNotNeeded, ProbeNotReached, ProbeAdopts, Probe,
     WriteWaits, Write, JudgeLevels, MendNothing, Mend, MendEnds, Drop, Audit, SettleNothing, Settle,
     Repair, Verdict, Promote, Translate, Review, Correct, Corrections, Refused, EditionGone,
     MendBreaks, DropDies, RepairBreaks, CorrectBreaks, Break

LEMMA DoesTyped ==
    ASSUME NEW k, Asking(k), Does(k) PROVE Typed'
<1>1. /\ Fits(mem') /\ tick' \in [open : BOOLEAN, todo : SUBSET Tracks, moved : SUBSET Tracks]
      /\ tick'.open = tick.open /\ tick'.todo = tick.todo \ {k}
      /\ \A l \in Tracks \ {k} : mem'.track[l] = mem.track[l]
  BY TurnsFits DEF Does
<1>2. \A l \in tick'.todo : ~Ended(mem', l)
  BY <1>1 DEF Asking, Typed, Ended
<1> QED BY <1>1, <1>2 DEF Does, Asking, Typed, Fits, Placed, Limited

LEMMA ClosedFits ==
    /\ Closed \in [open : BOOLEAN, todo : SUBSET Tracks, moved : SUBSET Tracks]
    /\ Closed.todo = {} /\ ~Closed.open
  BY DEF Closed

LEMMA DropDiesTyped ==
    ASSUME NEW k, Asking(k), DropDies(k) PROVE Typed'
<1>1. /\ At(k, "mend") /\ Purge(Target(k)) /\ Target(k) \in Names(Levels)
      /\ crashes < MaxCrashes /\ crashes' = crashes + 1 /\ mem' = row /\ tick' = Closed
      /\ torn' = torn \cup {Target(k)}
      /\ UNCHANGED <<row, source, unreached, begun, hurt, breaks, edits, stalls>>
  BY AtALevel DEF DropDies, AtEdition, StepsOf
<1>2. HappenedOK'
  BY <1>1, ProductionAssumption DEF Asking, Typed, HappenedOK, Targets, Lists
<1> QED BY <1>1, <1>2, PurgeFits, ClosedFits DEF Asking, Typed, WorldOK, Fits, Placed, Limited

LEMMA StatusFits ==
    ASSUME NEW p, Fits(p), NEW s \in {"queued", "running", "succeeded", "failed"}
    PROVE  /\ Fits([p EXCEPT !.status = s])
           /\ [p EXCEPT !.status = s].track = p.track
           /\ [p EXCEPT !.status = s].outcome = p.outcome
           /\ [p EXCEPT !.status = s].status = s
           /\ [p EXCEPT !.status = s].signOff = p.signOff
           /\ [p EXCEPT !.status = s].settled = p.settled
<1> DEFINE q == [p EXCEPT !.status = s]
<1>1. /\ q \in Productions
      /\ q.track = p.track /\ q.outcome = p.outcome /\ q.starts = p.starts /\ q.settled = p.settled
      /\ q.status = s /\ q.signOff = p.signOff
  BY DEF Fits, Productions
<1>2. Fits(q)
  <2> HIDE DEF q
  <2> QED BY <1>1 DEF Fits, Limited, Placed
<1> QED BY <1>1, <1>2

LEMMA BeginTyped ==
    ASSUME Typed, Begin PROVE Typed'
<1> DEFINE p == [row EXCEPT !.status = "running"]
           q == [row EXCEPT !.status = "running", !.rights = TRUE]
<1>1. /\ mem' = q /\ UNCHANGED <<row, world, happened>>
      /\ tick' = [open |-> TRUE, todo |-> {k \in Tracks : ~Ended(row, k)}, moved |-> {}]
  BY DEF Begin
<1>2. Fits(q) /\ q.track = row.track
  <2>1. /\ q \in Productions
        /\ q.track = row.track /\ q.starts = row.starts /\ q.settled = row.settled
    BY DEF Typed, Fits, Productions
  <2> HIDE DEF q
  <2> QED BY <2>1 DEF Typed, Fits, Limited, Placed
<1>3. tick' \in [open : BOOLEAN, todo : SUBSET Tracks, moved : SUBSET Tracks]
  BY <1>1
<1>4. \A k \in tick'.todo : ~Ended(mem', k)
  <2> HIDE DEF q
  <2> QED BY <1>1, <1>2 DEF Ended
<1> HIDE DEF q
<1> QED BY <1>1, <1>2, <1>3, <1>4 DEF Typed, WorldOK, HappenedOK, Fits, Placed, Limited, world, happened

LEMMA CrashTyped ==
    ASSUME Typed, Crash PROVE Typed'
<1>1. HappenedOK'
  <2>1. LosesSight \subseteq Targets
    BY DEF LosesSight, Targets, Lists
  <2> QED BY <2>1, ProductionAssumption DEF Crash, Typed, HappenedOK
<1> QED BY <1>1, ClosedFits DEF Crash, Typed, WorldOK, Fits, Placed, Limited, world

LEMMA TimePassesTyped ==
    ASSUME Typed, NEW k \in Tracks, TimePasses(k) PROVE Typed'
<1> DEFINE old(p) == [p EXCEPT !.track[k].old = TRUE]
<1>1. /\ row' = old(row) /\ mem' = (IF mem.track[k] = row.track[k] THEN old(mem) ELSE mem)
      /\ UNCHANGED <<tick, world, happened>>
  BY DEF TimePasses
<1>2. Fits(old(row)) /\ Fits(old(mem))
  BY WaitFits DEF Typed
<1>3. \A l \in Tracks : mem'.track[l].index = mem.track[l].index
  BY <1>1 DEF Typed, Fits, Productions
<1>4. \A l \in tick.todo : ~Ended(mem', l)
  BY <1>3 DEF Typed, Ended
<1> HIDE DEF old
<1>5. Fits(row') /\ Fits(mem')
  BY <1>1, <1>2 DEF Typed
<1> QED BY <1>1, <1>4, <1>5 DEF Typed, WorldOK, HappenedOK, Fits, Placed, Limited, world, happened

LEMMA ElsewhereTyped ==
    ASSUME Typed, Elsewhere, source'.read \in BOOLEAN, source'.rungs = source.rungs,
           ed' \in [Names(Rungs) \cup Targets -> Editions], job' \in [Jobs -> JobStates],
           HappenedOK'
    PROVE  Typed'
  BY DEF Typed, Elsewhere, WorldOK, Fits, Placed, Limited, Ended

\* The edition of a job that is not the source's, a probe or a promotion.
LEMMA JobOfAnEdition ==
    ASSUME NEW j \in Jobs
    PROVE  /\ j[1] \in Targets \cup Names(Rungs) \cup {Source}
           /\ j[1] # Source \/ j[2] # "analysis" => j[1] \in Names(Rungs) \cup Targets
           /\ j[1] # Source /\ j[2] = "analysis" => <<j[1], "analysis">> \in Jobs
           /\ j[2] = "book" => <<j[1], "analysis">> \in Jobs /\ j[1] \in Names(Rungs)
  BY DEF Jobs, Targets

LEMMA DoneTyped ==
    ASSUME Typed, NEW j \in Jobs, Done(j) PROVE Typed'
<1> DEFINE t == j[1]
<1>1. Elsewhere /\ UNCHANGED happened
  BY DEF Done
<1>2. /\ ed \in [Names(Rungs) \cup Targets -> Editions] /\ job \in [Jobs -> JobStates]
      /\ source.read \in BOOLEAN
  BY DEF Typed, WorldOK
<1>3. ASSUME NEW e \in Editions, t \in Names(Rungs) \cup Targets, ed' = [ed EXCEPT ![t] = e]
      PROVE  ed' \in [Names(Rungs) \cup Targets -> Editions]
  BY <1>2, <1>3
<1>4. /\ source'.read \in BOOLEAN /\ source'.rungs = source.rungs
      /\ ed' \in [Names(Rungs) \cup Targets -> Editions] /\ job' \in [Jobs -> JobStates]
  <2>1. CASE /\ source' = [source EXCEPT !.read = TRUE]
             /\ job' = [job EXCEPT ![j] = "done"] /\ UNCHANGED ed
    <3>1. source'.read \in BOOLEAN /\ source'.rungs = source.rungs
      BY <1>2, <2>1
    <3> QED BY <1>2, <2>1, <3>1 DEF JobStates
  <2>2. CASE /\ \E verdict \in {"done", "declined"} : job' = [job EXCEPT ![j] = verdict]
             /\ UNCHANGED <<source, ed>>
    BY <1>2, <2>2 DEF JobStates
  <2>3. CASE /\ j[2] = "book" /\ UNCHANGED source
             /\ ed' = [ed EXCEPT ![t].text = "review"]
             /\ job' = [job EXCEPT ![j] = "done", ![<<t, "analysis">>] = "active"]
    <3>1. t \in Names(Rungs) \cup Targets
      BY <2>3, JobOfAnEdition
    <3>2. [ed[t] EXCEPT !.text = "review"] \in Editions
      BY <1>2, <3>1 DEF Editions
    <3> QED BY <1>2, <1>3, <2>3, <3>1, <3>2 DEF JobStates
  <2>4. CASE /\ j[2] = "analysis" /\ t # Source /\ UNCHANGED source
             /\ \E above \in SUBSET Chapters, over \in BOOLEAN :
                   ed' = [ed EXCEPT ![t].read = TRUE, ![t].above = above, ![t].over = over]
             /\ job' = [job EXCEPT ![j] = "done"]
    <3>1. PICK above \in SUBSET Chapters, over \in BOOLEAN :
             ed' = [ed EXCEPT ![t].read = TRUE, ![t].above = above, ![t].over = over]
      BY <2>4
    <3>2. t \in Names(Rungs) \cup Targets
      BY <2>4, JobOfAnEdition
    <3>5. ed[t] \in Editions
      BY <1>2, <3>2
    <3>3. [ed[t] EXCEPT !.read = TRUE, !.above = above, !.over = over] \in Editions
      BY <3>1, <3>5 DEF Editions
    <3>4. ed' = [ed EXCEPT ![t] = [ed[t] EXCEPT !.read = TRUE, !.above = above, !.over = over]]
      BY <1>2, <3>1, <3>2
    <3> QED BY <1>2, <1>3, <2>4, <3>2, <3>3, <3>4 DEF JobStates
  <2>5. CASE /\ j[2] = "translation" /\ UNCHANGED source
             /\ ed' = [ed EXCEPT ![t].text = "review"]
             /\ job' = [job EXCEPT ![j] = "done"]
    <3>1. t \in Names(Rungs) \cup Targets
      BY <2>5, JobOfAnEdition
    <3>2. [ed[t] EXCEPT !.text = "review"] \in Editions
      BY <1>2, <3>1 DEF Editions
    <3> QED BY <1>2, <1>3, <2>5, <3>1, <3>2 DEF JobStates
  <2>6. CASE /\ j[2] \in {"audit", "review"} /\ UNCHANGED source
             /\ \E fixes \in SUBSET Severities, stuck \in SUBSET Paras, alone \in BOOLEAN :
                   ed' = [ed EXCEPT ![t] = Findings(@, fixes, stuck, alone)]
             /\ job' = [job EXCEPT ![j] = "done"]
    <3>1. PICK fixes \in SUBSET Severities, stuck \in SUBSET Paras, alone \in BOOLEAN :
             ed' = [ed EXCEPT ![t] = Findings(@, fixes, stuck, alone)]
      BY <2>6
    <3>2. t \in Names(Rungs) \cup Targets
      BY <2>6, JobOfAnEdition
    <3>5. ed[t] \in Editions
      BY <1>2, <3>2
    <3>3. Findings(ed[t], fixes, stuck, alone) \in Editions
      BY <3>1, <3>5 DEF Editions, Findings
    <3>4. ed' = [ed EXCEPT ![t] = Findings(ed[t], fixes, stuck, alone)]
      BY <1>2, <3>1, <3>2
    <3> QED BY <1>2, <1>3, <2>6, <3>2, <3>3, <3>4 DEF JobStates
  <2>7. CASE job' = [job EXCEPT ![j] = "done"] /\ UNCHANGED <<source, ed>>
    BY <1>2, <2>7 DEF JobStates
  <2> QED BY <2>1, <2>2, <2>3, <2>4, <2>5, <2>6, <2>7 DEF Done
<1> QED BY <1>1, <1>4, ElsewhereTyped DEF Typed, HappenedOK, happened

LEMMA OutsideTyped ==
    ASSUME Typed, NEW j \in Jobs, Outside(j) PROVE Typed'
<1>1. /\ ed \in [Names(Rungs) \cup Targets -> Editions] /\ job \in [Jobs -> JobStates]
      /\ source.read \in BOOLEAN /\ HappenedOK
  BY DEF Typed, WorldOK
<1>2. CASE Taken(j) \/ Abandoned(j) \/ EndsStale(j)
  <2>1. /\ job' \in [Jobs -> JobStates] /\ UNCHANGED <<source, ed>> /\ UNCHANGED happened /\ Elsewhere
    BY <1>1, <1>2 DEF Taken, Abandoned, EndsStale, JobStates
  <2> QED BY <1>1, <2>1, ElsewhereTyped DEF HappenedOK, happened
<1>3. CASE Fails(j)
  <2>1. PICK how \in {"failed", "refused"} : job' = [job EXCEPT ![j] = how]
    BY <1>3 DEF Fails
  <2>2. /\ hurt' = hurt \cup {j[1]} /\ UNCHANGED <<source, ed, torn, crashes, breaks, edits, stalls>>
        /\ Elsewhere
    BY <1>3 DEF Fails
  <2>3. HappenedOK'
    BY <1>1, <2>2, JobOfAnEdition DEF HappenedOK
  <2>4. job' \in [Jobs -> JobStates]
    BY <1>1, <2>1 DEF JobStates
  <2> QED BY <1>1, <2>2, <2>3, <2>4, ElsewhereTyped
<1>4. CASE GoesSilent(j)
  <2>2. /\ hurt' = hurt \cup {j[1]} /\ UNCHANGED <<source, ed, torn, crashes, breaks, edits>>
        /\ Elsewhere
        /\ stalls < MaxStalls /\ stalls' = stalls + 1 /\ job' = [job EXCEPT ![j] = "stalled"]
    BY <1>4 DEF GoesSilent
  <2>1. hurt' \subseteq Targets \cup Names(Rungs) \cup {Source}
    BY <1>1, <2>2, JobOfAnEdition DEF HappenedOK
  <2>3. HappenedOK'
    BY <1>1, <2>1, <2>2, ProductionAssumption DEF HappenedOK
  <2>4. job' \in [Jobs -> JobStates]
    BY <1>1, <2>2 DEF JobStates
  <2> QED BY <1>1, <2>2, <2>3, <2>4, ElsewhereTyped
<1> QED BY <1>2, <1>3, <1>4, DoneTyped DEF Outside

LEMMA HumanEditTyped ==
    ASSUME Typed, NEW t \in Targets, HumanEdit(t) PROVE Typed'
<1>1. /\ ed \in [Names(Rungs) \cup Targets -> Editions] /\ job \in [Jobs -> JobStates]
      /\ source.read \in BOOLEAN /\ HappenedOK
  BY DEF Typed, WorldOK
<1>2. /\ edits < MaxEdits /\ edits' = edits + 1 /\ hurt' = hurt \cup {t} /\ torn' = torn \cup {t}
      /\ UNCHANGED <<source, crashes, breaks, stalls>> /\ Elsewhere
  BY DEF HumanEdit
<1>3. PICK carried \in {FALSE, ed[t].read} :
         /\ ed' = [ed EXCEPT ![t] = Rewritten(@, carried)]
         /\ job' = [j \in Jobs |->
                       IF job[j] = "refused" THEN job[j]
                       ELSE IF j \in {<<t, "audit">>, <<t, "review">>} /\ job[j] \in {"active", "stalled"} THEN "void"
                       ELSE IF j \in {<<t, "audit">>, <<t, "review">>} THEN "none"
                       ELSE IF j = <<t, "analysis">> /\ ~carried /\ job[j] # "none" THEN "active"
                       ELSE job[j]]
  BY DEF HumanEdit
<1>4. ed[t] \in Editions /\ carried \in BOOLEAN
  BY <1>1 DEF Editions
<1>5. ed' = [ed EXCEPT ![t] = Rewritten(ed[t], carried)]
  BY <1>1, <1>3
<1>6. Rewritten(ed[t], carried) \in Editions
  BY <1>4, RewrittenFits
<1>7. ed' \in [Names(Rungs) \cup Targets -> Editions]
  BY <1>1, <1>5, <1>6
<1>8. job' \in [Jobs -> JobStates]
  BY <1>1, <1>3 DEF JobStates
<1>9. HappenedOK'
  BY <1>1, <1>2, ProductionAssumption DEF HappenedOK
<1> QED BY <1>1, <1>2, <1>7, <1>8, <1>9, ElsewhereTyped

--------------------------------------------------------------------------------
(* The ladder.                                                               *)

\* What is decided lies behind the cursors of p, and nothing else is.
Decided(p) ==
    \A k \in Tracks : \A i \in 1 .. Len(Lists[k]) :
        (p.outcome[Lists[k][i]] = "open") <=> (i >= p.track[k].index)

\* While a ladder is descended, what is above its cursor is good.
GoodAbove(p) ==
    "levels" \in Tracks /\ ~Ended(p, "levels") =>
        \A i \in 1 .. Len(Levels) : i < p.track["levels"].index => p.outcome[Levels[i]] \in Promise!Good

\* The outcomes of a rung and of one below it.
Follows(a, b) ==
    /\ a = "open" => b = "open"
    /\ a = "not_reached" => b = "not_reached"
    /\ a \in Promise!Holds \cup {"not_attempted"} => b = "not_attempted"

Ordered(o) ==
    /\ \A i, j \in 1 .. Len(Levels) : i < j => Follows(o[Levels[i]], o[Levels[j]])
    /\ \A t \in Names(Languages) :
          o[t] = "not_attempted" => \E u \in Targets : o[u] = "rights"

Rests(p) == Decided(p) /\ GoodAbove(p) /\ Ordered(p.outcome)

\* The row is closed when its targets are, and nothing is decided while it is queued.
RowStands ==
    /\ IF Finished(row) THEN row.status = Promise!StatusOf(row.outcome)
       ELSE row.status \in {"queued", "running"}
    /\ row.status = "queued" => \A k \in Tracks : row.track[k].index = 1

\* The tick's copy is ahead of the row by what the tracks that were asked have done.
Ahead ==
    /\ \A t \in Targets : row.outcome[t] # "open" => mem.outcome[t] = row.outcome[t]
    /\ \A k \in tick.todo : mem.track[k].index = row.track[k].index
    /\ tick.open => mem.status = "running"

Descending == Typed /\ Rests(row) /\ Rests(mem) /\ RowStands /\ Ahead

LEMMA LevelList == Levels \in Seq(STRING) /\ Len(Levels) \in Nat /\ DOMAIN Levels = 1 .. Len(Levels)
  BY ProductionAssumption

LEMMA OrderedIsDescended ==
    ASSUME NEW o, Ordered(o)
    PROVE  Promise!Descended(o)
<1>1. Promise!Targets = Targets /\ Promise!Names(Languages) = Names(Languages)
  BY DEF Promise!Targets, Promise!Names, Targets, Names
<1>2. ASSUME NEW t \in Targets, NEW u \in Promise!Above(t) PROVE Follows(o[u], o[t])
  <2>1. PICK i \in DOMAIN Levels : u = Levels[i] /\ \E j \in DOMAIN Levels : i < j /\ Levels[j] = t
    BY <1>2 DEF Promise!Above
  <2>2. PICK j \in DOMAIN Levels : i < j /\ Levels[j] = t
    BY <2>1
  <2> QED BY <2>1, <2>2, LevelList DEF Ordered
<1> QED BY <1>1, <1>2 DEF Promise!Descended, Follows, Ordered

\* Closing a target of a production at rest leaves it at rest.
LEMMA ClosedRests ==
    ASSUME NEW m, NEW n, Fits(m), Fits(n), Rests(m), NEW k \in Tracks, ~Ended(m, k),
           NEW o \in Closings, ClosedBy(m, n, k, o),
           \A l \in Tracks \ {k} : n.track[l] = m.track[l]
    PROVE  /\ Rests(n)
           /\ \A t \in Targets : m.outcome[t] # "open" => n.outcome[t] = m.outcome[t]
<1> DEFINE at == m.track[k].index
           stops == k = "levels" /\ o \notin Promise!Good
           for == IF o = "not_reached" THEN "not_reached" ELSE "not_attempted"
           len == Len(Lists[k])
<1>1. at \in 1 .. len /\ len \in Nat
  BY ListFacts DEF Fits, Placed, Ended
<1>2. n.track[k].index = IF stops THEN len + 1 ELSE at + 1
  BY DEF ClosedBy
<1>3. /\ n.outcome[Lists[k][at]] = o
      /\ \A i \in 1 .. len : i > at => n.outcome[Lists[k][i]] = IF stops THEN for ELSE m.outcome[Lists[k][i]]
      /\ \A i \in 1 .. len : i < at => n.outcome[Lists[k][i]] = m.outcome[Lists[k][i]]
  <2>1. \A i, j \in 1 .. len : Lists[k][i] = Lists[k][j] => i = j
    BY OnePlace
  <2>2. \A i \in 1 .. len : Lists[k][i] \in Targets
    BY ListFacts
  <2>3. \A i \in 1 .. len : Lists[k][i] \in {Lists[k][x] : x \in at + 1 .. len} <=> i > at
    BY <1>1, <2>1
  <2>4. \A t \in Targets : n.outcome[t] =
          IF t = Lists[k][at] THEN o
          ELSE IF stops /\ t \in {Lists[k][i] : i \in at + 1 .. len} THEN for ELSE m.outcome[t]
    BY DEF ClosedBy
  <2> HIDE DEF at, stops, for, len
  <2> QED BY <1>1, <2>1, <2>2, <2>3, <2>4
<1>4. ASSUME NEW l \in Tracks \ {k}, NEW i \in 1 .. Len(Lists[l])
      PROVE  n.outcome[Lists[l][i]] = m.outcome[Lists[l][i]]
  <2>1. Lists[l][i] \in Targets
    BY ListFacts
  <2>2. \A j \in 1 .. len : Lists[k][j] # Lists[l][i]
    BY OnePlace
  <2> QED BY SMTT(30), <1>1, <2>1, <2>2 DEF ClosedBy
<1>5. o # "open" /\ for # "open" /\ o # "not_attempted"
  BY DEF Closings, Promise!Good, Promise!Holds
<1>6. Decided(n)
  <2> SUFFICES ASSUME NEW l \in Tracks, NEW i \in 1 .. Len(Lists[l])
               PROVE  (n.outcome[Lists[l][i]] = "open") <=> (i >= n.track[l].index)
    BY DEF Decided
  <2>1. (m.outcome[Lists[l][i]] = "open") <=> (i >= m.track[l].index)
    BY DEF Rests, Decided
  <2>2. CASE l # k
    BY <1>4, <2>1, <2>2
  <2>3. CASE l = k
    <3> HIDE DEF stops, for
    <3>1. CASE i = at
      BY <1>1, <1>2, <1>3, <1>5, <2>3, <3>1
    <3>2. CASE i > at
      BY <1>1, <1>2, <1>3, <1>5, <2>1, <2>3, <3>2
    <3>3. CASE i < at
      BY <1>1, <1>2, <1>3, <2>1, <2>3, <3>3
    <3> QED BY <1>1, <2>3, <3>1, <3>2, <3>3
  <2> QED BY <2>2, <2>3
<1>7. ASSUME k = "levels"
      PROVE  Lists[k] = Levels /\ \A i \in 1 .. len : i < at => m.outcome[Levels[i]] \in Promise!Good
  BY <1>7, ListFacts DEF Rests, GoodAbove
<1>8. GoodAbove(n)
  <2> SUFFICES ASSUME "levels" \in Tracks, ~Ended(n, "levels"), NEW i \in 1 .. Len(Levels),
                      i < n.track["levels"].index
               PROVE  n.outcome[Levels[i]] \in Promise!Good
    BY DEF GoodAbove
  <2>0. Lists["levels"] = Levels
    BY ListFacts
  <2>1. CASE k = "levels"
    <3>1. ~stops
      BY <1>2, <2>0, <2>1 DEF Ended
    <3>2. o \in Promise!Good /\ i < at + 1
      BY <1>2, <2>1, <3>1
    <3> HIDE DEF stops
    <3>3. CASE i = at
      BY <1>3, <1>7, <2>1, <3>2, <3>3
    <3>4. CASE i < at
      BY <1>3, <1>7, <2>0, <2>1, <3>4
    <3> QED BY <1>1, <3>2, <3>3, <3>4
  <2>2. CASE k # "levels"
    <3>1. n.outcome[Levels[i]] = m.outcome[Levels[i]] /\ n.track["levels"] = m.track["levels"]
      BY <1>4, <2>0, <2>2
    <3> QED BY <3>1 DEF Rests, GoodAbove, Ended
  <2> QED BY <2>1, <2>2
<1>9. \A i, j \in 1 .. Len(Levels) : i < j => Follows(n.outcome[Levels[i]], n.outcome[Levels[j]])
  <2> SUFFICES ASSUME NEW i \in 1 .. Len(Levels), NEW j \in 1 .. Len(Levels), i < j
               PROVE  Follows(n.outcome[Levels[i]], n.outcome[Levels[j]])
    OBVIOUS
  <2>0. "levels" \in Tracks /\ Lists["levels"] = Levels
    <3>1. Levels # <<>>
      BY LevelList
    <3> QED BY <3>1 DEF Tracks, Lists
  <2>1. CASE k # "levels"
    <3>1. n.outcome[Levels[i]] = m.outcome[Levels[i]] /\ n.outcome[Levels[j]] = m.outcome[Levels[j]]
      BY <1>4, <2>0, <2>1
    <3> QED BY <3>1 DEF Rests, Ordered
  <2>2. CASE k = "levels"
    <3>1. CASE i < at
      <4>1. n.outcome[Levels[i]] \in Promise!Good
        BY <1>3, <1>7, <2>0, <2>2, <3>1
      <4> QED BY <4>1 DEF Follows, Promise!Good, Promise!Holds
    <3>2. CASE i = at /\ stops
      <4>1. n.outcome[Levels[i]] = o /\ n.outcome[Levels[j]] = for
        BY <1>1, <1>3, <2>0, <2>2, <3>2
      <4> QED BY <1>5, <3>2, <4>1 DEF Follows, Closings, Promise!Holds, Promise!Good
    <3>3. CASE i = at /\ ~stops
      <4>1. n.outcome[Levels[i]] \in Promise!Good
        BY <1>1, <1>3, <2>0, <2>2, <3>3
      <4> QED BY <4>1 DEF Follows, Promise!Good, Promise!Holds
    <3>4. CASE i > at /\ stops
      <4>1. n.outcome[Levels[i]] = for /\ n.outcome[Levels[j]] = for
        BY <1>1, <1>3, <2>0, <2>2, <3>4
      <4> QED BY <4>1 DEF Follows, Promise!Holds
    <3>5. CASE i > at /\ ~stops
      <4>1. n.outcome[Levels[i]] = m.outcome[Levels[i]] /\ n.outcome[Levels[j]] = m.outcome[Levels[j]]
        BY <1>1, <1>3, <2>0, <2>2, <3>5
      <4> QED BY <4>1 DEF Rests, Ordered
    <3> QED BY <1>1, <3>1, <3>2, <3>3, <3>4, <3>5
  <2> QED BY <2>1, <2>2
<1>10. \A t \in Targets : m.outcome[t] # "open" => n.outcome[t] = m.outcome[t]
  <2> SUFFICES ASSUME NEW t \in Targets, m.outcome[t] # "open" PROVE n.outcome[t] = m.outcome[t]
    OBVIOUS
  <2>1. PICK l \in Tracks : \E i \in 1 .. Len(Lists[l]) : t = Lists[l][i]
    BY EveryPlace
  <2>2. PICK i \in 1 .. Len(Lists[l]) : t = Lists[l][i]
    BY <2>1
  <2>3. i < m.track[l].index
    <3>1. m.track[l].index \in Nat
      BY ListFacts DEF Fits, Placed
    <3> QED BY <2>2, <3>1 DEF Rests, Decided
  <2> QED BY <1>3, <1>4, <2>2, <2>3
<1>11. \A t \in Names(Languages) :
          n.outcome[t] = "not_attempted" => \E u \in Targets : n.outcome[u] = "rights"
  <2> SUFFICES ASSUME NEW t \in Names(Languages), n.outcome[t] = "not_attempted"
               PROVE  \E u \in Targets : n.outcome[u] = "rights"
    OBVIOUS
  <2>1. t \in Targets /\ t \notin Names(Levels)
    BY ProductionAssumption DEF Targets, AskedInOrder
  <2>2. n.outcome[t] = m.outcome[t]
    <3>1. stops => t \notin {Lists[k][i] : i \in at + 1 .. len}
      <4>1. stops => \A i \in 1 .. len : Lists[k][i] \in Names(Levels)
        BY ListFacts
      <4> QED BY <1>1, <2>1, <4>1
    <3>2. t = Lists[k][at] => n.outcome[t] = o
      BY <1>3
    <3> QED BY <1>5, <2>1, <3>1, <3>2 DEF ClosedBy
  <2>3. PICK u \in Targets : m.outcome[u] = "rights"
    BY <2>2 DEF Rests, Ordered
  <2> QED BY <1>10, <2>3
<1> QED BY <1>6, <1>8, <1>9, <1>10, <1>11 DEF Rests, Ordered

LEMMA RestsAsBefore ==
    ASSUME NEW m, NEW n, Rests(m), n.outcome = m.outcome,
           \A l \in Tracks : n.track[l].index = m.track[l].index
    PROVE  Rests(n)
  BY DEF Rests, Decided, GoodAbove, Ended

LEMMA DoesDescends ==
    ASSUME Descending, NEW k, Asking(k), Does(k) PROVE Descending'
<1>1. Typed' /\ row' = row /\ k \in Tracks
  BY DoesTyped DEF Does, Asking
<1>2. /\ Fits(mem) /\ Fits(mem') /\ tick'.open = tick.open /\ tick'.todo = tick.todo \ {k}
      /\ mem'.status = mem.status /\ ~Ended(mem, k)
      /\ \A l \in Tracks \ {k} : mem'.track[l] = mem.track[l]
      /\ \/ mem'.outcome = mem.outcome /\ mem'.track[k].index = mem.track[k].index
         \/ \E o \in Closings : ClosedBy(mem, mem', k, o)
  BY TurnsFits, AskingFacts DEF Does
<1>3. Rests(mem') /\ \A t \in Targets : mem.outcome[t] # "open" => mem'.outcome[t] = mem.outcome[t]
  <2>1. CASE mem'.outcome = mem.outcome /\ mem'.track[k].index = mem.track[k].index
    <3>1. \A l \in Tracks : mem'.track[l].index = mem.track[l].index
      BY <1>2, <2>1
    <3> QED BY <2>1, <3>1, RestsAsBefore DEF Descending
  <2>2. CASE \E o \in Closings : ClosedBy(mem, mem', k, o)
    BY <1>1, <1>2, <2>2, ClosedRests DEF Descending
  <2> QED BY <1>2, <2>1, <2>2
<1>4. Ahead'
  <2>1. tick'.todo \subseteq Tracks \ {k}
    BY <1>2 DEF Asking, Typed
  <2>2. \A t \in Targets : row'.outcome[t] # "open" => mem'.outcome[t] = row'.outcome[t]
    BY <1>1, <1>3 DEF Descending, Ahead
  <2>3. \A l \in tick'.todo : mem'.track[l].index = row'.track[l].index
    BY <1>1, <1>2, <2>1 DEF Descending, Ahead
  <2>4. tick'.open => mem'.status = "running"
    BY <1>2 DEF Descending, Ahead
  <2> QED BY <2>2, <2>3, <2>4 DEF Ahead
<1>5. Rests(row)' /\ RowStands'
  BY <1>1 DEF Descending, Rests, Decided, GoodAbove, Ordered, Ended, RowStands, Finished
<1> QED BY <1>1, <1>3, <1>4, <1>5 DEF Descending, Rests, Decided, GoodAbove, Ordered, Ended

\* The tick's copy is forgotten with the worker.
LEMMA ForgottenDescends ==
    ASSUME Descending, Typed', row' = row, mem' = row, tick' = Closed
    PROVE  Descending'
<1>1. Rests(row)' /\ Rests(mem)' /\ RowStands'
  BY DEF Descending, Rests, Decided, GoodAbove, Ordered, Ended, RowStands, Finished
<1>2. Ahead'
  BY ClosedFits DEF Ahead
<1> QED BY <1>1, <1>2 DEF Descending

LEMMA BeginDescends ==
    ASSUME Descending, Begin PROVE Descending'
<1> DEFINE q == [row EXCEPT !.status = "running", !.rights = TRUE]
<1>1. Typed' /\ row' = row
  BY BeginTyped DEF Descending, Begin, world
<1>2. mem' = q
  BY DEF Begin
<1>3. q.outcome = row.outcome /\ q.track = row.track /\ q.status = "running"
  BY DEF Descending, Typed, Fits, Productions
<1> HIDE DEF q
<1>4. Rests(mem')
  BY <1>2, <1>3, RestsAsBefore DEF Descending
<1>5. Ahead'
  BY <1>1, <1>2, <1>3 DEF Ahead
<1>6. Rests(row)' /\ RowStands'
  BY <1>1 DEF Descending, Rests, Decided, GoodAbove, Ordered, Ended, RowStands, Finished
<1> QED BY <1>1, <1>4, <1>5, <1>6 DEF Descending, Rests, Decided, GoodAbove, Ordered, Ended

\* A production with nothing left to ask has no open target.
LEMMA FinishedIsDecided ==
    ASSUME NEW p, Fits(p), Decided(p), Finished(p)
    PROVE  /\ \A t \in Targets : p.outcome[t] # "open"
           /\ Promise!StatusOf(p.outcome) \in {"succeeded", "failed"}
<1>1. ASSUME NEW t \in Targets PROVE p.outcome[t] # "open"
  <2>1. PICK k \in Tracks : \E i \in 1 .. Len(Lists[k]) : t = Lists[k][i]
    BY EveryPlace
  <2>2. PICK i \in 1 .. Len(Lists[k]) : t = Lists[k][i]
    BY <2>1
  <2>3. ~(i >= p.track[k].index)
    BY ListFacts DEF Finished, Ended, Fits, Placed
  <2> QED BY <2>2, <2>3 DEF Decided
<1>2. Promise!Targets = Targets
  BY DEF Promise!Targets, Promise!Names, Targets, Names
<1> QED BY <1>1, <1>2 DEF Promise!StatusOf

LEMMA UnfinishedIsOpen ==
    ASSUME NEW p, Fits(p), Decided(p), ~Finished(p)
    PROVE  Promise!StatusOf(p.outcome) = "open"
<1>1. PICK k \in Tracks : ~Ended(p, k)
  BY DEF Finished
<1>2. p.track[k].index \in 1 .. Len(Lists[k])
  BY <1>1, ListFacts DEF Fits, Placed, Ended
<1>3. p.outcome[Lists[k][p.track[k].index]] = "open" /\ Lists[k][p.track[k].index] \in Targets
  BY <1>2, ListFacts DEF Decided
<1>4. Promise!Targets = Targets
  BY DEF Promise!Targets, Promise!Names, Targets, Names
<1> QED BY <1>3, <1>4 DEF Promise!StatusOf

LEMMA SaveDescends ==
    ASSUME Descending, Save
    PROVE  /\ Descending'
           /\ row'.outcome = mem.outcome /\ row'.track = mem.track
           /\ row'.settled = mem.settled /\ row'.signOff = mem.signOff /\ mem' = row'
<1>1. /\ row' = (IF Finished(mem) THEN [mem EXCEPT !.status = Promise!StatusOf(mem.outcome)] ELSE mem)
      /\ mem' = row' /\ UNCHANGED <<world, happened>>
      /\ tick' = IF Finished(mem) \/ tick.moved = {} THEN Closed
                 ELSE [open |-> TRUE, moved |-> {}, todo |-> {k \in tick.moved : ~Ended(mem, k)}]
      /\ tick.open
  BY DEF Save
<1>2. Fits(mem) /\ Decided(mem) /\ Rests(mem) /\ mem.status = "running"
  BY <1>1 DEF Descending, Typed, Rests, Ahead
<1>3. /\ Fits(row') /\ row'.track = mem.track /\ row'.outcome = mem.outcome
      /\ row'.settled = mem.settled /\ row'.signOff = mem.signOff
      /\ row'.status = IF Finished(mem) THEN Promise!StatusOf(mem.outcome) ELSE "running"
  <2>1. CASE Finished(mem)
    <3>1. Promise!StatusOf(mem.outcome) \in {"queued", "running", "succeeded", "failed"}
      BY <1>2, <2>1, FinishedIsDecided
    <3> QED BY ZenonT(40), <1>1, <1>2, <2>1, <3>1, StatusFits
  <2>2. CASE ~Finished(mem)
    BY <1>1, <1>2, <2>2
  <2> QED BY <2>1, <2>2
<1>4. Rests(row')
  BY <1>2, <1>3, RestsAsBefore
<1>5. tick' \in [open : BOOLEAN, todo : SUBSET Tracks, moved : SUBSET Tracks]
      /\ (\A k \in tick'.todo : ~Ended(mem, k)) /\ (~tick'.open => tick'.todo = {})
      /\ (tick'.open => ~Finished(mem))
  <2>1. tick.moved \subseteq Tracks
    BY DEF Descending, Typed
  <2> QED BY <1>1, <2>1, ClosedFits
<1>6. Typed'
  <2>1. \A k \in tick'.todo : ~Ended(mem', k)
    BY <1>1, <1>3, <1>5 DEF Ended
  <2>2. Fits(row)' /\ Fits(mem)'
    BY <1>1, <1>3 DEF Fits, Placed, Limited
  <2>3. WorldOK' /\ HappenedOK' /\ source' = source
    BY <1>1 DEF Descending, Typed, WorldOK, HappenedOK, world, happened
  <2> QED BY <1>5, <2>1, <2>2, <2>3 DEF Descending, Typed
<1>7. RowStands'
  <2>1. Finished(row') <=> Finished(mem)
    BY <1>3 DEF Finished, Ended
  <2>2. row'.status # "queued"
    BY <1>2, <1>3, FinishedIsDecided
  <2>3. IF Finished(row') THEN row'.status = Promise!StatusOf(row'.outcome)
        ELSE row'.status \in {"queued", "running"}
    BY <1>3, <2>1
  <2> QED BY <2>2, <2>3 DEF RowStands, Finished, Ended
<1>8. Ahead'
  BY <1>1, <1>3, <1>5 DEF Ahead
<1>9. Rests(row)' /\ Rests(mem)'
  BY <1>1, <1>4 DEF Rests, Decided, GoodAbove, Ordered, Ended
<1> QED BY <1>1, <1>3, <1>6, <1>7, <1>8, <1>9 DEF Descending

LEMMA TimePassesDescends ==
    ASSUME Descending, NEW k \in Tracks, TimePasses(k)
    PROVE  /\ Descending'
           /\ row'.outcome = row.outcome /\ row'.status = row.status /\ row'.settled = row.settled
           /\ mem'.outcome = mem.outcome /\ mem'.settled = mem.settled
           /\ row'.signOff = row.signOff /\ mem'.signOff = mem.signOff
           /\ \A l \in Tracks : /\ row'.track[l].index = row.track[l].index
                                /\ row'.track[l].step = row.track[l].step
                                /\ mem'.track[l].index = mem.track[l].index
                                /\ mem'.track[l].step = mem.track[l].step
<1> DEFINE old(p) == [p EXCEPT !.track[k].old = TRUE]
<1>1. /\ row' = old(row) /\ mem' = (IF mem.track[k] = row.track[k] THEN old(mem) ELSE mem)
      /\ UNCHANGED <<tick, world, happened>>
  BY DEF TimePasses
<1>2. ASSUME NEW p, Fits(p)
      PROVE  /\ old(p).outcome = p.outcome /\ old(p).status = p.status /\ old(p).settled = p.settled
             /\ old(p).signOff = p.signOff
             /\ \A l \in Tracks : /\ old(p).track[l].index = p.track[l].index
                                  /\ old(p).track[l].step = p.track[l].step
  BY <1>2 DEF Fits, Productions
<1> HIDE DEF old
<1>3. Fits(row) /\ Fits(mem)
  BY DEF Descending, Typed
<1>4. /\ row'.outcome = row.outcome /\ row'.status = row.status /\ row'.settled = row.settled
      /\ mem'.outcome = mem.outcome /\ mem'.settled = mem.settled /\ mem'.status = mem.status
      /\ row'.signOff = row.signOff /\ mem'.signOff = mem.signOff
      /\ \A l \in Tracks : /\ row'.track[l].index = row.track[l].index
                           /\ row'.track[l].step = row.track[l].step
                           /\ mem'.track[l].index = mem.track[l].index
                           /\ mem'.track[l].step = mem.track[l].step
  BY <1>1, <1>2, <1>3
<1>5. Typed'
  BY TimePassesTyped DEF Descending
<1>6. Rests(row') /\ Rests(mem')
  BY <1>4, RestsAsBefore DEF Descending
<1>7. Rests(row)' /\ Rests(mem)'
  BY <1>6 DEF Rests, Decided, GoodAbove, Ordered, Ended
<1>8. RowStands' /\ Ahead'
  <2>1. tick' = tick /\ tick.todo \subseteq Tracks
    BY <1>1 DEF Descending, Typed
  <2>2. Finished(row') <=> Finished(row)
    BY <1>4 DEF Finished, Ended
  <2>3. RowStands'
    BY <1>4, <2>2 DEF Descending, RowStands, Finished, Ended
  <2> QED BY <1>4, <2>1, <2>3 DEF Descending, Ahead
<1> QED BY <1>4, <1>5, <1>7, <1>8 DEF Descending

\* The first of the targets, which a protected work is closed at.
LEMMA FirstTarget ==
    LET first == (Levels \o Languages)[1] IN
    /\ first \in Targets
    /\ Levels # <<>> => first = Levels[1]
<1>1. Levels \in Seq(STRING) /\ Languages \in Seq(STRING) /\ Levels \o Languages # <<>>
  BY ProductionAssumption DEF AskedInOrder
<1>2. CASE Levels # <<>>
  <2>1. 1 \in DOMAIN Levels /\ (Levels \o Languages)[1] = Levels[1]
    BY <1>1, <1>2
  <2> QED BY <1>2, <2>1 DEF Targets, Names
<1>3. CASE Levels = <<>>
  <2>1. 1 \in DOMAIN Languages /\ (Levels \o Languages)[1] = Languages[1]
    BY <1>1, <1>3
  <2> QED BY <1>3, <2>1 DEF Targets, Names
<1> QED BY <1>2, <1>3

LEMMA ProtectedDescends ==
    ASSUME Descending, Protected
    PROVE  /\ Descending'
           /\ \A t \in Targets : row.outcome[t] = "open"
           /\ \A t \in Targets : row'.outcome[t] \in {"rights", "not_attempted"}
           /\ row'.status = Promise!StatusOf(row'.outcome)
           /\ row'.settled = row.settled /\ mem' = row'
           /\ \A k \in Tracks : row'.track[k].index = Len(Lists[k]) + 1
<1> DEFINE first == (Levels \o Languages)[1]
           out == [t \in Targets |-> IF t = first THEN "rights" ELSE "not_attempted"]
           track == [k \in Tracks |-> [row.track[k] EXCEPT !.index = Len(Lists[k]) + 1]]
           q == [row EXCEPT !.status = "failed", !.outcome = out, !.track = track]
<1>1. /\ row.status = "queued" /\ ~tick.open /\ mem' = row'
      /\ row' = [row EXCEPT !.status = "failed",
                            !.outcome = [t \in Targets |-> IF t = first THEN "rights"
                                                           ELSE "not_attempted"],
                            !.track = [k \in Tracks |-> [@[k] EXCEPT !.index = Len(Lists[k]) + 1]]]
      /\ UNCHANGED <<tick, world, happened>>
  BY DEF Protected
<1>2. row' = q
  BY <1>1 DEF Descending, Typed, Fits, Productions
<1>3. first \in Targets /\ (Levels # <<>> => first = Levels[1])
  BY FirstTarget
<1>4. out \in [Targets -> Promise!Outcomes]
  BY DEF Promise!Outcomes, Promise!Holds
<1>5. track \in [Tracks -> [index : Nat, step : Steps, old : BOOLEAN]]
  <2> SUFFICES ASSUME NEW k \in Tracks
               PROVE  [row.track[k] EXCEPT !.index = Len(Lists[k]) + 1]
                         \in [index : Nat, step : Steps, old : BOOLEAN]
    OBVIOUS
  <2>1. row.track[k] \in [index : Nat, step : Steps, old : BOOLEAN]
    BY DEF Descending, Typed, Fits, Productions
  <2>2. Len(Lists[k]) + 1 \in Nat
    BY ListFacts
  <2> QED BY <2>1, <2>2
<1>6. /\ q \in Productions /\ q.outcome = out /\ q.track = track /\ q.status = "failed"
      /\ q.starts = row.starts /\ q.settled = row.settled
  <2> HIDE DEF out, track
  <2> QED BY <1>4, <1>5 DEF Descending, Typed, Fits, Productions
<1>7. \A k \in Tracks : track[k].index = Len(Lists[k]) + 1 /\ track[k].step = row.track[k].step
  BY SMTT(30) DEF Descending, Typed, Fits, Productions
<1>8. Fits(q)
  <2>1. \A k \in Tracks : Len(Lists[k]) + 1 \in 1 .. Len(Lists[k]) + 1
    BY ListFacts
  <2> HIDE DEF q, track
  <2> QED BY <1>6, <1>7, <2>1 DEF Descending, Typed, Fits, Placed, Limited
<1>9. \A t \in Targets : out[t] = IF t = first THEN "rights" ELSE "not_attempted"
  OBVIOUS
<1>10. Rests(q)
  <2> HIDE DEF q, track, out, first
  <2>1. Decided(q)
    BY <1>6, <1>7, <1>9, ListFacts DEF Decided
  <2>2. GoodAbove(q)
    <3>1. \A k \in Tracks : Ended(q, k)
      BY <1>6, <1>7, ListFacts DEF Ended
    <3> QED BY <3>1 DEF GoodAbove
  <2>3. ASSUME NEW i \in 1 .. Len(Levels), NEW j \in 1 .. Len(Levels), i < j
        PROVE  Follows(out[Levels[i]], out[Levels[j]])
    <3>1. Levels # <<>> /\ Levels[i] \in Targets /\ Levels[j] \in Targets /\ 1 \in 1 .. Len(Levels)
      BY <2>3, LevelList DEF Targets, Names
    <3>2. Levels[j] # Levels[1]
      BY SMTT(30), <2>3, <3>1, LevelList, ProductionAssumption DEF AskedInOrder, Distinct
    <3>3. out[Levels[j]] = "not_attempted" /\ out[Levels[i]] \in {"rights", "not_attempted"}
      BY <1>3, <1>9, <3>1, <3>2
    <3> QED BY <3>3 DEF Follows, Promise!Holds
  <2>4. out[first] = "rights"
    BY <1>3, <1>9
  <2> QED BY <1>3, <1>6, <2>1, <2>2, <2>3, <2>4 DEF Rests, Ordered
<1>11. Finished(q) /\ ~(\E k \in Tracks : ~Ended(q, k))
  <2> HIDE DEF q, track
  <2> QED BY <1>6, <1>7, ListFacts DEF Finished, Ended
<1>12. Promise!StatusOf(out) = "failed"
  <2>1. Promise!Targets = Targets
    BY DEF Promise!Targets, Promise!Names, Targets, Names
  <2> HIDE DEF out
  <2> QED BY <1>3, <1>9, <2>1 DEF Promise!StatusOf, Promise!Good
<1>13. \A t \in Targets : row.outcome[t] = "open"
  <2> SUFFICES ASSUME NEW t \in Targets PROVE row.outcome[t] = "open"
    OBVIOUS
  <2>1. PICK k \in Tracks : \E i \in 1 .. Len(Lists[k]) : t = Lists[k][i]
    BY EveryPlace
  <2>2. PICK i \in 1 .. Len(Lists[k]) : t = Lists[k][i]
    BY <2>1
  <2>3. row.track[k].index = 1
    BY <1>1 DEF Descending, RowStands
  <2> QED BY <2>2, <2>3 DEF Descending, Rests, Decided
<1>14. tick.todo = {} /\ tick' = tick
  BY <1>1 DEF Descending, Typed
<1> HIDE DEF q, track, out
<1>15. Fits(row)' /\ Fits(mem)' /\ Rests(row)' /\ Rests(mem)'
  <2>1. Fits(row') /\ Fits(mem') /\ Rests(row') /\ Rests(mem')
    BY <1>1, <1>2, <1>8, <1>10
  <2>2. Fits(row)' /\ Fits(mem)'
    BY <2>1 DEF Fits, Placed, Limited
  <2>3. Rests(row)' /\ Rests(mem)'
    BY <2>1 DEF Rests, Decided, GoodAbove, Ordered, Ended
  <2> QED BY <2>2, <2>3
<1>16. Typed'
  BY <1>1, <1>14, <1>15 DEF Descending, Typed, WorldOK, HappenedOK, world, happened
<1>17. Ahead'
  BY <1>1, <1>14 DEF Ahead
<1>18. RowStands'
  <2>1. row' = q /\ q.status = "failed" /\ q.outcome = out /\ Finished(q)
    BY <1>2, <1>6, <1>11
  <2> QED BY <1>12, <2>1 DEF RowStands, Finished, Ended
<1>19. \A t \in Targets : row'.outcome[t] \in {"rights", "not_attempted"}
  BY <1>2, <1>6, <1>9
<1>20. row'.status = Promise!StatusOf(row'.outcome) /\ row'.settled = row.settled
  BY <1>2, <1>6, <1>12
<1>21. \A k \in Tracks : row'.track[k].index = Len(Lists[k]) + 1
  BY <1>2, <1>6, <1>7
<1> QED BY <1>1, <1>13, <1>15, <1>16, <1>17, <1>18, <1>19, <1>20, <1>21 DEF Descending

LEMMA ElsewhereDescends ==
    ASSUME Descending, Elsewhere, Typed' PROVE Descending'
  BY DEF Descending, Elsewhere, Rests, Decided, GoodAbove, Ordered, Ended, RowStands, Finished, Ahead

LEMMA InitDescends == Init => Descending
<1> SUFFICES ASSUME Init PROVE Descending
  OBVIOUS
<1>1. PICK signOff \in SignOffs : row =
            [status |-> "queued", rights |-> FALSE, signOff |-> signOff,
             track |-> [k \in Tracks |-> NewTrack(k)],
             outcome |-> [t \in Targets |-> "open"], editions |-> {}, books |-> {},
             promoted |-> {}, starts |-> [j \in Jobs |-> 0],
             errors |-> [e \in Targets \X Steps |-> 0],
             mended |-> [t \in Names(Levels) |-> [c \in Chapters |-> {}]],
             settled |-> [t \in Targets |-> 0], repaired |-> [t \in Names(Levels) |-> {}]]
  BY DEF Init
<1>2. \A k \in Tracks : /\ NewTrack(k) \in [index : Nat, step : Steps, old : BOOLEAN]
                        /\ NewTrack(k).index = 1 /\ NewTrack(k).step \in StepsOf(k)
  BY ListFacts DEF NewTrack, Steps, StepsOf
<1>3. row \in Productions
  <2>1. [k \in Tracks |-> NewTrack(k)] \in [Tracks -> [index : Nat, step : Steps, old : BOOLEAN]]
    BY <1>2
  <2>2. [t \in Targets |-> "open"] \in [Targets -> Promise!Outcomes]
    BY DEF Promise!Outcomes
  <2>3. signOff \in BOOLEAN
    BY ProductionAssumption
  <2>4. /\ [j \in Jobs |-> 0] \in [Jobs -> Nat]
        /\ [e \in Targets \X Steps |-> 0] \in [Targets \X Steps -> Nat]
        /\ [t \in Targets |-> 0] \in [Targets -> Nat]
        /\ [t \in Names(Levels) |-> [c \in Chapters |-> {}]] \in [Names(Levels) -> [Chapters -> SUBSET Tries]]
        /\ [t \in Names(Levels) |-> {}] \in [Names(Levels) -> SUBSET Paras]
    OBVIOUS
  <2> QED BY <1>1, <2>1, <2>2, <2>3, <2>4 DEF Productions
<1>4. /\ \A k \in Tracks : row.track[k] = NewTrack(k)
      /\ \A t \in Targets : row.outcome[t] = "open" /\ row.settled[t] = 0
      /\ \A j \in Jobs : row.starts[j] = 0
      /\ row.status = "queued"
  BY <1>1
<1>5. mem = row /\ tick = Closed
  BY DEF Init
<1>6. Fits(row)
  <2>1. \A j \in Jobs : 0 <= Limit(j)
    BY ProductionAssumption DEF Limit
  <2>2. \A t \in Targets : 0 <= Rounds(t)
    BY ProductionAssumption DEF Rounds
  <2>3. Placed(row)
    BY <1>2, <1>4, ListFacts DEF Placed
  <2> QED BY <1>3, <1>4, <2>1, <2>2, <2>3 DEF Fits, Limited
<1>7. source.read \in BOOLEAN /\ source.rungs \subseteq Names(Rungs)
  <2>1. source \in [read : BOOLEAN,
                   rungs : {Names(SubSeq(Rungs, i, Len(Rungs))) : i \in 1 .. Len(Rungs) + 1}]
    BY DEF Init
  <2>2. ASSUME NEW i \in 1 .. Len(Rungs) + 1
        PROVE  Names(SubSeq(Rungs, i, Len(Rungs))) \subseteq Names(Rungs)
    <3>1. Rungs \in Seq(STRING) /\ Len(Rungs) \in Nat
      BY ProductionAssumption
    <3>2. \A x \in DOMAIN SubSeq(Rungs, i, Len(Rungs)) :
             /\ SubSeq(Rungs, i, Len(Rungs))[x] = Rungs[i + x - 1]
             /\ i + x - 1 \in DOMAIN Rungs
      BY <3>1
    <3> QED BY <3>2 DEF Names
  <2> QED BY <2>1, <2>2
<1>8. WorldOK
  <2>1. NoEdition \in Editions /\ [NoEdition EXCEPT !.text = "review"] \in Editions
    BY DEF NoEdition, Editions
  <2>2. ed \in [Names(Rungs) \cup Targets -> Editions]
    BY <2>1 DEF Init
  <2>3. job \in [Jobs -> JobStates]
    BY DEF Init, JobStates
  <2> QED BY <2>2, <2>3 DEF Init, WorldOK
<1>9. HappenedOK
  BY ProductionAssumption DEF Init, HappenedOK
<1>10. Typed
  BY <1>5, <1>6, <1>7, <1>8, <1>9, ClosedFits DEF Typed
<1>11. Rests(row)
  <2>1. Decided(row)
    BY <1>2, <1>4, ListFacts DEF Decided
  <2>2. GoodAbove(row)
    BY <1>2, <1>4 DEF GoodAbove
  <2>3. Ordered(row.outcome)
    <3>1. \A i \in 1 .. Len(Levels) : row.outcome[Levels[i]] = "open"
      BY <1>4, LevelList DEF Targets, Names
    <3> QED BY <1>4, <3>1 DEF Ordered, Follows, Promise!Holds, Targets
  <2> QED BY <2>1, <2>2, <2>3 DEF Rests
<1>12. RowStands
  <2>1. ~Finished(row)
    BY <1>2, <1>4, SomeTrack, ListFacts DEF Finished, Ended
  <2> QED BY <1>2, <1>4, <2>1 DEF RowStands
<1>13. Ahead
  BY <1>5, ClosedFits DEF Ahead
<1> QED BY <1>5, <1>10, <1>11, <1>12, <1>13 DEF Descending

LEMMA NextDescends == Descending /\ [Next]_vars => Descending'
<1> SUFFICES ASSUME Descending, [Next]_vars PROVE Descending'
  OBVIOUS
<1>1. CASE Protected
  BY <1>1, ProtectedDescends
<1>2. CASE Begin
  BY <1>2, BeginDescends
<1>3. CASE Save
  BY <1>3, SaveDescends
<1>4. CASE Crash
  BY <1>4, CrashTyped, ForgottenDescends DEF Descending, Crash
<1>5. ASSUME NEW k \in Tracks, Step(k) \/ Fault(k) PROVE Descending'
  <2>1. Asking(k)
    BY <1>5, OnlyTheAsked DEF Asking, Descending
  <2>2. CASE Does(k)
    BY <2>1, <2>2, DoesDescends
  <2>3. CASE DropDies(k)
    BY <2>1, <2>3, DropDiesTyped, ForgottenDescends DEF DropDies
  <2> QED BY <1>5, <2>1, <2>2, <2>3, StepDoes, FaultDoes
<1>6. ASSUME NEW k \in Tracks, TimePasses(k) PROVE Descending'
  BY <1>6, TimePassesDescends
<1>7. ASSUME NEW j \in Jobs, Outside(j) PROVE Descending'
  <2>1. Elsewhere
    BY <1>7 DEF Outside, Taken, Done, Fails, GoesSilent, Abandoned, EndsStale
  <2> QED BY <1>7, <2>1, OutsideTyped, ElsewhereDescends DEF Descending
<1>8. ASSUME NEW t \in Targets, HumanEdit(t) PROVE Descending'
  BY <1>8, HumanEditTyped, ElsewhereDescends DEF Descending, HumanEdit
<1>9. CASE UNCHANGED vars
  BY <1>9 DEF vars, Descending, Typed, Fits, Placed, Limited, WorldOK, HappenedOK, Rests, Decided,
              GoodAbove, Ordered, Ended, RowStands, Finished, Ahead
<1> QED BY <1>1, <1>2, <1>3, <1>4, <1>5, <1>6, <1>7, <1>8, <1>9 DEF Next

LEMMA AlwaysDescending == Spec => []Descending
  BY InitDescends, NextDescends, PTL DEF Spec

\* Whatever the ticks, jobs, failures, edits and restarts, the row, the tick's copy, the editions
\* and the jobs are what the code can save, and no job is started and no target settled more
\* often than its limit (_started, SETTLE_ROUNDS).
THEOREM ProductionTyped == Spec => []TypeOK
<1>1. Descending => TypeOK
  BY DEF Descending, Typed, Fits, Limited, WorldOK, HappenedOK, TypeOK
<1> QED BY <1>1, AlwaysDescending, PTL

--------------------------------------------------------------------------------
(* The promise is kept: every step of the code is one of the ladder's, or    *)
(* none.                                                                     *)

\* The status the promise speaks of.
Shown(p) == IF p.status \in {"queued", "running"} THEN "open" ELSE p.status

LEMMA PromiseTargets == Promise!Targets = Targets
  BY DEF Promise!Targets, Promise!Names, Targets, Names

\* What is shown of a row that stands is the status of its outcomes.
LEMMA ShownIsStatus ==
    ASSUME NEW p, Fits(p), Decided(p),
           IF Finished(p) THEN p.status = Promise!StatusOf(p.outcome)
           ELSE p.status \in {"queued", "running"}
    PROVE  Shown(p) = Promise!StatusOf(p.outcome)
<1>2. CASE Finished(p)
  BY <1>2, FinishedIsDecided DEF Shown
<1>3. CASE ~Finished(p)
  BY <1>3, UnfinishedIsOpen DEF Shown
<1> QED BY <1>2, <1>3

LEMMA ShownNow == Descending => Shown(row) = Promise!StatusOf(row.outcome)
  BY ShownIsStatus DEF Descending, Typed, Rests, RowStands

LEMMA ShownNext == Descending' => Shown(row') = Promise!StatusOf(row'.outcome)
<1> SUFFICES ASSUME Descending' PROVE Shown(row') = Promise!StatusOf(row'.outcome)
  OBVIOUS
<1>1. Fits(row') /\ Decided(row')
  BY DEF Descending, Typed, Fits, Placed, Limited, Rests, Decided
<1>2. IF Finished(row') THEN row'.status = Promise!StatusOf(row'.outcome)
      ELSE row'.status \in {"queued", "running"}
  BY DEF Descending, RowStands, Finished, Ended
<1> QED BY <1>1, <1>2, ShownIsStatus

\* A step that leaves the outcomes and the work begun alone shows nothing.
LEMMA Stutters ==
    ASSUME Descending, Descending', row'.outcome = row.outcome, begun' = begun
    PROVE  UNCHANGED Promise!vars
  BY ShownNow, ShownNext DEF Promise!vars, Shown

\* A step that decides some targets that were open decides them in order.
LEMMA Decides ==
    ASSUME Descending, Descending', begun' = begun,
           \A t \in Targets : row.outcome[t] # "open" => row'.outcome[t] = row.outcome[t]
    PROVE  Promise!Decide
<1>1. row'.outcome \in [Targets -> Promise!Outcomes]
  BY DEF Descending, Typed, Fits, Productions
<1>2. Promise!Descended(row'.outcome)
  <2>1. Ordered(row'.outcome)
    BY DEF Descending, Rests, Ordered
  <2> QED BY <2>1, OrderedIsDescended
<1>3. Shown(row') = Promise!StatusOf(row'.outcome)
  BY ShownNext
<1> QED BY <1>1, <1>2, <1>3, PromiseTargets DEF Promise!Decide, Shown

\* The work a step begins is for the first open target of its track.
LEMMA Spends ==
    ASSUME Descending, Descending', NEW k, Asking(k), row' = row, begun' = begun \cup {Target(k)}
    PROVE  Promise!Spend(Target(k))
<1> DEFINE t == Target(k)
           at == mem.track[k].index
<1>1. k \in Tracks /\ at \in 1 .. Len(Lists[k]) /\ t = Lists[k][at] /\ t \in Targets
  BY AskingFacts
<1>2. row.track[k].index = at /\ ~Ended(row, k)
  BY <1>1, ListFacts DEF Asking, Descending, Ahead, Ended
<1>3. row.outcome[t] = "open"
  BY <1>1, <1>2 DEF Descending, Rests, Decided
<1>4. ASSUME NEW u \in Promise!Above(t) PROVE row.outcome[u] \in Promise!Good
  <2>1. PICK i \in DOMAIN Levels : u = Levels[i] /\ \E j \in DOMAIN Levels : i < j /\ Levels[j] = t
    BY <1>4 DEF Promise!Above
  <2>2. PICK j \in DOMAIN Levels : i < j /\ Levels[j] = t
    BY <2>1
  <2>3. "levels" \in Tracks /\ Lists["levels"] = Levels
    <3>1. Levels # <<>>
      BY <2>1, LevelList
    <3> QED BY <3>1 DEF Tracks, Lists
  <2>4. i \in 1 .. Len(Levels) /\ j \in 1 .. Len(Levels)
    BY <2>1, <2>2, LevelList
  <2>5. k = "levels" /\ j = at
    BY <1>1, <2>2, <2>3, <2>4, OnePlace
  <2> QED BY <1>2, <2>1, <2>2, <2>3, <2>4, <2>5 DEF Descending, Rests, GoodAbove
<1>5. Shown(row') = Shown(row)
  OBVIOUS
<1> QED BY <1>3, <1>4, <1>5 DEF Promise!Spend, Shown

LEMMA NextKeepsThePromise ==
    Descending /\ Descending' /\ [Next]_vars => [Promise!Next]_(Promise!vars)
<1> SUFFICES ASSUME Descending, Descending', [Next]_vars
             PROVE  Promise!Next \/ UNCHANGED Promise!vars
  OBVIOUS
<1>1. CASE Protected
  <2>1. begun' = begun
    BY <1>1 DEF Protected, world
  <2>2. \A t \in Targets : row.outcome[t] = "open"
    BY <1>1, ProtectedDescends
  <2>3. Promise!Decide
    BY <2>1, <2>2, Decides
  <2> QED BY <2>3 DEF Promise!Next
<1>2. CASE Begin \/ Crash
  BY <1>2, Stutters DEF Begin, Crash, world
<1>3. CASE Save
  <2>1. begun' = begun
    BY <1>3 DEF Save, world
  <2>2. row'.outcome = mem.outcome
    BY <1>3, SaveDescends
  <2>3. Promise!Decide
    BY <2>1, <2>2, Decides DEF Descending, Ahead
  <2> QED BY <2>3 DEF Promise!Next
<1>5. ASSUME NEW k \in Tracks, Step(k) \/ Fault(k)
      PROVE  Promise!Next \/ UNCHANGED Promise!vars
  <2>1. Asking(k)
    BY <1>5, OnlyTheAsked DEF Asking, Descending
  <2>2. CASE Does(k)
    <3>1. row' = row /\ (begun' = begun \/ begun' = begun \cup {Target(k)}) /\ Target(k) \in Targets
      BY <2>1, <2>2, AskingFacts DEF Does
    <3>2. CASE begun' = begun
      BY <3>1, <3>2, Stutters
    <3>3. CASE begun' = begun \cup {Target(k)}
      BY <2>1, <3>1, <3>3, Spends, PromiseTargets DEF Promise!Next
    <3> QED BY <3>1, <3>2, <3>3
  <2>3. CASE DropDies(k)
    BY <2>3, Stutters DEF DropDies
  <2> QED BY <1>5, <2>1, <2>2, <2>3, StepDoes, FaultDoes
<1>6. ASSUME NEW k \in Tracks, TimePasses(k) PROVE UNCHANGED Promise!vars
  <2>1. row'.outcome = row.outcome
    BY <1>6, TimePassesDescends
  <2>2. begun' = begun
    BY <1>6 DEF TimePasses, world
  <2> QED BY <2>1, <2>2, Stutters
<1>7. ASSUME NEW j \in Jobs, Outside(j) PROVE UNCHANGED Promise!vars
  <2>1. Elsewhere
    BY <1>7 DEF Outside, Taken, Done, Fails, GoesSilent, Abandoned, EndsStale
  <2> QED BY <2>1, Stutters DEF Elsewhere
<1>8. ASSUME NEW t \in Targets, HumanEdit(t) PROVE UNCHANGED Promise!vars
  BY <1>8, Stutters DEF HumanEdit, Elsewhere
<1>9. CASE UNCHANGED vars
  BY <1>9, Stutters DEF vars
<1> QED BY <1>1, <1>2, <1>3, <1>5, <1>6, <1>7, <1>8, <1>9 DEF Next

\* A production descends its ladder a rung at a time whatever its ticks, jobs, failures and
\* restarts, for any levels and languages: work is begun for a level only while every level above
\* it is good in what was saved, no outcome is taken back, what a level leaves to those below it
\* holds at once, and the production closes with its last target (_apply, _finish).
THEOREM ProductionKeepsItsPromise == Spec => LadderKept
<1>1. Init => Promise!Init
  <2> SUFFICES ASSUME Init PROVE Promise!Init
    OBVIOUS
  <2>1. row.outcome = [t \in Targets |-> "open"] /\ row.status = "queued" /\ begun = {}
    BY DEF Init
  <2> QED BY <2>1, PromiseTargets DEF Promise!Init
<1> QED BY <1>1, NextKeepsThePromise, AlwaysDescending, PTL DEF Spec, LadderKept, Promise!Spec

\* What a ladder is descended by: outcomes exist for every target, and only targets are begun.
PromiseTyped ==
    /\ row.outcome \in [Promise!Targets -> Promise!Outcomes]
    /\ begun \subseteq Promise!Targets

LEMMA AboveIsATarget == ASSUME NEW t PROVE Promise!Above(t) \subseteq Promise!Targets
BY DEF Promise!Above, Promise!Targets, Promise!Names

LEMMA GoodIsDecided == "open" \notin Promise!Good
BY DEF Promise!Good

LEMMA LadderTyped == Promise!Spec => []PromiseTyped
<1>1. Promise!Init => PromiseTyped
  BY DEF Promise!Init, PromiseTyped, Promise!Outcomes
<1>2. PromiseTyped /\ [Promise!Next]_(Promise!vars) => PromiseTyped'
  <2> SUFFICES ASSUME PromiseTyped, [Promise!Next]_(Promise!vars) PROVE PromiseTyped'
    OBVIOUS
  <2>1. CASE Promise!Decide
    BY <2>1 DEF Promise!Decide, PromiseTyped
  <2>2. ASSUME NEW t \in Promise!Targets, Promise!Spend(t) PROVE PromiseTyped'
    BY <2>2 DEF Promise!Spend, PromiseTyped
  <2>3. CASE UNCHANGED Promise!vars
    BY <2>3 DEF Promise!vars, PromiseTyped
  <2> QED BY <2>1, <2>2, <2>3 DEF Promise!Next
<1> QED BY <1>1, <1>2, PTL DEF Promise!Spec

LEMMA LadderInOrder == Promise!Spec => []Promise!SpentInOrder
<1>1. Promise!Init => Promise!SpentInOrder
  BY DEF Promise!Init, Promise!SpentInOrder
<1>2. PromiseTyped /\ Promise!SpentInOrder /\ [Promise!Next]_(Promise!vars) => Promise!SpentInOrder'
  <2> SUFFICES ASSUME PromiseTyped, Promise!SpentInOrder, [Promise!Next]_(Promise!vars),
                      NEW t \in begun', NEW u \in Promise!Above(t)
               PROVE  row'.outcome[u] \in Promise!Good
    BY DEF Promise!SpentInOrder, Promise!Above
  <2>1. u \in Promise!Targets
    BY AboveIsATarget
  <2>2. CASE Promise!Decide
    <3>1. row.outcome[u] \in Promise!Good
      BY <2>2 DEF Promise!Decide, Promise!SpentInOrder
    <3> QED BY <2>1, <2>2, <3>1, GoodIsDecided DEF Promise!Decide
  <2>3. ASSUME NEW s \in Promise!Targets, Promise!Spend(s) PROVE row'.outcome[u] \in Promise!Good
    <3>1. CASE t = s
      BY <2>3, <3>1 DEF Promise!Spend
    <3>2. CASE t # s
      BY <2>3, <3>2 DEF Promise!Spend, Promise!SpentInOrder
    <3> QED BY <3>1, <3>2
  <2>4. CASE UNCHANGED Promise!vars
    BY <2>4 DEF Promise!vars, Promise!SpentInOrder
  <2> QED BY <2>2, <2>3, <2>4 DEF Promise!Next
<1> QED BY <1>1, <1>2, LadderTyped, PTL DEF Promise!Spec

\* Nothing is ever spent on a level while a level above it may still be held, for any levels
\* and languages asked for and whatever a production's ticks, jobs and restarts (_apply).
THEOREM NothingSpentBelow == Spec => []Promise!SpentInOrder
BY ProductionKeepsItsPromise, LadderInOrder, PTL DEF LadderKept

--------------------------------------------------------------------------------
(* What is ready was earned.                                                 *)

Live == {"sent", "active"}
Late == {"levels", "mend", "audit", "settle", "verdict", "promote", "review", "corrections"}
Last == {"corrections", "promote"}

\* A job under way is the only thing that may still change what is known of a text, and an
\* edition is read and checked as a text alone.
World(t) ==
    /\ t \in Names(Levels) =>
          /\ job[<<t, "book">>] \in Live => ed[t].text = "empty"
          /\ ed[t].text = "empty" => job[<<t, "book">>] # "done" /\ job[<<t, "probe">>] = "done"
          /\ job[<<t, "analysis">>] \in Live => ed[t].text \in Standing
          /\ ed[t].read => ed[t].text \in Standing /\ job[<<t, "analysis">>] \notin Live
          /\ ed[t].audited => job[<<t, "audit">>] \notin Live
    /\ t \in Names(Languages) =>
          /\ job[<<t, "translation">>] \in Live => ed[t].text = "empty"
          /\ ed[t].audited => job[<<t, "review">>] \notin Live

\* What holds of target t where a production is at step s of it ("none" when its cursor is
\* elsewhere), with outcome o, n rounds settled and sign-off g.
Stage(t, s, o, n, g) ==
    /\ t \in Names(Levels) =>
          /\ s = "write" => job[<<t, "probe">>] = "done"
          /\ s \in Late => ed[t].text # "empty"
    /\ t \in Names(Languages) =>
          /\ s \in Last \/ o = "ready" => job[<<t, "review">>] \notin Live
          /\ n > 0 => o # "open" \/ s \in Last
          /\ s = "promote" \/ o = "ready" => n > 0
          /\ breaks = 0 /\ n > 0 /\ (s \in Last \/ o = "ready") => ~ed[t].audited \/ ed[t].fixes = {}
    /\ edits = 0 /\ (s = "promote" \/ o = "ready") => Gates(t) /\ (g => ed[t].text = "ready")

StepAt(p, k, i) == IF i = p.track[k].index THEN p.track[k].step ELSE "none"

Staged(p) ==
    \A k \in Tracks : \A i \in 1 .. Len(Lists[k]) :
        Stage(Lists[k][i], StepAt(p, k, i), p.outcome[Lists[k][i]], p.settled[Lists[k][i]], p.signOff)

\* No step goes back over these.
Onwards(s, r) ==
    /\ s = "promote" => r = "promote"
    /\ s = "corrections" => r \in Last
    /\ s \in Late => r \in Late

\* The tick's copy has gone on from where the row is.
Onward ==
    /\ \A k \in Tracks : ~Ended(row, k) =>
          /\ row.track[k].index <= mem.track[k].index
          /\ row.track[k].index = mem.track[k].index => Onwards(row.track[k].step, mem.track[k].step)
    /\ \A k \in tick.todo : mem.track[k].step = row.track[k].step

Earned == Descending /\ (\A t \in Targets : World(t)) /\ Staged(row) /\ Staged(mem) /\ Onward

\* Track k is asked for step s of target t.
AskedAt(k, t, s) == Asking(k) /\ Earned /\ t = Target(k) /\ s = mem.track[k].step

LEMMA AskedAtFacts ==
    ASSUME NEW k, NEW t, NEW s, AskedAt(k, t, s)
    PROVE  /\ k \in Tracks /\ t \in Targets /\ s \in StepsOf(k) /\ s # "none" /\ ~Ended(mem, k)
           /\ mem.track[k].index \in 1 .. Len(Lists[k]) /\ t = Lists[k][mem.track[k].index]
           /\ row.track[k].index = mem.track[k].index /\ row.track[k].step = s
           /\ row.outcome[t] = "open" /\ mem.outcome[t] = "open"
           /\ World(t)
           /\ Stage(t, s, "open", mem.settled[t], mem.signOff)
           /\ Stage(t, s, "open", row.settled[t], row.signOff)
           /\ k = "levels" => t \in Names(Levels) /\ t \in Names(Rungs) /\ t \notin Names(Languages)
           /\ k = "languages" => t \in Names(Languages) /\ t \notin Names(Rungs) /\ t \notin Names(Levels)
           /\ t # Source
<1> DEFINE i == mem.track[k].index
<1>1. /\ k \in Tracks /\ t \in Targets /\ s \in StepsOf(k) /\ ~Ended(mem, k)
      /\ i \in 1 .. Len(Lists[k]) /\ t = Lists[k][i]
      /\ k = "levels" => t \in Names(Levels)
      /\ k = "languages" => t \in Names(Languages)
  BY AskingFacts DEF AskedAt
<1>2. Descending /\ World(t) /\ Staged(row) /\ Staged(mem) /\ Onward /\ k \in tick.todo
  BY <1>1 DEF AskedAt, Earned, Asking
<1>3. row.track[k].index = i /\ row.track[k].step = s
  BY <1>2 DEF Descending, Ahead, Onward, AskedAt
<1>4. row.outcome[t] = "open" /\ mem.outcome[t] = "open"
  <2>1. Decided(row) /\ Decided(mem)
    BY <1>2 DEF Descending, Rests
  <2>2. (row.outcome[t] = "open" <=> i >= i) /\ (mem.outcome[t] = "open" <=> i >= i)
    BY <1>1, <1>3, <2>1 DEF Decided
  <2>3. i \in Nat
    BY <1>1
  <2> HIDE DEF i
  <2> QED BY <2>2, <2>3
<1>5. Stage(t, s, "open", mem.settled[t], mem.signOff)
  <2>1. Stage(Lists[k][i], StepAt(mem, k, i), mem.outcome[Lists[k][i]], mem.settled[Lists[k][i]], mem.signOff)
    BY <1>1, <1>2 DEF Staged
  <2>2. StepAt(mem, k, i) = s
    BY DEF StepAt, AskedAt
  <2> QED BY <1>1, <1>4, <2>1, <2>2
<1>6. Stage(t, s, "open", row.settled[t], row.signOff)
  <2>1. Stage(Lists[k][i], StepAt(row, k, i), row.outcome[Lists[k][i]], row.settled[Lists[k][i]], row.signOff)
    BY <1>1, <1>2 DEF Staged
  <2>2. StepAt(row, k, i) = s
    BY <1>3 DEF StepAt
  <2> QED BY <1>1, <1>4, <2>1, <2>2
<1>7. /\ Names(Levels) \subseteq Names(Rungs) /\ Names(Rungs) \cap Names(Languages) = {}
      /\ Source \notin Names(Rungs) /\ Source \notin Names(Languages)
  BY ProductionAssumption DEF AskedInOrder
<1>8. s # "none"
  BY <1>1 DEF StepsOf
<1> QED BY <1>1, <1>2, <1>3, <1>4, <1>5, <1>6, <1>7, <1>8 DEF Targets

\* The step of track k at step s of target t disturbs no other target, and leaves this one and
\* both productions as they may be.
Kept(k, t, s) ==
    /\ Does(k)
    /\ \A u \in (Names(Rungs) \cup Targets) \ {t} : ed'[u] = ed[u]
    /\ \A j \in Jobs : j[1] \notin {t, Source} => job'[j] = job[j]
    /\ \A u \in Targets \ {t} : mem'.settled[u] = mem.settled[u]
    /\ edits' = edits /\ (breaks' = 0 => breaks = 0)
    /\ World(t)'
    /\ Stage(t, s, "open", row.settled[t], row.signOff)'
    /\ \/ /\ mem'.outcome = mem.outcome /\ mem'.track[k].index = mem.track[k].index
          /\ Onwards(s, mem'.track[k].step)
          /\ Stage(t, mem.track[k].step, "open", mem.settled[t], mem.signOff)'
       \/ \E o \in Closings : /\ ClosedBy(mem, mem', k, o)
                              /\ Stage(t, "none", o, mem.settled[t], mem.signOff)'

\* The jobs World and Stage look at.
LEMMA JobsLookedAt ==
    ASSUME NEW u \in Targets
    PROVE  /\ u \in Names(Rungs) \cup Targets /\ u # Source
           /\ u \in Names(Levels) =>
                 {<<u, "book">>, <<u, "probe">>, <<u, "analysis">>, <<u, "audit">>} \subseteq Jobs
           /\ u \in Names(Languages) => {<<u, "translation">>, <<u, "review">>} \subseteq Jobs
  BY ProductionAssumption DEF Targets, Jobs, AskedInOrder

\* A target whose edition and jobs are as they were.
LEMMA SameKept ==
    ASSUME NEW u \in Targets, ed'[u] = ed[u],
           \A kind : <<u, kind>> \in Jobs => job'[<<u, kind>>] = job[<<u, kind>>],
           edits' = 0 => edits = 0, breaks' = 0 => breaks = 0
    PROVE  /\ World(u) => World(u)'
           /\ \A r, o, n, g : Stage(u, r, o, n, g) => Stage(u, r, o, n, g)'
<1>1. Gates(u)' = Gates(u)
  BY DEF Gates
<1>2. World(u) => World(u)'
  BY JobsLookedAt DEF World
<1>3. ASSUME NEW r, NEW o, NEW n, NEW g, Stage(u, r, o, n, g) PROVE Stage(u, r, o, n, g)'
  BY <1>1, <1>3, JobsLookedAt DEF Stage
<1> QED BY <1>2, <1>3

\* Another target is as it was.
LEMMA OthersKept ==
    ASSUME NEW k, NEW t, NEW s, Kept(k, t, s), NEW u \in Targets \ {t}
    PROVE  /\ World(u) => World(u)'
           /\ \A r, o, n, g : Stage(u, r, o, n, g) => Stage(u, r, o, n, g)'
<1>1. ed'[u] = ed[u]
  BY JobsLookedAt DEF Kept
<1>2. \A kind : <<u, kind>> \in Jobs => job'[<<u, kind>>] = job[<<u, kind>>]
  BY JobsLookedAt DEF Kept
<1>3. edits' = edits /\ (breaks' = 0 => breaks = 0)
  BY DEF Kept
<1> QED BY <1>1, <1>2, <1>3, SameKept

\* What holds of a target nobody is at holds of it where its track comes to it, and when the
\* ladder stops above it.
LEMMA NobodyAt ==
    ASSUME NEW u, NEW o, NEW n, NEW g, Stage(u, "none", o, n, g)'
    PROVE  /\ \A k \in Tracks : Stage(u, FirstStep(k), o, n, g)'
           /\ \A x \in {"not_reached", "not_attempted"} : Stage(u, "none", x, n, g)'
<1>1. \A k \in Tracks : FirstStep(k) \notin Late \cup Last \cup {"write", "none"}
  BY DEF FirstStep, Late, Last
<1>2. "promote" \in Last
  BY DEF Last
<1>3. ASSUME NEW k \in Tracks PROVE Stage(u, FirstStep(k), o, n, g)'
  BY <1>1, <1>2 DEF Stage, Last, Late
<1>4. ASSUME NEW x \in {"not_reached", "not_attempted"} PROVE Stage(u, "none", x, n, g)'
  BY DEF Stage, Last, Late
<1> QED BY <1>3, <1>4

\* A step that keeps its target and the others leaves the production earned.
LEMMA KeptEarned ==
    ASSUME NEW k, NEW t, NEW s, AskedAt(k, t, s), Kept(k, t, s)
    PROVE  Earned'
<1> DEFINE i == mem.track[k].index
<1>1. /\ k \in Tracks /\ t \in Targets /\ i \in 1 .. Len(Lists[k]) /\ t = Lists[k][i]
      /\ row.track[k].index = i /\ row.track[k].step = s /\ s # "none"
      /\ row.outcome[t] = "open" /\ mem.outcome[t] = "open"
  BY AskedAtFacts
<1>a. Len(Lists[k]) \in Nat /\ i \in Nat /\ 1 <= i /\ i <= Len(Lists[k])
  <2>1. Len(Lists[k]) \in Nat
    BY <1>1, ListFacts
  <2>2. i \in 1 .. Len(Lists[k])
    BY <1>1
  <2> HIDE DEF i
  <2> QED BY <2>1, <2>2
<1>b. \A l \in Tracks : \A x \in 1 .. Len(Lists[l]) :
         /\ Lists[l][x] \in Targets
         /\ (Lists[l][x] = t) <=> (l = k /\ x = i)
  <2> SUFFICES ASSUME NEW l \in Tracks, NEW x \in 1 .. Len(Lists[l])
               PROVE  /\ Lists[l][x] \in Targets
                      /\ Lists[l][x] = t => l = k /\ x = i
                      /\ l = k /\ x = i => Lists[l][x] = t
    OBVIOUS
  <2>1. Lists[l][x] \in Targets
    BY ListFacts
  <2>2. k \in Tracks /\ i \in 1 .. Len(Lists[k]) /\ t = Lists[k][i]
    BY <1>1
  <2> HIDE DEF i
  <2>3. ASSUME Lists[l][x] = t PROVE l = k /\ x = i
    BY <2>2, <2>3, OnePlace
  <2> QED BY <2>1, <2>2, <2>3
<1>2. /\ Descending /\ (\A u \in Targets : World(u)) /\ Staged(row) /\ Staged(mem) /\ Onward
      /\ Asking(k)
  BY DEF AskedAt, Earned
<1>3. /\ Does(k) /\ Turns(k) /\ row' = row
  BY DEF Kept, Does
<1>4. Descending'
  BY <1>2, <1>3, DoesDescends
<1>5. \A u \in Targets : World(u)'
  BY <1>2, OthersKept DEF Kept
<1>6. /\ tick'.todo = tick.todo \ {k} /\ mem'.signOff = mem.signOff
      /\ \A l \in Tracks \ {k} : mem'.track[l] = mem.track[l]
  BY <1>2, <1>3, TurnsFits
<1>7. Staged(row)'
  <2> SUFFICES ASSUME NEW l \in Tracks, NEW x \in 1 .. Len(Lists[l])
               PROVE  Stage(Lists[l][x], StepAt(row, l, x), row.outcome[Lists[l][x]],
                            row.settled[Lists[l][x]], row.signOff)'
    BY DEF Staged
  <2>1. Lists[l][x] \in Targets /\ (Lists[l][x] = t => l = k /\ x = i)
    BY <1>b
  <2>2. CASE Lists[l][x] = t
    <3>1. StepAt(row, l, x)' = s /\ row'.outcome[Lists[l][x]] = "open"
      BY <1>1, <1>3, <2>1, <2>2 DEF StepAt
    <3> QED BY <1>3, <2>1, <2>2, <3>1 DEF Kept
  <2>3. CASE Lists[l][x] # t
    <3>1. Stage(Lists[l][x], StepAt(row, l, x), row.outcome[Lists[l][x]],
                row.settled[Lists[l][x]], row.signOff)
      BY <1>2 DEF Staged
    <3> QED BY <1>3, <2>1, <2>3, <3>1, OthersKept DEF StepAt
  <2> QED BY <2>2, <2>3
<1>8. Staged(mem)'
  <2> SUFFICES ASSUME NEW l \in Tracks, NEW x \in 1 .. Len(Lists[l])
               PROVE  Stage(Lists[l][x], StepAt(mem, l, x), mem.outcome[Lists[l][x]],
                            mem.settled[Lists[l][x]], mem.signOff)'
    BY DEF Staged
  <2> DEFINE u == Lists[l][x]
  <2>1. u \in Targets /\ (u = t => l = k /\ x = i) /\ (l = k /\ x = i => u = t)
    BY <1>b
  <2>2. Stage(u, StepAt(mem, l, x), mem.outcome[u], mem.settled[u], mem.signOff)
    BY <1>2 DEF Staged
  <2>a. PICK r : r = StepAt(mem, l, x)
    OBVIOUS
  <2>b. PICK z : z = mem.outcome[u]
    OBVIOUS
  <2>c. PICK n : n = mem'.settled[u]
    OBVIOUS
  <2>d. PICK g : g = mem'.signOff
    OBVIOUS
  <2>3. u # t => mem.settled[u] = n
    BY <2>1, <2>c DEF Kept
  <2>4. ASSUME u # t PROVE Stage(u, r, z, n, g)'
    <3>1. Stage(u, r, z, n, g)
      BY <1>6, <2>2, <2>3, <2>4, <2>a, <2>b, <2>d
    <3> HIDE DEF u
    <3> QED BY <2>1, <2>4, <3>1, OthersKept
  <2>5. CASE /\ mem'.outcome = mem.outcome /\ mem'.track[k].index = mem.track[k].index
             /\ Stage(t, mem.track[k].step, "open", mem.settled[t], mem.signOff)'
    <3>1. CASE u = t
      <4>1. StepAt(mem, l, x)' = mem'.track[k].step /\ mem'.outcome[u] = "open"
        BY <1>1, <2>1, <2>5, <3>1 DEF StepAt
      <4> QED BY <2>5, <3>1, <4>1
    <3>2. CASE u # t
      <4>1. StepAt(mem, l, x)' = r
        BY <1>1, <1>6, <2>1, <2>5, <2>a, <3>2 DEF StepAt
      <4> QED BY <2>4, <2>5, <2>b, <2>c, <2>d, <3>2, <4>1
    <3> QED BY <3>1, <3>2
  <2>6. CASE \E o \in Closings : /\ ClosedBy(mem, mem', k, o)
                                 /\ Stage(t, "none", o, mem.settled[t], mem.signOff)'
    <3>1. PICK o \in Closings : /\ ClosedBy(mem, mem', k, o)
                                /\ Stage(t, "none", o, mem.settled[t], mem.signOff)'
      BY <2>6
    <3>2. /\ mem'.track[k].index \in {i + 1, Len(Lists[k]) + 1}
          /\ mem'.track[k].index # Len(Lists[k]) + 1 => mem'.track[k].step = FirstStep(k)
          /\ mem'.outcome[t] = o
      BY <1>1, <3>1 DEF ClosedBy
    <3>3. Len(Lists[k]) \in Nat
      BY <1>1, ListFacts
    <3>4. CASE u = t
      <4>1. mem'.track[k].index # i
        <5> HIDE DEF i
        <5> QED BY <1>a, <3>2
      <4>2. l = k /\ x = i
        BY <2>1, <3>4
      <4>3. StepAt(mem, l, x)' = "none"
        BY <4>1, <4>2 DEF StepAt
      <4> QED BY <3>1, <3>2, <3>4, <4>3
    <3>5. CASE u # t
      <4>1. CASE l # k
        <5>1. mem'.outcome[u] = z
          <6>1. \A y \in 1 .. Len(Lists[k]) : u # Lists[k][y]
            BY <1>1, <4>1, OnePlace
          <6>2. i + 1 .. Len(Lists[k]) \subseteq 1 .. Len(Lists[k])
            <7> HIDE DEF i
            <7> QED BY <1>a
          <6>3. i \in 1 .. Len(Lists[k]) /\ mem.track[k].index = i
            BY <1>1
          <6>4. /\ u # Lists[k][mem.track[k].index]
                /\ u \notin {Lists[k][y] : y \in mem.track[k].index + 1 .. Len(Lists[k])}
            BY <6>1, <6>2, <6>3
          <6>5. mem'.outcome[u] = mem.outcome[u]
            BY <2>1, <3>1, <6>4 DEF ClosedBy
          <6> QED BY <2>b, <6>5
        <5>2. StepAt(mem, l, x)' = r
          BY <1>6, <2>a, <4>1 DEF StepAt
        <5> QED BY <2>4, <2>c, <2>d, <3>5, <5>1, <5>2
      <4>2. CASE l = k
        <5>1. r = "none"
          BY <2>1, <2>a, <3>5, <4>2 DEF StepAt
        <5>2. StepAt(mem, l, x)' = "none" \/ StepAt(mem, l, x)' = FirstStep(k)
          BY <3>2, <3>3, <4>2 DEF StepAt
        <5>3. \/ mem'.outcome[u] = z
              \/ /\ mem'.outcome[u] \in {"not_reached", "not_attempted"}
                 /\ mem'.track[k].index = Len(Lists[k]) + 1
          BY <1>1, <2>1, <2>b, <3>1, <3>5 DEF ClosedBy
        <5>4. mem'.track[k].index = Len(Lists[k]) + 1 => StepAt(mem, l, x)' = "none"
          BY <3>3, <4>2 DEF StepAt
        <5>5. /\ Stage(u, "none", z, n, g)' /\ Stage(u, FirstStep(k), z, n, g)'
              /\ \A y \in {"not_reached", "not_attempted"} : Stage(u, "none", y, n, g)'
          <6> HIDE DEF u
          <6> QED BY <1>1, <2>4, <3>5, <5>1, NobodyAt
        <5> QED BY <2>c, <2>d, <5>2, <5>3, <5>4, <5>5
      <4> QED BY <4>1, <4>2
    <3> QED BY <3>4, <3>5
  <2> QED BY <2>5, <2>6 DEF Kept
<1>9. Onward'
  <2> SUFFICES /\ \A l \in Tracks : ~Ended(row, l) =>
                     /\ row.track[l].index <= mem'.track[l].index
                     /\ row.track[l].index = mem'.track[l].index
                           => Onwards(row.track[l].step, mem'.track[l].step)
               /\ \A l \in tick'.todo : mem'.track[l].step = row.track[l].step
    BY <1>3 DEF Onward, Ended
  <2>1. \A l \in Tracks \ {k} : ~Ended(row, l) =>
                     /\ row.track[l].index <= mem'.track[l].index
                     /\ row.track[l].index = mem'.track[l].index
                           => Onwards(row.track[l].step, mem'.track[l].step)
    BY <1>2, <1>6 DEF Onward
  <2>2. \A l \in tick'.todo : mem'.track[l].step = row.track[l].step
    BY <1>2, <1>6 DEF Onward, Asking, Typed
  <2>3. CASE mem'.track[k].index = i /\ Onwards(s, mem'.track[k].step)
    <3>1. i <= i
      <4> HIDE DEF i
      <4> QED BY <1>a
    <3>2. row.track[k].index = i /\ row.track[k].step = s
      BY <1>1
    <3> HIDE DEF i
    <3> QED BY <2>1, <2>2, <2>3, <3>1, <3>2
  <2>4. CASE \E o \in Closings : ClosedBy(mem, mem', k, o)
    <3>1. mem'.track[k].index \in {i + 1, Len(Lists[k]) + 1} /\ Len(Lists[k]) \in Nat
      BY <1>1, <2>4, ListFacts DEF ClosedBy
    <3>2. i <= mem'.track[k].index /\ i # mem'.track[k].index
      <4> HIDE DEF i
      <4> QED BY <1>a, <3>1
    <3> QED BY <1>1, <2>1, <2>2, <3>2
  <2> QED BY <2>3, <2>4 DEF Kept
<1> QED BY <1>4, <1>5, <1>7, <1>8, <1>9 DEF Earned

\* What a step makes of the production's data: it settles its own target at most.
Data(t, p) == Updated(p) /\ \A u \in Targets \ {t} : p.settled[u] = mem.settled[u]

\* Track k goes to one of the steps S, or its target t is closed as one of O, with n rounds settled.
Cur(k, t, S, O, n) ==
    /\ mem'.signOff = mem.signOff /\ mem'.settled[t] = n
    /\ \A u \in Targets \ {t} : mem'.settled[u] = mem.settled[u]
    /\ \/ /\ mem'.outcome = mem.outcome /\ mem'.track[k].index = mem.track[k].index
          /\ mem'.track[k].step \in S
       \/ \E o \in O : ClosedBy(mem, mem', k, o)

LEMMA GoToCur ==
    ASSUME NEW k, NEW t, NEW s, AskedAt(k, t, s), NEW p, Data(t, p), NEW r, GoTo(k, r, p),
           NEW S, NEW O, r \in S
    PROVE  Cur(k, t, S, O, p.settled[t])
<1>1. mem' = [p EXCEPT !.track[k] = [@ EXCEPT !.step = r, !.old = FALSE]]
  BY DEF GoTo
<1>2. k \in Tracks /\ p \in Productions
  BY AskedAtFacts DEF Data, Updated, Fits
<1>3. [p.track[k] EXCEPT !.step = r, !.old = FALSE].step = r
      /\ [p.track[k] EXCEPT !.step = r, !.old = FALSE].index = p.track[k].index
  BY <1>2 DEF Productions
<1>4. /\ mem'.track[k].step = r /\ mem'.track[k].index = p.track[k].index
      /\ mem'.outcome = p.outcome /\ mem'.signOff = p.signOff /\ mem'.settled = p.settled
  BY <1>1, <1>2, <1>3 DEF Productions
<1> QED BY <1>4 DEF Cur, Data, Updated

LEMMA CloseCur ==
    ASSUME NEW k, NEW t, NEW s, AskedAt(k, t, s), NEW p, Data(t, p), NEW o \in Closings, Close(k, o, p),
           NEW S, NEW O, o \in O
    PROVE  Cur(k, t, S, O, p.settled[t])
<1>1. k \in Tracks /\ Fits(p) /\ ~Ended(p, k) /\ p.track = mem.track /\ p.outcome = mem.outcome
  BY AskedAtFacts DEF Data, Updated, Ended
<1>2. /\ ClosedBy(p, mem', k, o) /\ mem'.signOff = p.signOff /\ mem'.settled = p.settled
  BY <1>1, CloseDoes DEF ClosedBy
<1>3. ClosedBy(mem, mem', k, o)
  BY <1>1, <1>2 DEF ClosedBy
<1> QED BY <1>2, <1>3 DEF Cur, Data, Updated

LEMMA StayCur ==
    ASSUME NEW k, NEW t, NEW s, AskedAt(k, t, s), NEW p, Data(t, p), mem' = p,
           NEW S, NEW O, s \in S
    PROVE  Cur(k, t, S, O, p.settled[t])
  BY DEF Cur, Data, Updated, AskedAt

LEMMA WaitCur ==
    ASSUME NEW k, NEW t, NEW s, AskedAt(k, t, s), NEW p, Data(t, p), Wait(k, p),
           NEW S, NEW O, s \in S, "timeout" \in O
    PROVE  Cur(k, t, S, O, p.settled[t])
<1>1. "timeout" \in Closings
  BY DEF Closings, Promise!Holds
<1> QED BY <1>1, CloseCur, StayCur DEF Wait

LEMMA RaiseCur ==
    ASSUME NEW k, NEW t, NEW s, AskedAt(k, t, s), NEW p, Data(t, p), Raise(k, p),
           NEW S, NEW O, s \in S, "error" \in O
    PROVE  Cur(k, t, S, O, p.settled[t])
<1> DEFINE e == <<Target(k), p.track[k].step>>
           q == [p EXCEPT !.errors[e] = @ + 1]
<1>1. "error" \in Closings
  BY DEF Closings, Promise!Holds
<1>2. CASE Close(k, "error", p)
  BY <1>1, <1>2, CloseCur
<1>3. CASE mem' = q
  <2>1. /\ q.track = p.track /\ q.outcome = p.outcome /\ q.signOff = p.signOff
        /\ q.settled = p.settled
    BY DEF Data, Updated, Fits, Productions
  <2> HIDE DEF q
  <2> QED BY <1>3, <2>1 DEF Cur, Data, Updated, AskedAt
<1> QED BY <1>2, <1>3 DEF Raise

LEMMA StartCur ==
    ASSUME NEW k, NEW t, NEW s, AskedAt(k, t, s), NEW p, Data(t, p), NEW j \in Jobs,
           Start(k, j, Limit(j), p), NEW S, NEW O, s \in S, "started" \in O, "timeout" \in O
    PROVE  /\ Cur(k, t, S, O, p.settled[t])
           /\ job' = job \/ job' = [job EXCEPT ![j] = IF j \in Unseen THEN "sent" ELSE "active"]
<1>1. {"started", "timeout"} \subseteq Closings
  BY DEF Closings, Promise!Holds
<1>2. CASE p.starts[j] >= Limit(j)
  <2>1. Close(k, "started", p) /\ job' = job
    BY <1>2 DEF Start
  <2> QED BY <1>1, <2>1, CloseCur
<1>3. CASE ~(p.starts[j] >= Limit(j))
  <2> DEFINE q == [p EXCEPT !.starts[j] = @ + 1]
  <2>1. /\ job' = [job EXCEPT ![j] = IF j \in Unseen THEN "sent" ELSE "active"]
        /\ Wait(k, q)
    BY <1>3 DEF Start
  <2>2. /\ q.track = p.track /\ q.outcome = p.outcome /\ q.signOff = p.signOff
        /\ q.settled = p.settled /\ q.status = p.status
    BY DEF Data, Updated, Fits, Productions
  <2>3. Updated(q)
    BY <1>3, StartedFits DEF Data
  <2> HIDE DEF q
  <2>4. Data(t, q)
    BY <2>2, <2>3 DEF Data
  <2> QED BY <2>1, <2>2, <2>4, WaitCur
<1> QED BY <1>2, <1>3

\* A step disturbs target t alone.
Aside(t) ==
    /\ \A u \in (Names(Rungs) \cup Targets) \ {t} : ed'[u] = ed[u]
    /\ \A j \in Jobs : j[1] \notin {t, Source} => job'[j] = job[j]
    /\ edits' = edits /\ (breaks' = 0 => breaks = 0)

LEMMA CurKept ==
    ASSUME NEW k, NEW t, NEW s, AskedAt(k, t, s), NEW S, NEW O, NEW n, NEW g, g = mem.signOff,
           Does(k), Aside(t), World(t)', Cur(k, t, S, O, n), O \subseteq Closings,
           Stage(t, s, "open", row.settled[t], row.signOff)',
           \A r \in S : Onwards(s, r) /\ Stage(t, r, "open", n, g)',
           \A o \in O : Stage(t, "none", o, n, g)'
    PROVE  Kept(k, t, s)
<1>1. mem'.settled[t] = n /\ mem'.signOff = g
  BY DEF Cur
<1>2. CASE /\ mem'.outcome = mem.outcome /\ mem'.track[k].index = mem.track[k].index
           /\ mem'.track[k].step \in S
  BY <1>1, <1>2 DEF Kept, Cur, Aside
<1>3. CASE \E o \in O : ClosedBy(mem, mem', k, o)
  <2>1. PICK o \in O : ClosedBy(mem, mem', k, o)
    BY <1>3
  <2>2. Stage(t, "none", o, mem.settled[t], mem.signOff)'
    BY <1>1
  <2> QED BY <2>1, <2>2 DEF Kept, Cur, Aside
<1> QED BY <1>2, <1>3 DEF Cur

\* A step that only looks, or that starts a job World and Stage do not look at.
LEMMA LooksKept ==
    ASSUME NEW k, NEW t, NEW s, AskedAt(k, t, s), NEW S, NEW O, NEW n, NEW g, g = mem.signOff,
           Does(k), Cur(k, t, S, O, n), O \subseteq Closings,
           ed' = ed, \A j \in Jobs : j[1] # Source /\ j[2] # "promotion" => job'[j] = job[j],
           \A j \in Jobs : j[1] \notin {t, Source} => job'[j] = job[j],
           edits' = edits, breaks' = 0 => breaks = 0,
           \A r \in S : Onwards(s, r) /\ Stage(t, r, "open", n, g),
           \A o \in O : Stage(t, "none", o, n, g)
    PROVE  Kept(k, t, s)
<1>1. t \in Targets /\ t # Source /\ World(t) /\ row' = row
  BY AskedAtFacts DEF Does
<1>2. Gates(t)' = Gates(t)
  BY DEF Gates
<1>3. \A j \in Jobs : j[1] = t /\ j[2] \in {"book", "probe", "analysis", "audit", "translation", "review"}
                         => job'[j] = job[j]
  BY <1>1
<1>4. World(t)'
  BY <1>1, <1>3, JobsLookedAt DEF World
<1>5. ASSUME NEW r, NEW o, NEW m, NEW h, Stage(t, r, o, m, h) PROVE Stage(t, r, o, m, h)'
  BY <1>1, <1>2, <1>3, <1>5, JobsLookedAt DEF Stage
<1>6. Stage(t, s, "open", row.settled[t], row.signOff)'
  BY <1>1, <1>5, AskedAtFacts
<1>7. Aside(t)
  BY DEF Aside
<1> QED BY <1>4, <1>5, <1>6, <1>7, CurKept

\* A step of a level before its verdict's outcome.
LEMMA LevelKept ==
    ASSUME NEW k, NEW t, NEW s, AskedAt(k, t, s), k = "levels", s # "promote",
           NEW S, NEW O, NEW n, Cur(k, t, S, O, n), O \subseteq Closings \ {"ready"},
           Does(k), Aside(t), World(t)',
           \A r \in S : Onwards(s, r) /\ r # "promote",
           \A r \in S \cup {s} : /\ r = "write" => job'[<<t, "probe">>] = "done"
                                 /\ r \in Late => ed'[t].text # "empty"
    PROVE  Kept(k, t, s)
<1>1. t \notin Names(Languages) /\ row' = row
  BY AskedAtFacts DEF Does
<1>2. ASSUME NEW r \in S \cup {s}, NEW m, NEW h PROVE Stage(t, r, "open", m, h)'
  BY <1>1, <1>2 DEF Stage
<1>3. ASSUME NEW o \in O, NEW m, NEW h PROVE Stage(t, "none", o, m, h)'
  BY <1>1, <1>3 DEF Stage, Late
<1>4. Stage(t, s, "open", row.settled[t], row.signOff)'
  BY <1>2
<1> QED BY <1>2, <1>3, <1>4, CurKept

\* A step of a level that leaves its edition and its jobs alone.
LEMMA LevelLooks ==
    ASSUME NEW k, NEW t, NEW s, AskedAt(k, t, s), k = "levels", s # "promote",
           NEW S, NEW O, NEW n, Cur(k, t, S, O, n), O \subseteq Closings \ {"ready"},
           Does(k), ed' = ed, \A j \in Jobs : j[1] # Source => job'[j] = job[j],
           edits' = edits, breaks' = 0 => breaks = 0,
           \A r \in S : /\ Onwards(s, r) /\ r # "promote"
                        /\ r = "write" => s = "write" \/ job[<<t, "probe">>] = "done"
                        /\ r \in Late => s \in Late \/ ed[t].text # "empty"
    PROVE  Kept(k, t, s)
<1>1. /\ t \in Targets /\ t \in Names(Levels) /\ t # Source /\ World(t)
      /\ Stage(t, s, "open", mem.settled[t], mem.signOff)
  BY AskedAtFacts
<1>2. job'[<<t, "probe">>] = job[<<t, "probe">>] /\ World(t)'
  BY <1>1, SameKept, JobsLookedAt
<1>3. Aside(t)
  BY DEF Aside
<1>4. /\ s = "write" => job[<<t, "probe">>] = "done"
      /\ s \in Late => ed[t].text # "empty"
  BY <1>1 DEF Stage
<1> QED BY <1>2, <1>3, <1>4, LevelKept

LEMMA AskedData ==
    ASSUME NEW k, NEW t, NEW s, AskedAt(k, t, s)
    PROVE  Data(t, mem) /\ Asking(k) /\ edits \in Nat /\ breaks \in Nat
  BY SMTT(30), AskingFacts, ProductionAssumption DEF AskedAt, Data, Asking, Typed, HappenedOK

\* The track of a step, and the outcomes it may close with.
LEMMA OfLevels ==
    ASSUME NEW k, NEW t, NEW s, AskedAt(k, t, s), s \in StepsOf("levels") \ {"promote"}
    PROVE  k = "levels"
  BY AskedAtFacts, ListFacts DEF StepsOf

LEMMA OfLanguages ==
    ASSUME NEW k, NEW t, NEW s, AskedAt(k, t, s), s \in StepsOf("languages") \ {"promote"}
    PROVE  k = "languages"
  BY AskedAtFacts, ListFacts DEF StepsOf

LEMMA HeldFor ==
    {"not_needed", "not_reached", "no_probe", "started", "timeout", "error", "unread", "too_long",
     "gates", "review", "promotion", "refused"} \subseteq Closings \ {"ready"}
  BY DEF Closings, Promise!Holds, Promise!Good

LEMMA LooksAside ==
    ASSUME Looks, Apart
    PROVE  ed' = ed /\ job' = job /\ edits' = edits /\ breaks' = breaks
  BY DEF Looks, Apart, happened

LEMMA ReadSourceKept ==
    ASSUME NEW k, NEW t, NEW s, AskedAt(k, t, s), ReadSource(k) PROVE Kept(k, t, s)
<1> DEFINE j == <<Source, "analysis">>
           S == {"source", "probe"}
           O == {"started", "timeout"}
<1>1. At(k, "source") /\ s = "source" /\ k = "levels"
  BY OfLevels DEF ReadSource, At, AskedAt, StepsOf
<1>2. ed' = ed /\ edits' = edits /\ breaks' = breaks
  BY DEF ReadSource, Apart, happened
<1>3. Does(k) /\ Data(t, mem)
  BY ReadSourceDoes, AskedData
<1>4. /\ \A i \in Jobs : i[1] # Source => job'[i] = job[i]
      /\ Cur(k, t, S, O, mem.settled[t])
  <2>1. CASE GoTo(k, "probe", mem) /\ job' = job
    BY <1>3, <2>1, GoToCur
  <2>2. CASE Wait(k, mem) /\ job' = job
    BY <1>1, <1>3, <2>2, WaitCur
  <2>3. CASE Start(k, j, Starts, mem)
    <3>1. j \in Jobs /\ Limit(j) = Starts /\ j[1] = Source
      BY DEF Jobs, Limit
    <3>2. /\ Cur(k, t, S, O, mem.settled[t])
          /\ job' = job \/ job' = [job EXCEPT ![j] = IF j \in Unseen THEN "sent" ELSE "active"]
      BY <1>1, <1>3, <2>3, <3>1, StartCur
    <3> QED BY <3>1, <3>2 DEF AskedAt, Asking, Typed, WorldOK
  <2> QED BY <2>1, <2>2, <2>3 DEF ReadSource
<1>5. O \subseteq Closings \ {"ready"}
  BY HeldFor
<1>6. \A r \in S : Onwards(s, r) /\ r # "promote" /\ r # "write" /\ r \notin Late
  BY <1>1 DEF Onwards, Late, Last
<1> HIDE DEF S, O
<1> QED BY <1>1, <1>2, <1>3, <1>4, <1>5, <1>6, LevelLooks

LEMMA ProbeClosesKept ==
    ASSUME NEW k, NEW t, NEW s, AskedAt(k, t, s), ProbeNotNeeded(k) \/ ProbeNotReached(k)
    PROVE  Kept(k, t, s)
<1> DEFINE S == {}
           O == {"not_needed", "not_reached"}
<1>1. s = "probe" /\ k = "levels" /\ Looks /\ Apart
  BY OfLevels DEF ProbeNotNeeded, ProbeNotReached, At, AskedAt, StepsOf
<1>2. Does(k) /\ Data(t, mem)
  BY ProbeNotNeededDoes, ProbeNotReachedDoes, AskedData
<1>3. O \subseteq Closings \ {"ready"}
  BY HeldFor
<1>4. Cur(k, t, S, O, mem.settled[t])
  <2>1. Close(k, "not_needed", mem) \/ Close(k, "not_reached", mem)
    BY DEF ProbeNotNeeded, ProbeNotReached
  <2> QED BY <1>2, <1>3, <2>1, CloseCur
<1>5. ed' = ed /\ job' = job /\ edits' = edits /\ breaks' = breaks
  BY <1>1, LooksAside
<1>6. \A r \in S : FALSE
  OBVIOUS
<1> HIDE DEF S, O
<1> QED BY <1>1, <1>2, <1>3, <1>4, <1>5, <1>6, LevelLooks

LEMMA ProbeAdoptsKept ==
    ASSUME NEW k, NEW t, NEW s, AskedAt(k, t, s), ProbeAdopts(k) PROVE Kept(k, t, s)
<1> DEFINE p == [mem EXCEPT !.editions = @ \cup {t}]
           S == {"levels"}
           O == {}
<1>1. s = "probe" /\ k = "levels" /\ Looks /\ Apart /\ t = Target(k)
  BY OfLevels DEF ProbeAdopts, At, AskedAt, StepsOf
<1>2. Does(k) /\ t \in Targets
  BY ProbeAdoptsDoes, AskedData, AskedAtFacts
<1>3. Data(t, p) /\ p.settled = mem.settled
  BY <1>2, AskedData DEF Data, Updated, Fits, Productions, Limited, Placed
<1>4. Cur(k, t, S, O, mem.settled[t])
  <2>1. GoTo(k, "levels", p)
    BY <1>1 DEF ProbeAdopts
  <2> HIDE DEF p
  <2> QED BY <1>3, <2>1, GoToCur
<1>5. ed[t].text # "empty"
  <2>1. World(t) /\ t \in Names(Levels)
    BY <1>1, AskedAtFacts
  <2>2. \/ Rung(t) \in {"reached", "generated"} /\ Rung(t) \notin {"not_reached", "probe_failed"}
        \/ ed[t].text \in Standing
    BY <1>1 DEF ProbeAdopts
  <2>3. Gates(t) => ed[t].text \in Standing
    BY DEF Gates
  <2>4. Rung(t) = "generated" => job[<<t, "probe">>] # "done"
    BY DEF Rung
  <2>5. Rung(t) = "reached" => Gates(t)
    BY DEF Rung
  <2> QED BY <2>1, <2>2, <2>3, <2>4, <2>5 DEF World, Standing
<1>6. \A r \in S : Onwards(s, r) /\ r # "promote" /\ r # "write"
  BY <1>1 DEF Onwards, Late, Last
<1>7. ed' = ed /\ job' = job /\ edits' = edits /\ breaks' = breaks
  BY <1>1, LooksAside
<1>8. O \subseteq Closings \ {"ready"}
  OBVIOUS
<1> HIDE DEF S, O
<1> QED BY <1>1, <1>2, <1>4, <1>5, <1>6, <1>7, <1>8, LevelLooks

LEMMA ProbeKept ==
    ASSUME NEW k, NEW t, NEW s, AskedAt(k, t, s), Probe(k) PROVE Kept(k, t, s)
<1> DEFINE j == <<t, "probe">>
           S == {"write", "probe"}
           O == {"no_probe", "started", "timeout"}
<1>1. s = "probe" /\ k = "levels" /\ t = Target(k) /\ t \in Names(Levels) /\ t \in Names(Rungs)
  BY OfLevels, AskedAtFacts DEF Probe, At, AskedAt, StepsOf
<1>2. ed' = ed /\ edits' = edits /\ breaks' = breaks
  BY DEF Probe, Apart, happened
<1>3. Does(k) /\ Data(t, mem) /\ World(t) /\ t \in Targets /\ ed[t].text \notin Standing
  BY <1>1, ProbeDoes, AskedData, AskedAtFacts DEF Probe
<1>4. O \subseteq Closings \ {"ready"}
  BY HeldFor
<1>5. \A r \in S : Onwards(s, r) /\ r # "promote" /\ r \notin Late
  BY <1>1 DEF Onwards, Late, Last
<1>6. Rung(t) = "probe_passed" => job[j] = "done"
  BY DEF Rung
<1>7. CASE GoTo(k, "write", mem) /\ job' = job /\ Rung(t) = "probe_passed"
  <2>1. Cur(k, t, S, O, mem.settled[t])
    BY <1>3, <1>7, GoToCur
  <2> HIDE DEF S, O
  <2> QED BY <1>1, <1>2, <1>3, <1>4, <1>5, <1>6, <1>7, <2>1, LevelLooks
<1>8. ASSUME Cur(k, t, {"probe"}, O, mem.settled[t]), job' = job PROVE Kept(k, t, s)
  <2> DEFINE R == {"probe"}
  <2>1. \A r \in R : Onwards(s, r) /\ r # "promote" /\ r \notin Late /\ r # "write"
    BY <1>1 DEF Onwards, Late, Last
  <2>2. Cur(k, t, R, O, mem.settled[t])
    BY <1>8
  <2> HIDE DEF R, O
  <2> QED BY <1>1, <1>2, <1>3, <1>4, <1>8, <2>1, <2>2, LevelLooks
<1>9. CASE Wait(k, mem) /\ job' = job
  <2>1. Cur(k, t, {"probe"}, O, mem.settled[t])
    BY <1>1, <1>3, <1>9, WaitCur
  <2> QED BY <1>8, <1>9, <2>1
<1>10. CASE Close(k, "no_probe", mem) /\ job' = job
  <2>1. Cur(k, t, {"probe"}, O, mem.settled[t])
    BY <1>3, <1>4, <1>10, CloseCur
  <2> QED BY <1>8, <1>10, <2>1
<1>11. CASE CanProbe(t) /\ Start(k, j, Starts, mem)
  <2>1. j \in Jobs /\ Limit(j) = Starts /\ j \notin Unseen
    BY <1>1 DEF Jobs, Limit, Unseen
  <2>2. /\ Cur(k, t, {"probe"}, O, mem.settled[t])
        /\ job' = job \/ job' = [job EXCEPT ![j] = "active"]
    BY <1>1, <1>3, <1>11, <2>1, StartCur
  <2>3. CASE job' = job
    BY <1>8, <2>2, <2>3
  <2>4. CASE job' = [job EXCEPT ![j] = "active"]
    <3>1. job \in [Jobs -> JobStates]
      BY DEF AskedAt, Asking, Typed, WorldOK
    <3>2. \A i \in Jobs : i # j => job'[i] = job[i]
      BY <2>4, <3>1
    <3>3. Aside(t)
      BY <1>2, <2>1, <3>2 DEF Aside
    <3>4. Rung(t) \in {"untried", "error"}
      BY <1>11 DEF CanProbe
    <3>5. job[j] # "done"
      BY <3>4 DEF Rung
    <3>6. ed'[t].text # "empty"
      BY <1>1, <1>2, <1>3, <3>5 DEF World
    <3>7. World(t)'
      <4>1. t \notin Names(Languages)
        BY <1>1, AskedAtFacts
      <4>2. \A kind \in {"book", "analysis", "audit"} : job'[<<t, kind>>] = job[<<t, kind>>]
        BY <1>1, <1>3, <3>2, JobsLookedAt
      <4> QED BY <1>1, <1>2, <1>3, <3>6, <4>1, <4>2 DEF World
    <3> DEFINE R == {"probe"}
    <3>8. \A r \in R : Onwards(s, r) /\ r # "promote"
      BY <1>1 DEF Onwards, Late, Last
    <3>9. \A r \in R \cup {s} : r # "write" /\ r \notin Late
      BY <1>1 DEF Late
    <3>10. Cur(k, t, R, O, mem.settled[t])
      BY <2>2
    <3> HIDE DEF R, O
    <3> QED BY <1>1, <1>3, <1>4, <3>3, <3>7, <3>8, <3>9, <3>10, LevelKept
  <2> QED BY <2>2, <2>3, <2>4
<1> QED BY <1>1, <1>7, <1>9, <1>10, <1>11 DEF Probe

LEMMA WriteWaitsKept ==
    ASSUME NEW k, NEW t, NEW s, AskedAt(k, t, s), WriteWaits(k) PROVE Kept(k, t, s)
<1> DEFINE p == [mem EXCEPT !.editions = @ \cup {t}]
           S == {"write"}
           R == {"levels"}
           O == {"timeout"}
<1>1. s = "write" /\ k = "levels" /\ t = Target(k) /\ t \in Names(Levels) /\ Looks /\ Apart
  BY OfLevels, AskedAtFacts DEF WriteWaits, At, AskedAt, StepsOf
<1>2. ed' = ed /\ job' = job /\ edits' = edits /\ breaks' = breaks
  BY <1>1, LooksAside
<1>3. Does(k) /\ Data(t, mem) /\ World(t) /\ t \in Targets
  BY WriteWaitsDoes, AskedData, AskedAtFacts
<1>4. Data(t, p) /\ p.settled = mem.settled
  BY <1>3 DEF Data, Updated, Fits, Productions, Limited, Placed
<1>5. O \subseteq Closings \ {"ready"}
  BY HeldFor
<1>6. CASE Wait(k, mem)
  <2>1. Cur(k, t, S, O, mem.settled[t])
    BY <1>1, <1>3, <1>6, WaitCur
  <2>2. \A r \in S : Onwards(s, r) /\ r # "promote" /\ r \notin Late
    BY <1>1 DEF Onwards, Late, Last
  <2> HIDE DEF S, O
  <2> QED BY <1>1, <1>2, <1>3, <1>5, <2>1, <2>2, LevelLooks
<1>7. ASSUME \/ GoTo(k, "levels", p) /\ ed[t].text \in Standing
             \/ GoTo(k, "levels", mem) /\ job[<<t, "book">>] = "done"
      PROVE  Kept(k, t, s)
  <2>1. Cur(k, t, R, O, mem.settled[t])
    <3> HIDE DEF p
    <3> QED BY <1>3, <1>4, <1>7, GoToCur
  <2>2. ed[t].text # "empty"
    BY <1>1, <1>3, <1>7 DEF World, Standing
  <2>3. \A r \in R : Onwards(s, r) /\ r # "promote" /\ r # "write"
    BY <1>1 DEF Onwards, Late, Last
  <2> HIDE DEF R, O
  <2> QED BY <1>1, <1>2, <1>3, <1>5, <2>1, <2>2, <2>3, LevelLooks
<1> QED BY <1>1, <1>6, <1>7 DEF WriteWaits

LEMMA WriteKept ==
    ASSUME NEW k, NEW t, NEW s, AskedAt(k, t, s), Write(k) PROVE Kept(k, t, s)
<1> DEFINE b == <<t, "book">>
           p == [mem EXCEPT !.books = @ \cup {t}, !.editions = @ \cup {t}]
           q == [p EXCEPT !.starts[b] = @ + 1]
           S == {"write"}
           O == {"started", "timeout"}
<1>1. /\ s = "write" /\ k = "levels" /\ t = Target(k) /\ t \in Names(Levels) /\ Apart
      /\ t \in Names(Rungs) /\ t \notin Names(Languages) /\ World(t)
      /\ Stage(t, s, "open", mem.settled[t], mem.signOff)
  BY OfLevels, AskedAtFacts DEF Write, At, AskedAt, StepsOf
<1>2. edits' = edits /\ breaks' = breaks
  BY <1>1 DEF Apart, happened
<1>3. Does(k) /\ Data(t, mem) /\ b \in Jobs /\ Limit(b) = Starts
  BY <1>1, WriteDoes, AskedData DEF Jobs, Limit
<1>4. O \subseteq Closings \ {"ready"}
  BY HeldFor
<1>5. \A r \in S : Onwards(s, r) /\ r # "promote" /\ r \notin Late
  BY <1>1 DEF Onwards, Late, Last
<1>6. CASE mem.starts[b] >= Starts
  <2>1. Close(k, "started", mem) /\ Looks
    BY <1>1, <1>6 DEF Write
  <2>2. ed' = ed /\ job' = job
    BY <1>1, <2>1, LooksAside
  <2>3. Cur(k, t, S, O, mem.settled[t])
    BY <1>3, <1>4, <2>1, CloseCur
  <2> HIDE DEF S, O
  <2> QED BY <1>1, <1>2, <1>3, <1>4, <1>5, <2>2, <2>3, LevelLooks
<1>7. CASE ~(mem.starts[b] >= Starts)
  <2>1. /\ job' = [job EXCEPT ![b] = IF @ = "stalled" THEN @ ELSE "active"]
        /\ ed' = [ed EXCEPT ![t].text = "empty"]
        /\ Wait(k, q) /\ ed[t].text \notin Standing
    BY <1>1, <1>7 DEF Write
  <2>2. Data(t, p) /\ p.starts = mem.starts /\ p.settled = mem.settled
    <3>1. t \in Targets
      BY AskedAtFacts
    <3>2. mem \in Productions
      BY <1>3 DEF Data, Updated, Fits
    <3>3. /\ p \in Productions
          /\ p.track = mem.track /\ p.outcome = mem.outcome /\ p.status = mem.status
          /\ p.signOff = mem.signOff /\ p.settled = mem.settled /\ p.starts = mem.starts
      BY <3>1, <3>2 DEF Productions
    <3> HIDE DEF p
    <3> QED BY <1>3, <3>3 DEF Data, Updated, Fits, Limited, Placed
  <2>3. Data(t, q) /\ q.settled = mem.settled
    <3>1. Updated(q)
      <4> HIDE DEF p
      <4> QED BY <1>3, <1>7, <2>2, StartedFits DEF Data
    <3>2. q.settled = p.settled
      BY <2>2 DEF Data, Updated, Fits, Productions
    <3> HIDE DEF p, q
    <3> QED BY <2>2, <3>1, <3>2 DEF Data
  <2>4. Cur(k, t, S, O, mem.settled[t])
    <3> HIDE DEF q
    <3> QED BY <1>1, <2>1, <2>3, WaitCur
  <2>5. job \in [Jobs -> JobStates] /\ ed \in [Names(Rungs) \cup Targets -> Editions]
    BY DEF AskedAt, Asking, Typed, WorldOK
  <2>6. /\ \A i \in Jobs : i # b => job'[i] = job[i]
        /\ job'[b] \in {"stalled", "active"}
    BY <1>3, <2>1, <2>5
  <2>7. /\ \A u \in (Names(Rungs) \cup Targets) \ {t} : ed'[u] = ed[u]
        /\ ed'[t].text = "empty" /\ ed'[t].read = ed[t].read /\ ed'[t].audited = ed[t].audited
    BY <1>1, <2>1, <2>5 DEF Editions
  <2>8. Aside(t)
    BY <1>2, <2>6, <2>7 DEF Aside
  <2>9. job'[<<t, "probe">>] = "done"
    BY <1>1, <2>6, JobsLookedAt DEF Stage, Targets
  <2>10. World(t)'
    <3>1. \A kind \in {"analysis", "audit"} : job'[<<t, kind>>] = job[<<t, kind>>]
      BY <1>1, <2>6, JobsLookedAt DEF Targets
    <3> QED BY <1>1, <2>1, <2>6, <2>7, <2>9, <3>1 DEF World, Live
  <2>11. \A r \in S \cup {s} : r \notin Late
    BY <1>1 DEF Late
  <2> HIDE DEF S, O
  <2> QED BY <1>1, <1>3, <1>4, <1>5, <2>4, <2>8, <2>9, <2>10, <2>11, LevelKept
<1> QED BY <1>6, <1>7

LEMMA JudgeLevelsKept ==
    ASSUME NEW k, NEW t, NEW s, AskedAt(k, t, s), JudgeLevels(k) PROVE Kept(k, t, s)
<1> DEFINE j == <<t, "analysis">>
           S == {"levels", "mend"}
           O == {"started", "timeout"}
<1>1. /\ s = "levels" /\ k = "levels" /\ t = Target(k) /\ t \in Names(Levels)
      /\ t \in Names(Rungs) /\ t \notin Names(Languages) /\ World(t)
      /\ Stage(t, s, "open", mem.settled[t], mem.signOff)
  BY OfLevels, AskedAtFacts DEF JudgeLevels, AtEdition, At, AskedAt, StepsOf
<1>2. ed' = ed /\ edits' = edits /\ breaks' = breaks
  BY DEF JudgeLevels, Apart, happened
<1>3. Does(k) /\ Data(t, mem)
  BY JudgeLevelsDoes, AskedData
<1>4. O \subseteq Closings \ {"ready"}
  BY HeldFor
<1>5. \A r \in S : Onwards(s, r) /\ r # "promote" /\ r # "write"
  BY <1>1 DEF Onwards, Late, Last
<1>6. ed[t].text \in Standing
  <2>1. ed[t] \in Editions
    BY <1>1 DEF AskedAt, Asking, Typed, WorldOK
  <2>2. ed[t].text # "none" /\ ed[t].text # "empty"
    BY <1>1 DEF JudgeLevels, AtEdition, Stage, Late
  <2> QED BY <2>1, <2>2 DEF Editions, Standing
<1>7. ed[t].text # "empty"
  BY <1>6 DEF Standing
<1>8. CASE job' = job /\ (GoTo(k, "mend", mem) \/ Wait(k, mem))
  <2>1. Cur(k, t, S, O, mem.settled[t])
    BY <1>1, <1>3, <1>8, GoToCur, WaitCur
  <2> HIDE DEF S, O
  <2> QED BY <1>1, <1>2, <1>3, <1>4, <1>5, <1>7, <1>8, <2>1, LevelLooks
<1>9. CASE ~ed[t].read /\ Start(k, j, Starts + 1, mem)
  <2>1. j \in Jobs /\ Limit(j) = Starts + 1 /\ j \notin Unseen
    BY <1>1, ProductionAssumption DEF Jobs, Limit, Unseen
  <2>2. /\ Cur(k, t, S, O, mem.settled[t])
        /\ job' = job \/ job' = [job EXCEPT ![j] = "active"]
    BY <1>1, <1>3, <1>9, <2>1, StartCur
  <2>3. CASE job' = job
    <3> HIDE DEF S, O
    <3> QED BY <1>1, <1>2, <1>3, <1>4, <1>5, <1>7, <2>2, <2>3, LevelLooks
  <2>4. CASE job' = [job EXCEPT ![j] = "active"]
    <3>1. job \in [Jobs -> JobStates]
      BY DEF AskedAt, Asking, Typed, WorldOK
    <3>2. \A i \in Jobs : i # j => job'[i] = job[i]
      BY <2>4, <3>1
    <3>3. Aside(t)
      BY <1>2, <2>1, <3>2 DEF Aside
    <3>4. World(t)'
      <4>1. \A kind \in {"book", "probe", "audit"} : job'[<<t, kind>>] = job[<<t, kind>>]
        BY <1>1, <3>2, JobsLookedAt DEF Targets
      <4> QED BY <1>1, <1>2, <1>6, <1>7, <1>9, <4>1 DEF World
    <3>5. \A r \in S \cup {s} : r # "write"
      BY <1>1
    <3> HIDE DEF S, O
    <3> QED BY <1>1, <1>2, <1>3, <1>4, <1>5, <1>7, <2>2, <3>3, <3>4, <3>5, LevelKept
  <2> QED BY <2>2, <2>3, <2>4
<1> QED BY <1>1, <1>8, <1>9 DEF JudgeLevels

\* What a rewriting, a round and a try leave of what is settled.
LEMMA CountedData ==
    ASSUME NEW t, NEW p, Data(t, p), t \in Names(Levels)
    PROVE  Data(t, Counted(t, p)) /\ Counted(t, p).settled = p.settled
  BY CountedFits DEF Data

LEMMA MendedData ==
    ASSUME NEW k, NEW t, NEW s, AskedAt(k, t, s), k = "levels", NEW tries \in [Chapters -> SUBSET Tries]
    PROVE  Data(t, Mended(t, tries)) /\ Mended(t, tries).settled = mem.settled
  BY MendedFits DEF AskedAt, Data

LEMMA RewrittenIs ==
    ASSUME NEW e \in Editions, NEW carried \in BOOLEAN
    PROVE  /\ Rewritten(e, carried).text = e.text
           /\ Rewritten(e, carried).read = carried
           /\ Rewritten(e, carried).audited = FALSE
  BY DEF Editions, Rewritten

\* The text of level t is rewritten, and read again unless its reading was carried over.
LEMMA RewritingKeeps ==
    ASSUME NEW k, NEW t, NEW s, AskedAt(k, t, s), k = "levels", s \in Late, ed[t].text # "none",
           NEW e \in Editions, NEW carried \in {FALSE, ed[t].read}, ed' = [ed EXCEPT ![t] = e],
           e.text = ed[t].text, e.read = carried, e.audited = FALSE,
           job' = Rejudged(t, carried), edits' = edits, breaks' = 0 => breaks = 0
    PROVE  Aside(t) /\ World(t)' /\ ed'[t].text # "empty"
<1> DEFINE a == <<t, "analysis">>
<1>1. /\ t \in Names(Levels) /\ t \in Names(Rungs) /\ t \notin Names(Languages) /\ World(t)
      /\ Stage(t, s, "open", mem.settled[t], mem.signOff) /\ t \in Targets
  BY AskedAtFacts
<1>2. job \in [Jobs -> JobStates] /\ ed \in [Names(Rungs) \cup Targets -> Editions]
  BY DEF AskedAt, Asking, Typed, WorldOK
<1>3. a \in Jobs
  BY <1>1, JobsLookedAt
<1>4. /\ \A i \in Jobs : i # a => job'[i] = job[i]
      /\ job'[a] = IF carried THEN job[a] ELSE "active"
  BY <1>2, <1>3 DEF Rejudged
<1>5. /\ \A u \in (Names(Rungs) \cup Targets) \ {t} : ed'[u] = ed[u]
      /\ ed'[t] = e
  BY <1>1, <1>2
<1>6. ed[t].text \in Standing
  BY <1>1, <1>2 DEF Stage, Editions, Standing
<1>7. Aside(t)
  BY <1>4, <1>5 DEF Aside
<1>8. \A kind \in {"book", "probe", "audit"} : job'[<<t, kind>>] = job[<<t, kind>>]
  BY <1>1, <1>4, JobsLookedAt
<1>9. World(t)'
  BY <1>1, <1>4, <1>5, <1>6, <1>8 DEF World, Standing
<1> QED BY <1>5, <1>6, <1>7, <1>9 DEF Standing

LEMMA MendNothingKept ==
    ASSUME NEW k, NEW t, NEW s, AskedAt(k, t, s), MendNothing(k) PROVE Kept(k, t, s)
<1> DEFINE S == {"audit"}
           O == {"unread"}
<1>1. s = "mend" /\ k = "levels" /\ t = Target(k) /\ Looks /\ Apart
  BY OfLevels DEF MendNothing, AtEdition, At, AskedAt, StepsOf
<1>2. ed' = ed /\ job' = job /\ edits' = edits /\ breaks' = breaks
  BY <1>1, LooksAside
<1>3. Does(k) /\ Data(t, mem)
  BY MendNothingDoes, AskedData
<1>4. O \subseteq Closings \ {"ready"}
  BY HeldFor
<1>5. GoTo(k, "audit", mem) \/ Close(k, "unread", mem)
  BY DEF MendNothing
<1>6. Cur(k, t, S, O, mem.settled[t])
  BY <1>3, <1>4, <1>5, GoToCur, CloseCur
<1>7. (\A r \in S : Onwards(s, r) /\ r # "promote" /\ r # "write") /\ s \in Late
  BY <1>1 DEF Onwards, Late, Last
<1> HIDE DEF S, O
<1> QED BY <1>1, <1>2, <1>3, <1>4, <1>6, <1>7, LevelLooks

LEMMA MendKept ==
    ASSUME NEW k, NEW t, NEW s, AskedAt(k, t, s), Mend(k) PROVE Kept(k, t, s)
<1> DEFINE S == {"levels"}
           O == {}
<1>1. s = "mend" /\ k = "levels" /\ t = Target(k) /\ Apart /\ ed[t].text # "none"
  BY OfLevels DEF Mend, AtEdition, At, AskedAt, StepsOf
<1>2. Does(k) /\ Asking(k) /\ mem \in Productions /\ t \in Names(Levels)
  BY <1>1, MendDoes, AskedData, AskedAtFacts DEF Data, Updated, Fits
<1>3. PICK c \in ed[t].above, try \in Tries :
         GoTo(k, "levels", Mended(t, Through(t, c, IF try = "chapter" THEN Tries
                                                   ELSE mem.mended[t][c] \cup {try})))
  BY <1>1 DEF Mend
<1>4. PICK tries : tries = IF try = "chapter" THEN Tries ELSE mem.mended[t][c] \cup {try}
  OBVIOUS
<1>5. tries \in SUBSET Tries
  <2>1. c \in Chapters
    BY <1>1, <1>2, EditionFits DEF Editions
  <2> QED BY <1>2, <1>4, <2>1 DEF Productions
<1>6. Through(t, c, tries) \in [Chapters -> SUBSET Tries]
  BY <1>1, <1>2, <1>5, ThroughFits
<1>7. Cur(k, t, S, O, mem.settled[t])
  <2>1. PICK p : p = Mended(t, Through(t, c, tries))
    OBVIOUS
  <2>2. Data(t, p) /\ p.settled = mem.settled
    BY <1>1, <1>6, <2>1, MendedData
  <2>3. GoTo(k, "levels", p)
    BY <1>3, <1>4, <2>1
  <2> QED BY <2>2, <2>3, GoToCur
<1>8. /\ ed' = [ed EXCEPT ![t] = Rewritten(ed[t], FALSE)] /\ job' = Rejudged(t, FALSE)
      /\ edits' = edits /\ breaks' = breaks
  <2>1. ed' = [ed EXCEPT ![t] = Rewritten(@, FALSE)] /\ job' = Rejudged(t, FALSE)
    BY <1>1 DEF Mend
  <2> QED BY <1>1, <1>2, <2>1, EditionFits DEF Apart, happened
<1>9. /\ Rewritten(ed[t], FALSE) \in Editions /\ Rewritten(ed[t], FALSE).text = ed[t].text
      /\ Rewritten(ed[t], FALSE).read = FALSE /\ Rewritten(ed[t], FALSE).audited = FALSE
  <2>1. ed[t] \in Editions
    BY <1>1, <1>2, EditionFits
  <2> QED BY <2>1, RewrittenFits, RewrittenIs
<1>10. s \in Late
  BY <1>1 DEF Late
<1>11. Aside(t) /\ World(t)' /\ ed'[t].text # "empty"
  BY <1>1, <1>8, <1>9, <1>10, RewritingKeeps
<1>12. O \subseteq Closings \ {"ready"}
  OBVIOUS
<1>13. \A r \in S : Onwards(s, r) /\ r # "promote"
  BY <1>1 DEF Onwards, Late, Last
<1>14. \A r \in S \cup {s} : r # "write"
  BY <1>1
<1> HIDE DEF S, O
<1> QED BY <1>1, <1>2, <1>7, <1>11, <1>12, <1>13, <1>14, LevelKept

LEMMA MendBreaksKept ==
    ASSUME NEW k, NEW t, NEW s, AskedAt(k, t, s), MendBreaks(k) PROVE Kept(k, t, s)
<1> DEFINE S == {"mend"}
           O == {"error"}
<1>1. /\ s = "mend" /\ k = "levels" /\ t = Target(k) /\ Looks
      /\ breaks' = breaks + 1 /\ edits' = edits
  BY OfLevels DEF MendBreaks, AtEdition, At, AskedAt, StepsOf
<1>2. Does(k) /\ Asking(k) /\ mem \in Productions /\ t \in Names(Levels) /\ breaks \in Nat
  BY <1>1, MendBreaksDoes, AskedData, AskedAtFacts DEF Data, Updated, Fits
<1>3. ed' = ed /\ job' = job /\ (breaks' = 0 => breaks = 0)
  BY <1>1, <1>2 DEF Looks
<1>4. PICK c \in ed[t].above : Raise(k, Mended(t, Through(t, c, mem.mended[t][c])))
  BY <1>1 DEF MendBreaks
<1>5. Through(t, c, mem.mended[t][c]) \in [Chapters -> SUBSET Tries]
  <2>1. c \in Chapters
    BY <1>1, <1>2, EditionFits DEF Editions
  <2>2. mem.mended[t][c] \in SUBSET Tries
    BY <1>2, <2>1 DEF Productions
  <2> QED BY <1>1, <1>2, <2>2, ThroughFits
<1>6. Cur(k, t, S, O, mem.settled[t])
  <2>1. PICK p : p = Mended(t, Through(t, c, mem.mended[t][c]))
    OBVIOUS
  <2>2. Data(t, p) /\ p.settled = mem.settled
    BY <1>1, <1>5, <2>1, MendedData
  <2> QED BY <1>1, <1>4, <2>1, <2>2, RaiseCur
<1>7. O \subseteq Closings \ {"ready"}
  BY HeldFor
<1>8. (\A r \in S : Onwards(s, r) /\ r # "promote" /\ r # "write") /\ s \in Late
  BY <1>1 DEF Onwards, Late, Last
<1> HIDE DEF S, O
<1> QED BY <1>1, <1>2, <1>3, <1>6, <1>7, <1>8, LevelLooks

LEMMA AllTriedData ==
    ASSUME NEW k, NEW t, NEW s, AskedAt(k, t, s), k = "levels"
    PROVE  Data(t, AllTried(t)) /\ AllTried(t).settled = mem.settled
<1>1. mem \in Productions /\ t \in Names(Levels)
  BY AskedData, AskedAtFacts DEF Data, Updated, Fits
<1>2. [x \in Chapters |-> IF x \in ed[t].above THEN Tries ELSE mem.mended[t][x]]
         \in [Chapters -> SUBSET Tries]
  BY <1>1 DEF Productions
<1> QED BY <1>2, MendedData DEF AllTried

LEMMA MendEndsKept ==
    ASSUME NEW k, NEW t, NEW s, AskedAt(k, t, s), MendEnds(k) PROVE Kept(k, t, s)
<1> DEFINE S == {"audit"}
           O == {"too_long"}
<1>1. s = "mend" /\ k = "levels" /\ t = Target(k) /\ Looks /\ Apart
  BY OfLevels DEF MendEnds, AtEdition, At, AskedAt, StepsOf
<1>2. ed' = ed /\ job' = job /\ edits' = edits /\ breaks' = breaks
  BY <1>1, LooksAside
<1>3. Does(k) /\ Data(t, AllTried(t)) /\ AllTried(t).settled = mem.settled
  BY <1>1, MendEndsDoes, AskedData, AllTriedData
<1>4. O \subseteq Closings \ {"ready"}
  BY HeldFor
<1>5. GoTo(k, "audit", AllTried(t)) \/ Close(k, "too_long", AllTried(t))
  BY <1>1 DEF MendEnds
<1>6. Cur(k, t, S, O, mem.settled[t])
  <2>1. PICK p : p = AllTried(t)
    OBVIOUS
  <2> QED BY <1>3, <1>4, <1>5, <2>1, GoToCur, CloseCur
<1>7. (\A r \in S : Onwards(s, r) /\ r # "promote" /\ r # "write") /\ s \in Late
  BY <1>1 DEF Onwards, Late, Last
<1> HIDE DEF S, O
<1> QED BY <1>1, <1>2, <1>3, <1>4, <1>6, <1>7, LevelLooks

\* A purge of level t, and of its jobs but the probe.
LEMMA PurgeKeeps ==
    ASSUME NEW t \in Names(Levels), Typed, Purge(t)
    PROVE  /\ World(t)' /\ ed'[t].text = "none"
           /\ \A u \in (Names(Rungs) \cup Targets) \ {t} : ed'[u] = ed[u]
           /\ \A j \in Jobs : j[1] # t => job'[j] = job[j]
<1>1. t \in Names(Rungs) \cup Targets /\ t \notin Names(Languages)
  BY ProductionAssumption DEF Targets, AskedInOrder
<1>2. /\ ed' = [ed EXCEPT ![t] = NoEdition] /\ ed \in [Names(Rungs) \cup Targets -> Editions]
      /\ job' = [j \in Jobs |-> IF j[1] = t /\ j[2] # "probe" THEN "none" ELSE job[j]]
  BY DEF Purge, Typed, WorldOK
<1>3. /\ \A u \in (Names(Rungs) \cup Targets) \ {t} : ed'[u] = ed[u]
      /\ ed'[t] = NoEdition
  BY <1>1, <1>2
<1>4. NoEdition.text = "none" /\ ~NoEdition.read /\ ~NoEdition.audited
  BY DEF NoEdition
<1>5. \A kind \in {"book", "analysis", "audit"} : job'[<<t, kind>>] = "none"
  BY <1>2, JobsLookedAt DEF Targets
<1>6. World(t)'
  BY <1>1, <1>3, <1>4, <1>5 DEF World, Live
<1> QED BY <1>2, <1>3, <1>4, <1>6

LEMMA DropKept ==
    ASSUME NEW k, NEW t, NEW s, AskedAt(k, t, s), Drop(k) PROVE Kept(k, t, s)
<1> DEFINE S == {"mend"}
           O == {"not_reached"}
           p == [AllTried(t) EXCEPT !.editions = @ \ {t}]
<1>1. /\ s = "mend" /\ k = "levels" /\ t = Target(k) /\ Apart /\ Purge(t) /\ t \in Names(Levels)
      /\ Close(k, "not_reached", p)
  BY OfLevels, AskedAtFacts DEF Drop, AtEdition, At, AskedAt, StepsOf
<1>2. Does(k) /\ Asking(k) /\ Typed /\ edits' = edits /\ breaks' = breaks
  BY <1>1, DropDoes, AskedData DEF Asking, Apart, happened
<1>3. Data(t, p) /\ p.settled = mem.settled
  <2>1. PICK q : q = AllTried(t)
    OBVIOUS
  <2>2. Data(t, q) /\ q.settled = mem.settled
    BY <1>1, <2>1, AllTriedData
  <2>3. /\ p \in Productions
        /\ p.track = q.track /\ p.outcome = q.outcome /\ p.status = q.status
        /\ p.signOff = q.signOff /\ p.settled = q.settled /\ p.starts = q.starts
    BY <2>1, <2>2 DEF Data, Updated, Fits, Productions
  <2> HIDE DEF p
  <2> QED BY <2>2, <2>3 DEF Data, Updated, Fits, Limited, Placed
<1>4. O \subseteq Closings \ {"ready"}
  BY HeldFor
<1>5. Cur(k, t, S, O, mem.settled[t])
  <2> HIDE DEF p
  <2> QED BY <1>1, <1>3, <1>4, CloseCur
<1>6. World(t)' /\ Aside(t) /\ ed'[t].text = "none"
  BY <1>1, <1>2, PurgeKeeps DEF Aside
<1>7. \A r \in S : Onwards(s, r) /\ r # "promote"
  BY <1>1 DEF Onwards, Late, Last
<1>8. \A r \in S \cup {s} : r # "write"
  BY <1>1
<1>9. ed'[t].text # "empty"
  BY <1>6
<1> HIDE DEF S, O
<1> QED BY <1>1, <1>2, <1>4, <1>5, <1>6, <1>7, <1>8, <1>9, LevelKept

LEMMA AuditKept ==
    ASSUME NEW k, NEW t, NEW s, AskedAt(k, t, s), Audit(k) PROVE Kept(k, t, s)
<1> DEFINE j == <<t, "audit">>
           S == {"audit", "settle"}
           O == {"started", "timeout"}
<1>1. /\ s = "audit" /\ k = "levels" /\ t = Target(k) /\ t \in Names(Levels)
      /\ t \in Names(Rungs) /\ t \notin Names(Languages) /\ World(t)
      /\ Stage(t, s, "open", mem.settled[t], mem.signOff)
  BY OfLevels, AskedAtFacts DEF Audit, AtEdition, At, AskedAt, StepsOf
<1>2. ed' = ed /\ edits' = edits /\ breaks' = breaks
  BY DEF Audit, Apart, happened
<1>3. Does(k) /\ Data(t, mem)
  BY AuditDoes, AskedData
<1>4. O \subseteq Closings \ {"ready"}
  BY HeldFor
<1>5. \A r \in S : Onwards(s, r) /\ r # "promote" /\ r # "write"
  BY <1>1 DEF Onwards, Late, Last
<1>6. s \in Late /\ ed[t].text # "empty"
  BY <1>1 DEF Late, Stage
<1>7. CASE job' = job /\ (GoTo(k, "settle", mem) \/ Wait(k, mem))
  <2>1. Cur(k, t, S, O, mem.settled[t])
    BY <1>1, <1>3, <1>7, GoToCur, WaitCur
  <2> HIDE DEF S, O
  <2> QED BY <1>1, <1>2, <1>3, <1>4, <1>5, <1>6, <1>7, <2>1, LevelLooks
<1>8. CASE ~ed[t].audited /\ Start(k, j, Starts, mem)
  <2>1. j \in Jobs /\ Limit(j) = Starts /\ j \notin Unseen
    BY <1>1 DEF Jobs, Limit, Unseen
  <2>2. /\ Cur(k, t, S, O, mem.settled[t])
        /\ job' = job \/ job' = [job EXCEPT ![j] = "active"]
    BY <1>1, <1>3, <1>8, <2>1, StartCur
  <2>3. CASE job' = job
    <3> HIDE DEF S, O
    <3> QED BY <1>1, <1>2, <1>3, <1>4, <1>5, <1>6, <2>2, <2>3, LevelLooks
  <2>4. CASE job' = [job EXCEPT ![j] = "active"]
    <3>1. job \in [Jobs -> JobStates]
      BY DEF AskedAt, Asking, Typed, WorldOK
    <3>2. \A i \in Jobs : i # j => job'[i] = job[i]
      BY <2>4, <3>1
    <3>3. Aside(t)
      BY <1>2, <2>1, <3>2 DEF Aside
    <3>4. World(t)'
      <4>1. \A kind \in {"book", "probe", "analysis"} : job'[<<t, kind>>] = job[<<t, kind>>]
        BY <1>1, <3>2, JobsLookedAt DEF Targets
      <4> QED BY <1>1, <1>2, <1>8, <4>1 DEF World
    <3>5. \A r \in S \cup {s} : r # "write"
      BY <1>1
    <3> HIDE DEF S, O
    <3> QED BY <1>1, <1>2, <1>3, <1>4, <1>5, <1>6, <2>2, <3>3, <3>4, <3>5, LevelKept
  <2> QED BY <2>2, <2>3, <2>4
<1> QED BY <1>1, <1>7, <1>8 DEF Audit

LEMMA SettleNothingKept ==
    ASSUME NEW k, NEW t, NEW s, AskedAt(k, t, s), SettleNothing(k) PROVE Kept(k, t, s)
<1> DEFINE S == {"verdict"}
           O == {}
<1>1. s = "settle" /\ k = "levels" /\ t = Target(k) /\ Looks /\ Apart /\ GoTo(k, "verdict", mem)
  BY OfLevels DEF SettleNothing, AtEdition, At, AskedAt, StepsOf
<1>2. ed' = ed /\ job' = job /\ edits' = edits /\ breaks' = breaks
  BY <1>1, LooksAside
<1>3. Does(k) /\ Data(t, mem)
  BY SettleNothingDoes, AskedData
<1>4. O \subseteq Closings \ {"ready"}
  OBVIOUS
<1>5. Cur(k, t, S, O, mem.settled[t])
  BY <1>1, <1>3, GoToCur
<1>6. (\A r \in S : Onwards(s, r) /\ r # "promote" /\ r # "write") /\ s \in Late
  BY <1>1 DEF Onwards, Late, Last
<1> HIDE DEF S, O
<1> QED BY <1>1, <1>2, <1>3, <1>4, <1>5, <1>6, LevelLooks

LEMMA RoundData ==
    ASSUME NEW t, NEW p, Data(t, p), t \in Names(Levels), p.settled[t] < SettleRounds
    PROVE  Data(t, Round(t, p))
  BY RoundFits DEF Data

LEMMA SettleKept ==
    ASSUME NEW k, NEW t, NEW s, AskedAt(k, t, s), Settle(k) PROVE Kept(k, t, s)
<1> DEFINE S == {"levels"}
           O == {}
<1>1. /\ s = "settle" /\ k = "levels" /\ t = Target(k) /\ Apart /\ ed[t].text # "none"
      /\ t \in Names(Levels) /\ mem.settled[t] < SettleRounds /\ GoTo(k, "levels", Round(t, mem))
  BY OfLevels, AskedAtFacts DEF Settle, AtEdition, At, AskedAt, StepsOf
<1>2. Does(k) /\ Asking(k) /\ Data(t, mem) /\ edits' = edits /\ breaks' = breaks
  BY <1>1, SettleDoes, AskedData DEF Apart, happened
<1>a. PICK carried \in {FALSE, ed[Target(k)].read} :
         /\ \E left \in Overlapping(ed[Target(k)].fixes) :
                ed' = [ed EXCEPT ![Target(k)] = [Rewritten(@, carried) EXCEPT !.fixes = left]]
         /\ job' = Rejudged(Target(k), carried)
  BY DEF Settle
<1>3. carried \in {FALSE, ed[t].read} /\ job' = Rejudged(t, carried)
  BY <1>1, <1>a
<1>4. PICK left \in Overlapping(ed[t].fixes) :
         ed' = [ed EXCEPT ![t] = [Rewritten(@, carried) EXCEPT !.fixes = left]]
  BY <1>1, <1>a
<1>5. PICK e : e = [Rewritten(ed[t], carried) EXCEPT !.fixes = left]
  OBVIOUS
<1>6. /\ e \in Editions /\ e.text = ed[t].text /\ e.read = carried /\ e.audited = FALSE
      /\ ed' = [ed EXCEPT ![t] = e]
  <2>1. ed[t] \in Editions /\ carried \in BOOLEAN
    BY <1>1, <1>2, EditionFits
  <2>2. left \in SUBSET Severities
    BY <2>1 DEF Overlapping, Editions
  <2>3. PICK r : r = Rewritten(ed[t], carried)
    OBVIOUS
  <2>4. r \in Editions /\ r.text = ed[t].text /\ r.read = carried /\ r.audited = FALSE
    BY <2>1, <2>3, RewrittenFits, RewrittenIs
  <2>5. e \in Editions /\ e.text = r.text /\ e.read = r.read /\ e.audited = r.audited
    BY <1>5, <2>2, <2>3, <2>4 DEF Editions
  <2> QED BY <1>1, <1>2, <1>4, <1>5, <2>4, <2>5, EditionFits
<1>7. s \in Late
  BY <1>1 DEF Late
<1>8. Aside(t) /\ World(t)' /\ ed'[t].text # "empty"
  BY <1>1, <1>2, <1>3, <1>6, <1>7, RewritingKeeps
<1>9. PICK p : p = Round(t, mem)
  OBVIOUS
<1>10. Cur(k, t, S, O, p.settled[t])
  <2>1. Data(t, p) /\ GoTo(k, "levels", p)
    BY <1>1, <1>2, <1>9, RoundData
  <2> QED BY <2>1, GoToCur
<1>11. O \subseteq Closings \ {"ready"}
  OBVIOUS
<1>12. \A r \in S : Onwards(s, r) /\ r # "promote"
  BY <1>1 DEF Onwards, Late, Last
<1>13. \A r \in S \cup {s} : r # "write"
  BY <1>1
<1> HIDE DEF S, O
<1> QED BY <1>1, <1>2, <1>8, <1>10, <1>11, <1>12, <1>13, LevelKept

LEMMA RepairedData ==
    ASSUME NEW k, NEW t, NEW s, AskedAt(k, t, s), k = "levels", NEW some \in SUBSET Paras
    PROVE  LET p == [mem EXCEPT !.repaired[t] = @ \cup some]
           IN  Data(t, p) /\ p.settled = mem.settled
  BY RepairedFits DEF AskedAt, Data

LEMMA RepairKept ==
    ASSUME NEW k, NEW t, NEW s, AskedAt(k, t, s), Repair(k) PROVE Kept(k, t, s)
<1> DEFINE S == {"verdict", "levels"}
           O == {}
<1>1. /\ s = "settle" /\ k = "levels" /\ t = Target(k) /\ Apart /\ ed[t].text # "none"
      /\ t \in Names(Levels) /\ mem.settled[t] < SettleRounds
  BY OfLevels, AskedAtFacts DEF Repair, AtEdition, At, AskedAt, StepsOf
<1>2. Does(k) /\ Asking(k) /\ edits' = edits /\ breaks' = breaks
  BY <1>1, RepairDoes, AskedData DEF Apart, happened
<1>3. PICK p : p = [mem EXCEPT !.repaired[t] = @ \cup ed[t].stuck]
  OBVIOUS
<1>4. Data(t, p) /\ p.settled = mem.settled
  <2>1. ed[t].stuck \in SUBSET Paras
    BY <1>1, <1>2, EditionFits DEF Editions
  <2> QED BY <1>1, <1>3, <2>1, RepairedData
<1>5. O \subseteq Closings \ {"ready"}
  OBVIOUS
<1>6. (\A r \in S : Onwards(s, r) /\ r # "promote" /\ r # "write") /\ s \in Late /\ s # "write"
  BY <1>1 DEF Onwards, Late, Last
<1>7. CASE GoTo(k, "verdict", p) /\ UNCHANGED <<ed, job>>
  <2>1. Cur(k, t, S, O, p.settled[t])
    BY <1>4, <1>7, GoToCur
  <2>2. ed' = ed /\ job' = job
    BY <1>7
  <2> HIDE DEF S, O
  <2> QED BY <1>1, <1>2, <1>5, <1>6, <2>1, <2>2, LevelLooks
<1>8. CASE /\ GoTo(k, "levels", Round(t, p))
           /\ \E carried \in {FALSE, ed[t].read} :
                 ed' = [ed EXCEPT ![t] = Rewritten(@, carried)] /\ job' = Rejudged(t, carried)
  <2>1. PICK carried \in {FALSE, ed[t].read} :
           ed' = [ed EXCEPT ![t] = Rewritten(@, carried)] /\ job' = Rejudged(t, carried)
    BY <1>8
  <2>2. ed[t] \in Editions /\ carried \in BOOLEAN
    BY <1>1, <1>2, EditionFits
  <2>3. PICK e : e = Rewritten(ed[t], carried)
    OBVIOUS
  <2>4. /\ e \in Editions /\ e.text = ed[t].text /\ e.read = carried /\ e.audited = FALSE
        /\ ed' = [ed EXCEPT ![t] = e]
    BY <1>1, <1>2, <2>1, <2>2, <2>3, RewrittenFits, RewrittenIs, EditionFits
  <2>5. Aside(t) /\ World(t)' /\ ed'[t].text # "empty"
    BY ZenonT(40), <1>1, <1>2, <1>6, <2>1, <2>4, RewritingKeeps
  <2>6. PICK q : q = Round(t, p)
    OBVIOUS
  <2>7. Data(t, q)
    BY <1>1, <1>4, <2>6, RoundData
  <2>8. Cur(k, t, S, O, q.settled[t])
    BY <1>8, <2>6, <2>7, GoToCur
  <2>9. \A r \in S \cup {s} : r # "write"
    BY <1>6
  <2> HIDE DEF S, O
  <2> QED BY <1>1, <1>2, <1>5, <1>6, <2>5, <2>8, <2>9, LevelKept
<1> QED BY <1>1, <1>3, <1>7, <1>8 DEF Repair

LEMMA RepairBreaksKept ==
    ASSUME NEW k, NEW t, NEW s, AskedAt(k, t, s), RepairBreaks(k) PROVE Kept(k, t, s)
<1> DEFINE S == {"settle"}
           O == {"error"}
<1>1. /\ s = "settle" /\ k = "levels" /\ t = Target(k) /\ ed[t].text # "none"
      /\ t \in Names(Levels) /\ breaks' = breaks + 1 /\ edits' = edits
      /\ ed' = [ed EXCEPT ![t] = Rewritten(@, FALSE)] /\ job' = Rejudged(t, FALSE)
  BY OfLevels, AskedAtFacts DEF RepairBreaks, AtEdition, At, AskedAt, StepsOf
<1>2. Does(k) /\ Asking(k) /\ breaks \in Nat
  BY <1>1, RepairBreaksDoes, AskedData
<1>3. PICK some \in SUBSET Stuck(t) : Raise(k, [mem EXCEPT !.repaired[t] = @ \cup some])
  BY <1>1 DEF RepairBreaks
<1>4. PICK p : p = [mem EXCEPT !.repaired[t] = @ \cup some]
  OBVIOUS
<1>5. Data(t, p) /\ p.settled = mem.settled
  <2>1. some \in SUBSET Paras
    BY <1>1, <1>2, EditionFits DEF Editions, Stuck
  <2> QED BY <1>1, <1>4, <2>1, RepairedData
<1>6. Cur(k, t, S, O, p.settled[t])
  <2>1. Raise(k, p)
    BY <1>3, <1>4
  <2> QED BY <1>1, <1>5, <2>1, RaiseCur
<1>7. O \subseteq Closings \ {"ready"}
  BY HeldFor
<1>8. (\A r \in S : Onwards(s, r) /\ r # "promote" /\ r # "write") /\ s \in Late /\ s # "write"
  BY <1>1 DEF Onwards, Late, Last
<1>9. PICK e : e = Rewritten(ed[t], FALSE)
  OBVIOUS
<1>10. /\ e \in Editions /\ e.text = ed[t].text /\ e.read = FALSE /\ e.audited = FALSE
       /\ ed' = [ed EXCEPT ![t] = e]
  BY <1>1, <1>2, <1>9, RewrittenFits, RewrittenIs, EditionFits
<1>11. breaks' = 0 => breaks = 0
  BY <1>1, <1>2
<1>12. Aside(t) /\ World(t)' /\ ed'[t].text # "empty"
  BY <1>1, <1>8, <1>10, <1>11, RewritingKeeps
<1>13. \A r \in S \cup {s} : r # "write"
  BY <1>8
<1> HIDE DEF S, O
<1> QED BY <1>1, <1>2, <1>6, <1>7, <1>8, <1>12, <1>13, LevelKept

\* A target that passed its verdict.
LEMMA SignedOffKeeps ==
    ASSUME NEW k, NEW t, NEW s, AskedAt(k, t, s), Gates(t), NEW p, Data(t, p), SignedOff(k, p),
           job' = job, edits' = edits, breaks' = breaks
    PROVE  /\ Aside(t) /\ World(t)'
           /\ ed'[t].text # "empty" /\ ed'[t].audited = ed[t].audited /\ ed'[t].fixes = ed[t].fixes
           /\ \/ /\ Cur(k, t, {"promote"}, {"ready"}, p.settled[t])
                 /\ Gates(t)' /\ (mem.signOff => ed'[t].text = "ready")
              \/ Cur(k, t, {}, {"review"}, p.settled[t])
<1>1. t = Target(k) /\ t \in Targets /\ World(t) /\ p.signOff = mem.signOff
  BY AskedAtFacts DEF AskedAt, Data, Updated
<1>2. ed \in [Names(Rungs) \cup Targets -> Editions] /\ t \in Names(Rungs) \cup Targets
  BY <1>1 DEF AskedAt, Asking, Typed, WorldOK
<1>3. ed[t].text \in Standing
  BY DEF Gates
<1>4. ASSUME ed' = ed
      PROVE  /\ Aside(t) /\ World(t)'
             /\ ed'[t].text # "empty" /\ ed'[t].audited = ed[t].audited /\ ed'[t].fixes = ed[t].fixes
             /\ Gates(t)'
  <2>1. World(t)'
    BY <1>1, <1>4, SameKept
  <2>2. Gates(t)'
    BY <1>4 DEF Gates
  <2> QED BY <1>3, <1>4, <2>1, <2>2 DEF Aside, Standing
<1>5. CASE p.signOff /\ Close(k, "review", p) /\ ed' = ed
  <2>1. Cur(k, t, {}, {"review"}, p.settled[t])
    BY <1>5, HeldFor, CloseCur
  <2> QED BY <1>4, <1>5, <2>1
<1>6. CASE Passed(k, p) /\ ed' = IF p.signOff THEN [ed EXCEPT ![t].text = "ready"] ELSE ed
  <2>1. Cur(k, t, {"promote"}, {"ready"}, p.settled[t])
    <3>1. "ready" \in Closings
      BY DEF Closings, Promise!Good
    <3> QED BY <1>6, <3>1, GoToCur, CloseCur DEF Passed
  <2>2. CASE ~p.signOff
    BY <1>1, <1>4, <1>6, <2>1, <2>2
  <2>3. CASE p.signOff
    <3>1. ed' = [ed EXCEPT ![t] = [ed[t] EXCEPT !.text = "ready"]]
      BY <1>2, <1>6, <2>3
    <3>2. /\ \A u \in (Names(Rungs) \cup Targets) \ {t} : ed'[u] = ed[u]
          /\ ed'[t] = [ed[t] EXCEPT !.text = "ready"]
      BY <1>2, <3>1
    <3>3. /\ ed'[t].text = "ready" /\ ed'[t].read = ed[t].read /\ ed'[t].audited = ed[t].audited
          /\ ed'[t].fixes = ed[t].fixes /\ ed'[t].stuck = ed[t].stuck
          /\ ed'[t].over = ed[t].over /\ ed'[t].alone = ed[t].alone
      <4>1. ed[t] \in Editions
        BY <1>2
      <4> QED BY <3>2, <4>1 DEF Editions
    <3>4. Aside(t)
      BY <3>2 DEF Aside
    <3>5. World(t)'
      BY <1>1, <1>3, <3>3 DEF World, Standing
    <3>6. Gates(t)'
      BY <3>3 DEF Gates, Standing
    <3> QED BY <2>1, <3>3, <3>4, <3>5, <3>6
  <2> QED BY <2>2, <2>3
<1> QED BY <1>1, <1>5, <1>6 DEF SignedOff

LEMMA VerdictKept ==
    ASSUME NEW k, NEW t, NEW s, AskedAt(k, t, s), Verdict(k) PROVE Kept(k, t, s)
<1> DEFINE S == {"promote"}
           O == {"ready"}
<1>1. /\ s = "verdict" /\ k = "levels" /\ t = Target(k) /\ Apart /\ UNCHANGED <<job, unreached, begun>>
      /\ t \in Names(Levels) /\ t \notin Names(Languages)
      /\ Stage(t, s, "open", mem.settled[t], mem.signOff)
  BY OfLevels, AskedAtFacts DEF Verdict, AtEdition, At, AskedAt, StepsOf
<1>2. Does(k) /\ Asking(k) /\ Data(t, mem) /\ edits' = edits /\ breaks' = breaks /\ job' = job
  BY <1>1, VerdictDoes, AskedData DEF Apart, happened
<1>3. s \in Late /\ ed[t].text # "empty" /\ Onwards(s, "promote")
  BY <1>1 DEF Stage, Late, Onwards, Last
<1>4. ASSUME NEW P, P \subseteq Closings \ {"ready"}, Cur(k, t, {}, P, mem.settled[t]),
             Aside(t), World(t)', ed'[t].text # "empty"
      PROVE  Kept(k, t, s)
  <2> DEFINE R == {}
  <2>1. (\A r \in R : FALSE) /\ (\A r \in R \cup {s} : r # "write") /\ Cur(k, t, R, P, mem.settled[t])
    BY <1>1, <1>4
  <2> HIDE DEF R
  <2> QED BY <1>1, <1>2, <1>4, <2>1, LevelKept
<1>5. CASE ~Gates(t) /\ Close(k, IF ed[t].read THEN "gates" ELSE "unread", mem) /\ UNCHANGED ed
  <2> DEFINE P == {"gates", "unread"}
  <2>1. P \subseteq Closings \ {"ready"}
    BY HeldFor
  <2>2. Cur(k, t, {}, P, mem.settled[t])
    BY <1>2, <1>5, <2>1, CloseCur
  <2>3. Aside(t) /\ World(t)' /\ ed'[t].text # "empty"
    BY <1>2, <1>3, <1>5, SameKept, AskedAtFacts DEF Aside
  <2> HIDE DEF P
  <2> QED BY <1>4, <2>1, <2>2, <2>3
<1>6. CASE Gates(t) /\ SignedOff(k, mem)
  <2>1. Aside(t) /\ World(t)' /\ ed'[t].text # "empty"
    BY <1>2, <1>6, SignedOffKeeps
  <2>2. CASE Cur(k, t, {}, {"review"}, mem.settled[t])
    BY <1>4, <2>1, <2>2, HeldFor
  <2>3. CASE /\ Cur(k, t, {"promote"}, {"ready"}, mem.settled[t])
             /\ Gates(t)' /\ (mem.signOff => ed'[t].text = "ready")
    <3>1. PICK n : n = mem.settled[t]
      OBVIOUS
    <3>2. PICK g : g = mem.signOff
      OBVIOUS
    <3>3. \A r \in S : Onwards(s, r) /\ Stage(t, r, "open", n, g)'
      BY <1>1, <1>3, <2>1, <2>3, <3>2 DEF Stage
    <3>4. \A o \in O : Stage(t, "none", o, n, g)'
      BY <1>1, <2>1, <2>3, <3>2 DEF Stage, Late
    <3>5. Stage(t, s, "open", row.settled[t], row.signOff)'
      BY <1>1, <2>1 DEF Stage
    <3>6. O \subseteq Closings
      BY DEF Closings, Promise!Good
    <3>7. Cur(k, t, S, O, n)
      BY <2>3, <3>1
    <3> HIDE DEF S, O
    <3> QED BY <1>2, <2>1, <3>2, <3>3, <3>4, <3>5, <3>6, <3>7, CurKept
  <2> QED BY <1>2, <1>6, <2>2, <2>3, SignedOffKeeps
<1> QED BY <1>1, <1>5, <1>6 DEF Verdict

\* What holds of a target held, and of one that was promoted.
LEMMA HeldStage ==
    ASSUME NEW o \in Closings \ {"ready"}, NEW t, NEW n, NEW g
    PROVE  Stage(t, "none", o, n, g) /\ Stage(t, "none", o, n, g)'
<1>1. "none" \notin Late \cup Last \cup {"write", "promote"} /\ o \notin {"open", "ready"}
  BY DEF Late, Last, Closings, Promise!Good, Promise!Holds
<1> QED BY <1>1 DEF Stage

LEMMA PromotedStage ==
    ASSUME NEW t, NEW n, NEW g, Stage(t, "promote", "open", n, g)
    PROVE  Stage(t, "none", "ready", n, g)
  BY DEF Stage, Late, Last

LEMMA OnwardsOnTheSpot ==
    ASSUME NEW s PROVE Onwards(s, s)
  BY DEF Onwards, Last

LEMMA PromoteKept ==
    ASSUME NEW k, NEW t, NEW s, AskedAt(k, t, s), Promote(k) PROVE Kept(k, t, s)
<1> DEFINE j == <<t, "promotion">>
           q == [mem EXCEPT !.promoted = @ \cup {t}]
           S == {"promote"}
           O == {"promotion", "timeout", "ready"}
<1>1. s = "promote" /\ t = Target(k) /\ Apart /\ UNCHANGED <<ed, unreached, begun>> /\ t \in Targets
  BY AskedAtFacts DEF Promote, AtEdition, At, AskedAt
<1>2. Does(k) /\ Data(t, mem) /\ edits' = edits /\ breaks' = breaks /\ ed' = ed
  BY <1>1, PromoteDoes, AskedData DEF Apart, happened
<1>3. O \subseteq Closings
  BY HeldFor DEF Closings, Promise!Good
<1>4. Data(t, q) /\ q.settled = mem.settled
  <2>1. mem \in Productions
    BY <1>2 DEF Data, Updated, Fits
  <2>2. /\ q \in Productions
        /\ q.track = mem.track /\ q.outcome = mem.outcome /\ q.status = mem.status
        /\ q.signOff = mem.signOff /\ q.settled = mem.settled /\ q.starts = mem.starts
    BY <1>1, <2>1 DEF Productions
  <2> HIDE DEF q
  <2> QED BY <1>2, <2>2 DEF Data, Updated, Fits, Limited, Placed
<1>5. PICK n : n = mem.settled[t]
  OBVIOUS
<1>6. PICK g : g = mem.signOff
  OBVIOUS
<1>7. Cur(k, t, S, O, n) /\ (job' = job \/ job' = [job EXCEPT ![j] = "active"])
  <2>1. \/ Close(k, "promotion", mem) /\ job' = job
        \/ job' = [job EXCEPT ![j] = "active"] /\ Wait(k, q)
        \/ job' = job /\ Close(k, "ready", mem)
        \/ job' = job /\ Wait(k, mem)
    BY <1>1 DEF Promote
  <2> HIDE DEF q
  <2>2. CASE Close(k, "promotion", mem) \/ Close(k, "ready", mem)
    BY <1>2, <1>3, <1>5, <2>1, <2>2, CloseCur
  <2>3. CASE Wait(k, mem)
    BY <1>1, <1>2, <1>5, <2>1, <2>3, WaitCur
  <2>4. CASE Wait(k, q)
    BY <1>1, <1>4, <1>5, <2>1, <2>4, WaitCur
  <2> QED BY <2>1, <2>2, <2>3, <2>4
<1>8. /\ \A i \in Jobs : i[1] # Source /\ i[2] # "promotion" => job'[i] = job[i]
      /\ \A i \in Jobs : i[1] \notin {t, Source} => job'[i] = job[i]
  <2>1. job \in [Jobs -> JobStates]
    BY DEF AskedAt, Asking, Typed, WorldOK
  <2> QED BY <1>7, <2>1
<1>9. Stage(t, "promote", "open", n, g)
  BY <1>1, <1>5, <1>6, AskedAtFacts
<1>10. \A r \in S : Onwards(s, r) /\ Stage(t, r, "open", n, g)
  BY <1>1, <1>9, OnwardsOnTheSpot
<1>11. \A o \in O : Stage(t, "none", o, n, g)
  BY <1>3, <1>9, HeldStage, PromotedStage
<1> HIDE DEF S, O
<1> QED BY <1>2, <1>3, <1>6, <1>7, <1>8, <1>10, <1>11, LooksKept

\* A step that leaves its target where it is, or holds it.
LEMMA StaysKept ==
    ASSUME NEW k, NEW t, NEW s, AskedAt(k, t, s), Does(k), NEW O, O \subseteq Closings \ {"ready"},
           Cur(k, t, {s}, O, mem.settled[t]), ed' = ed, job' = job,
           edits' = edits, breaks' = 0 => breaks = 0
    PROVE  Kept(k, t, s)
<1> DEFINE S == {s}
<1>1. PICK n : n = mem.settled[t]
  OBVIOUS
<1>2. PICK g : g = mem.signOff
  OBVIOUS
<1>3. \A r \in S : Onwards(s, r) /\ Stage(t, r, "open", n, g)
  BY <1>1, <1>2, AskedAtFacts, OnwardsOnTheSpot
<1>4. \A o \in O : Stage(t, "none", o, n, g)
  BY HeldStage
<1>5. Cur(k, t, S, O, n) /\ O \subseteq Closings
  BY <1>1
<1>6. \A j \in Jobs : job'[j] = job[j]
  OBVIOUS
<1> HIDE DEF S
<1> QED BY <1>2, <1>3, <1>4, <1>5, <1>6, LooksKept

LEMMA RefusedKept ==
    ASSUME NEW k, NEW t, NEW s, AskedAt(k, t, s), Refused(k) PROVE Kept(k, t, s)
<1> DEFINE O == {"refused"}
<1>1. Close(k, "refused", mem) /\ Looks /\ Apart
  BY DEF Refused
<1>2. Does(k) /\ Data(t, mem) /\ ed' = ed /\ job' = job /\ edits' = edits /\ breaks' = breaks
  BY <1>1, RefusedDoes, AskedData, LooksAside
<1>3. O \subseteq Closings \ {"ready"}
  BY HeldFor
<1>4. Cur(k, t, {s}, O, mem.settled[t])
  BY <1>1, <1>2, <1>3, CloseCur
<1> HIDE DEF O
<1> QED BY <1>2, <1>3, <1>4, StaysKept

LEMMA RaisedKept ==
    ASSUME NEW k, NEW t, NEW s, AskedAt(k, t, s), EditionGone(k) \/ Break(k) PROVE Kept(k, t, s)
<1> DEFINE O == {"error"}
<1>1. Raise(k, mem) /\ Looks
  BY DEF EditionGone, Break
<1>2. Does(k) /\ Data(t, mem) /\ breaks \in Nat
  BY EditionGoneDoes, BreakDoes, AskedData
<1>3. ed' = ed /\ job' = job /\ edits' = edits /\ (breaks' = 0 => breaks = 0)
  BY <1>1, <1>2 DEF Looks, EditionGone, Break, Apart, happened
<1>4. O \subseteq Closings \ {"ready"}
  BY HeldFor
<1>5. Cur(k, t, {s}, O, mem.settled[t])
  BY <1>1, <1>2, RaiseCur
<1> HIDE DEF O
<1> QED BY <1>2, <1>3, <1>4, <1>5, StaysKept

\* A language whose corrections have not begun.
LEMMA Uncorrected ==
    ASSUME NEW t \in Names(Languages), NEW s, s \in {"translate", "review"}, NEW n \in Nat, NEW g,
           Stage(t, s, "open", n, g)
    PROVE  /\ n = 0
           /\ \A r \in {"translate", "review"} : Stage(t, r, "open", n, g) /\ Stage(t, r, "open", n, g)'
           /\ job[<<t, "review">>] \notin Live => Stage(t, "corrections", "open", n, g)
<1>1. s \notin Last /\ t \notin Names(Levels) /\ "promote" \notin {"translate", "review", "corrections"}
  BY ProductionAssumption DEF Last, AskedInOrder
<1>2. n = 0
  BY <1>1 DEF Stage
<1>3. ASSUME NEW r \in {"translate", "review"}
      PROVE  Stage(t, r, "open", n, g) /\ Stage(t, r, "open", n, g)'
  BY <1>1, <1>2, <1>3 DEF Stage, Last
<1>4. ASSUME job[<<t, "review">>] \notin Live PROVE Stage(t, "corrections", "open", n, g)
  BY <1>1, <1>2, <1>4 DEF Stage
<1> QED BY <1>2, <1>3, <1>4

LEMMA TranslateKept ==
    ASSUME NEW k, NEW t, NEW s, AskedAt(k, t, s), Translate(k) PROVE Kept(k, t, s)
<1> DEFINE j == <<t, "translation">>
           p == [mem EXCEPT !.editions = @ \cup {t}]
           S == {"translate", "review"}
           O == {"started", "timeout"}
<1>1. /\ s = "translate" /\ k = "languages" /\ t = Target(k) /\ Apart /\ t \in Targets
      /\ t \in Names(Languages) /\ t \notin Names(Levels) /\ World(t)
      /\ Stage(t, s, "open", mem.settled[t], mem.signOff)
      /\ Stage(t, s, "open", row.settled[t], row.signOff)
  BY OfLanguages, AskedAtFacts DEF Translate, At, AskedAt, StepsOf
<1>2. Does(k) /\ Data(t, mem) /\ row' = row /\ edits' = edits /\ breaks' = breaks
  BY <1>1, TranslateDoes, AskedData DEF Apart, happened
<1>3. Data(t, p) /\ p.settled = mem.settled
  <2>1. mem \in Productions
    BY <1>2 DEF Data, Updated, Fits
  <2>2. /\ p \in Productions
        /\ p.track = mem.track /\ p.outcome = mem.outcome /\ p.status = mem.status
        /\ p.signOff = mem.signOff /\ p.settled = mem.settled /\ p.starts = mem.starts
    BY <1>1, <2>1 DEF Productions
  <2> HIDE DEF p
  <2> QED BY <1>2, <2>2 DEF Data, Updated, Fits, Limited, Placed
<1>4. PICK n : n = mem.settled[t]
  OBVIOUS
<1>5. PICK g : g = mem.signOff
  OBVIOUS
<1>6. n \in Nat /\ row.settled[t] \in Nat
  BY <1>1, <1>4 DEF AskedAt, Asking, Typed, Fits, Productions
<1>7. O \subseteq Closings \ {"ready"}
  BY HeldFor
<1>8. /\ \A r \in S : Onwards(s, r) /\ Stage(t, r, "open", n, g)'
      /\ \A o \in O : Stage(t, "none", o, n, g)'
      /\ Stage(t, s, "open", row.settled[t], row.signOff)'
  <2>1. \A r \in S : Onwards(s, r)
    BY <1>1 DEF Onwards, Last, Late
  <2>2. \A r \in S : Stage(t, r, "open", n, g)'
    <3>1. Stage(t, "translate", "open", n, g)
      BY <1>1, <1>4, <1>5
    <3> QED BY ZenonT(40), <1>1, <1>6, <3>1, Uncorrected
  <2>3. PICK m : m = row.settled[t]
    OBVIOUS
  <2>4. PICK h : h = row.signOff
    OBVIOUS
  <2>5. Stage(t, s, "open", m, h)'
    BY <1>1, <1>6, <2>3, <2>4, Uncorrected
  <2> QED BY <1>2, <1>7, <2>1, <2>2, <2>3, <2>4, <2>5, HeldStage
<1>9. job \in [Jobs -> JobStates] /\ ed \in [Names(Rungs) \cup Targets -> Editions]
  BY DEF AskedAt, Asking, Typed, WorldOK
<1>10. j \in Jobs /\ Limit(j) = Starts
  BY <1>1 DEF Jobs, Limit
<1>11. /\ Cur(k, t, S, O, n)
       /\ \A i \in Jobs : i # j => job'[i] = job[i]
       /\ \/ ed' = ed /\ job' = job
          \/ ed' = [ed EXCEPT ![t].text = "empty"]
  <2>1. CASE GoTo(k, "review", p) /\ UNCHANGED <<ed, job, begun>>
    <3> HIDE DEF p
    <3> QED BY <1>3, <1>4, <2>1, GoToCur
  <2>2. CASE /\ ed' = [ed EXCEPT ![t].text = "empty"]
             /\ Wait(k, p) /\ UNCHANGED <<job, begun>>
    <3> HIDE DEF p
    <3> QED BY <1>1, <1>3, <1>4, <2>2, WaitCur
  <2>3. CASE ed' = [ed EXCEPT ![t].text = "empty"] /\ Start(k, j, Starts, p)
    <3> HIDE DEF p
    <3>1. /\ Cur(k, t, S, O, n)
          /\ job' = job \/ job' = [job EXCEPT ![j] = IF j \in Unseen THEN "sent" ELSE "active"]
      BY <1>1, <1>3, <1>4, <1>10, <2>3, StartCur
    <3> QED BY <1>9, <2>3, <3>1
  <2> QED BY <1>1, <2>1, <2>2, <2>3 DEF Translate
<1>12. Aside(t)
  BY <1>1, <1>2, <1>9, <1>10, <1>11 DEF Aside
<1>13. World(t)'
  <2>1. CASE ed' = ed /\ job' = job
    BY <1>1, <1>2, <2>1, SameKept
  <2>2. CASE ed' = [ed EXCEPT ![t].text = "empty"]
    <3>1. ed'[t].text = "empty" /\ ed'[t].audited = ed[t].audited
      BY <1>1, <1>9, <2>2 DEF Editions
    <3>2. job'[<<t, "review">>] = job[<<t, "review">>]
      BY <1>1, <1>11, JobsLookedAt
    <3> QED BY <1>1, <3>1, <3>2 DEF World
  <2> QED BY <1>11, <2>1, <2>2
<1>14. O \subseteq Closings
  BY <1>7
<1> HIDE DEF S, O
<1> QED BY <1>2, <1>5, <1>8, <1>11, <1>12, <1>13, <1>14, CurKept

LEMMA ReviewKept ==
    ASSUME NEW k, NEW t, NEW s, AskedAt(k, t, s), Review(k) PROVE Kept(k, t, s)
<1> DEFINE j == <<t, "review">>
           S == {"review"}
           R == {"corrections"}
           O == {"started", "timeout"}
<1>1. /\ s = "review" /\ k = "languages" /\ t = Target(k) /\ Apart /\ t \in Targets
      /\ t \in Names(Languages) /\ t \notin Names(Levels) /\ World(t)
      /\ Stage(t, s, "open", mem.settled[t], mem.signOff)
      /\ Stage(t, s, "open", row.settled[t], row.signOff)
  BY OfLanguages, AskedAtFacts DEF Review, AtEdition, At, AskedAt, StepsOf
<1>2. Does(k) /\ Data(t, mem) /\ row' = row /\ edits' = edits /\ breaks' = breaks /\ ed' = ed
  BY <1>1, ReviewDoes, AskedData DEF Review, Apart, happened
<1>3. PICK n : n = mem.settled[t]
  OBVIOUS
<1>4. PICK g : g = mem.signOff
  OBVIOUS
<1>5. n \in Nat /\ row.settled[t] \in Nat
  BY <1>1, <1>3 DEF AskedAt, Asking, Typed, Fits, Productions
<1>6. O \subseteq Closings \ {"ready"}
  BY HeldFor
<1>7. \A o \in O : Stage(t, "none", o, n, g) /\ Stage(t, "none", o, n, g)'
  BY <1>6, HeldStage
<1>8. CASE ed[t].audited /\ GoTo(k, "corrections", mem) /\ job' = job
  <2>1. job[j] \notin Live
    BY <1>1, <1>8 DEF World
  <2>2. \A r \in R : Onwards(s, r) /\ Stage(t, r, "open", n, g)
    BY <1>1, <1>3, <1>4, <1>5, <2>1, Uncorrected DEF Onwards, Last, Late
  <2>3. Cur(k, t, R, O, n)
    BY <1>2, <1>3, <1>8, GoToCur
  <2>4. O \subseteq Closings /\ \A i \in Jobs : job'[i] = job[i]
    BY <1>6, <1>8
  <2> HIDE DEF R, O
  <2> QED BY <1>2, <1>4, <1>7, <2>2, <2>3, <2>4, LooksKept
<1>9. CASE Wait(k, mem) /\ job' = job
  <2>1. Cur(k, t, {s}, O, mem.settled[t])
    BY <1>2, <1>9, WaitCur
  <2> HIDE DEF O
  <2> QED BY <1>2, <1>6, <1>9, <2>1, StaysKept
<1>10. CASE ~ed[t].audited /\ Start(k, j, Starts, mem)
  <2>1. j \in Jobs /\ Limit(j) = Starts
    BY <1>1 DEF Jobs, Limit
  <2>2. /\ Cur(k, t, S, O, n)
        /\ job' = job \/ job' = [job EXCEPT ![j] = IF j \in Unseen THEN "sent" ELSE "active"]
    BY <1>1, <1>2, <1>3, <1>10, <2>1, StartCur
  <2>3. \A i \in Jobs : i # j => job'[i] = job[i]
    BY <2>1, <2>2 DEF AskedAt, Asking, Typed, WorldOK
  <2>4. Aside(t)
    BY <1>2, <2>3 DEF Aside
  <2>5. World(t)'
    <3>1. job'[<<t, "translation">>] = job[<<t, "translation">>]
      BY <1>1, <2>3, JobsLookedAt
    <3> QED BY <1>1, <1>2, <1>10, <3>1 DEF World
  <2>6. \A r \in S : Onwards(s, r) /\ Stage(t, r, "open", n, g)'
    <3>1. Stage(t, "review", "open", n, g)
      BY <1>1, <1>3, <1>4
    <3>2. Stage(t, "review", "open", n, g)'
      BY <1>1, <1>5, <3>1, Uncorrected
    <3> QED BY <1>1, <3>2, OnwardsOnTheSpot
  <2>7. Stage(t, s, "open", row.settled[t], row.signOff)'
    <3>1. PICK m : m = row.settled[t]
      OBVIOUS
    <3>2. PICK h : h = row.signOff
      OBVIOUS
    <3>3. Stage(t, s, "open", m, h)'
      BY <1>1, <1>5, <3>1, <3>2, Uncorrected
    <3> QED BY <1>2, <3>1, <3>2, <3>3
  <2>8. O \subseteq Closings
    BY <1>6
  <2> HIDE DEF S, O
  <2> QED BY <1>2, <1>4, <1>7, <2>2, <2>4, <2>5, <2>6, <2>7, <2>8, CurKept
<1> QED BY <1>1, <1>8, <1>9, <1>10 DEF Review

LEMMA SettledData ==
    ASSUME NEW k, NEW t, NEW s, AskedAt(k, t, s), k = "languages"
    PROVE  LET p == [mem EXCEPT !.settled[t] = 1]
           IN  Data(t, p) /\ p.settled[t] = 1
<1> DEFINE p == [mem EXCEPT !.settled[t] = 1]
<1>1. mem \in Productions /\ t \in Targets
  BY AskedData, AskedAtFacts DEF Data, Updated, Fits
<1>2. Updated(p)
  BY SettledFits DEF AskedAt
<1>3. \A u \in Targets : p.settled[u] = IF u = t THEN 1 ELSE mem.settled[u]
  BY <1>1 DEF Productions
<1> HIDE DEF p
<1>4. Data(t, p) /\ p.settled[t] = 1
  BY <1>1, <1>2, <1>3 DEF Data
<1> QED BY <1>4 DEF p

LEMMA CorrectKept ==
    ASSUME NEW k, NEW t, NEW s, AskedAt(k, t, s), Correct(k) PROVE Kept(k, t, s)
<1> DEFINE S == {"corrections"}
           O == {}
<1>1. /\ s = "corrections" /\ k = "languages" /\ t = Target(k) /\ Apart /\ job' = job /\ t \in Targets
      /\ t \in Names(Languages) /\ t \notin Names(Levels) /\ World(t)
      /\ GoTo(k, "corrections", [mem EXCEPT !.settled[t] = 1])
      /\ Stage(t, s, "open", mem.settled[t], mem.signOff)
      /\ Stage(t, s, "open", row.settled[t], row.signOff)
  BY OfLanguages, AskedAtFacts DEF Correct, AtEdition, At, AskedAt, StepsOf
<1>2. Does(k) /\ Asking(k) /\ row' = row /\ edits' = edits /\ breaks' = breaks
  BY <1>1, CorrectDoes, AskedData DEF Apart, happened
<1>3. PICK p : p = [mem EXCEPT !.settled[t] = 1]
  OBVIOUS
<1>4. Data(t, p) /\ p.settled[t] = 1
  BY <1>1, <1>3, SettledData
<1>5. Cur(k, t, S, O, 1)
  <2>1. GoTo(k, "corrections", p)
    BY <1>1, <1>3
  <2>2. Cur(k, t, S, O, p.settled[t])
    BY <1>4, <2>1, GoToCur
  <2> QED BY <1>4, <2>2
<1>6. PICK left \in Overlapping(ed[t].fixes) :
         ed' = [ed EXCEPT ![t].fixes = left, ![t].audited = FALSE]
  BY <1>1 DEF Correct
<1>7. /\ \A u \in (Names(Rungs) \cup Targets) \ {t} : ed'[u] = ed[u]
      /\ ed'[t].audited = FALSE /\ ed'[t].text = ed[t].text
  <2>1. ed[t] \in Editions /\ ed \in [Names(Rungs) \cup Targets -> Editions]
    BY <1>1, <1>2, EditionFits
  <2> QED BY <1>1, <1>6, <2>1 DEF Editions
<1>8. Aside(t)
  BY <1>1, <1>2, <1>7 DEF Aside
<1>9. World(t)'
  BY <1>1, <1>7 DEF World
<1>10. job[<<t, "review">>] \notin Live /\ s \in Last /\ s # "promote"
  BY <1>1 DEF Stage, Last
<1>11. PICK g : g = mem.signOff
  OBVIOUS
<1>12. \A r \in S : Onwards(s, r) /\ Stage(t, r, "open", 1, g)'
  BY <1>1, <1>7, <1>10, OnwardsOnTheSpot DEF Stage
<1>13. Stage(t, s, "open", row.settled[t], row.signOff)'
  BY <1>1, <1>2, <1>7, <1>10 DEF Stage
<1>14. O \subseteq Closings /\ \A o \in O : Stage(t, "none", o, 1, g)'
  OBVIOUS
<1> HIDE DEF S, O
<1> QED BY <1>2, <1>5, <1>8, <1>9, <1>11, <1>12, <1>13, <1>14, CurKept

LEMMA CorrectBreaksKept ==
    ASSUME NEW k, NEW t, NEW s, AskedAt(k, t, s), CorrectBreaks(k) PROVE Kept(k, t, s)
<1> DEFINE S == {"corrections"}
           O == {"error"}
<1>1. /\ s = "corrections" /\ k = "languages" /\ t = Target(k) /\ Looks /\ row' = row
      /\ t \in Targets /\ t \in Names(Languages) /\ t \notin Names(Levels) /\ World(t)
      /\ Raise(k, [mem EXCEPT !.settled[t] = 1]) /\ breaks' = breaks + 1 /\ edits' = edits
      /\ Stage(t, s, "open", mem.settled[t], mem.signOff)
      /\ Stage(t, s, "open", row.settled[t], row.signOff)
  BY OfLanguages, AskedAtFacts DEF CorrectBreaks, AtEdition, At, AskedAt, StepsOf
<1>2. Does(k) /\ ed' = ed /\ job' = job /\ breaks \in Nat
  BY <1>1, CorrectBreaksDoes, AskedData DEF Looks
<1>3. PICK p : p = [mem EXCEPT !.settled[t] = 1]
  OBVIOUS
<1>4. Data(t, p) /\ p.settled[t] = 1
  BY <1>1, <1>3, SettledData
<1>5. Cur(k, t, S, O, 1)
  <2>1. Raise(k, p)
    BY <1>1, <1>3
  <2>2. Cur(k, t, S, O, p.settled[t])
    BY <1>1, <1>4, <2>1, RaiseCur
  <2> QED BY <1>4, <2>2
<1>6. breaks' # 0 /\ (breaks' = 0 => breaks = 0)
  BY <1>1, <1>2
<1>7. Aside(t)
  BY <1>1, <1>2, <1>6 DEF Aside
<1>8. World(t)'
  BY <1>1, <1>2, <1>6, SameKept
<1>9. job[<<t, "review">>] \notin Live /\ s \in Last /\ s # "promote"
  BY <1>1 DEF Stage, Last
<1>10. PICK g : g = mem.signOff
  OBVIOUS
<1>11. \A r \in S : Onwards(s, r) /\ Stage(t, r, "open", 1, g)'
  BY <1>1, <1>2, <1>6, <1>9, OnwardsOnTheSpot DEF Stage
<1>12. Stage(t, s, "open", row.settled[t], row.signOff)'
  BY <1>1, <1>2, <1>6, <1>9 DEF Stage
<1>13. O \subseteq Closings /\ \A o \in O : Stage(t, "none", o, 1, g)'
  BY HeldFor, HeldStage
<1> HIDE DEF S, O
<1> QED BY <1>2, <1>5, <1>7, <1>8, <1>10, <1>11, <1>12, <1>13, CurKept

LEMMA CorrectionsKept ==
    ASSUME NEW k, NEW t, NEW s, AskedAt(k, t, s), Corrections(k) PROVE Kept(k, t, s)
<1> DEFINE S == {"promote"}
           O == {"ready"}
           R == {}
           P == {"gates", "review"}
<1>1. /\ s = "corrections" /\ k = "languages" /\ t = Target(k) /\ Apart /\ t \in Targets
      /\ UNCHANGED <<job, unreached, begun>> /\ (mem.settled[t] = 1 \/ ed[t].fixes = {})
      /\ t \in Names(Languages) /\ t \notin Names(Levels) /\ World(t)
      /\ Stage(t, s, "open", mem.settled[t], mem.signOff)
      /\ Stage(t, s, "open", row.settled[t], row.signOff)
  BY OfLanguages, AskedAtFacts DEF Corrections, AtEdition, At, AskedAt, StepsOf
<1>2. Does(k) /\ Asking(k) /\ row' = row /\ edits' = edits /\ breaks' = breaks /\ job' = job
  BY <1>1, CorrectionsDoes, AskedData DEF Apart, happened
<1>3. PICK p : p = [mem EXCEPT !.settled[t] = 1]
  OBVIOUS
<1>4. Data(t, p) /\ p.settled[t] = 1
  BY <1>1, <1>3, SettledData
<1>5. \/ Gates(t) /\ SignedOff(k, p)
      \/ ~Gates(t) /\ Close(k, "gates", p) /\ ed' = ed
  BY <1>1, <1>3 DEF Corrections
<1>6. /\ job[<<t, "review">>] \notin Live /\ s \in Last /\ s # "promote"
      /\ breaks = 0 => ~ed[t].audited \/ ed[t].fixes = {}
  BY <1>1 DEF Stage, Last
<1>7. PICK g : g = mem.signOff
  OBVIOUS
<1>8. P \subseteq Closings \ {"ready"}
  BY HeldFor
<1>9. ASSUME Aside(t), World(t)', ed'[t].audited = ed[t].audited, ed'[t].fixes = ed[t].fixes
      PROVE  Stage(t, s, "open", row.settled[t], row.signOff)'
  BY <1>1, <1>2, <1>6, <1>9 DEF Stage
<1>10. ASSUME Aside(t), World(t)', ed'[t].audited = ed[t].audited, ed'[t].fixes = ed[t].fixes,
              Cur(k, t, R, P, 1)
       PROVE  Kept(k, t, s)
  <2>1. Stage(t, s, "open", row.settled[t], row.signOff)'
    BY <1>9, <1>10
  <2>2. (\A r \in R : FALSE) /\ P \subseteq Closings /\ \A o \in P : Stage(t, "none", o, 1, g)'
    BY <1>8, HeldStage
  <2> HIDE DEF R, P
  <2> QED BY <1>2, <1>7, <1>10, <2>1, <2>2, CurKept
<1>11. CASE ~Gates(t) /\ Close(k, "gates", p) /\ ed' = ed
  <2>1. Cur(k, t, R, P, p.settled[t])
    BY <1>4, <1>8, <1>11, CloseCur
  <2>2. Aside(t) /\ World(t)'
    BY <1>1, <1>2, <1>11, SameKept DEF Aside
  <2> QED BY <1>4, <1>10, <1>11, <2>1, <2>2
<1>12. CASE Gates(t) /\ SignedOff(k, p)
  <2>1. /\ Aside(t) /\ World(t)'
        /\ ed'[t].text # "empty" /\ ed'[t].audited = ed[t].audited /\ ed'[t].fixes = ed[t].fixes
        /\ \/ /\ Cur(k, t, {"promote"}, {"ready"}, p.settled[t])
              /\ Gates(t)' /\ (mem.signOff => ed'[t].text = "ready")
           \/ Cur(k, t, {}, {"review"}, p.settled[t])
    BY <1>2, <1>4, <1>12, SignedOffKeeps
  <2>2. CASE Cur(k, t, {}, {"review"}, p.settled[t])
    <3>1. Cur(k, t, R, P, p.settled[t])
      BY <2>2 DEF Cur
    <3> QED BY <1>4, <1>10, <2>1, <3>1
  <2>3. CASE /\ Cur(k, t, {"promote"}, {"ready"}, p.settled[t])
             /\ Gates(t)' /\ (mem.signOff => ed'[t].text = "ready")
    <3>1. Cur(k, t, S, O, 1)
      BY <1>4, <2>3
    <3>2. "promote" \in Last /\ Onwards(s, "promote")
      BY <1>1 DEF Onwards, Last, Late
    <3>3. \A r \in S : Onwards(s, r) /\ Stage(t, r, "open", 1, g)'
      BY <1>1, <1>2, <1>6, <1>7, <2>1, <2>3, <3>2 DEF Stage
    <3>4. \A o \in O : Stage(t, "none", o, 1, g)'
      BY <1>1, <1>2, <1>6, <1>7, <2>1, <2>3, <3>2 DEF Stage
    <3>5. O \subseteq Closings
      BY DEF Closings, Promise!Good
    <3>6. Stage(t, s, "open", row.settled[t], row.signOff)'
      BY <1>9, <2>1
    <3> HIDE DEF S, O
    <3> QED BY <1>2, <1>7, <2>1, <3>1, <3>3, <3>4, <3>5, <3>6, CurKept
  <2> QED BY <2>1, <2>2, <2>3
<1> QED BY <1>5, <1>11, <1>12
\* Every step of a track, and every step that raises, keeps its target and the others.
LEMMA StepKept ==
    ASSUME NEW k, NEW t, NEW s, AskedAt(k, t, s), Step(k) PROVE Kept(k, t, s)
  BY ReadSourceKept, ProbeClosesKept, ProbeAdoptsKept, ProbeKept, WriteWaitsKept, WriteKept,
     JudgeLevelsKept, MendNothingKept, MendKept, MendEndsKept, DropKept, AuditKept,
     SettleNothingKept, SettleKept, RepairKept, VerdictKept, PromoteKept, TranslateKept, ReviewKept,
     CorrectKept, CorrectionsKept, RefusedKept, RaisedKept
  DEF Step

LEMMA FaultKept ==
    ASSUME NEW k, NEW t, NEW s, AskedAt(k, t, s), Fault(k) PROVE Kept(k, t, s) \/ DropDies(k)
  BY MendBreaksKept, RepairBreaksKept, CorrectBreaksKept, RaisedKept DEF Fault

\* What is not a step of a track loses nothing of what was known of the targets.
Loses(u) == \/ World(u) /\ ~World(u)'
            \/ \E r, o, n, g : Stage(u, r, o, n, g) /\ ~Stage(u, r, o, n, g)'
NothingLost == \A u \in Targets : ~Loses(u)

\* Production q is as far as production p.
AsFar(p, q) ==
    /\ q.outcome = p.outcome /\ q.settled = p.settled /\ q.signOff = p.signOff
    /\ \A k \in Tracks : q.track[k].index = p.track[k].index /\ q.track[k].step = p.track[k].step

LEMMA CopyStaged ==
    ASSUME NothingLost, NEW p, NEW q, Staged(p), AsFar(p, q) PROVE Staged(q)'
<1> SUFFICES ASSUME NEW k \in Tracks, NEW i \in 1 .. Len(Lists[k])
             PROVE  Stage(Lists[k][i], StepAt(q, k, i), q.outcome[Lists[k][i]],
                          q.settled[Lists[k][i]], q.signOff)'
  BY DEF Staged, StepAt
<1>1. Stage(Lists[k][i], StepAt(p, k, i), p.outcome[Lists[k][i]], p.settled[Lists[k][i]], p.signOff)
  BY DEF Staged
<1>2. StepAt(q, k, i) = StepAt(p, k, i)
  BY DEF StepAt, AsFar
<1>3. Lists[k][i] \in Targets
  BY ListFacts
<1> QED BY <1>1, <1>2, <1>3 DEF AsFar, NothingLost, Loses

LEMMA CopiesEarned ==
    ASSUME Earned, Descending', NothingLost, Onward',
           AsFar(row, row') \/ AsFar(mem, row'), AsFar(row, mem') \/ AsFar(mem, mem')
    PROVE  Earned'
<1>1. PICK p : p = row
  OBVIOUS
<1>2. PICK m : m = mem
  OBVIOUS
<1>3. PICK q : q = row'
  OBVIOUS
<1>4. PICK n : n = mem'
  OBVIOUS
<1>5. Staged(p) /\ Staged(m)
  BY <1>1, <1>2 DEF Earned
<1>6. Staged(q)' /\ Staged(n)'
  BY <1>1, <1>2, <1>3, <1>4, <1>5, CopyStaged
<1>7. Staged(row)' /\ Staged(mem)'
  BY <1>3, <1>4, <1>6 DEF Staged, StepAt
<1>8. \A u \in Targets : World(u)'
  BY DEF Earned, NothingLost, Loses
<1> QED BY <1>7, <1>8 DEF Earned

\* The world and the bounds as they were.
LEMMA SameWorldLosesNothing ==
    ASSUME ed' = ed, job' = job, edits' = edits, breaks' = breaks PROVE NothingLost
<1> SUFFICES ASSUME NEW u \in Targets PROVE ~Loses(u)
  BY DEF NothingLost
<1> QED BY SameKept DEF Loses

LEMMA DropDiesEarned ==
    ASSUME NEW k, NEW t, NEW s, AskedAt(k, t, s), DropDies(k), Descending' PROVE Earned'
<1>1. /\ k = "levels" /\ Purge(t) /\ mem' = row /\ tick' = Closed
      /\ row' = row /\ edits' = edits /\ breaks' = breaks
  <2>1. Asking(k) /\ t = Target(k)
    BY DEF AskedAt
  <2>2. At(k, "mend") /\ Purge(Target(k)) /\ mem' = row /\ tick' = Closed
        /\ row' = row /\ edits' = edits /\ breaks' = breaks
    BY DEF DropDies, AtEdition
  <2> QED BY <2>1, <2>2, AtALevel DEF StepsOf
<1>2. /\ t \in Names(Levels) /\ t \in Targets /\ t \notin Names(Languages) /\ Typed /\ k \in Tracks
      /\ row.track[k].index = mem.track[k].index /\ row.track[k].step = "mend"
      /\ row.outcome[t] = "open" /\ t = Lists[k][row.track[k].index]
      /\ row.track[k].index \in 1 .. Len(Lists[k])
  BY <1>1, AskedAtFacts DEF AskedAt, Asking, DropDies, AtEdition, At
<1>3. /\ World(t)' /\ ed'[t].text = "none"
      /\ \A u \in (Names(Rungs) \cup Targets) \ {t} : ed'[u] = ed[u]
      /\ \A j \in Jobs : j[1] # t => job'[j] = job[j]
  BY <1>1, <1>2, PurgeKeeps
<1>4. \A n, g : Stage(t, "mend", "open", n, g)'
  <2>1. "mend" \notin Last /\ "mend" # "write"
    BY DEF Last
  <2> QED BY <1>2, <1>3, <2>1 DEF Stage
<1>5. \A u \in Targets \ {t} : ~Loses(u)
  <2> SUFFICES ASSUME NEW u \in Targets \ {t} PROVE ~Loses(u)
    OBVIOUS
  <2>1. ed'[u] = ed[u] /\ \A kind : <<u, kind>> \in Jobs => job'[<<u, kind>>] = job[<<u, kind>>]
    BY <1>3, JobsLookedAt
  <2> QED BY <1>1, <2>1, SameKept DEF Loses
<1>6. PICK p : p = row
  OBVIOUS
<1>7. Staged(p)'
  <2> SUFFICES ASSUME NEW l \in Tracks, NEW x \in 1 .. Len(Lists[l])
               PROVE  Stage(Lists[l][x], StepAt(p, l, x), p.outcome[Lists[l][x]],
                            p.settled[Lists[l][x]], p.signOff)'
    BY DEF Staged, StepAt
  <2>1. Lists[l][x] \in Targets /\ (Lists[l][x] = t => l = k /\ x = p.track[k].index)
    BY <1>2, <1>6, ListFacts, OnePlace
  <2>2. CASE Lists[l][x] = t
    <3>1. StepAt(p, l, x) = "mend"
      BY <1>2, <1>6, <2>1, <2>2 DEF StepAt
    <3> QED BY <1>2, <1>4, <1>6, <2>2, <3>1
  <2>3. CASE Lists[l][x] # t
    <3>1. Stage(Lists[l][x], StepAt(p, l, x), p.outcome[Lists[l][x]], p.settled[Lists[l][x]], p.signOff)
      BY <1>6 DEF AskedAt, Earned, Staged
    <3> QED BY <1>5, <2>1, <2>3, <3>1 DEF Loses
  <2> QED BY <2>2, <2>3
<1>8. Staged(row)' /\ Staged(mem)'
  BY <1>1, <1>6, <1>7 DEF Staged, StepAt
<1>9. \A u \in Targets : World(u)'
  BY <1>3, <1>5 DEF AskedAt, Earned, Loses
<1>10. Onward'
  <2>1. \A l \in Tracks : row.track[l].index \in Nat
    BY DEF AskedAt, Earned, Descending, Typed, Fits, Productions
  <2> QED BY <1>1, <2>1, ClosedFits, OnwardsOnTheSpot DEF Onward, Ended
<1> QED BY <1>8, <1>9, <1>10 DEF Earned

LEMMA AskedEarned ==
    ASSUME Earned, Descending', NEW k \in Tracks, Step(k) \/ Fault(k) PROVE Earned'
<1>1. Asking(k)
  BY OnlyTheAsked DEF Asking, Earned, Descending
<1>2. PICK t : t = Target(k)
  OBVIOUS
<1>3. PICK s : s = mem.track[k].step
  OBVIOUS
<1>4. AskedAt(k, t, s)
  BY <1>1, <1>2, <1>3 DEF AskedAt
<1> QED BY <1>4, StepKept, FaultKept, KeptEarned, DropDiesEarned

\* The row, where it is copied, is as far as its copy.
LEMMA SameOnward ==
    ASSUME Typed', \A k \in Tracks : /\ row'.track[k].index = mem'.track[k].index
                                     /\ row'.track[k].step = mem'.track[k].step
    PROVE  Onward'
<1>1. \A k \in Tracks : row'.track[k].index \in Nat
  BY DEF Typed, Fits, Productions
<1>2. tick'.todo \subseteq Tracks
  BY DEF Typed
<1> QED BY <1>1, <1>2, OnwardsOnTheSpot DEF Onward

LEMMA BeginEarned ==
    ASSUME Earned, Descending', Begin PROVE Earned'
<1> DEFINE q == [row EXCEPT !.status = "running", !.rights = TRUE]
<1>1. row' = row /\ mem' = q /\ ed' = ed /\ job' = job /\ edits' = edits /\ breaks' = breaks
  BY DEF Begin, world, happened
<1>2. /\ q.outcome = row.outcome /\ q.track = row.track /\ q.settled = row.settled
      /\ q.signOff = row.signOff
  BY DEF Earned, Descending, Typed, Fits, Productions
<1> HIDE DEF q
<1>3. AsFar(row, row') /\ AsFar(row, mem')
  BY <1>1, <1>2 DEF AsFar
<1>4. Onward'
  BY <1>1, <1>2, SameOnward DEF Descending
<1> QED BY <1>1, <1>3, <1>4, SameWorldLosesNothing, CopiesEarned

LEMMA SaveEarned ==
    ASSUME Earned, Descending', Save PROVE Earned'
<1>1. PICK st : row' = [mem EXCEPT !.status = st] \/ row' = mem
  BY DEF Save
<1>2. mem' = row' /\ ed' = ed /\ job' = job /\ edits' = edits /\ breaks' = breaks
  BY DEF Save, world, happened
<1>3. /\ row'.outcome = mem.outcome /\ row'.track = mem.track /\ row'.settled = mem.settled
      /\ row'.signOff = mem.signOff
  BY <1>1 DEF Earned, Descending, Typed, Fits, Productions
<1>4. AsFar(mem, row') /\ AsFar(mem, mem')
  BY <1>2, <1>3 DEF AsFar
<1>5. Onward'
  BY <1>2, SameOnward DEF Descending
<1> QED BY <1>2, <1>4, <1>5, SameWorldLosesNothing, CopiesEarned

LEMMA CrashEarned ==
    ASSUME Earned, Descending', Crash PROVE Earned'
<1>1. row' = row /\ mem' = row /\ ed' = ed /\ job' = job /\ edits' = edits /\ breaks' = breaks
  BY DEF Crash, world
<1>2. AsFar(row, row') /\ AsFar(row, mem')
  BY <1>1 DEF AsFar
<1>3. Onward'
  BY <1>1, SameOnward DEF Descending
<1> QED BY <1>1, <1>2, <1>3, SameWorldLosesNothing, CopiesEarned

LEMMA OldIsAsFar ==
    ASSUME NEW p \in Productions, NEW k \in Tracks
    PROVE  AsFar(p, [p EXCEPT !.track[k].old = TRUE])
  BY DEF AsFar, Productions

LEMMA TimePassesEarned ==
    ASSUME Earned, Descending', NEW k \in Tracks, TimePasses(k) PROVE Earned'
<1>1. AsFar(row, row') /\ AsFar(mem, mem')
  <2>1. row \in Productions /\ mem \in Productions
    BY DEF Earned, Descending, Typed, Fits
  <2>2. AsFar(mem, mem)
    BY DEF AsFar
  <2>3. mem' = [mem EXCEPT !.track[k].old = TRUE] \/ mem' = mem
    BY DEF TimePasses
  <2> QED BY <2>1, <2>2, <2>3, OldIsAsFar DEF TimePasses
<1>2. ed' = ed /\ job' = job /\ edits' = edits /\ breaks' = breaks /\ tick' = tick
  BY DEF TimePasses, world, happened
<1>3. Onward'
  <2>1. tick.todo \subseteq Tracks
    BY DEF Earned, Descending, Typed
  <2> QED BY <1>1, <1>2, <2>1 DEF Earned, Onward, AsFar, Ended
<1> QED BY <1>1, <1>2, <1>3, SameWorldLosesNothing, CopiesEarned

LEMMA ProtectedEarned ==
    ASSUME Earned, Descending', Protected PROVE Earned'
<1>1. /\ \A t \in Targets : row'.outcome[t] \in {"rights", "not_attempted"}
      /\ mem' = row' /\ \A k \in Tracks : row'.track[k].index = Len(Lists[k]) + 1
  BY ProtectedDescends DEF Earned
<1>2. ed' = ed /\ job' = job /\ edits' = edits /\ breaks' = breaks
  BY DEF Protected, world, happened
<1>3. Staged(row)'
  <2> SUFFICES ASSUME NEW l \in Tracks, NEW x \in 1 .. Len(Lists[l])
               PROVE  Stage(Lists[l][x], StepAt(row, l, x), row.outcome[Lists[l][x]],
                            row.settled[Lists[l][x]], row.signOff)'
    BY DEF Staged
  <2>1. Lists[l][x] \in Targets /\ Len(Lists[l]) \in Nat
    BY ListFacts
  <2>2. StepAt(row, l, x)' = "none"
    BY <1>1, <2>1 DEF StepAt
  <2>3. PICK o : o = row'.outcome[Lists[l][x]]
    OBVIOUS
  <2>4. o \in {"rights", "not_attempted"} /\ "rights" \in Closings \ {"ready"}
    BY <1>1, <2>1, <2>3 DEF Closings, Promise!Holds
  <2>5. \A n, g : Stage(Lists[l][x], "none", "rights", n, g)'
    BY <2>4, HeldStage
  <2>6. \A n, g : Stage(Lists[l][x], "none", "not_attempted", n, g)'
    BY <2>5, NobodyAt
  <2> QED BY <2>2, <2>3, <2>4, <2>5, <2>6
<1>4. Staged(mem)'
  BY <1>1, <1>3 DEF Staged, StepAt
<1>5. Onward'
  BY <1>1, SameOnward DEF Descending
<1>6. \A u \in Targets : World(u)'
  BY <1>2, SameWorldLosesNothing DEF NothingLost, Loses, Earned
<1> QED BY <1>3, <1>4, <1>5, <1>6 DEF Earned

\* What happens elsewhere leaves the production as it is.
LEMMA ElsewhereEarned ==
    ASSUME Earned, Descending', Elsewhere, NothingLost PROVE Earned'
<1>1. AsFar(row, row') /\ AsFar(mem, mem')
  BY DEF Elsewhere, AsFar
<1>2. Onward'
  BY DEF Earned, Elsewhere, Onward, Ended
<1> QED BY <1>1, <1>2, CopiesEarned

\* A job that only moves on, with the editions as they are.
LEMMA JobMovesOn ==
    ASSUME Earned, NEW j \in Jobs, NEW new, job' = [job EXCEPT ![j] = new], ed' = ed,
           edits' = edits, breaks' = breaks,
           job[j] # "done", new \in Live => job[j] \in Live, j[2] = "book" => new # "done"
    PROVE  NothingLost
<1> SUFFICES ASSUME NEW u \in Targets PROVE ~Loses(u)
  BY DEF NothingLost
<1>1. World(u) /\ job \in [Jobs -> JobStates]
  BY DEF Earned, Descending, Typed, WorldOK
<1>2. /\ \A i \in Jobs : job'[i] \in Live => job[i] \in Live
      /\ \A i \in Jobs : job[i] = "done" => job'[i] = "done"
      /\ \A i \in Jobs : i[2] = "book" /\ job[i] # "done" => job'[i] # "done"
  BY <1>1
<1>3. Gates(u)' = Gates(u)
  BY DEF Gates
<1>4. World(u)'
  <2>1. CASE u \in Names(Levels)
    <3>1. {<<u, "book">>, <<u, "probe">>, <<u, "analysis">>, <<u, "audit">>} \subseteq Jobs
      BY <2>1, JobsLookedAt
    <3>2. u \notin Names(Languages)
      BY <2>1, ProductionAssumption DEF AskedInOrder
    <3> QED BY <1>1, <1>2, <2>1, <3>1, <3>2 DEF World
  <2>2. CASE u \in Names(Languages)
    <3>1. {<<u, "translation">>, <<u, "review">>} \subseteq Jobs
      BY <2>2, JobsLookedAt
    <3>2. u \notin Names(Levels)
      BY <2>2, ProductionAssumption DEF AskedInOrder
    <3> QED BY <1>1, <1>2, <2>2, <3>1, <3>2 DEF World
  <2> QED BY <2>1, <2>2 DEF Targets
<1>5. ASSUME NEW r, NEW o, NEW n, NEW g, Stage(u, r, o, n, g) PROVE Stage(u, r, o, n, g)'
  BY <1>2, <1>3, <1>5, JobsLookedAt DEF Stage
<1> QED BY <1>4, <1>5 DEF Loses

\* The targets another edition's job leaves alone.
LEMMA ApartFromOne ==
    ASSUME NEW t, \A u \in (Names(Rungs) \cup Targets) \ {t} : ed'[u] = ed[u],
           \A j \in Jobs : j[1] # t => job'[j] = job[j],
           edits' = 0 => edits = 0, breaks' = breaks,
           t \in Targets => ~Loses(t)
    PROVE  NothingLost
<1> SUFFICES ASSUME NEW u \in Targets, u # t PROVE ~Loses(u)
  BY DEF NothingLost
<1>1. ed'[u] = ed[u] /\ \A kind : <<u, kind>> \in Jobs => job'[<<u, kind>>] = job[<<u, kind>>]
  BY JobsLookedAt
<1> QED BY <1>1, SameKept DEF Loses

\* The jobs of editions that have one name for each kind.
LEMMA TwoKindsOfTargets ==
    ASSUME NEW t \in Targets
    PROVE  /\ t \in Names(Levels) => t \notin Names(Languages) /\ t \in Names(Rungs)
           /\ t \in Names(Languages) => t \notin Names(Levels) /\ t \notin Names(Rungs)
           /\ t \in Names(Levels) \/ t \in Names(Languages)
  BY ProductionAssumption DEF AskedInOrder, Targets

\* A finished job that changes the text of its edition, or what is known of it.
LEMMA BookDoneLosesNothing ==
    ASSUME Earned, NEW j \in Jobs, NEW t, t = j[1], j[2] = "book", job[j] = "active",
           ed' = [ed EXCEPT ![t].text = "review"],
           job' = [job EXCEPT ![j] = "done", ![<<t, "analysis">>] = "active"],
           edits' = edits, breaks' = breaks
    PROVE  NothingLost
<1>1. /\ ed \in [Names(Rungs) \cup Targets -> Editions] /\ job \in [Jobs -> JobStates]
      /\ t \in Names(Rungs) /\ j = <<t, "book">> /\ <<t, "analysis">> \in Jobs
  <2>1. j = <<t, "book">>
    BY DEF Jobs
  <2> QED BY <2>1, JobOfAnEdition DEF Earned, Descending, Typed, WorldOK
<1>2. /\ ed'[t] = [ed[t] EXCEPT !.text = "review"] /\ ed[t] \in Editions
      /\ \A u \in (Names(Rungs) \cup Targets) \ {t} : ed'[u] = ed[u]
      /\ \A i \in Jobs : i \notin {<<t, "book">>, <<t, "analysis">>} => job'[i] = job[i]
      /\ job'[<<t, "book">>] = "done" /\ job'[<<t, "analysis">>] = "active"
  BY <1>1
<1>3. /\ ed'[t].text = "review" /\ ed'[t].read = ed[t].read /\ ed'[t].audited = ed[t].audited
  BY <1>2 DEF Editions
<1>4. ASSUME t \in Targets PROVE ~Loses(t)
  <2>1. t \in Names(Levels) /\ t \notin Names(Languages) /\ World(t)
    BY <1>1, <1>4, TwoKindsOfTargets DEF Earned
  <2>2. {<<t, "book">>, <<t, "probe">>, <<t, "analysis">>, <<t, "audit">>} \subseteq Jobs
    BY <1>4, <2>1, JobsLookedAt
  <2>3. ed[t].text = "empty" /\ ~Gates(t)
    BY <1>1, <2>1 DEF World, Live, Gates, Standing
  <2>4. World(t)'
    BY <1>2, <1>3, <2>1, <2>2, <2>3 DEF World, Live, Standing
  <2>5. ASSUME NEW r, NEW o, NEW n, NEW g, Stage(t, r, o, n, g) PROVE Stage(t, r, o, n, g)'
    BY <1>2, <1>3, <2>1, <2>2, <2>3, <2>5 DEF Stage
  <2> QED BY <2>4, <2>5 DEF Loses
<1>5. \A i \in Jobs : i[1] # t => job'[i] = job[i]
  <2>1. \A i \in Jobs : i[1] # t => i # <<t, "book">> /\ i # <<t, "analysis">>
    OBVIOUS
  <2> QED BY <1>2, <2>1
<1>6. \A u \in (Names(Rungs) \cup Targets) \ {t} : ed'[u] = ed[u]
  BY <1>2
<1> QED BY ZenonT(40), <1>4, <1>5, <1>6, ApartFromOne

LEMMA AnalysisDoneLosesNothing ==
    ASSUME Earned, NEW j \in Jobs, NEW t, t = j[1], j[2] = "analysis", t # Source, job[j] = "active",
           NEW above, NEW over,
           ed' = [ed EXCEPT ![t].read = TRUE, ![t].above = above, ![t].over = over],
           job' = [job EXCEPT ![j] = "done"],
           edits' = edits, breaks' = breaks
    PROVE  NothingLost
<1>1. /\ ed \in [Names(Rungs) \cup Targets -> Editions] /\ job \in [Jobs -> JobStates]
      /\ t \in Names(Rungs) /\ j = <<t, "analysis">>
  BY DEF Earned, Descending, Typed, WorldOK, Jobs, Targets
<1>2. /\ ed'[t].text = ed[t].text /\ ed'[t].audited = ed[t].audited
      /\ \A u \in (Names(Rungs) \cup Targets) \ {t} : ed'[u] = ed[u]
      /\ \A i \in Jobs : i # j => job'[i] = job[i]
      /\ job'[j] = "done"
  BY <1>1 DEF Editions
<1>4. ASSUME t \in Targets PROVE ~Loses(t)
  <2>1. t \in Names(Levels) /\ t \notin Names(Languages) /\ World(t)
    BY <1>1, <1>4, TwoKindsOfTargets DEF Earned
  <2>2. {<<t, "book">>, <<t, "probe">>, <<t, "analysis">>, <<t, "audit">>} \subseteq Jobs
    BY <1>4, <2>1, JobsLookedAt
  <2>3. ed[t].text \in Standing /\ ~Gates(t)
    BY <1>1, <2>1 DEF World, Live, Gates
  <2>4. World(t)'
    BY <1>1, <1>2, <2>1, <2>2, <2>3 DEF World, Live
  <2>5. ASSUME NEW r, NEW o, NEW n, NEW g, Stage(t, r, o, n, g) PROVE Stage(t, r, o, n, g)'
    BY <1>1, <1>2, <2>1, <2>2, <2>3, <2>5 DEF Stage
  <2> QED BY <2>4, <2>5 DEF Loses
<1> QED BY <1>1, <1>2, <1>4, ApartFromOne

LEMMA TranslationDoneLosesNothing ==
    ASSUME Earned, NEW j \in Jobs, NEW t, t = j[1], j[2] = "translation", job[j] = "active",
           ed' = [ed EXCEPT ![t].text = "review"],
           job' = [job EXCEPT ![j] = "done"],
           edits' = edits, breaks' = breaks
    PROVE  NothingLost
<1>1. /\ ed \in [Names(Rungs) \cup Targets -> Editions] /\ job \in [Jobs -> JobStates]
      /\ t \in Names(Languages) /\ t \in Targets /\ j = <<t, "translation">>
  BY DEF Earned, Descending, Typed, WorldOK, Jobs, Targets
<1>2. /\ ed'[t].audited = ed[t].audited /\ ed'[t].fixes = ed[t].fixes
      /\ \A u \in (Names(Rungs) \cup Targets) \ {t} : ed'[u] = ed[u]
      /\ \A i \in Jobs : i # j => job'[i] = job[i]
      /\ job'[j] = "done"
  BY <1>1 DEF Editions
<1>4. ~Loses(t)
  <2>1. t \notin Names(Levels) /\ World(t)
    BY <1>1, TwoKindsOfTargets DEF Earned
  <2>2. {<<t, "translation">>, <<t, "review">>} \subseteq Jobs
    BY <1>1, JobsLookedAt
  <2>3. ed[t].text = "empty" /\ ~Gates(t)
    BY <1>1, <2>1 DEF World, Live, Gates, Standing
  <2>4. World(t)'
    BY <1>1, <1>2, <2>1, <2>2 DEF World, Live
  <2>5. ASSUME NEW r, NEW o, NEW n, NEW g, Stage(t, r, o, n, g) PROVE Stage(t, r, o, n, g)'
    BY <1>1, <1>2, <2>1, <2>2, <2>3, <2>5 DEF Stage
  <2> QED BY <2>4, <2>5 DEF Loses
<1> QED BY <1>1, <1>2, <1>4, ApartFromOne

LEMMA AuditDoneLosesNothing ==
    ASSUME Earned, NEW j \in Jobs, NEW t, t = j[1], j[2] \in {"audit", "review"}, job[j] = "active",
           NEW fixes, NEW stuck, NEW alone,
           ed' = [ed EXCEPT ![t] = Findings(@, fixes, stuck, alone)],
           job' = [job EXCEPT ![j] = "done"],
           edits' = edits, breaks' = breaks
    PROVE  NothingLost
<1>1. /\ ed \in [Names(Rungs) \cup Targets -> Editions] /\ job \in [Jobs -> JobStates]
      /\ t \in Names(Rungs) \cup Names(Languages)
      /\ \/ t \in Names(Rungs) /\ j = <<t, "audit">>
         \/ t \in Names(Languages) /\ j = <<t, "review">>
  BY DEF Earned, Descending, Typed, WorldOK, Jobs, Targets
<1>2. /\ ed'[t].text = ed[t].text /\ ed'[t].read = ed[t].read
      /\ \A u \in (Names(Rungs) \cup Targets) \ {t} : ed'[u] = ed[u]
      /\ \A i \in Jobs : i # j => job'[i] = job[i]
      /\ job'[j] = "done"
  BY <1>1 DEF Editions, Findings, Targets
<1>4. ASSUME t \in Targets PROVE ~Loses(t)
  <2>1. World(t) /\ (t \in Names(Rungs) => t \notin Names(Languages))
    BY <1>4, TwoKindsOfTargets DEF Earned
  <2>2. /\ t \in Names(Levels) =>
              {<<t, "book">>, <<t, "probe">>, <<t, "analysis">>, <<t, "audit">>} \subseteq Jobs
        /\ t \in Names(Languages) => {<<t, "translation">>, <<t, "review">>} \subseteq Jobs
    BY <1>4, JobsLookedAt
  <2>3. CASE t \in Names(Rungs)
    <3>1. t \in Names(Levels) /\ t \notin Names(Languages) /\ j = <<t, "audit">>
      BY <1>1, <1>4, <2>1, <2>3, TwoKindsOfTargets
    <3>2. ~Gates(t)
      BY <2>1, <3>1 DEF World, Live, Gates
    <3>3. World(t)'
      BY <1>2, <2>1, <2>2, <3>1 DEF World, Live
    <3>4. ASSUME NEW r, NEW o, NEW n, NEW g, Stage(t, r, o, n, g) PROVE Stage(t, r, o, n, g)'
      BY <1>2, <2>2, <3>1, <3>2, <3>4 DEF Stage
    <3> QED BY <3>3, <3>4 DEF Loses
  <2>4. CASE t \notin Names(Rungs)
    <3>1. t \in Names(Languages) /\ t \notin Names(Levels) /\ j = <<t, "review">>
      BY <1>1, <1>4, <2>4, TwoKindsOfTargets
    <3>3. World(t)'
      BY <1>2, <2>1, <2>2, <3>1 DEF World, Live
    <3>4. ASSUME NEW r, NEW o, NEW n, NEW g, Stage(t, r, o, n, g) PROVE Stage(t, r, o, n, g)'
      <4>1. r \notin Last /\ o # "ready"
        BY <3>1, <3>4 DEF Stage, Live
      <4>2. r # "promote"
        BY <4>1 DEF Last
      <4> QED BY <3>1, <3>4, <4>1, <4>2 DEF Stage
    <3> QED BY <3>3, <3>4 DEF Loses
  <2> QED BY <2>3, <2>4
<1> QED BY <1>1, <1>2, <1>4, ApartFromOne

LEMMA OutsideLosesNothing ==
    ASSUME Earned, NEW j \in Jobs, Outside(j) PROVE NothingLost /\ Elsewhere
<1>1. Elsewhere /\ edits' = edits /\ breaks' = breaks
  BY DEF Outside, Taken, Done, Fails, GoesSilent, Abandoned, EndsStale, happened
<1>2. CASE Taken(j)
  BY <1>1, <1>2, JobMovesOn DEF Taken, Live
<1>3. CASE Fails(j)
  <2>1. PICK how \in {"failed", "refused"} : job' = [job EXCEPT ![j] = how]
    BY <1>3 DEF Fails
  <2> QED BY <1>1, <1>3, <2>1, JobMovesOn DEF Fails, Live
<1>4. CASE GoesSilent(j)
  BY <1>1, <1>4, JobMovesOn DEF GoesSilent, Live
<1>5. CASE Abandoned(j)
  BY <1>1, <1>5, JobMovesOn DEF Abandoned, Live
<1>6. CASE EndsStale(j)
  BY <1>1, <1>6, JobMovesOn DEF EndsStale, Live
<1>7. CASE Done(j)
  <2>1. PICK t : t = j[1]
    OBVIOUS
  <2>2. job[j] = "active"
    BY <1>7 DEF Done
  <2>3. CASE j = <<Source, "analysis">> /\ job' = [job EXCEPT ![j] = "done"] /\ UNCHANGED ed
    <3>1. j[2] # "book"
      BY <2>3
    <3> QED BY <1>1, <2>2, <2>3, <3>1, JobMovesOn DEF Live
  <2>4. CASE /\ j[2] = "probe" /\ UNCHANGED ed
             /\ \E verdict \in {"done", "declined"} : job' = [job EXCEPT ![j] = verdict]
    <3>1. PICK verdict \in {"done", "declined"} : job' = [job EXCEPT ![j] = verdict]
      BY <2>4
    <3> QED BY <1>1, <2>2, <2>4, <3>1, JobMovesOn DEF Live
  <2>5. CASE /\ j[2] = "book" /\ ed' = [ed EXCEPT ![t].text = "review"]
             /\ job' = [job EXCEPT ![j] = "done", ![<<t, "analysis">>] = "active"]
    BY <1>1, <2>1, <2>2, <2>5, BookDoneLosesNothing
  <2>6. CASE /\ j[2] = "analysis" /\ t # Source
             /\ \E above \in SUBSET Chapters, over \in BOOLEAN :
                   ed' = [ed EXCEPT ![t].read = TRUE, ![t].above = above, ![t].over = over]
             /\ job' = [job EXCEPT ![j] = "done"]
    <3>1. PICK above \in SUBSET Chapters, over \in BOOLEAN :
             ed' = [ed EXCEPT ![t].read = TRUE, ![t].above = above, ![t].over = over]
      BY <2>6
    <3> QED BY <1>1, <2>1, <2>2, <2>6, <3>1, AnalysisDoneLosesNothing
  <2>7. CASE /\ j[2] = "translation" /\ ed' = [ed EXCEPT ![t].text = "review"]
             /\ job' = [job EXCEPT ![j] = "done"]
    BY <1>1, <2>1, <2>2, <2>7, TranslationDoneLosesNothing
  <2>8. CASE /\ j[2] \in {"audit", "review"}
             /\ \E fixes \in SUBSET Severities, stuck \in SUBSET Paras, alone \in BOOLEAN :
                   ed' = [ed EXCEPT ![t] = Findings(@, fixes, stuck, alone)]
             /\ job' = [job EXCEPT ![j] = "done"]
    <3>1. PICK fixes \in SUBSET Severities, stuck \in SUBSET Paras, alone \in BOOLEAN :
             ed' = [ed EXCEPT ![t] = Findings(@, fixes, stuck, alone)]
      BY <2>8
    <3> QED BY <1>1, <2>1, <2>2, <2>8, <3>1, AuditDoneLosesNothing
  <2>9. CASE j[2] = "promotion" /\ job' = [job EXCEPT ![j] = "done"] /\ UNCHANGED ed
    <3>1. j[2] # "book"
      BY <2>9
    <3> QED BY <1>1, <2>2, <2>9, <3>1, JobMovesOn DEF Live
  <2>10. NothingLost
    BY ZenonT(40), <1>7, <2>1, <2>3, <2>4, <2>5, <2>6, <2>7, <2>8, <2>9 DEF Done
  <2> QED BY <1>1, <2>10
<1> QED BY <1>1, <1>2, <1>3, <1>4, <1>5, <1>6, <1>7 DEF Outside

\* A hand edit takes back what was known of the text, and nothing else.
LEMMA HumanEditLosesNothing ==
    ASSUME Earned, NEW t \in Targets, HumanEdit(t) PROVE NothingLost
<1>1. /\ ed \in [Names(Rungs) \cup Targets -> Editions] /\ edits \in Nat
      /\ ed[t].text \in Standing /\ edits' = edits + 1 /\ breaks' = breaks
  BY ProductionAssumption DEF Earned, Descending, Typed, WorldOK, HappenedOK, HumanEdit
<1>2. PICK carried \in {FALSE, ed[t].read} :
         /\ ed' = [ed EXCEPT ![t] = Rewritten(@, carried)]
         /\ job' = [j \in Jobs |->
                       IF job[j] = "refused" THEN job[j]
                       ELSE IF j \in {<<t, "audit">>, <<t, "review">>} /\ job[j] \in {"active", "stalled"} THEN "void"
                       ELSE IF j \in {<<t, "audit">>, <<t, "review">>} THEN "none"
                       ELSE IF j = <<t, "analysis">> /\ ~carried /\ job[j] # "none" THEN "active"
                       ELSE job[j]]
  BY DEF HumanEdit
<1>3. ed'[t] = Rewritten(ed[t], carried) /\ ed[t] \in Editions
  BY <1>1, <1>2
<1>4. ed'[t].text = ed[t].text /\ ed'[t].audited = FALSE /\ ed'[t].read = carried
  BY <1>3 DEF Rewritten, Editions
<1>5. /\ \A u \in (Names(Rungs) \cup Targets) \ {t} : ed'[u] = ed[u]
      /\ \A j \in Jobs : j[1] # t => job'[j] = job[j]
  BY <1>1, <1>2
<1>6. edits' # 0
  BY <1>1
<1>7. World(t) /\ World(t)'
  <2>1. World(t)
    BY DEF Earned
  <2>2. CASE t \in Names(Levels)
    <3>1. t \notin Names(Languages)
      BY <2>2, TwoKindsOfTargets
    <3>2. {<<t, "book">>, <<t, "probe">>, <<t, "analysis">>, <<t, "audit">>} \subseteq Jobs
      BY <2>2, JobsLookedAt
    <3>3. /\ job'[<<t, "book">>] = job[<<t, "book">>] /\ job'[<<t, "probe">>] = job[<<t, "probe">>]
          /\ carried => job'[<<t, "analysis">>] = job[<<t, "analysis">>]
      BY <1>2, <3>2
    <3>4. carried => ed[t].read
      BY <1>2
    <3> QED BY <1>1, <1>4, <2>1, <2>2, <3>1, <3>3, <3>4 DEF World
  <2>3. CASE t \in Names(Languages)
    <3>1. t \notin Names(Levels)
      BY <2>3, TwoKindsOfTargets
    <3>2. {<<t, "translation">>, <<t, "review">>} \subseteq Jobs
      BY <2>3, JobsLookedAt
    <3>3. job'[<<t, "translation">>] = job[<<t, "translation">>]
      BY <1>2, <3>2
    <3> QED BY <1>4, <2>1, <2>3, <3>1, <3>3 DEF World
  <2> QED BY <2>1, <2>2, <2>3 DEF Targets
<1>8. ASSUME NEW r, NEW o, NEW n, NEW g, Stage(t, r, o, n, g) PROVE Stage(t, r, o, n, g)'
  <2>1. t \in Names(Levels) => job'[<<t, "probe">>] = job[<<t, "probe">>]
    <3>1. t \in Names(Levels) => <<t, "probe">> \in Jobs
      BY JobsLookedAt
    <3> QED BY <1>2, <3>1
  <2>2. t \in Names(Languages) => (job'[<<t, "review">>] \in Live => job[<<t, "review">>] \in Live)
    <3>1. t \in Names(Languages) => <<t, "review">> \in Jobs
      BY JobsLookedAt
    <3> QED BY <1>2, <3>1 DEF Live
  <2> QED BY <1>4, <1>6, <1>8, <2>1, <2>2 DEF Stage
<1>9. ~Loses(t)
  BY <1>7, <1>8 DEF Loses
<1> QED BY <1>1, <1>5, <1>6, <1>9, ApartFromOne

LEMMA InitEarned == Init => Earned
<1> SUFFICES ASSUME Init PROVE Earned
  OBVIOUS
<1>1. Descending
  BY InitDescends
<1>2. PICK signOff \in SignOffs : row =
            [status |-> "queued", rights |-> FALSE, signOff |-> signOff,
             track |-> [k \in Tracks |-> NewTrack(k)],
             outcome |-> [t \in Targets |-> "open"], editions |-> {}, books |-> {},
             promoted |-> {}, starts |-> [j \in Jobs |-> 0],
             errors |-> [e \in Targets \X Steps |-> 0],
             mended |-> [t \in Names(Levels) |-> [c \in Chapters |-> {}]],
             settled |-> [t \in Targets |-> 0], repaired |-> [t \in Names(Levels) |-> {}]]
  BY DEF Init
<1>3. /\ \A k \in Tracks : row.track[k].step \in {"source", "translate"} /\ row.track[k].index \in Nat
      /\ \A t \in Targets : row.outcome[t] = "open" /\ row.settled[t] = 0
  BY <1>2 DEF NewTrack
<1>4. mem = row /\ tick.todo = {} /\ \A j \in Jobs : job[j] = "none"
  BY ClosedFits DEF Init
<1>5. \A t \in Targets : ed[t].text \in {"none", "review"} /\ ~ed[t].read /\ ~ed[t].audited
  <2>1. PICK written \in SUBSET Names(Rungs) :
          ed = [t \in Names(Rungs) \cup Targets |->
                  IF t \in written THEN [NoEdition EXCEPT !.text = "review"] ELSE NoEdition]
    BY DEF Init
  <2>2. /\ NoEdition.text = "none" /\ ~NoEdition.read /\ ~NoEdition.audited
        /\ [NoEdition EXCEPT !.text = "review"].text = "review"
        /\ ~[NoEdition EXCEPT !.text = "review"].read /\ ~[NoEdition EXCEPT !.text = "review"].audited
    BY DEF NoEdition
  <2> QED BY <2>1, <2>2
<1>6. ASSUME NEW t \in Targets PROVE World(t)
  BY <1>4, <1>5, JobsLookedAt DEF World, Live
<1>7. ASSUME NEW t \in Targets, NEW s \in {"source", "translate", "none"}, NEW g
      PROVE  Stage(t, s, "open", 0, g)
  <2>1. s \notin Late \cup Last \cup {"write", "promote"}
    BY DEF Late, Last
  <2> QED BY <2>1 DEF Stage
<1>8. Staged(row)
  <2> SUFFICES ASSUME NEW k \in Tracks, NEW i \in 1 .. Len(Lists[k])
               PROVE  Stage(Lists[k][i], StepAt(row, k, i), row.outcome[Lists[k][i]],
                            row.settled[Lists[k][i]], row.signOff)
    BY DEF Staged
  <2>1. Lists[k][i] \in Targets
    BY ListFacts
  <2>2. StepAt(row, k, i) \in {"source", "translate", "none"}
    BY <1>3 DEF StepAt
  <2> QED BY <1>3, <1>7, <2>1, <2>2
<1>9. Onward
  BY <1>3, <1>4, OnwardsOnTheSpot DEF Onward
<1> QED BY <1>1, <1>4, <1>6, <1>8, <1>9 DEF Earned

LEMMA NextEarned == Earned /\ [Next]_vars => Earned'
<1> SUFFICES ASSUME Earned, [Next]_vars PROVE Earned'
  OBVIOUS
<1>0. Descending'
  BY NextDescends DEF Earned
<1>1. CASE Protected
  BY <1>0, <1>1, ProtectedEarned
<1>2. CASE Begin
  BY <1>0, <1>2, BeginEarned
<1>3. CASE Save
  BY <1>0, <1>3, SaveEarned
<1>4. CASE Crash
  BY <1>0, <1>4, CrashEarned
<1>5. ASSUME NEW k \in Tracks, Step(k) \/ Fault(k) PROVE Earned'
  BY <1>0, <1>5, AskedEarned
<1>6. ASSUME NEW k \in Tracks, TimePasses(k) PROVE Earned'
  BY <1>0, <1>6, TimePassesEarned
<1>7. ASSUME NEW j \in Jobs, Outside(j) PROVE Earned'
  BY <1>0, <1>7, OutsideLosesNothing, ElsewhereEarned
<1>8. ASSUME NEW t \in Targets, HumanEdit(t) PROVE Earned'
  BY <1>0, <1>8, HumanEditLosesNothing, ElsewhereEarned DEF HumanEdit
<1>9. CASE UNCHANGED vars
  <2>1. ed' = ed /\ job' = job /\ edits' = edits /\ breaks' = breaks /\ Elsewhere
    BY <1>9 DEF vars, Elsewhere
  <2> QED BY <1>0, <2>1, SameWorldLosesNothing, ElsewhereEarned
<1> QED BY <1>1, <1>2, <1>3, <1>4, <1>5, <1>6, <1>7, <1>8, <1>9 DEF Next

LEMMA AlwaysEarned == Spec => []Earned
  BY InitEarned, NextEarned, PTL DEF Spec

\* What holds of a target of the row that is ready.
LEMMA ReadyStage ==
    ASSUME Earned, NEW t \in Targets, row.outcome[t] = "ready"
    PROVE  \E s : Stage(t, s, "ready", row.settled[t], row.signOff)
<1>1. PICK k \in Tracks : \E i \in 1 .. Len(Lists[k]) : t = Lists[k][i]
  BY EveryPlace
<1>2. PICK i \in 1 .. Len(Lists[k]) : t = Lists[k][i]
  BY <1>1
<1>3. Stage(Lists[k][i], StepAt(row, k, i), row.outcome[Lists[k][i]], row.settled[Lists[k][i]], row.signOff)
  BY DEF Earned, Staged
<1> QED BY <1>2, <1>3

\* Whatever the ticks, crashes, faults and jobs of the production do, a target is ready only while
\* its text stands at both gates, and signed off when that was asked for, as long as nobody edits
\* it by hand (_verdict, _corrections, _sign_off, _promote).
THEOREM ReadyStands == Spec => []ReadyIsEarned
<1>1. Earned => ReadyIsEarned
  BY ReadyStage DEF Stage, ReadyIsEarned
<1> QED BY <1>1, AlwaysEarned, PTL

\* A translation becomes ready only after the one round of corrections, and as long as no step
\* raised, only when its editors agree on none that was not made (_corrections).
THEOREM CorrectedFirst == Spec => []CorrectedBeforeReady
<1>1. Earned => CorrectedBeforeReady
  BY ReadyStage DEF Stage, CorrectedBeforeReady, Targets
<1> QED BY <1>1, AlwaysEarned, PTL

--------------------------------------------------------------------------------
(* What is held, is held for a reason.                                       *)

Bad == {"failed", "refused", "stalled", "void"}

\* A job of target t or of the source failed or went silent, or a person edited the text of t.
Excused(t) == {t, Source} \cap hurt # {}

\* What the starts st of a production tell of target t at step s; b: the book is known to it.
Begins(t, s, st, b) ==
    /\ st[<<t, "probe">>] > 0 => job[<<t, "probe">>] \in {"active", "done", "declined"}
    /\ st[<<t, "book">>] > 0 => b
    /\ s \notin Late => st[<<t, "analysis">>] = 0 /\ st[<<t, "audit">>] = 0
    /\ s \in Late /\ st[<<t, "analysis">>] > 0 =>
          ed[t].read \/ job[<<t, "analysis">>] = "active" \/ ed[t].text = "none"
    /\ s \in {"levels", "mend"} => st[<<t, "audit">>] = 0
    /\ s = "audit" /\ st[<<t, "audit">>] > 0 => ed[t].audited \/ job[<<t, "audit">>] = "active"

Reasoned(t, s, o, st, b) == Excused(t) \/ (o # "started" /\ (o = "open" => Begins(t, s, st, b)))

\* Level t's text is what the saved row takes it for.
Calm(t) == t \notin torn

\* What was read of target t at step s with outcome o, unless the saved row has lost sight of its text.
Known(t, s, o) ==
    Calm(t) =>
            /\ o = "open" /\ s \in {"mend", "audit", "settle", "verdict"} => ed[t].read
            /\ o = "open" /\ s \in {"settle", "verdict"} => ed[t].audited
            /\ o \in {"gates", "unread"} => ed[t].read /\ ed[t].audited

SourceTold(st) ==
    st[<<Source, "analysis">>] > 0 =>
        source.read \/ job[<<Source, "analysis">>] = "active" \/ Source \in hurt

JobsTold == \A j \in Jobs : job[j] \in Bad => j[1] \in hurt

LevelTold(i) ==
    /\ Reasoned(Levels[i], StepAt(row, "levels", i), row.outcome[Levels[i]], row.starts, Levels[i] \in row.books)
    /\ Reasoned(Levels[i], StepAt(mem, "levels", i), mem.outcome[Levels[i]], mem.starts, Levels[i] \in mem.books)
    /\ Known(Levels[i], StepAt(mem, "levels", i), mem.outcome[Levels[i]])

Told ==
    /\ Earned /\ JobsTold /\ SourceTold(row.starts) /\ SourceTold(mem.starts)
    /\ \A i \in 1 .. Len(Levels) : LevelTold(i)
    /\ ~tick.open => AsFar(mem, row)

AskedTold(k, t, s) == AskedAt(k, t, s) /\ Told /\ Kept(k, t, s)

\* What a level's step finds told.
LEMMA AskedTells ==
    ASSUME NEW k, NEW t, NEW s, AskedTold(k, t, s), k = "levels"
    PROVE  /\ Reasoned(t, s, "open", row.starts, t \in row.books)
           /\ Reasoned(t, s, "open", mem.starts, t \in mem.books)
           /\ Known(t, s, "open")
           /\ t \in Names(Levels) /\ t \in Names(Rungs) /\ t \in Targets /\ t # Source
           /\ {<<t, "probe">>, <<t, "book">>, <<t, "analysis">>, <<t, "audit">>} \subseteq Jobs
           /\ row.starts \in [Jobs -> Nat] /\ mem.starts \in [Jobs -> Nat]
<1> DEFINE i == mem.track[k].index
<1>1. /\ i \in 1 .. Len(Lists[k]) /\ t = Lists[k][i] /\ t \in Targets /\ t \in Names(Levels)
      /\ row.track[k].index = i /\ row.track[k].step = s /\ t # Source /\ t \in Names(Rungs)
      /\ row.outcome[t] = "open" /\ mem.outcome[t] = "open" /\ mem.track[k].step = s
  BY AskedAtFacts DEF AskedTold, AskedAt
<1>2. Lists[k] = Levels
  BY DEF Lists
<1>3. LevelTold(i) /\ t = Levels[i]
  BY <1>1, <1>2 DEF AskedTold, Told
<1>4. StepAt(row, "levels", i) = s /\ StepAt(mem, "levels", i) = s
  BY <1>1 DEF StepAt
<1>5. row.starts \in [Jobs -> Nat] /\ mem.starts \in [Jobs -> Nat]
  BY DEF AskedTold, AskedAt, Earned, Descending, Typed, Fits, Productions
<1>6. {<<t, "probe">>, <<t, "book">>, <<t, "analysis">>, <<t, "audit">>} \subseteq Jobs
  <2>1. t \in Targets /\ t \in Names(Levels)
    BY <1>1
  <2> QED BY <2>1, JobsLookedAt
<1> HIDE DEF i
<1>7. /\ Reasoned(t, s, "open", row.starts, t \in row.books)
      /\ Reasoned(t, s, "open", mem.starts, t \in mem.books)
      /\ Known(t, s, "open")
  BY <1>1, <1>3, <1>4 DEF LevelTold
<1> QED BY <1>1, <1>5, <1>6, <1>7

\* What a step does to what is told.
Tells(k, t, s) ==
    /\ hurt' = hurt /\ torn \subseteq torn'
    /\ \A j \in Jobs : job'[j] = job[j] \/ job'[j] \notin Bad
    /\ \A j \in Jobs : j[1] \notin {t, Source} => mem'.starts[j] = mem.starts[j]
    /\ \A u \in Targets \ {t} : u \in mem'.books <=> u \in mem.books
    /\ SourceTold(row.starts)' /\ SourceTold(mem.starts)'
    /\ k = "levels" =>
          /\ Reasoned(t, s, "open", row.starts, t \in row.books)'
          /\ \/ /\ mem'.outcome = mem.outcome /\ mem'.track[k].index = mem.track[k].index
                /\ Reasoned(t, mem.track[k].step, "open", mem.starts, t \in mem.books)'
                /\ Known(t, mem.track[k].step, "open")'
             \/ \E o : /\ ClosedBy(mem, mem', k, o)
                       /\ Reasoned(t, "none", o, mem.starts, t \in mem.books)'
                       /\ Known(t, "none", o)'

\* Another level, where its edition and its jobs are as they were.
LEMMA OtherTold ==
    ASSUME NEW u \in Names(Levels), ed'[u] = ed[u], hurt \subseteq hurt',
           \A kind : <<u, kind>> \in Jobs => job'[<<u, kind>>] = job[<<u, kind>>],
           torn \subseteq torn'
    PROVE  /\ \A r, o, st, b : Reasoned(u, r, o, st, b) => Reasoned(u, r, o, st, b)'
           /\ \A r, o : Known(u, r, o) => Known(u, r, o)'
<1>1. /\ job'[<<u, "probe">>] = job[<<u, "probe">>] /\ job'[<<u, "analysis">>] = job[<<u, "analysis">>]
      /\ job'[<<u, "audit">>] = job[<<u, "audit">>]
  <2>1. u \in Targets
    BY DEF Targets
  <2> QED BY <2>1, JobsLookedAt
<1>2. ASSUME NEW r, NEW st, NEW b, Begins(u, r, st, b) PROVE Begins(u, r, st, b)'
  BY <1>1, <1>2 DEF Begins
<1>3. Excused(u) => Excused(u)'
  BY DEF Excused
<1>4. ASSUME NEW r, NEW o, NEW st, NEW b, Reasoned(u, r, o, st, b) PROVE Reasoned(u, r, o, st, b)'
  BY <1>2, <1>3, <1>4 DEF Reasoned
<1>5. \A r, o : Known(u, r, o) => Known(u, r, o)'
  BY DEF Known, Calm
<1> QED BY <1>4, <1>5

\* What is told of a level nobody is at.
LEMMA NobodyTold ==
    ASSUME NEW u, NEW o, NEW st, NEW b, Reasoned(u, "none", o, st, b)', Known(u, "none", o)'
    PROVE  /\ Reasoned(u, "probe", o, st, b)' /\ Known(u, "probe", o)'
           /\ \A x \in {"not_reached", "not_attempted"} :
                 Reasoned(u, "none", x, st, b)' /\ Known(u, "none", x)'
<1>1. {"none", "probe"} \cap Late = {}
  BY DEF Late
<1>2. Begins(u, "none", st, b)' => Begins(u, "probe", st, b)'
  BY <1>1 DEF Begins
<1>3. Known(u, "probe", o)'
  BY DEF Known
<1>4. ASSUME NEW x \in {"not_reached", "not_attempted"}
      PROVE  Reasoned(u, "none", x, st, b)' /\ Known(u, "none", x)'
  BY DEF Reasoned, Known
<1> QED BY <1>2, <1>3, <1>4 DEF Reasoned

\* The starts a level's records are told from.
LEMMA SameStarts ==
    ASSUME NEW u, NEW st, NEW su, NEW b, NEW c, b <=> c,
           \A kind \in {"probe", "book", "analysis", "audit"} : st[<<u, kind>>] = su[<<u, kind>>]
    PROVE  \A r, o : Reasoned(u, r, o, st, b)' => Reasoned(u, r, o, su, c)'
<1>1. \A r : Begins(u, r, st, b)' => Begins(u, r, su, c)'
  BY DEF Begins
<1> QED BY <1>1 DEF Reasoned

\* Where another level comes to.
LEMMA OtherMoves ==
    ASSUME NEW k, NEW t, NEW s, AskedAt(k, t, s), Kept(k, t, s),
           NEW x \in 1 .. Len(Levels), Levels[x] # t
    PROVE  \/ /\ StepAt(mem, "levels", x)' = StepAt(mem, "levels", x)
              /\ mem'.outcome[Levels[x]] = mem.outcome[Levels[x]]
           \/ /\ StepAt(mem, "levels", x) = "none"
              /\ StepAt(mem, "levels", x)' \in {"none", "probe"}
              /\ mem'.outcome[Levels[x]] = mem.outcome[Levels[x]]
           \/ /\ StepAt(mem, "levels", x) = "none" /\ StepAt(mem, "levels", x)' = "none"
              /\ mem'.outcome[Levels[x]] \in {"not_reached", "not_attempted"}
<1>1. PICK i : i = mem.track[k].index
  OBVIOUS
<1>2. PICK u : u = Levels[x]
  OBVIOUS
<1>3. /\ k \in Tracks /\ i \in 1 .. Len(Lists[k]) /\ t = Lists[k][i]
      /\ Asking(k) /\ Turns(k)
  BY <1>1, AskedAtFacts DEF AskedAt, Kept, Does
<1>4. "levels" \in Tracks /\ Lists["levels"] = Levels
  BY LevelList DEF Tracks, Lists
<1>5. u \in Targets /\ Len(Lists[k]) \in Nat
  BY <1>2, <1>3, <1>4, ListFacts
<1>6. \A l \in Tracks \ {k} : mem'.track[l] = mem.track[l]
  BY <1>3, TurnsFits
<1>7. CASE k # "levels"
  <2>1. StepAt(mem, "levels", x)' = StepAt(mem, "levels", x)
    BY <1>4, <1>6, <1>7 DEF StepAt
  <2>2. \A y \in 1 .. Len(Lists[k]) : u # Lists[k][y]
    BY <1>2, <1>3, <1>4, <1>7, OnePlace
  <2>3. i + 1 .. Len(Lists[k]) \subseteq 1 .. Len(Lists[k])
    BY <1>3, <1>5
  <2>4. \A o : ClosedBy(mem, mem', k, o) => mem'.outcome[u] = mem.outcome[u]
    BY <1>1, <1>3, <1>5, <2>2, <2>3 DEF ClosedBy
  <2> QED BY <1>2, <2>1, <2>4 DEF Kept
<1>8. CASE k = "levels"
  <2>1. x # i /\ StepAt(mem, "levels", x) = "none"
    BY <1>1, <1>2, <1>3, <1>4, <1>8 DEF StepAt
  <2>2. CASE mem'.outcome = mem.outcome /\ mem'.track[k].index = mem.track[k].index
    BY <1>1, <1>8, <2>1, <2>2 DEF StepAt
  <2>3. ASSUME NEW o, ClosedBy(mem, mem', k, o)
        PROVE  /\ StepAt(mem, "levels", x)' \in {"none", "probe"}
               /\ \/ mem'.outcome[u] = mem.outcome[u]
                  \/ /\ StepAt(mem, "levels", x)' = "none"
                     /\ mem'.outcome[u] \in {"not_reached", "not_attempted"}
    <3>1. FirstStep(k) = "probe" /\ u # Lists[k][i]
      BY <1>2, <1>3, <1>8 DEF FirstStep
    <3>2. CASE o \in Promise!Good
      BY <1>1, <1>5, <1>8, <2>3, <3>1, <3>2 DEF ClosedBy, StepAt
    <3>3. CASE o \notin Promise!Good
      <4>1. mem'.track[k].index = Len(Lists[k]) + 1 /\ Len(Lists[k]) + 1 # x
        BY <1>4, <1>5, <1>8, <2>3, <3>3 DEF ClosedBy
      <4>2. StepAt(mem, "levels", x)' = "none"
        BY <1>8, <4>1 DEF StepAt
      <4>3. mem'.outcome[u] = mem.outcome[u] \/ mem'.outcome[u] \in {"not_reached", "not_attempted"}
        BY <1>1, <1>5, <2>3, <3>1 DEF ClosedBy
      <4> QED BY <4>2, <4>3
    <3> QED BY <3>2, <3>3
  <2> QED BY <1>2, <2>1, <2>2, <2>3 DEF Kept
<1> QED BY <1>7, <1>8

\* A step that keeps its target and the others, and tells what it does, leaves all told.
LEMMA TellsTold ==
    ASSUME NEW k, NEW t, NEW s, AskedTold(k, t, s), Tells(k, t, s)
    PROVE  Told'
<1> DEFINE i == mem.track[k].index
<1>1. /\ k \in Tracks /\ t \in Targets /\ i \in 1 .. Len(Lists[k]) /\ t = Lists[k][i]
      /\ row.track[k].index = i /\ row.track[k].step = s /\ s # "none"
      /\ row.outcome[t] = "open" /\ mem.outcome[t] = "open"
      /\ k = "levels" => t \in Names(Levels)
      /\ k = "languages" => t \notin Names(Levels)
  BY AskedAtFacts DEF AskedTold
<1>2. /\ Told /\ Kept(k, t, s) /\ Asking(k) /\ AskedAt(k, t, s) /\ Earned
      /\ row' = row /\ Turns(k)
  BY DEF AskedTold, AskedAt, Kept, Does
<1>3. Earned'
  BY <1>2, KeptEarned
<1>4. /\ tick'.open = tick.open /\ tick.open
      /\ \A l \in Tracks \ {k} : mem'.track[l] = mem.track[l]
  BY <1>2, TurnsFits DEF Asking
<1>5. JobsTold'
  BY <1>2 DEF Tells, Told, JobsTold
<1>6. SourceTold(row.starts)' /\ SourceTold(mem.starts)'
  BY DEF Tells
<1>7. ASSUME NEW u \in Names(Levels), u # t
      PROVE  /\ \A r, o, st, b : Reasoned(u, r, o, st, b) => Reasoned(u, r, o, st, b)'
             /\ \A r, o : Known(u, r, o) => Known(u, r, o)'
             /\ \A kind \in {"probe", "book", "analysis", "audit"} :
                    mem'.starts[<<u, kind>>] = mem.starts[<<u, kind>>]
             /\ u \in mem'.books <=> u \in mem.books
  <2>1. u \in Targets /\ u # Source
    BY JobsLookedAt DEF Targets
  <2>2. ed'[u] = ed[u] /\ edits' = edits /\ (breaks' = 0 => breaks = 0)
    BY <1>2, <1>7, <2>1 DEF Kept
  <2>3. \A kind : <<u, kind>> \in Jobs => job'[<<u, kind>>] = job[<<u, kind>>]
    BY <1>2, <1>7, <2>1 DEF Kept
  <2>4. hurt' = hurt /\ torn \subseteq torn'
    BY DEF Tells
  <2>5. \A kind \in {"probe", "book", "analysis", "audit"} :
           mem'.starts[<<u, kind>>] = mem.starts[<<u, kind>>]
    BY <1>7, <2>1, JobsLookedAt DEF Tells
  <2>6. u \in mem'.books <=> u \in mem.books
    BY <1>7, <2>1 DEF Tells
  <2> QED BY <2>2, <2>3, <2>4, <2>5, <2>6, OtherTold
<1>8. ASSUME NEW x \in 1 .. Len(Levels) PROVE LevelTold(x)'
  <2>1. PICK u : u = Levels[x]
    OBVIOUS
  <2>2. u \in Names(Levels) /\ u \in Targets /\ (u = t <=> k = "levels" /\ x = i)
    <3>1. Levels[x] \in Names(Levels)
      BY LevelList DEF Names
    <3>2. "levels" \in Tracks /\ Lists["levels"] = Levels
      BY <1>8, LevelList DEF Tracks, Lists
    <3>3. u = t => k = "levels" /\ x = i
      <4>1. k \in Tracks /\ i \in 1 .. Len(Lists[k]) /\ t = Lists[k][i]
        BY <1>1
      <4> HIDE DEF i
      <4> QED BY <1>8, <2>1, <3>2, <4>1, OnePlace
    <3> QED BY <1>1, <2>1, <3>1, <3>2, <3>3 DEF Targets
  <2>3. /\ Reasoned(u, StepAt(row, "levels", x), row.outcome[u], row.starts, u \in row.books)
        /\ Reasoned(u, StepAt(mem, "levels", x), mem.outcome[u], mem.starts, u \in mem.books)
        /\ Known(u, StepAt(mem, "levels", x), mem.outcome[u])
    BY <1>2, <1>8, <2>1 DEF Told, LevelTold
  <2>4. PICK rr, ro, rs, rb, mr, mo, ms, mb :
           /\ rr = StepAt(row, "levels", x) /\ ro = row.outcome[u] /\ rs = row.starts
           /\ rb = (u \in row.books) /\ mr = StepAt(mem, "levels", x) /\ mo = mem.outcome[u]
           /\ ms = mem.starts /\ mb = (u \in mem.books)
    OBVIOUS
  <2>5. PICK ns, nb, no, nr : /\ ns = mem'.starts /\ nb = (u \in mem'.books) /\ no = mem'.outcome[u]
                              /\ nr = StepAt(mem, "levels", x)'
    OBVIOUS
  <2>6. StepAt(row, "levels", x)' = rr
    BY <1>2, <2>4 DEF StepAt
  <2>7. CASE u # t
    <3>1. /\ Reasoned(u, rr, ro, rs, rb)' /\ Reasoned(u, mr, mo, ms, mb)' /\ Known(u, mr, mo)'
      BY <1>7, <2>2, <2>3, <2>4, <2>7
    <3>2. Reasoned(u, mr, mo, ns, nb)'
      <4>1. \A kind \in {"probe", "book", "analysis", "audit"} : ms[<<u, kind>>] = ns[<<u, kind>>]
        BY <1>7, <2>2, <2>4, <2>5, <2>7
      <4>2. nb <=> mb
        BY <1>7, <2>2, <2>4, <2>5, <2>7
      <4> QED BY <3>1, <4>1, <4>2, SameStarts
    <3>3. Reasoned(u, nr, no, ns, nb)' /\ Known(u, nr, no)'
      <4>1. \/ nr = mr /\ no = mo
            \/ mr = "none" /\ nr \in {"none", "probe"} /\ no = mo
            \/ mr = "none" /\ nr = "none" /\ no \in {"not_reached", "not_attempted"}
        BY <1>2, <1>8, <2>1, <2>4, <2>5, <2>7, OtherMoves
      <4>2. mr = "none" => /\ Reasoned(u, "probe", mo, ns, nb)' /\ Known(u, "probe", mo)'
                           /\ \A y \in {"not_reached", "not_attempted"} :
                                 Reasoned(u, "none", y, ns, nb)' /\ Known(u, "none", y)'
        BY <3>1, <3>2, NobodyTold
      <4> QED BY <3>1, <3>2, <4>1, <4>2
    <3> QED BY <1>2, <2>1, <2>4, <2>5, <2>6, <3>1, <3>3 DEF LevelTold
  <2>8. CASE u = t
    <3>1. k = "levels" /\ x = i
      BY <2>2, <2>8
    <3>2. Reasoned(t, s, "open", row.starts, t \in row.books)'
      BY <3>1 DEF Tells
    <3>3. rr = s /\ ro = "open"
      BY <1>1, <2>4, <2>8, <3>1 DEF StepAt
    <3>4. Reasoned(u, rr, ro, rs, rb)'
      BY <1>2, <2>4, <2>8, <3>2, <3>3
    <3>5. Reasoned(u, nr, no, ns, nb)' /\ Known(u, nr, no)'
      <4>1. CASE /\ mem'.outcome = mem.outcome /\ mem'.track[k].index = mem.track[k].index
                 /\ Reasoned(t, mem.track[k].step, "open", mem.starts, t \in mem.books)'
                 /\ Known(t, mem.track[k].step, "open")'
        <5>1. nr = mem'.track[k].step /\ no = "open"
          BY <1>1, <2>5, <2>8, <3>1, <4>1 DEF StepAt
        <5> QED BY <2>5, <2>8, <4>1, <5>1
      <4>2. CASE \E o : /\ ClosedBy(mem, mem', k, o)
                        /\ Reasoned(t, "none", o, mem.starts, t \in mem.books)'
                        /\ Known(t, "none", o)'
        <5>1. PICK o : /\ ClosedBy(mem, mem', k, o)
                       /\ Reasoned(t, "none", o, mem.starts, t \in mem.books)'
                       /\ Known(t, "none", o)'
          BY <4>2
        <5>2. no = o
          BY <1>1, <2>5, <2>8, <5>1 DEF ClosedBy
        <5>3. mem'.track[k].index # i
          <6>1. Len(Lists[k]) \in Nat /\ i \in 1 .. Len(Lists[k])
            BY <1>1, ListFacts
          <6>2. mem'.track[k].index \in {i + 1, Len(Lists[k]) + 1}
            BY <5>1 DEF ClosedBy
          <6> HIDE DEF i
          <6> QED BY <6>1, <6>2
        <5>4. nr = "none"
          BY <2>5, <3>1, <5>3 DEF StepAt
        <5> QED BY <2>5, <2>8, <5>1, <5>2, <5>4
      <4> QED BY <3>1, <4>1, <4>2 DEF Tells
    <3> QED BY <1>2, <2>1, <2>4, <2>5, <2>6, <3>4, <3>5 DEF LevelTold
  <2> QED BY <2>7, <2>8
<1> QED BY <1>3, <1>4, <1>5, <1>6, <1>8 DEF Told

\* What most steps leave alone.
Spares(t) ==
    /\ hurt' = hurt /\ torn \subseteq torn' /\ source' = source
    /\ \A j \in Jobs : job'[j] = job[j] \/ (j[1] = t /\ job'[j] \notin Bad)
    /\ \A j \in Jobs : j[1] # t => mem'.starts[j] = mem.starts[j]
    /\ \A u \in Targets \ {t} : u \in mem'.books <=> u \in mem.books

LEMMA SparesTells ==
    ASSUME NEW k, NEW t, NEW s, AskedTold(k, t, s), Spares(t),
           k = "levels" =>
              /\ Reasoned(t, s, "open", row.starts, t \in row.books)'
              /\ \/ /\ mem'.outcome = mem.outcome /\ mem'.track[k].index = mem.track[k].index
                    /\ Reasoned(t, mem.track[k].step, "open", mem.starts, t \in mem.books)'
                    /\ Known(t, mem.track[k].step, "open")'
                 \/ \E o : /\ ClosedBy(mem, mem', k, o)
                           /\ Reasoned(t, "none", o, mem.starts, t \in mem.books)'
                           /\ Known(t, "none", o)'
    PROVE  Tells(k, t, s)
<1>1. t # Source /\ <<Source, "analysis">> \in Jobs /\ row' = row
  BY AskedAtFacts DEF AskedTold, Jobs, Kept, Does
<1>2. /\ job'[<<Source, "analysis">>] = job[<<Source, "analysis">>]
      /\ mem'.starts[<<Source, "analysis">>] = mem.starts[<<Source, "analysis">>]
      /\ source' = source /\ hurt' = hurt
  BY <1>1 DEF Spares
<1>3. SourceTold(row.starts)' /\ SourceTold(mem.starts)'
  BY <1>1, <1>2 DEF SourceTold, AskedTold, Told
<1> QED BY <1>3 DEF Tells, Spares

\* What is told of a level's step, where its target t goes on to one of S or is closed as one of O.
LEMMA LevelPart ==
    ASSUME NEW k, NEW t, NEW s, AskedTold(k, t, s), hurt' = hurt,
           NEW st, NEW b, mem'.starts = st, b = (t \in mem'.books),
           NEW S, NEW O, NEW n, Cur(k, t, S, O, n), O \subseteq Closings,
           "started" \in O => Excused(t),
           NEW rs, NEW rb, rs = row.starts, rb = (t \in row.books),
           ~Excused(t) => Begins(t, s, rs, rb)' /\ \A r \in S : Begins(t, r, st, b)',
           \A r \in S : Known(t, r, "open")', \A o \in O : Known(t, "none", o)'
    PROVE  /\ Reasoned(t, s, "open", row.starts, t \in row.books)'
           /\ \/ /\ mem'.outcome = mem.outcome /\ mem'.track[k].index = mem.track[k].index
                 /\ Reasoned(t, mem.track[k].step, "open", mem.starts, t \in mem.books)'
                 /\ Known(t, mem.track[k].step, "open")'
              \/ \E o : /\ ClosedBy(mem, mem', k, o)
                        /\ Reasoned(t, "none", o, mem.starts, t \in mem.books)'
                        /\ Known(t, "none", o)'
<1>1. Excused(t) => Excused(t)'
  BY DEF Excused
<1>2. row' = row
  BY DEF AskedTold, Kept, Does
<1>3. Reasoned(t, s, "open", row.starts, t \in row.books)'
  <2>1. Reasoned(t, s, "open", rs, rb)'
    BY <1>1 DEF Reasoned
  <2> QED BY <1>2, <2>1
<1>4. CASE /\ mem'.outcome = mem.outcome /\ mem'.track[k].index = mem.track[k].index
           /\ mem'.track[k].step \in S
  <2>1. PICK r \in S : r = mem'.track[k].step
    BY <1>4
  <2>2. Reasoned(t, r, "open", st, b)' /\ Known(t, r, "open")'
    BY <1>1 DEF Reasoned
  <2> QED BY <1>3, <1>4, <2>1, <2>2
<1>5. CASE \E o \in O : ClosedBy(mem, mem', k, o)
  <2>1. PICK o \in O : ClosedBy(mem, mem', k, o)
    BY <1>5
  <2>2. o # "open"
    BY DEF Closings, Promise!Good, Promise!Holds
  <2>3. Reasoned(t, "none", o, st, b)' /\ Known(t, "none", o)'
    BY <1>1, <2>2 DEF Reasoned
  <2> QED BY <1>3, <2>1, <2>3
<1> QED BY <1>4, <1>5 DEF Cur

LEMMA LevelTells ==
    ASSUME NEW k, NEW t, NEW s, AskedTold(k, t, s), Spares(t),
           NEW st, NEW b, mem'.starts = st, b = (t \in mem'.books),
           NEW S, NEW O, NEW n, Cur(k, t, S, O, n), O \subseteq Closings,
           "started" \in O => Excused(t),
           NEW rs, NEW rb, rs = row.starts, rb = (t \in row.books),
           ~Excused(t) => Begins(t, s, rs, rb)' /\ \A r \in S : Begins(t, r, st, b)',
           \A r \in S : Known(t, r, "open")', \A o \in O : Known(t, "none", o)'
    PROVE  Tells(k, t, s)
<1>1. hurt' = hurt
  BY DEF Spares
<1> QED BY <1>1, LevelPart, SparesTells

\* What a step does to its production's cursor leaves the starts and the books of it.
LEMMA SameData ==
    ASSUME NEW k \in Tracks, NEW p \in Productions, NEW r, NEW o,
           GoTo(k, r, p) \/ Close(k, o, p) \/ Wait(k, p) \/ Raise(k, p) \/ mem' = p
    PROVE  mem'.starts = p.starts /\ mem'.books = p.books
<1>1. ASSUME NEW x, NEW y, mem' = [p EXCEPT !.outcome = x, !.track[k] = y]
      PROVE  mem'.starts = p.starts /\ mem'.books = p.books
  BY <1>1 DEF Productions
<1>2. ASSUME NEW x, Close(k, x, p) PROVE mem'.starts = p.starts /\ mem'.books = p.books
  BY <1>1, <1>2 DEF Close
<1>3. CASE GoTo(k, r, p)
  BY <1>3 DEF GoTo, Productions
<1>4. CASE Wait(k, p)
  BY <1>2, <1>4 DEF Wait
<1>5. CASE Raise(k, p)
  <2>1. ASSUME NEW e, mem' = [p EXCEPT !.errors[e] = @ + 1]
        PROVE  mem'.starts = p.starts /\ mem'.books = p.books
    BY <2>1 DEF Productions
  <2> QED BY <1>2, <1>5, <2>1 DEF Raise
<1> QED BY <1>2, <1>3, <1>4, <1>5

\* Where a level goes on, and what its starts told of it at the step before.
Leads(s, r) ==
    \/ r = s
    \/ <<s, r>> \in {<<"source", "probe">>, <<"probe", "write">>, <<"probe", "levels">>,
                     <<"write", "levels">>, <<"levels", "mend">>, <<"mend", "audit">>,
                     <<"audit", "settle">>, <<"settle", "verdict">>, <<"verdict", "promote">>}

LEMMA LeadsBegins ==
    ASSUME NEW t, NEW s, NEW r, Leads(s, r), NEW st, NEW b, Begins(t, s, st, b)
    PROVE  Begins(t, r, st, b)
<1>1. CASE r = s
  BY <1>1
<1>2. CASE r \notin Late /\ s \notin Late
  BY <1>2 DEF Begins, Late
<1>3. CASE r = "levels" /\ s \notin Late
  BY <1>3 DEF Begins, Late
<1>4. CASE <<s, r>> \in {<<"levels", "mend">>, <<"mend", "audit">>, <<"audit", "settle">>,
                         <<"settle", "verdict">>, <<"verdict", "promote">>}
  BY <1>4 DEF Begins, Late
<1> QED BY <1>1, <1>2, <1>3, <1>4 DEF Leads, Late

\* Starts that are counted anew tell no more.
LEMMA FewerBegin ==
    ASSUME NEW t, NEW r, NEW st, NEW b, Begins(t, r, st, b), NEW su, NEW c, b => c,
           \A kind \in {"probe", "book"} : su[<<t, kind>>] = st[<<t, kind>>],
           \A kind \in {"analysis", "audit"} : su[<<t, kind>>] \in {0, st[<<t, kind>>]}
    PROVE  Begins(t, r, su, c)
  BY DEF Begins

\* Production p counts at most the starts of t's reading and audit anew, and knows its book.
Recounted(t, p) ==
    /\ \A j \in Jobs : \/ p.starts[j] = mem.starts[j]
                       \/ p.starts[j] = 0 /\ j \in {<<t, "analysis">>, <<t, "audit">>}
    /\ p.books = mem.books \/ p.books = mem.books \cup {t}

\* A production that counts one more start of job j.
LEMMA OneMoreStart ==
    ASSUME NEW p \in Productions, NEW j \in Jobs, NEW q, q = [p EXCEPT !.starts[j] = @ + 1]
    PROVE  /\ q.track = p.track /\ q.outcome = p.outcome /\ q.signOff = p.signOff
           /\ q.settled = p.settled /\ q.status = p.status /\ q.books = p.books
           /\ q.starts = [p.starts EXCEPT ![j] = @ + 1] /\ q \in Productions
<1>1. p.starts \in [Jobs -> Nat]
  BY DEF Productions
<1>2. PICK st : st = [p.starts EXCEPT ![j] = @ + 1]
  OBVIOUS
<1>3. st \in [Jobs -> Nat]
  BY <1>1, <1>2
<1>4. q = [p EXCEPT !.starts = st]
  BY <1>2 DEF Productions
<1> QED BY <1>2, <1>3, <1>4 DEF Productions

LEMMA RecountedIs ==
    ASSUME NEW t \in Names(Levels), NEW p, Recounted(t, p), mem'.starts = p.starts, mem'.books = p.books
    PROVE  /\ \A kind \in {"probe", "book"} : p.starts[<<t, kind>>] = mem.starts[<<t, kind>>]
           /\ \A kind \in {"analysis", "audit"} : p.starts[<<t, kind>>] \in {0, mem.starts[<<t, kind>>]}
           /\ (t \in mem.books) => (t \in p.books)
           /\ \A j \in Jobs : j[1] # t => mem'.starts[j] = mem.starts[j]
           /\ \A u \in Targets \ {t} : u \in mem'.books <=> u \in mem.books
<1>1. t \in Targets
  BY DEF Targets
<1>2. {<<t, "probe">>, <<t, "book">>, <<t, "analysis">>, <<t, "audit">>} \subseteq Jobs
  BY <1>1, JobsLookedAt
<1>3. \A j \in Jobs : j[1] # t => j # <<t, "analysis">> /\ j # <<t, "audit">>
  OBVIOUS
<1>4. \A kind \in {"probe", "book"} : p.starts[<<t, kind>>] = mem.starts[<<t, kind>>]
  BY <1>2 DEF Recounted
<1>5. \A kind \in {"analysis", "audit"} : p.starts[<<t, kind>>] \in {0, mem.starts[<<t, kind>>]}
  BY <1>2 DEF Recounted
<1> QED BY <1>3, <1>4, <1>5 DEF Recounted

\* A step of a level that leaves what is read of its text, and the jobs its starts tell of.
LEMMA QuietTells ==
    ASSUME NEW k, NEW t, NEW s, AskedTold(k, t, s), k = "levels",
           hurt' = hurt, torn \subseteq torn', source' = source,
           \A j \in Jobs : job'[j] = job[j] \/ (j[1] = t /\ job'[j] \notin Bad),
           NEW p, Recounted(t, p), mem'.starts = p.starts, mem'.books = p.books,
           NEW S, NEW O, NEW n, Cur(k, t, S, O, n), O \subseteq Closings,
           "started" \in O => Excused(t),
           ed'[t].read = ed[t].read, ed'[t].audited = ed[t].audited,
           ed[t].text = "none" => ed'[t].text = "none",
           \A kind \in {"probe", "analysis", "audit"} : job'[<<t, kind>>] = job[<<t, kind>>],
           \A r \in S : Leads(s, r) /\ Known(t, r, "open"),
           \A o \in O : Known(t, "none", o)
    PROVE  Tells(k, t, s)
<1>1. /\ Reasoned(t, s, "open", row.starts, t \in row.books)
      /\ Reasoned(t, s, "open", mem.starts, t \in mem.books)
      /\ t \in Names(Levels)
  BY AskedTells
<1>2. edits' = edits /\ (breaks' = 0 => breaks = 0)
  BY DEF AskedTold, Kept
<1>3. PICK rs, rb, ms, mb, st, b :
         /\ rs = row.starts /\ rb = (t \in row.books) /\ ms = mem.starts /\ mb = (t \in mem.books)
         /\ st = mem'.starts /\ b = (t \in mem'.books)
  OBVIOUS
<1>4. Spares(t)
  BY <1>1, RecountedIs DEF Spares
<1>5. ASSUME NEW r, NEW su, NEW c, Begins(t, r, su, c) PROVE Begins(t, r, su, c)'
  BY <1>5 DEF Begins
<1>6. ASSUME ~Excused(t) PROVE Begins(t, s, rs, rb)' /\ \A r \in S : Begins(t, r, st, b)'
  <2>1. Begins(t, s, rs, rb) /\ Begins(t, s, ms, mb)
    BY <1>1, <1>3, <1>6 DEF Reasoned
  <2>2. Begins(t, s, st, b)
    <3>1. /\ \A kind \in {"probe", "book"} : st[<<t, kind>>] = ms[<<t, kind>>]
          /\ \A kind \in {"analysis", "audit"} : st[<<t, kind>>] \in {0, ms[<<t, kind>>]}
          /\ mb => b
      <4>1. /\ \A kind \in {"probe", "book"} : p.starts[<<t, kind>>] = mem.starts[<<t, kind>>]
            /\ \A kind \in {"analysis", "audit"} : p.starts[<<t, kind>>] \in {0, mem.starts[<<t, kind>>]}
            /\ (t \in mem.books) => (t \in p.books)
        BY <1>1, RecountedIs
      <4> QED BY <1>3, <4>1
    <3> QED BY <2>1, <3>1, FewerBegin
  <2>3. \A r \in S : Begins(t, r, st, b)
    BY <2>2, LeadsBegins
  <2> QED BY <1>5, <2>1, <2>3
<1>7. ASSUME NEW r, NEW o, Known(t, r, o) PROVE Known(t, r, o)'
  BY <1>2, <1>7 DEF Known, Calm
<1>8. (\A r \in S : Known(t, r, "open")') /\ (\A o \in O : Known(t, "none", o)')
  BY <1>7
<1> QED BY <1>3, <1>4, <1>6, <1>8, LevelTells

\* A step of a level that rewrites its text.
LEMMA RewriteTells ==
    ASSUME NEW k, NEW t, NEW s, AskedTold(k, t, s), k = "levels", s \in {"mend", "settle"},
           hurt' = hurt, torn \subseteq torn', source' = source,
           NEW carried \in {FALSE, ed[t].read}, job' = Rejudged(t, carried), ed'[t].read = carried,
           NEW p, Recounted(t, p), mem'.starts = p.starts, mem'.books = p.books,
           NEW r, NEW O, NEW n, Cur(k, t, {r}, O, n), O \subseteq Closings \ {"started"},
           \/ r = "levels" /\ (s = "settle" => p.starts[<<t, "audit">>] = 0)
           \/ r = "settle" /\ s = "settle" /\ t \in torn',
           \A o \in O : o \notin {"gates", "unread"}
    PROVE  Tells(k, t, s)
<1>1. /\ Reasoned(t, s, "open", row.starts, t \in row.books)
      /\ Reasoned(t, s, "open", mem.starts, t \in mem.books)
      /\ t \in Names(Levels)
      /\ {<<t, "probe">>, <<t, "book">>, <<t, "analysis">>, <<t, "audit">>} \subseteq Jobs
  BY AskedTells
<1>2. job \in [Jobs -> JobStates]
  BY DEF AskedTold, AskedAt, Asking, Typed, WorldOK
<1>3. PICK rs, rb, ms, mb, st, b :
         /\ rs = row.starts /\ rb = (t \in row.books) /\ ms = mem.starts /\ mb = (t \in mem.books)
         /\ st = mem'.starts /\ b = (t \in mem'.books)
  OBVIOUS
<1>4. /\ \A j \in Jobs : j # <<t, "analysis">> => job'[j] = job[j]
      /\ job'[<<t, "analysis">>] = IF carried THEN job[<<t, "analysis">>] ELSE "active"
  BY <1>1, <1>2 DEF Rejudged
<1>5. Spares(t)
  <2>1. \A j \in Jobs : job'[j] = job[j] \/ (j[1] = t /\ job'[j] \notin Bad)
    BY <1>4 DEF Bad
  <2> QED BY <1>1, <2>1, RecountedIs DEF Spares
<1>6. ed'[t].read \/ job'[<<t, "analysis">>] = "active"
  BY <1>4
<1>7. job'[<<t, "probe">>] = job[<<t, "probe">>] /\ {"mend", "settle", "levels"} \subseteq Late
  BY <1>1, <1>4 DEF Late
<1>8. ASSUME ~Excused(t) PROVE Begins(t, s, rs, rb)' /\ Begins(t, r, st, b)'
  <2>1. Begins(t, s, rs, rb) /\ Begins(t, s, ms, mb)
    BY <1>1, <1>3, <1>8 DEF Reasoned
  <2>2. Begins(t, s, rs, rb)'
    BY <1>6, <1>7, <2>1 DEF Begins
  <2>3. Begins(t, s, st, b)
    <3>1. /\ \A kind \in {"probe", "book"} : st[<<t, kind>>] = ms[<<t, kind>>]
          /\ \A kind \in {"analysis", "audit"} : st[<<t, kind>>] \in {0, ms[<<t, kind>>]}
          /\ mb => b
      <4>1. /\ \A kind \in {"probe", "book"} : p.starts[<<t, kind>>] = mem.starts[<<t, kind>>]
            /\ \A kind \in {"analysis", "audit"} : p.starts[<<t, kind>>] \in {0, mem.starts[<<t, kind>>]}
            /\ (t \in mem.books) => (t \in p.books)
        BY <1>1, RecountedIs
      <4> QED BY <1>3, <4>1
    <3> QED BY <2>1, <3>1, FewerBegin
  <2>4. r = "levels" => st[<<t, "audit">>] = 0
    <3>1. s = "mend" => st[<<t, "audit">>] = 0
      BY <2>3 DEF Begins
    <3> QED BY <1>3, <3>1
  <2>5. r \in Late /\ r # "audit" /\ r # "mend"
    BY <1>7
  <2>6. Begins(t, r, st, b)'
    BY <1>6, <1>7, <2>3, <2>4, <2>5 DEF Begins
  <2> QED BY <2>2, <2>6
<1>9. Known(t, r, "open")' /\ \A o \in O : Known(t, "none", o)'
  <2>1. \A o \in O : o # "open"
    BY DEF Closings, Promise!Good, Promise!Holds
  <2> QED BY <2>1 DEF Known, Calm
<1>10. PICK S : S = {r}
  OBVIOUS
<1>11. O \subseteq Closings /\ "started" \notin O
  OBVIOUS
<1> QED BY <1>3, <1>5, <1>8, <1>9, <1>10, <1>11, LevelTells

LEMMA ApartSame ==
    ASSUME Apart
    PROVE  hurt' = hurt /\ torn \subseteq torn' /\ source' = source /\ edits' = edits /\ breaks' = breaks
  BY DEF Apart, happened

\* A step of a level that only looks.
LEMMA LooksTells ==
    ASSUME NEW k, NEW t, NEW s, AskedTold(k, t, s), k = "levels",
           hurt' = hurt, torn \subseteq torn', source' = source, ed' = ed, job' = job,
           NEW p, Recounted(t, p), mem'.starts = p.starts, mem'.books = p.books,
           NEW S, NEW O, NEW n, Cur(k, t, S, O, n), O \subseteq Closings,
           "started" \in O => Excused(t),
           \A r \in S : Leads(s, r) /\ Known(t, r, "open"),
           \A o \in O : Known(t, "none", o)
    PROVE  Tells(k, t, s)
  BY QuietTells

LEMMA SameRecounted == ASSUME NEW t PROVE Recounted(t, mem)
  BY DEF Recounted

\* A target that is closed as neither of these was not judged unread.
LEMMA OtherOutcome ==
    ASSUME NEW t, NEW o \in Closings \ {"gates", "unread"}
    PROVE  Known(t, "none", o)
  BY DEF Known, Closings, Promise!Good, Promise!Holds

\* A step of a level that starts a job its starts told nothing of, unless the level is excused.
LEMMA StartTells ==
    ASSUME NEW k, NEW t, NEW s, AskedTold(k, t, s), k = "levels",
           hurt' = hurt, torn \subseteq torn', source' = source, ed' = ed,
           NEW kind, \/ kind = "probe"
                     \/ kind = "analysis" /\ s \in Late
                     \/ kind = "audit" /\ s = "audit",
           Start(k, <<t, kind>>, Limit(<<t, kind>>), mem),
           mem.starts[<<t, kind>>] > 0 => Excused(t)
    PROVE  Tells(k, t, s)
<1> DEFINE j == <<t, kind>>
           q == [mem EXCEPT !.starts[j] = @ + 1]
<1>1. /\ Reasoned(t, s, "open", row.starts, t \in row.books)
      /\ Reasoned(t, s, "open", mem.starts, t \in mem.books)
      /\ Known(t, s, "open")
      /\ t \in Names(Levels) /\ t # Source /\ j \in Jobs
      /\ mem.starts \in [Jobs -> Nat] /\ k \in Tracks
      /\ {<<t, "probe">>, <<t, "book">>, <<t, "analysis">>, <<t, "audit">>} \subseteq Jobs
  <2>1. k \in Tracks
    BY AskedAtFacts DEF AskedTold
  <2>2. /\ Reasoned(t, s, "open", row.starts, t \in row.books)
        /\ Reasoned(t, s, "open", mem.starts, t \in mem.books)
        /\ Known(t, s, "open") /\ t \in Names(Levels) /\ t # Source
        /\ {<<t, "probe">>, <<t, "book">>, <<t, "analysis">>, <<t, "audit">>} \subseteq Jobs
        /\ mem.starts \in [Jobs -> Nat]
    BY AskedTells
  <2> QED BY <2>1, <2>2
<1>2. AskedAt(k, t, s) /\ Data(t, mem) /\ mem \in Productions /\ job \in [Jobs -> JobStates]
  BY AskedData DEF AskedTold, AskedAt, Asking, Typed, WorldOK, Fits
<1>3. edits' = edits /\ (breaks' = 0 => breaks = 0)
  BY DEF AskedTold, Kept
<1>4. Limit(j) \in Nat \ {0} /\ j \notin Unseen
  BY <1>1, ProductionAssumption DEF Limit, Unseen
<1>5. CASE mem.starts[j] >= Limit(j)
  <2> DEFINE S == {}
             O == {"started"}
  <2>1. Close(k, "started", mem) /\ job' = job
    BY <1>5 DEF Start
  <2>2. O \subseteq Closings /\ \A o \in O : Known(t, "none", o)
    BY HeldFor, OtherOutcome
  <2>3. Cur(k, t, S, O, mem.settled[t])
    BY <1>2, <2>1, <2>2, CloseCur
  <2>4. mem'.starts = mem.starts /\ mem'.books = mem.books
    BY <1>1, <1>2, <2>1, SameData
  <2>5. Excused(t)
    BY <1>1, <1>4, <1>5
  <2>6. \A r \in S : FALSE
    OBVIOUS
  <2>7. PICK p : p = mem
    OBVIOUS
  <2>8. Recounted(t, p)
    BY <2>7, SameRecounted
  <2> HIDE DEF S, O
  <2> QED BY <2>1, <2>2, <2>3, <2>4, <2>5, <2>6, <2>7, <2>8, LooksTells
<1>6. CASE ~(mem.starts[j] >= Limit(j))
  <2> DEFINE S == {s}
             O == {"timeout"}
  <2>1. job' = [job EXCEPT ![j] = "active"] /\ Wait(k, q)
    BY <1>4, <1>6 DEF Start
  <2>2. /\ q.track = mem.track /\ q.outcome = mem.outcome /\ q.signOff = mem.signOff
        /\ q.settled = mem.settled /\ q.status = mem.status /\ q.books = mem.books
        /\ q.starts = [mem.starts EXCEPT ![j] = @ + 1] /\ q \in Productions
    BY <1>1, <1>2, OneMoreStart
  <2>3. Data(t, q)
    <3>1. Updated(q)
      BY <1>1, <1>2, <1>6, StartedFits DEF Data
    <3> HIDE DEF q
    <3> QED BY <2>2, <3>1 DEF Data
  <2>4. O \subseteq Closings /\ "started" \notin O /\ \A o \in O : o \notin {"open", "gates", "unread"}
    BY HeldFor
  <2> HIDE DEF q
  <2>5. Cur(k, t, S, O, q.settled[t])
    BY <1>2, <2>1, <2>3, WaitCur
  <2>6. mem'.starts = q.starts /\ mem'.books = q.books
    BY <1>1, <2>1, <2>2, SameData
  <2>7. PICK rs, rb, st, b, ms : /\ rs = row.starts /\ rb = (t \in row.books)
                                 /\ st = mem'.starts /\ b = (t \in mem'.books) /\ ms = mem.starts
    OBVIOUS
  <2>8. /\ \A i \in Jobs : i # j => job'[i] = job[i]
        /\ job'[j] = "active"
        /\ \A i \in Jobs : i # j => st[i] = ms[i]
    BY <1>1, <1>2, <2>1, <2>2, <2>6, <2>7
  <2>9. Spares(t)
    BY <2>2, <2>6, <2>7, <2>8 DEF Spares, Bad
  <2>10. ASSUME ~Excused(t) PROVE Begins(t, s, rs, rb)' /\ Begins(t, s, st, b)'
    <3>1. Begins(t, s, rs, rb) /\ Begins(t, s, ms, b)
      BY <1>1, <2>2, <2>6, <2>7, <2>10 DEF Reasoned
    <3>2. \A x \in {"probe", "analysis", "audit"} :
              \/ job'[<<t, x>>] = job[<<t, x>>]
              \/ job'[<<t, x>>] = "active"
      BY <1>1, <2>8
    <3>3. job'[<<t, "probe">>] \in {job[<<t, "probe">>], "active"}
      BY <3>2
    <3>4. Begins(t, s, rs, rb)'
      BY <3>1, <3>2 DEF Begins
    <3>5. /\ kind = "probe" => job'[<<t, "probe">>] = "active"
          /\ kind = "analysis" => job'[<<t, "analysis">>] = "active"
          /\ kind = "audit" => job'[<<t, "audit">>] = "active"
      BY <2>8
    <3>6. /\ st[<<t, "book">>] = ms[<<t, "book">>]
          /\ kind # "probe" => st[<<t, "probe">>] = ms[<<t, "probe">>]
          /\ kind # "analysis" => st[<<t, "analysis">>] = ms[<<t, "analysis">>]
          /\ kind # "audit" => st[<<t, "audit">>] = ms[<<t, "audit">>]
      BY <1>1, <2>8
    <3>7. "audit" \in Late
      BY DEF Late
    <3>8. CASE kind = "probe"
      BY <3>1, <3>2, <3>5, <3>6, <3>8 DEF Begins
    <3>9. CASE kind = "analysis"
      BY <3>1, <3>2, <3>5, <3>6, <3>9 DEF Begins
    <3>10. CASE kind = "audit"
      BY <3>1, <3>2, <3>5, <3>6, <3>7, <3>10 DEF Begins
    <3> QED BY <3>4, <3>8, <3>9, <3>10
  <2>11. Known(t, s, "open")' /\ \A o \in O : Known(t, "none", o)'
    <3>1. Known(t, s, "open")'
      BY <1>1, <1>3 DEF Known, Calm
    <3>2. \A o \in O : Known(t, "none", o)'
      BY <2>4 DEF Known
    <3> QED BY <3>1, <3>2
  <2>12. \A r \in S : r = s
    OBVIOUS
  <2> HIDE DEF S, O
  <2> QED BY <2>4, <2>5, <2>7, <2>9, <2>10, <2>11, <2>12, LevelTells
<1> QED BY <1>5, <1>6

\* A step of a level that only looks, and then goes on, closes its target, waits or raises.
LooksAt(k, t, p) ==
    /\ k = "levels" /\ Data(t, p) /\ p \in Productions /\ Recounted(t, p)
    /\ hurt' = hurt /\ torn \subseteq torn' /\ source' = source /\ ed' = ed /\ job' = job

LEMMA GoesOn ==
    ASSUME NEW k, NEW t, NEW s, AskedTold(k, t, s), NEW p, LooksAt(k, t, p),
           NEW r, GoTo(k, r, p), Leads(s, r), Known(t, r, "open")
    PROVE  Tells(k, t, s)
<1> DEFINE S == {r}
           O == {}
<1>1. AskedAt(k, t, s) /\ k \in Tracks
  BY AskedAtFacts DEF AskedTold
<1>2. Cur(k, t, S, O, p.settled[t])
  BY <1>1, GoToCur DEF LooksAt
<1>3. mem'.starts = p.starts /\ mem'.books = p.books
  BY <1>1, SameData DEF LooksAt
<1>4. O \subseteq Closings /\ "started" \notin O /\ \A o \in O : Known(t, "none", o)
  OBVIOUS
<1>5. \A x \in S : Leads(s, x) /\ Known(t, x, "open")
  OBVIOUS
<1> HIDE DEF S, O
<1> QED BY <1>2, <1>3, <1>4, <1>5, LooksTells DEF LooksAt

LEMMA IsClosed ==
    ASSUME NEW k, NEW t, NEW s, AskedTold(k, t, s), NEW p, LooksAt(k, t, p),
           NEW o \in Closings, Close(k, o, p), o = "started" => Excused(t), Known(t, "none", o)
    PROVE  Tells(k, t, s)
<1> DEFINE S == {}
           O == {o}
<1>1. AskedAt(k, t, s) /\ k \in Tracks
  BY AskedAtFacts DEF AskedTold
<1>2. Cur(k, t, S, O, p.settled[t])
  BY <1>1, CloseCur DEF LooksAt
<1>3. mem'.starts = p.starts /\ mem'.books = p.books
  BY <1>1, SameData DEF LooksAt
<1>4. O \subseteq Closings /\ ("started" \in O => Excused(t)) /\ \A x \in O : Known(t, "none", x)
  OBVIOUS
<1>5. \A x \in S : FALSE
  OBVIOUS
<1> HIDE DEF S, O
<1> QED BY <1>2, <1>3, <1>4, <1>5, LooksTells DEF LooksAt

LEMMA Waits ==
    ASSUME NEW k, NEW t, NEW s, AskedTold(k, t, s), NEW p, LooksAt(k, t, p), Wait(k, p) \/ Raise(k, p)
    PROVE  Tells(k, t, s)
<1> DEFINE S == {s}
           O == {"timeout", "error"}
<1>1. AskedAt(k, t, s) /\ k \in Tracks
  BY AskedAtFacts DEF AskedTold
<1>2. Cur(k, t, S, O, p.settled[t])
  BY <1>1, WaitCur, RaiseCur DEF LooksAt
<1>3. mem'.starts = p.starts /\ mem'.books = p.books
  BY <1>1, SameData DEF LooksAt
<1>4. O \subseteq Closings /\ "started" \notin O /\ \A o \in O : Known(t, "none", o)
  BY HeldFor, OtherOutcome
<1>5. \A x \in S : Leads(s, x) /\ Known(t, x, "open")
  BY AskedTells DEF LooksAt, Leads
<1> HIDE DEF S, O
<1> QED BY <1>2, <1>3, <1>4, <1>5, LooksTells DEF LooksAt

LEMMA LooksAtItself ==
    ASSUME NEW k, NEW t, NEW s, AskedTold(k, t, s), k = "levels",
           hurt' = hurt, torn \subseteq torn', source' = source, ed' = ed, job' = job
    PROVE  LooksAt(k, t, mem)
<1>1. Data(t, mem) /\ mem \in Productions
  BY AskedData DEF AskedTold, Data, Updated, Fits
<1> QED BY <1>1, SameRecounted DEF LooksAt

LEMMA ReadSourceTells ==
    ASSUME NEW k, NEW t, NEW s, AskedTold(k, t, s), ReadSource(k) PROVE Tells(k, t, s)
<1> DEFINE j == <<Source, "analysis">>
           q == [mem EXCEPT !.starts[j] = @ + 1]
<1>1. At(k, "source") /\ s = "source" /\ k = "levels" /\ AskedAt(k, t, s) /\ k \in Tracks
  BY OfLevels, AskedAtFacts DEF ReadSource, At, AskedAt, AskedTold, StepsOf
<1>2. /\ ed' = ed /\ hurt' = hurt /\ torn \subseteq torn' /\ source' = source
      /\ edits' = edits /\ breaks' = breaks
  BY ApartSame DEF ReadSource
<1>3. /\ Data(t, mem) /\ mem \in Productions /\ job \in [Jobs -> JobStates] /\ row' = row
      /\ mem.starts \in [Jobs -> Nat] /\ j \in Jobs /\ Limit(j) = Starts /\ Starts \in Nat \ {0}
      /\ j \notin Unseen
  BY <1>1, AskedData, ProductionAssumption
  DEF AskedTold, AskedAt, Asking, Typed, WorldOK, Fits, Productions, Jobs, Limit, Unseen, Kept, Does
<1>4. PICK p : p = mem
  OBVIOUS
<1>5. ASSUME job' = job PROVE LooksAt(k, t, p)
  BY <1>1, <1>2, <1>4, <1>5, LooksAtItself
<1>6. ASSUME job' = job, GoTo(k, "probe", mem) \/ Wait(k, mem) PROVE Tells(k, t, s)
  <2>1. Leads(s, "probe") /\ Known(t, "probe", "open")
    BY <1>1 DEF Leads, Known
  <2> QED BY <1>4, <1>5, <1>6, <2>1, GoesOn, Waits
<1>7. CASE ~source.read /\ job[j] # "active" /\ Start(k, j, Starts, mem)
  <2>1. CASE mem.starts[j] >= Starts
    <3>1. Close(k, "started", p) /\ LooksAt(k, t, p)
      BY <1>4, <1>5, <1>7, <2>1 DEF Start
    <3>2. "started" \in Closings /\ Known(t, "none", "started")
      BY HeldFor, OtherOutcome
    <3>3. Excused(t)
      <4>1. mem.starts[j] > 0 /\ SourceTold(mem.starts)
        BY <1>3, <2>1 DEF AskedTold, Told
      <4> QED BY <1>7, <4>1 DEF SourceTold, Excused
    <3> QED BY <3>1, <3>2, <3>3, IsClosed
  <2>2. CASE ~(mem.starts[j] >= Starts)
    <3> DEFINE S == {s}
               O == {"timeout"}
    <3>1. job' = [job EXCEPT ![j] = "active"] /\ Wait(k, q)
      BY <1>3, <1>7, <2>2 DEF Start
    <3>2. /\ q.track = mem.track /\ q.outcome = mem.outcome /\ q.signOff = mem.signOff
          /\ q.settled = mem.settled /\ q.status = mem.status /\ q.books = mem.books
          /\ q.starts = [mem.starts EXCEPT ![j] = @ + 1] /\ q \in Productions
      BY <1>3, OneMoreStart
    <3>3. Data(t, q)
      <4>1. Updated(q)
        BY <1>1, <1>3, <2>2, StartedFits DEF Data
      <4> HIDE DEF q
      <4> QED BY <1>3, <3>2, <4>1 DEF Data
    <3> HIDE DEF q
    <3>4. Cur(k, t, S, O, q.settled[t])
      BY <1>1, <3>1, <3>3, WaitCur
    <3>5. mem'.starts = q.starts /\ mem'.books = q.books
      BY <1>1, <3>1, <3>2, SameData
    <3>6. /\ \A i \in Jobs : i # j => job'[i] = job[i] /\ mem'.starts[i] = mem.starts[i]
          /\ job'[j] = "active"
      BY <1>3, <3>1, <3>2, <3>5
    <3>7. /\ Reasoned(t, s, "open", row.starts, t \in row.books)
          /\ Reasoned(t, s, "open", mem.starts, t \in mem.books)
          /\ t \in Names(Levels) /\ t # Source
          /\ {<<t, "probe">>, <<t, "book">>, <<t, "analysis">>, <<t, "audit">>} \subseteq Jobs
      BY <1>1, AskedTells
    <3>8. PICK rs, rb, st, b, ms : /\ rs = row.starts /\ rb = (t \in row.books)
                                   /\ st = mem'.starts /\ b = (t \in mem'.books) /\ ms = mem.starts
      OBVIOUS
    <3>9. ASSUME ~Excused(t) PROVE Begins(t, s, rs, rb)' /\ Begins(t, s, st, b)'
      <4>1. Begins(t, s, rs, rb) /\ Begins(t, s, ms, b)
        BY <3>2, <3>5, <3>7, <3>8, <3>9 DEF Reasoned
      <4>2. \A x \in {"probe", "book", "analysis", "audit"} :
               job'[<<t, x>>] = job[<<t, x>>] /\ st[<<t, x>>] = ms[<<t, x>>]
        BY <3>6, <3>7, <3>8
      <4> QED BY <1>2, <4>1, <4>2 DEF Begins
    <3>10. O \subseteq Closings /\ "started" \notin O /\ \A o \in O : o \notin {"open", "gates", "unread"}
      BY HeldFor
    <3>11. (\A x \in S : x = s) /\ Known(t, s, "open")' /\ \A o \in O : Known(t, "none", o)'
      BY <1>1, <3>10 DEF Known
    <3>12. SourceTold(row.starts)' /\ SourceTold(mem.starts)'
      BY <3>6 DEF SourceTold
    <3>13. /\ \A i \in Jobs : job'[i] = job[i] \/ job'[i] \notin Bad
           /\ \A i \in Jobs : i[1] \notin {t, Source} => mem'.starts[i] = mem.starts[i]
           /\ mem'.books = mem.books
      BY <3>2, <3>5, <3>6 DEF Bad
    <3> HIDE DEF S, O
    <3>14. /\ Reasoned(t, s, "open", row.starts, t \in row.books)'
           /\ \/ /\ mem'.outcome = mem.outcome /\ mem'.track[k].index = mem.track[k].index
                 /\ Reasoned(t, mem.track[k].step, "open", mem.starts, t \in mem.books)'
                 /\ Known(t, mem.track[k].step, "open")'
              \/ \E o : /\ ClosedBy(mem, mem', k, o)
                        /\ Reasoned(t, "none", o, mem.starts, t \in mem.books)'
                        /\ Known(t, "none", o)'
      BY <1>2, <3>4, <3>8, <3>9, <3>10, <3>11, LevelPart
    <3> QED BY <1>2, <3>12, <3>13, <3>14 DEF Tells
  <2> QED BY <2>1, <2>2
<1> QED BY <1>1, <1>6, <1>7 DEF ReadSource

LEMMA ProbeClosesTells ==
    ASSUME NEW k, NEW t, NEW s, AskedTold(k, t, s), ProbeNotNeeded(k) \/ ProbeNotReached(k)
    PROVE  Tells(k, t, s)
<1>1. s = "probe" /\ k = "levels" /\ Looks /\ Apart
  BY OfLevels DEF ProbeNotNeeded, ProbeNotReached, At, AskedAt, AskedTold, StepsOf
<1>2. PICK p : p = mem
  OBVIOUS
<1>3. LooksAt(k, t, p)
  BY <1>1, <1>2, LooksAside, ApartSame, LooksAtItself
<1>4. PICK o \in {"not_needed", "not_reached"} : Close(k, o, p)
  BY <1>2 DEF ProbeNotNeeded, ProbeNotReached
<1>5. o \in Closings /\ Known(t, "none", o) /\ o # "started"
  BY HeldFor, OtherOutcome
<1> QED BY <1>3, <1>4, <1>5, IsClosed

LEMMA ProbeAdoptsTells ==
    ASSUME NEW k, NEW t, NEW s, AskedTold(k, t, s), ProbeAdopts(k) PROVE Tells(k, t, s)
<1>1. /\ s = "probe" /\ k = "levels" /\ Looks /\ Apart /\ t = Target(k) /\ AskedAt(k, t, s)
      /\ t \in Targets
  BY OfLevels, AskedAtFacts DEF ProbeAdopts, At, AskedAt, AskedTold, StepsOf
<1>2. PICK p : p = [mem EXCEPT !.editions = @ \cup {t}]
  OBVIOUS
<1>3. Data(t, mem) /\ mem \in Productions
  BY <1>1, AskedData DEF Data, Updated, Fits
<1>4. Data(t, p) /\ p.starts = mem.starts /\ p.books = mem.books /\ p \in Productions
  BY <1>1, <1>2, <1>3 DEF Data, Updated, Fits, Productions, Limited, Placed
<1>5. LooksAt(k, t, p)
  BY <1>1, <1>4, LooksAside, ApartSame DEF LooksAt, Recounted
<1>6. GoTo(k, "levels", p)
  BY <1>1, <1>2 DEF ProbeAdopts
<1>7. Leads(s, "levels") /\ Known(t, "levels", "open")
  BY <1>1 DEF Leads, Known
<1> QED BY <1>5, <1>6, <1>7, GoesOn

LEMMA ProbeTells ==
    ASSUME NEW k, NEW t, NEW s, AskedTold(k, t, s), Probe(k) PROVE Tells(k, t, s)
<1>1. /\ s = "probe" /\ k = "levels" /\ t = Target(k) /\ AskedAt(k, t, s)
      /\ ed[t].text \notin Standing
  BY OfLevels DEF Probe, At, AskedAt, AskedTold, StepsOf
<1>2. ed' = ed /\ hurt' = hurt /\ torn \subseteq torn' /\ source' = source
  BY ApartSame DEF Probe
<1>3. PICK p : p = mem
  OBVIOUS
<1>4. ASSUME job' = job PROVE LooksAt(k, t, p)
  BY <1>1, <1>2, <1>3, <1>4, LooksAtItself
<1>5. CASE GoTo(k, "write", mem) /\ job' = job
  <2>1. Leads(s, "write") /\ Known(t, "write", "open")
    BY <1>1 DEF Leads, Known
  <2> QED BY <1>3, <1>4, <1>5, <2>1, GoesOn
<1>6. CASE Wait(k, mem) /\ job' = job
  BY <1>3, <1>4, <1>6, Waits
<1>7. CASE Close(k, "no_probe", mem) /\ job' = job
  <2>1. "no_probe" \in Closings /\ Known(t, "none", "no_probe")
    BY HeldFor, OtherOutcome
  <2> QED BY <1>3, <1>4, <1>7, <2>1, IsClosed
<1>8. CASE CanProbe(t) /\ Start(k, <<t, "probe">>, Starts, mem)
  <2>1. Limit(<<t, "probe">>) = Starts
    BY DEF Limit
  <2>2. ASSUME mem.starts[<<t, "probe">>] > 0, ~Excused(t) PROVE FALSE
    <3>1. job[<<t, "probe">>] \in {"active", "done", "declined"}
      BY <1>1, <2>2, AskedTells DEF Reasoned, Begins
    <3>2. Rung(t) \in {"untried", "error"}
      BY <1>8 DEF CanProbe
    <3> QED BY <3>1, <3>2 DEF Rung
  <2>3. PICK kind : kind = "probe"
    OBVIOUS
  <2>4. Start(k, <<t, kind>>, Limit(<<t, kind>>), mem) /\ (mem.starts[<<t, kind>>] > 0 => Excused(t))
    BY <1>8, <2>1, <2>2, <2>3
  <2> QED BY <1>1, <1>2, <2>3, <2>4, StartTells
<1> QED BY <1>1, <1>5, <1>6, <1>7, <1>8 DEF Probe

LEMMA WriteWaitsTells ==
    ASSUME NEW k, NEW t, NEW s, AskedTold(k, t, s), WriteWaits(k) PROVE Tells(k, t, s)
<1>1. /\ s = "write" /\ k = "levels" /\ Looks /\ Apart /\ t = Target(k) /\ AskedAt(k, t, s)
      /\ t \in Targets
  BY OfLevels, AskedAtFacts DEF WriteWaits, At, AskedAt, AskedTold, StepsOf
<1>2. PICK p, m : p = [mem EXCEPT !.editions = @ \cup {t}] /\ m = mem
  OBVIOUS
<1>3. Data(t, mem) /\ mem \in Productions
  BY <1>1, AskedData DEF Data, Updated, Fits
<1>4. Data(t, p) /\ p.starts = mem.starts /\ p.books = mem.books /\ p \in Productions
  BY <1>1, <1>2, <1>3 DEF Data, Updated, Fits, Productions, Limited, Placed
<1>5. LooksAt(k, t, p) /\ LooksAt(k, t, m)
  BY <1>1, <1>2, <1>4, LooksAside, ApartSame, LooksAtItself DEF LooksAt, Recounted
<1>6. Leads(s, "levels") /\ Known(t, "levels", "open")
  BY <1>1 DEF Leads, Known
<1>7. GoTo(k, "levels", p) \/ GoTo(k, "levels", m) \/ Wait(k, m)
  BY <1>1, <1>2 DEF WriteWaits
<1> QED BY <1>5, <1>6, <1>7, GoesOn, Waits

LEMMA WriteTells ==
    ASSUME NEW k, NEW t, NEW s, AskedTold(k, t, s), Write(k) PROVE Tells(k, t, s)
<1> DEFINE b == <<t, "book">>
           p == [mem EXCEPT !.books = @ \cup {t}, !.editions = @ \cup {t}]
           q == [p EXCEPT !.starts[b] = @ + 1]
           S == {s}
           O == {"timeout"}
<1>1. /\ s = "write" /\ k = "levels" /\ t = Target(k) /\ AskedAt(k, t, s) /\ Apart /\ k \in Tracks
      /\ t \notin mem.books \/ job[b] = "failed"
  BY OfLevels, AskedAtFacts DEF Write, At, AskedAt, AskedTold, StepsOf
<1>2. hurt' = hurt /\ torn \subseteq torn' /\ source' = source /\ edits' = edits /\ breaks' = breaks
  BY <1>1, ApartSame
<1>3. /\ Reasoned(t, s, "open", row.starts, t \in row.books)
      /\ Reasoned(t, s, "open", mem.starts, t \in mem.books)
      /\ t \in Names(Levels) /\ t # Source /\ t \in Targets /\ t \in Names(Rungs)
      /\ mem.starts \in [Jobs -> Nat]
      /\ {<<t, "probe">>, <<t, "book">>, <<t, "analysis">>, <<t, "audit">>} \subseteq Jobs
  BY <1>1, AskedTells
<1>4. /\ Data(t, mem) /\ mem \in Productions /\ job \in [Jobs -> JobStates]
      /\ ed \in [Names(Rungs) \cup Targets -> Editions] /\ Limit(b) = Starts
      /\ Starts \in Nat \ {0} /\ JobsTold
  BY <1>1, AskedData, ProductionAssumption
  DEF AskedTold, AskedAt, Asking, Typed, WorldOK, Fits, Limit, Told
<1>5. ASSUME mem.starts[b] > 0 PROVE Excused(t)
  <2>1. CASE t \notin mem.books
    BY <1>3, <1>5, <2>1 DEF Reasoned, Begins
  <2>2. CASE job[b] = "failed"
    BY <1>3, <1>4, <2>2 DEF JobsTold, Bad, Excused
  <2> QED BY <1>1, <2>1, <2>2
<1>6. CASE mem.starts[b] >= Starts
  <2>1. PICK m : m = mem
    OBVIOUS
  <2>2. Close(k, "started", m) /\ Looks
    BY <1>1, <1>6, <2>1 DEF Write
  <2>3. LooksAt(k, t, m)
    BY <1>1, <1>2, <2>1, <2>2, LooksAside, LooksAtItself
  <2>4. Excused(t)
    BY <1>3, <1>4, <1>5, <1>6
  <2>5. "started" \in Closings /\ Known(t, "none", "started")
    BY HeldFor, OtherOutcome
  <2> QED BY <2>2, <2>3, <2>4, <2>5, IsClosed
<1>7. CASE ~(mem.starts[b] >= Starts)
  <2>1. /\ job' = [job EXCEPT ![b] = IF @ = "stalled" THEN @ ELSE "active"]
        /\ ed' = [ed EXCEPT ![t].text = "empty"]
        /\ Wait(k, q)
    BY <1>1, <1>7 DEF Write
  <2>2. /\ p \in Productions /\ p.books = mem.books \cup {t}
        /\ p.track = mem.track /\ p.outcome = mem.outcome /\ p.status = mem.status
        /\ p.signOff = mem.signOff /\ p.settled = mem.settled /\ p.starts = mem.starts
    BY <1>3, <1>4 DEF Productions
  <2>3. Data(t, p)
    <3> HIDE DEF p
    <3> QED BY <1>4, <2>2 DEF Data, Updated, Fits, Limited, Placed
  <2>4. Data(t, q) /\ q \in Productions /\ q.books = p.books
        /\ q.starts = [mem.starts EXCEPT ![b] = @ + 1]
    <3>1. Updated(q)
      <4> HIDE DEF p
      <4> QED BY <1>3, <1>4, <1>7, <2>2, <2>3, StartedFits DEF Data
    <3>2. q.settled = p.settled /\ q.books = p.books /\ q.starts = [p.starts EXCEPT ![b] = @ + 1]
      <4> HIDE DEF p
      <4> QED BY <1>3, <2>2 DEF Productions
    <3> HIDE DEF p, q
    <3> QED BY <2>2, <2>3, <3>1, <3>2 DEF Data, Updated, Fits
  <2> HIDE DEF p, q
  <2>5. Cur(k, t, S, O, q.settled[t])
    BY <1>1, <2>1, <2>4, WaitCur
  <2>6. mem'.starts = q.starts /\ mem'.books = q.books
    BY <1>1, <2>1, <2>4, SameData
  <2>7. PICK rs, rb, st, ms, mb, nb : /\ rs = row.starts /\ rb = (t \in row.books) /\ st = mem'.starts
                                      /\ ms = mem.starts /\ mb = (t \in mem.books)
                                      /\ nb = (t \in mem'.books)
    OBVIOUS
  <2>8. /\ \A i \in Jobs : i # b => job'[i] = job[i] /\ st[i] = ms[i]
        /\ job'[b] = job[b] \/ job'[b] = "active"
        /\ nb
    BY <1>3, <1>4, <2>1, <2>2, <2>4, <2>6, <2>7
  <2>9. Spares(t)
    <3>1. \A u \in Targets \ {t} : u \in mem'.books <=> u \in mem.books
      BY <2>2, <2>4, <2>6
    <3> QED BY <1>2, <2>7, <2>8, <3>1 DEF Spares, Bad
  <2>10. ASSUME ~Excused(t) PROVE Begins(t, s, rs, rb)' /\ Begins(t, s, st, nb)'
    <3>1. Begins(t, s, rs, rb) /\ Begins(t, s, ms, mb) /\ s \notin Late /\ s # "levels" /\ s # "mend"
      BY <1>1, <1>3, <2>7, <2>10 DEF Reasoned, Late
    <3>2. /\ job'[<<t, "probe">>] = job[<<t, "probe">>] /\ st[<<t, "probe">>] = ms[<<t, "probe">>]
          /\ st[<<t, "analysis">>] = ms[<<t, "analysis">>] /\ st[<<t, "audit">>] = ms[<<t, "audit">>]
      BY <1>3, <2>8
    <3> QED BY <2>8, <3>1, <3>2 DEF Begins, Late
  <2>11. O \subseteq Closings /\ "started" \notin O /\ \A o \in O : o \notin {"open", "gates", "unread"}
    BY HeldFor
  <2>12. (\A x \in S : x = s) /\ Known(t, s, "open")' /\ \A o \in O : Known(t, "none", o)'
    BY <1>1, <2>11 DEF Known
  <2> HIDE DEF S, O
  <2> QED BY <2>5, <2>7, <2>9, <2>10, <2>11, <2>12, LevelTells
<1> QED BY <1>6, <1>7

LEMMA JudgeLevelsTells ==
    ASSUME NEW k, NEW t, NEW s, AskedTold(k, t, s), JudgeLevels(k) PROVE Tells(k, t, s)
<1>1. /\ s = "levels" /\ k = "levels" /\ t = Target(k) /\ AskedAt(k, t, s) /\ ed[t].text # "none"
      /\ s \in Late
  BY OfLevels DEF JudgeLevels, AtEdition, At, AskedAt, AskedTold, StepsOf, Late
<1>2. ed' = ed /\ hurt' = hurt /\ torn \subseteq torn' /\ source' = source
  BY ApartSame DEF JudgeLevels
<1>3. PICK p : p = mem
  OBVIOUS
<1>4. ASSUME job' = job PROVE LooksAt(k, t, p)
  BY <1>1, <1>2, <1>3, <1>4, LooksAtItself
<1>5. CASE Wait(k, mem) /\ job' = job
  BY <1>3, <1>4, <1>5, Waits
<1>6. CASE ed[t].read /\ GoTo(k, "mend", mem) /\ job' = job
  <2>1. Leads(s, "mend") /\ Known(t, "mend", "open")
    BY <1>1, <1>6 DEF Leads, Known
  <2> QED BY <1>3, <1>4, <1>6, <2>1, GoesOn
<1>7. CASE ~Busy(t) /\ ~ed[t].read /\ Start(k, <<t, "analysis">>, Starts + 1, mem)
  <2>1. t \in Names(Levels) /\ t # Source /\ <<t, "analysis">> \in Jobs
    BY <1>1, AskedTells
  <2>2. Limit(<<t, "analysis">>) = Starts + 1
    BY <2>1 DEF Limit
  <2>3. ASSUME mem.starts[<<t, "analysis">>] > 0, ~Excused(t) PROVE FALSE
    <3>1. job[<<t, "analysis">>] = "active"
      BY <1>1, <1>7, <2>3, AskedTells DEF Reasoned, Begins
    <3> QED BY <1>7, <2>1, <3>1 DEF Busy, Running
  <2>4. PICK kind : kind = "analysis"
    OBVIOUS
  <2>5. Start(k, <<t, kind>>, Limit(<<t, kind>>), mem) /\ (mem.starts[<<t, kind>>] > 0 => Excused(t))
    BY <1>7, <2>2, <2>3, <2>4
  <2> QED BY <1>1, <1>2, <2>4, <2>5, StartTells
<1> QED BY <1>1, <1>5, <1>6, <1>7 DEF JudgeLevels

LEMMA AuditTells ==
    ASSUME NEW k, NEW t, NEW s, AskedTold(k, t, s), Audit(k) PROVE Tells(k, t, s)
<1>1. /\ s = "audit" /\ k = "levels" /\ t = Target(k) /\ AskedAt(k, t, s)
  BY OfLevels DEF Audit, AtEdition, At, AskedAt, AskedTold, StepsOf
<1>2. ed' = ed /\ hurt' = hurt /\ torn \subseteq torn' /\ source' = source
  BY ApartSame DEF Audit
<1>3. PICK p : p = mem
  OBVIOUS
<1>4. ASSUME job' = job PROVE LooksAt(k, t, p)
  BY <1>1, <1>2, <1>3, <1>4, LooksAtItself
<1>5. CASE Wait(k, mem) /\ job' = job
  BY <1>3, <1>4, <1>5, Waits
<1>6. CASE ed[t].audited /\ GoTo(k, "settle", mem) /\ job' = job
  <2>1. Leads(s, "settle") /\ Known(t, "settle", "open")
    BY <1>1, <1>6, AskedTells DEF Leads, Known
  <2> QED BY <1>3, <1>4, <1>6, <2>1, GoesOn
<1>7. CASE ~Busy(t) /\ ~ed[t].audited /\ Start(k, <<t, "audit">>, Starts, mem)
  <2>1. <<t, "audit">> \in Jobs
    BY <1>1, AskedTells
  <2>2. Limit(<<t, "audit">>) = Starts
    BY DEF Limit
  <2>3. ASSUME mem.starts[<<t, "audit">>] > 0, ~Excused(t) PROVE FALSE
    <3>1. job[<<t, "audit">>] = "active"
      BY <1>1, <1>7, <2>3, AskedTells DEF Reasoned, Begins
    <3> QED BY <1>7, <2>1, <3>1 DEF Busy, Running
  <2>4. PICK kind : kind = "audit"
    OBVIOUS
  <2>5. Start(k, <<t, kind>>, Limit(<<t, kind>>), mem) /\ (mem.starts[<<t, kind>>] > 0 => Excused(t))
    BY <1>7, <2>2, <2>3, <2>4
  <2> QED BY <1>1, <1>2, <2>4, <2>5, StartTells
<1> QED BY <1>1, <1>5, <1>6, <1>7 DEF Audit

\* What a count anew leaves of a production.
LEMMA CountedIs ==
    ASSUME NEW t \in Names(Levels), NEW p \in Productions, p.starts = mem.starts, p.books = mem.books
    PROVE  /\ Recounted(t, Counted(t, p)) /\ Counted(t, p).starts[<<t, "audit">>] = 0
           /\ Counted(t, p) \in Productions
<1> DEFINE starts == [p.starts EXCEPT ![<<t, "analysis">>] = 0, ![<<t, "audit">>] = 0]
           q == [p EXCEPT !.starts = starts]
<1>1. t \in Targets /\ <<t, "analysis">> \in Jobs /\ <<t, "audit">> \in Jobs
  BY JobsLookedAt DEF Targets
<1>2. p.starts \in [Jobs -> Nat]
  BY DEF Productions
<1>3. Counted(t, p) = q
  BY <1>2 DEF Counted, Productions
<1>4. starts \in [Jobs -> Nat]
  BY <1>1, <1>2
<1>5. /\ starts[<<t, "audit">>] = 0
      /\ \A j \in Jobs : starts[j] = p.starts[j]
                         \/ (starts[j] = 0 /\ j \in {<<t, "analysis">>, <<t, "audit">>})
  <2>1. PICK a, b, st : a = <<t, "analysis">> /\ b = <<t, "audit">> /\ st = p.starts
    OBVIOUS
  <2>2. starts = [st EXCEPT ![a] = 0, ![b] = 0] /\ a \in Jobs /\ b \in Jobs /\ st \in [Jobs -> Nat]
    BY <1>1, <1>2, <2>1
  <2> HIDE DEF starts
  <2>3. starts[b] = 0 /\ \A j \in Jobs : starts[j] = st[j] \/ (starts[j] = 0 /\ j \in {a, b})
    BY <2>2
  <2>4. starts[<<t, "audit">>] = 0
    BY <2>1, <2>3
  <2>5. ASSUME NEW j \in Jobs
        PROVE  \/ starts[j] = p.starts[j]
               \/ starts[j] = 0 /\ j \in {<<t, "analysis">>, <<t, "audit">>}
    BY <2>1, <2>3
  <2> QED BY <2>4, <2>5
<1> HIDE DEF starts
<1>6. q.starts = starts /\ q.books = p.books /\ q \in Productions
  BY <1>4 DEF Productions
<1> HIDE DEF q
<1> QED BY <1>3, <1>5, <1>6 DEF Recounted

LEMMA MendedIs ==
    ASSUME NEW k, NEW t, NEW s, AskedAt(k, t, s), k = "levels", NEW tries \in [Chapters -> SUBSET Tries]
    PROVE  /\ Data(t, Mended(t, tries)) /\ Recounted(t, Mended(t, tries))
           /\ Mended(t, tries) \in Productions
<1>1. t \in Names(Levels) /\ mem \in Productions
  BY AskedAtFacts, AskedData DEF Data, Updated, Fits
<1>2. PICK q : q = [mem EXCEPT !.mended[t] = tries]
  OBVIOUS
<1>3. q.starts = mem.starts /\ q.books = mem.books /\ q \in Productions
  <2>1. [mem.mended EXCEPT ![t] = tries] \in [Names(Levels) -> [Chapters -> SUBSET Tries]]
    BY <1>1 DEF Productions
  <2> QED BY <1>1, <1>2, <2>1 DEF Productions
<1>4. Recounted(t, Counted(t, q))
  BY <1>1, <1>3, CountedIs
<1>5. Recounted(t, Mended(t, tries))
  BY <1>2, <1>4, SameRecounted DEF Mended
<1>6. Data(t, Mended(t, tries))
  BY MendedData
<1> QED BY <1>5, <1>6 DEF Data, Updated, Fits

LEMMA AllTriedIs ==
    ASSUME NEW k, NEW t, NEW s, AskedAt(k, t, s), k = "levels"
    PROVE  Data(t, AllTried(t)) /\ Recounted(t, AllTried(t)) /\ AllTried(t) \in Productions
<1>1. mem \in Productions /\ t \in Names(Levels)
  BY AskedData, AskedAtFacts DEF Data, Updated, Fits
<1>2. [x \in Chapters |-> IF x \in ed[t].above THEN Tries ELSE mem.mended[t][x]]
         \in [Chapters -> SUBSET Tries]
  BY <1>1 DEF Productions
<1> QED BY <1>2, MendedIs DEF AllTried

LEMMA MendNothingTells ==
    ASSUME NEW k, NEW t, NEW s, AskedTold(k, t, s), MendNothing(k) PROVE Tells(k, t, s)
<1>1. s = "mend" /\ k = "levels" /\ t = Target(k) /\ Looks /\ Apart
  BY OfLevels DEF MendNothing, AtEdition, At, AskedAt, AskedTold, StepsOf
<1>2. PICK p : p = mem
  OBVIOUS
<1>3. LooksAt(k, t, p)
  BY <1>1, <1>2, LooksAside, ApartSame, LooksAtItself
<1>4. Known(t, s, "open")
  BY <1>1, AskedTells
<1>5. CASE ed[t].read /\ GoTo(k, "audit", mem)
  <2>1. Leads(s, "audit") /\ Known(t, "audit", "open")
    BY <1>1, <1>5 DEF Leads, Known
  <2> QED BY <1>2, <1>3, <1>5, <2>1, GoesOn
<1>6. CASE ~ed[t].read /\ Close(k, "unread", mem)
  <2>1. "unread" \in Closings /\ Known(t, "none", "unread")
    BY <1>1, <1>4, <1>6, HeldFor DEF Known
  <2> QED BY <1>2, <1>3, <1>6, <2>1, IsClosed
<1> QED BY <1>1, <1>5, <1>6 DEF MendNothing

LEMMA MendTells ==
    ASSUME NEW k, NEW t, NEW s, AskedTold(k, t, s), Mend(k) PROVE Tells(k, t, s)
<1>1. /\ s = "mend" /\ k = "levels" /\ t = Target(k) /\ Apart /\ AskedAt(k, t, s) /\ k \in Tracks
      /\ t \in Names(Levels)
  BY OfLevels, AskedAtFacts DEF Mend, AtEdition, At, AskedAt, AskedTold, StepsOf
<1>2. Asking(k) /\ mem \in Productions
  BY <1>1, AskedData DEF Data, Updated, Fits
<1>3. PICK c \in ed[t].above, try \in Tries :
         GoTo(k, "levels", Mended(t, Through(t, c, IF try = "chapter" THEN Tries
                                                   ELSE mem.mended[t][c] \cup {try})))
  BY <1>1 DEF Mend
<1>4. PICK tries : tries = IF try = "chapter" THEN Tries ELSE mem.mended[t][c] \cup {try}
  OBVIOUS
<1>5. tries \in SUBSET Tries
  <2>1. c \in Chapters
    BY <1>1, <1>2, EditionFits DEF Editions
  <2> QED BY <1>1, <1>2, <1>4, <2>1 DEF Productions
<1>6. Through(t, c, tries) \in [Chapters -> SUBSET Tries]
  BY <1>1, <1>2, <1>5, ThroughFits
<1>7. PICK p : p = Mended(t, Through(t, c, tries))
  OBVIOUS
<1>8. Data(t, p) /\ Recounted(t, p) /\ p \in Productions
  BY <1>1, <1>6, <1>7, MendedIs
<1>9. GoTo(k, "levels", p)
  BY <1>3, <1>4, <1>7
<1>10. mem'.starts = p.starts /\ mem'.books = p.books
  BY <1>1, <1>8, <1>9, SameData
<1>11. ed'[t].read = FALSE /\ job' = Rejudged(t, FALSE)
  <2>1. ed' = [ed EXCEPT ![t] = Rewritten(@, FALSE)] /\ job' = Rejudged(t, FALSE)
    BY <1>1 DEF Mend
  <2>2. ed[t] \in Editions
    BY <1>1, <1>2, EditionFits
  <2>3. ed'[t] = Rewritten(ed[t], FALSE)
    <3>1. ed \in [Names(Rungs) \cup Targets -> Editions] /\ t \in Names(Rungs) \cup Targets
      BY <1>1, <1>2, EditionFits DEF Targets
    <3> QED BY <2>1, <3>1
  <2> QED BY <2>1, <2>2, <2>3, RewrittenIs
<1>12. PICK carried : carried = FALSE
  OBVIOUS
<1>13. PICK O : O = {}
  OBVIOUS
<1>14. "levels" \in {"levels"} /\ Cur(k, t, {"levels"}, O, p.settled[t])
  BY <1>1, <1>8, <1>9, GoToCur
<1>15. hurt' = hurt /\ torn \subseteq torn' /\ source' = source
  BY <1>1, ApartSame
<1>16. PICK r : r = "levels"
  OBVIOUS
<1>17. carried \in {FALSE, ed[t].read} /\ s \in {"mend", "settle"} /\ s # "settle"
  BY <1>1, <1>12
<1>18. O \subseteq Closings \ {"started"} /\ \A o \in O : o \notin {"gates", "unread"}
  BY <1>13
<1> QED BY <1>1, <1>8, <1>10, <1>11, <1>12, <1>14, <1>15, <1>16, <1>17, <1>18, RewriteTells

LEMMA MendBreaksTells ==
    ASSUME NEW k, NEW t, NEW s, AskedTold(k, t, s), MendBreaks(k) PROVE Tells(k, t, s)
<1>1. /\ s = "mend" /\ k = "levels" /\ t = Target(k) /\ Looks /\ AskedAt(k, t, s)
      /\ t \in Names(Levels) /\ hurt' = hurt /\ torn \subseteq torn' /\ source' = source
  BY OfLevels, AskedAtFacts DEF MendBreaks, AtEdition, At, AskedAt, AskedTold, StepsOf
<1>2. Asking(k) /\ mem \in Productions /\ ed' = ed /\ job' = job
  BY <1>1, AskedData DEF Data, Updated, Fits, Looks
<1>3. PICK c \in ed[t].above : Raise(k, Mended(t, Through(t, c, mem.mended[t][c])))
  BY <1>1 DEF MendBreaks
<1>4. Through(t, c, mem.mended[t][c]) \in [Chapters -> SUBSET Tries]
  <2>1. c \in Chapters
    BY <1>1, <1>2, EditionFits DEF Editions
  <2>2. mem.mended[t][c] \in SUBSET Tries
    BY <1>1, <1>2, <2>1 DEF Productions
  <2> QED BY <1>1, <1>2, <2>2, ThroughFits
<1>5. PICK p : p = Mended(t, Through(t, c, mem.mended[t][c]))
  OBVIOUS
<1>6. LooksAt(k, t, p)
  BY <1>1, <1>2, <1>4, <1>5, MendedIs DEF LooksAt
<1> QED BY <1>3, <1>5, <1>6, Waits

LEMMA MendEndsTells ==
    ASSUME NEW k, NEW t, NEW s, AskedTold(k, t, s), MendEnds(k) PROVE Tells(k, t, s)
<1>1. s = "mend" /\ k = "levels" /\ t = Target(k) /\ Looks /\ Apart /\ AskedAt(k, t, s)
  BY OfLevels DEF MendEnds, AtEdition, At, AskedAt, AskedTold, StepsOf
<1>2. PICK p : p = AllTried(t)
  OBVIOUS
<1>3. LooksAt(k, t, p)
  BY <1>1, <1>2, LooksAside, ApartSame, AllTriedIs DEF LooksAt
<1>4. GoTo(k, "audit", p) \/ Close(k, "too_long", p)
  BY <1>1, <1>2 DEF MendEnds
<1>5. Leads(s, "audit") /\ Known(t, "audit", "open")
  BY <1>1, AskedTells DEF Leads, Known
<1>6. "too_long" \in Closings /\ Known(t, "none", "too_long")
  BY HeldFor, OtherOutcome
<1> QED BY <1>3, <1>4, <1>5, <1>6, GoesOn, IsClosed

LEMMA DropTells ==
    ASSUME NEW k, NEW t, NEW s, AskedTold(k, t, s), Drop(k) PROVE Tells(k, t, s)
<1> DEFINE S == {}
           O == {"not_reached"}
<1>1. /\ s = "mend" /\ k = "levels" /\ t = Target(k) /\ Apart /\ Purge(t) /\ AskedAt(k, t, s)
      /\ k \in Tracks /\ Close(k, "not_reached", [AllTried(t) EXCEPT !.editions = @ \ {t}])
  BY OfLevels, AskedAtFacts DEF Drop, AtEdition, At, AskedAt, AskedTold, StepsOf
<1>2. /\ Reasoned(t, s, "open", row.starts, t \in row.books) /\ t \in Names(Levels)
      /\ <<t, "probe">> \in Jobs /\ Typed
  BY <1>1, AskedTells DEF AskedAt, Asking
<1>3. PICK q : q = AllTried(t)
  OBVIOUS
<1>4. PICK p : p = [q EXCEPT !.editions = @ \ {t}]
  OBVIOUS
<1>5. Data(t, q) /\ Recounted(t, q) /\ q \in Productions
  BY <1>1, <1>3, AllTriedIs
<1>6. /\ p \in Productions
      /\ p.track = q.track /\ p.outcome = q.outcome /\ p.status = q.status /\ p.books = q.books
      /\ p.signOff = q.signOff /\ p.settled = q.settled /\ p.starts = q.starts
  BY <1>4, <1>5 DEF Productions
<1>7. Data(t, p) /\ Recounted(t, p)
  BY <1>5, <1>6 DEF Data, Updated, Fits, Limited, Placed, Recounted
<1>8. Close(k, "not_reached", p)
  BY <1>1, <1>3, <1>4
<1>9. mem'.starts = p.starts /\ mem'.books = p.books
  BY <1>1, <1>6, <1>8, SameData
<1>10. hurt' = hurt /\ torn \subseteq torn' /\ source' = source
  BY <1>1, ApartSame
<1>11. /\ ed'[t].text = "none" /\ job'[<<t, "probe">>] = job[<<t, "probe">>]
       /\ \A j \in Jobs : job'[j] = job[j] \/ (j[1] = t /\ job'[j] \notin Bad)
  BY <1>1, <1>2, PurgeKeeps DEF Purge, Bad
<1>12. Spares(t)
  BY <1>2, <1>7, <1>9, <1>10, <1>11, RecountedIs DEF Spares
<1>13. O \subseteq Closings /\ "started" \notin O /\ \A o \in O : o \notin {"open", "gates", "unread"}
  BY HeldFor
<1>14. Cur(k, t, S, O, p.settled[t])
  BY <1>1, <1>7, <1>8, <1>13, CloseCur
<1>15. PICK rs, rb, st, b : /\ rs = row.starts /\ rb = (t \in row.books)
                            /\ st = mem'.starts /\ b = (t \in mem'.books)
  OBVIOUS
<1>16. ASSUME ~Excused(t) PROVE Begins(t, s, rs, rb)'
  <2>1. Begins(t, s, rs, rb)
    BY <1>2, <1>15, <1>16 DEF Reasoned
  <2> QED BY <1>1, <1>11, <2>1 DEF Begins, Late
<1>17. (\A r \in S : FALSE) /\ \A o \in O : Known(t, "none", o)'
  BY <1>13 DEF Known
<1> HIDE DEF S, O
<1> QED BY <1>12, <1>13, <1>14, <1>15, <1>16, <1>17, LevelTells

LEMMA SettleNothingTells ==
    ASSUME NEW k, NEW t, NEW s, AskedTold(k, t, s), SettleNothing(k) PROVE Tells(k, t, s)
<1>1. s = "settle" /\ k = "levels" /\ t = Target(k) /\ Looks /\ Apart
  BY OfLevels DEF SettleNothing, AtEdition, At, AskedAt, AskedTold, StepsOf
<1>2. PICK p : p = mem
  OBVIOUS
<1>3. LooksAt(k, t, p) /\ GoTo(k, "verdict", p)
  BY <1>1, <1>2, LooksAside, ApartSame, LooksAtItself DEF SettleNothing
<1>4. Leads(s, "verdict") /\ Known(t, "verdict", "open")
  BY <1>1, AskedTells DEF Leads, Known
<1> QED BY <1>3, <1>4, GoesOn

\* What a round of corrections leaves of a production.
LEMMA RoundIs ==
    ASSUME NEW t \in Names(Levels), NEW p, Data(t, p), p.starts = mem.starts, p.books = mem.books,
           p.settled[t] < SettleRounds
    PROVE  /\ Data(t, Round(t, p)) /\ Recounted(t, Round(t, p)) /\ Round(t, p) \in Productions
           /\ Round(t, p).starts[<<t, "audit">>] = 0
<1>1. p \in Productions
  BY DEF Data, Updated, Fits
<1>2. PICK q : q = [p EXCEPT !.settled[t] = @ + 1]
  OBVIOUS
<1>3. q \in Productions /\ q.starts = mem.starts /\ q.books = mem.books
  <2>1. t \in Targets
    BY DEF Targets
  <2>2. [p.settled EXCEPT ![t] = @ + 1] \in [Targets -> Nat]
    BY <1>1, <2>1 DEF Productions
  <2> QED BY <1>1, <1>2, <2>2 DEF Productions
<1>4. Round(t, p) = Counted(t, q)
  BY <1>2 DEF Round
<1> QED BY <1>3, <1>4, CountedIs, RoundData

LEMMA SettleTells ==
    ASSUME NEW k, NEW t, NEW s, AskedTold(k, t, s), Settle(k) PROVE Tells(k, t, s)
<1>1. /\ s = "settle" /\ k = "levels" /\ t = Target(k) /\ Apart /\ AskedAt(k, t, s) /\ k \in Tracks
      /\ t \in Names(Levels) /\ t \in Targets /\ mem.settled[t] < SettleRounds
      /\ GoTo(k, "levels", Round(t, mem))
  BY OfLevels, AskedAtFacts DEF Settle, AtEdition, At, AskedAt, AskedTold, StepsOf
<1>2. Asking(k) /\ Data(t, mem) /\ hurt' = hurt /\ torn \subseteq torn' /\ source' = source
  BY <1>1, AskedData, ApartSame
<1>a. PICK carried \in {FALSE, ed[Target(k)].read} :
         /\ \E left \in Overlapping(ed[Target(k)].fixes) :
                ed' = [ed EXCEPT ![Target(k)] = [Rewritten(@, carried) EXCEPT !.fixes = left]]
         /\ job' = Rejudged(Target(k), carried)
  BY DEF Settle
<1>3. carried \in {FALSE, ed[t].read} /\ job' = Rejudged(t, carried)
  BY <1>1, <1>a
<1>4. PICK left \in Overlapping(ed[t].fixes) :
         ed' = [ed EXCEPT ![t] = [Rewritten(@, carried) EXCEPT !.fixes = left]]
  BY <1>1, <1>a
<1>5. ed'[t].read = carried
  <2>1. ed[t] \in Editions /\ carried \in BOOLEAN /\ t \in DOMAIN ed
    BY <1>1, <1>2, EditionFits
  <2>2. PICK r : r = Rewritten(ed[t], carried)
    OBVIOUS
  <2>3. r \in Editions /\ r.read = carried
    BY <2>1, <2>2, RewrittenFits, RewrittenIs
  <2>4. ed'[t] = [r EXCEPT !.fixes = left]
    BY <1>4, <2>1, <2>2
  <2> QED BY <2>3, <2>4 DEF Editions
<1>6. PICK p : p = Round(t, mem)
  OBVIOUS
<1>7. Data(t, p) /\ Recounted(t, p) /\ p \in Productions /\ p.starts[<<t, "audit">>] = 0
  BY <1>1, <1>2, <1>6, RoundIs
<1>8. GoTo(k, "levels", p)
  BY <1>1, <1>6
<1>9. mem'.starts = p.starts /\ mem'.books = p.books
  BY <1>1, <1>7, <1>8, SameData
<1>10. PICK O : O = {}
  OBVIOUS
<1>11. PICK r : r = "levels"
  OBVIOUS
<1>12. Cur(k, t, {r}, O, p.settled[t])
  BY <1>1, <1>7, <1>8, <1>11, GoToCur
<1>13. O \subseteq Closings \ {"started"} /\ \A o \in O : o \notin {"gates", "unread"}
  BY <1>10
<1>14. s \in {"mend", "settle"}
  BY <1>1
<1> QED BY <1>1, <1>2, <1>3, <1>5, <1>7, <1>9, <1>11, <1>12, <1>13, <1>14, RewriteTells

\* What the tries of the adapter leave of a production.
LEMMA RepairedIs ==
    ASSUME NEW k, NEW t, NEW s, AskedAt(k, t, s), k = "levels", NEW some \in SUBSET Paras,
           NEW p, p = [mem EXCEPT !.repaired[t] = @ \cup some]
    PROVE  /\ Data(t, p) /\ p \in Productions /\ p.settled = mem.settled
           /\ p.starts = mem.starts /\ p.books = mem.books /\ Recounted(t, p)
<1>1. mem \in Productions /\ t \in Names(Levels)
  BY AskedData, AskedAtFacts DEF Data, Updated, Fits
<1>2. Data(t, p) /\ p.settled = mem.settled
  BY RepairedData
<1>3. p.starts = mem.starts /\ p.books = mem.books
  BY <1>1 DEF Productions
<1> QED BY <1>2, <1>3 DEF Data, Updated, Fits, Recounted

LEMMA RepairTells ==
    ASSUME NEW k, NEW t, NEW s, AskedTold(k, t, s), Repair(k) PROVE Tells(k, t, s)
<1>1. /\ s = "settle" /\ k = "levels" /\ t = Target(k) /\ Apart /\ AskedAt(k, t, s) /\ k \in Tracks
      /\ t \in Names(Levels) /\ t \in Targets /\ mem.settled[t] < SettleRounds
  BY OfLevels, AskedAtFacts DEF Repair, AtEdition, At, AskedAt, AskedTold, StepsOf
<1>2. Asking(k) /\ hurt' = hurt /\ torn \subseteq torn' /\ source' = source
  BY <1>1, AskedData, ApartSame
<1>3. PICK p : p = [mem EXCEPT !.repaired[t] = @ \cup ed[t].stuck]
  OBVIOUS
<1>4. /\ Data(t, p) /\ p \in Productions /\ p.settled = mem.settled
      /\ p.starts = mem.starts /\ p.books = mem.books /\ Recounted(t, p)
  <2>1. ed[t].stuck \in SUBSET Paras
    BY <1>1, <1>2, EditionFits DEF Editions
  <2>2. PICK some \in SUBSET Paras : some = ed[t].stuck
    BY <2>1
  <2>3. p = [mem EXCEPT !.repaired[t] = @ \cup some]
    BY <1>3, <2>2
  <2> QED BY <1>1, <2>3, RepairedIs
<1>5. CASE GoTo(k, "verdict", p) /\ UNCHANGED <<ed, job>>
  <2>1. LooksAt(k, t, p)
    BY <1>1, <1>2, <1>4, <1>5 DEF LooksAt
  <2>2. Leads(s, "verdict") /\ Known(t, "verdict", "open")
    BY <1>1, AskedTells DEF Leads, Known
  <2> QED BY <1>5, <2>1, <2>2, GoesOn
<1>6. CASE /\ GoTo(k, "levels", Round(t, p))
           /\ \E carried \in {FALSE, ed[t].read} :
                 ed' = [ed EXCEPT ![t] = Rewritten(@, carried)] /\ job' = Rejudged(t, carried)
  <2>1. PICK carried \in {FALSE, ed[t].read} :
           ed' = [ed EXCEPT ![t] = Rewritten(@, carried)] /\ job' = Rejudged(t, carried)
    BY <1>6
  <2>2. ed'[t].read = carried
    <3>1. ed[t] \in Editions /\ carried \in BOOLEAN /\ t \in DOMAIN ed
      BY <1>1, <1>2, EditionFits
    <3>2. ed'[t] = Rewritten(ed[t], carried)
      BY <2>1, <3>1
    <3> QED BY <3>1, <3>2, RewrittenIs
  <2>3. PICK q : q = Round(t, p)
    OBVIOUS
  <2>4. Data(t, q) /\ Recounted(t, q) /\ q \in Productions /\ q.starts[<<t, "audit">>] = 0
    BY <1>1, <1>4, <2>3, RoundIs
  <2>5. GoTo(k, "levels", q)
    BY <1>6, <2>3
  <2>6. mem'.starts = q.starts /\ mem'.books = q.books
    BY <1>1, <2>4, <2>5, SameData
  <2>7. PICK O : O = {}
    OBVIOUS
  <2>8. PICK r : r = "levels"
    OBVIOUS
  <2>9. Cur(k, t, {r}, O, q.settled[t])
    BY <1>1, <2>4, <2>5, <2>8, GoToCur
  <2>10. O \subseteq Closings \ {"started"} /\ \A o \in O : o \notin {"gates", "unread"}
    BY <2>7
  <2>11. s \in {"mend", "settle"}
    BY <1>1
  <2> QED BY <1>1, <1>2, <2>1, <2>2, <2>4, <2>6, <2>8, <2>9, <2>10, <2>11, RewriteTells
<1> QED BY <1>1, <1>3, <1>5, <1>6 DEF Repair

LEMMA RepairBreaksTells ==
    ASSUME NEW k, NEW t, NEW s, AskedTold(k, t, s), RepairBreaks(k) PROVE Tells(k, t, s)
<1>1. /\ s = "settle" /\ k = "levels" /\ t = Target(k) /\ AskedAt(k, t, s) /\ k \in Tracks
      /\ t \in Names(Levels) /\ t \in Targets /\ breaks' = breaks + 1
      /\ ed' = [ed EXCEPT ![t] = Rewritten(@, FALSE)] /\ job' = Rejudged(t, FALSE)
      /\ hurt' = hurt /\ torn \subseteq torn' /\ source' = source
  BY OfLevels, AskedAtFacts DEF RepairBreaks, AtEdition, At, AskedAt, AskedTold, StepsOf
<1>2. Asking(k) /\ breaks \in Nat
  BY <1>1, AskedData
<1>3. PICK some \in SUBSET Stuck(t) : Raise(k, [mem EXCEPT !.repaired[t] = @ \cup some])
  BY <1>1 DEF RepairBreaks
<1>4. PICK p : p = [mem EXCEPT !.repaired[t] = @ \cup some]
  OBVIOUS
<1>5. Data(t, p) /\ p \in Productions /\ Recounted(t, p)
  <2>1. some \in SUBSET Paras
    BY <1>1, <1>2, EditionFits DEF Editions, Stuck
  <2> QED BY <1>1, <1>4, <2>1, RepairedIs
<1>6. Raise(k, p)
  BY <1>3, <1>4
<1>7. mem'.starts = p.starts /\ mem'.books = p.books
  BY <1>1, <1>5, <1>6, SameData
<1>8. PICK O : O = {"error"}
  OBVIOUS
<1>9. PICK r : r = s
  OBVIOUS
<1>10. Cur(k, t, {r}, O, p.settled[t])
  BY <1>1, <1>5, <1>6, <1>8, <1>9, RaiseCur
<1>11. PICK carried : carried = FALSE
  OBVIOUS
<1>12. ed'[t].read = carried /\ job' = Rejudged(t, carried) /\ carried \in {FALSE, ed[t].read}
  <2>1. ed[t] \in Editions /\ t \in DOMAIN ed
    BY <1>1, <1>2, EditionFits
  <2>2. ed'[t] = Rewritten(ed[t], FALSE)
    BY <1>1, <2>1
  <2> QED BY <1>1, <1>11, <2>1, <2>2, RewrittenIs
<1>13. O \subseteq Closings \ {"started"} /\ \A o \in O : o \notin {"gates", "unread"}
  BY <1>8, HeldFor
<1>14. s \in {"mend", "settle"} /\ r = "settle" /\ s = "settle" /\ t \in torn'
  BY <1>1, <1>2, <1>9 DEF RepairBreaks
<1> QED BY <1>1, <1>5, <1>7, <1>10, <1>12, <1>13, <1>14, RewriteTells

LEMMA VerdictTells ==
    ASSUME NEW k, NEW t, NEW s, AskedTold(k, t, s), Verdict(k) PROVE Tells(k, t, s)
<1>1. /\ s = "verdict" /\ k = "levels" /\ t = Target(k) /\ Apart /\ AskedAt(k, t, s) /\ k \in Tracks
      /\ t \in Targets /\ UNCHANGED <<job, unreached, begun>>
  BY OfLevels, AskedAtFacts DEF Verdict, AtEdition, At, AskedAt, AskedTold, StepsOf
<1>2. /\ Asking(k) /\ Data(t, mem) /\ mem \in Productions /\ job' = job
      /\ hurt' = hurt /\ torn \subseteq torn' /\ source' = source /\ edits' = edits /\ breaks' = breaks
  BY <1>1, AskedData, ApartSame DEF Data, Updated, Fits
<1>3. Known(t, s, "open")
  BY <1>1, AskedTells
<1>4. PICK p : p = mem
  OBVIOUS
<1>5. CASE ~Gates(t) /\ Close(k, IF ed[t].read THEN "gates" ELSE "unread", mem) /\ UNCHANGED ed
  <2>1. PICK o \in {"gates", "unread"} : Close(k, o, p)
    BY <1>4, <1>5
  <2>2. o \in Closings /\ o # "started" /\ Known(t, "none", o)
    BY <1>1, <1>3, HeldFor DEF Known
  <2>3. LooksAt(k, t, p)
    BY <1>1, <1>2, <1>4, <1>5, LooksAtItself
  <2> QED BY <2>1, <2>2, <2>3, IsClosed
<1>6. CASE Gates(t) /\ SignedOff(k, mem)
  <2>1. /\ Cur(k, t, {"promote"}, {"ready"}, mem.settled[t]) \/ Cur(k, t, {}, {"review"}, mem.settled[t])
        /\ ed'[t].audited = ed[t].audited
    BY <1>1, <1>2, <1>6, SignedOffKeeps
  <2>2. Cur(k, t, {"promote"}, {"ready", "review"}, mem.settled[t])
    BY <2>1 DEF Cur
  <2>3. mem'.starts = p.starts /\ mem'.books = p.books
    BY <1>1, <1>2, <1>4, <1>6, SameData DEF SignedOff, Passed
  <2>4. ed'[t].read = ed[t].read /\ ed[t].text # "none"
    <3>1. ed[t] \in Editions /\ t \in DOMAIN ed
      BY <1>1, <1>2, EditionFits
    <3>2. ed' = ed \/ ed' = [ed EXCEPT ![t].text = "ready"]
      BY <1>1, <1>6 DEF SignedOff
    <3> QED BY <1>6, <3>1, <3>2 DEF Editions, Gates, Standing
  <2>5. PICK S, O : S = {"promote"} /\ O = {"ready", "review"}
    OBVIOUS
  <2>6. \A r \in S : Leads(s, r) /\ Known(t, r, "open")
    BY <1>1, <2>5 DEF Leads, Known
  <2>7. O \subseteq Closings /\ "started" \notin O /\ \A o \in O : Known(t, "none", o)
    <3>1. O \subseteq Closings \ {"gates", "unread"} /\ "started" \notin O
      BY <2>5 DEF Closings, Promise!Good, Promise!Holds
    <3> QED BY <3>1, OtherOutcome
  <2>8. Cur(k, t, S, O, mem.settled[t]) /\ Recounted(t, p)
    BY <1>4, <2>2, <2>5, SameRecounted
  <2> QED BY <1>1, <1>2, <2>1, <2>3, <2>4, <2>6, <2>7, <2>8, QuietTells
<1> QED BY <1>1, <1>5, <1>6 DEF Verdict

LEMMA RefusedTells ==
    ASSUME NEW k, NEW t, NEW s, AskedTold(k, t, s), Refused(k) PROVE Tells(k, t, s)
<1>1. /\ Close(k, "refused", mem) /\ Looks /\ Apart /\ AskedAt(k, t, s) /\ k \in Tracks
      /\ mem \in Productions
  BY AskedAtFacts, AskedData DEF Refused, AskedTold, Data, Updated, Fits
<1>2. hurt' = hurt /\ torn \subseteq torn' /\ source' = source /\ ed' = ed /\ job' = job
  BY <1>1, LooksAside, ApartSame
<1>3. PICK p : p = mem
  OBVIOUS
<1>4. CASE k = "levels"
  <2>1. LooksAt(k, t, p) /\ Close(k, "refused", p)
    BY <1>1, <1>2, <1>3, <1>4, LooksAtItself
  <2>2. "refused" \in Closings /\ Known(t, "none", "refused")
    BY HeldFor, OtherOutcome
  <2> QED BY <2>1, <2>2, IsClosed
<1>5. CASE k # "levels"
  <2>1. mem'.starts = p.starts /\ mem'.books = p.books
    BY <1>1, <1>3, SameData
  <2>2. Spares(t)
    BY <1>2, <1>3, <2>1 DEF Spares
  <2> QED BY <1>5, <2>2, SparesTells
<1> QED BY <1>4, <1>5

LEMMA RaisedTells ==
    ASSUME NEW k, NEW t, NEW s, AskedTold(k, t, s), EditionGone(k) \/ Break(k) PROVE Tells(k, t, s)
<1>1. /\ Raise(k, mem) /\ Looks /\ AskedAt(k, t, s) /\ k \in Tracks /\ mem \in Productions
      /\ hurt' = hurt /\ torn \subseteq torn' /\ source' = source /\ ed' = ed /\ job' = job
  BY AskedAtFacts, AskedData
  DEF EditionGone, Break, AskedTold, Data, Updated, Fits, Looks, Apart, happened
<1>2. PICK p : p = mem
  OBVIOUS
<1>3. CASE k = "levels"
  <2>1. LooksAt(k, t, p) /\ Raise(k, p)
    BY <1>1, <1>2, <1>3, LooksAtItself
  <2> QED BY <2>1, Waits
<1>4. CASE k # "levels"
  <2>1. mem'.starts = p.starts /\ mem'.books = p.books
    BY <1>1, <1>2, SameData
  <2>2. Spares(t)
    BY <1>1, <1>2, <2>1 DEF Spares
  <2> QED BY <1>4, <2>2, SparesTells
<1> QED BY <1>3, <1>4

LEMMA PromoteTells ==
    ASSUME NEW k, NEW t, NEW s, AskedTold(k, t, s), Promote(k) PROVE Tells(k, t, s)
<1> DEFINE j == <<t, "promotion">>
<1>1. s = "promote" /\ t = Target(k) /\ Apart /\ ed' = ed /\ t \in Targets /\ AskedAt(k, t, s) /\ k \in Tracks
  BY AskedAtFacts DEF Promote, AtEdition, At, AskedAt, AskedTold
<1>2. /\ Data(t, mem) /\ mem \in Productions /\ job \in [Jobs -> JobStates] /\ j \in Jobs
      /\ hurt' = hurt /\ torn \subseteq torn' /\ source' = source
  BY <1>1, AskedData, ApartSame DEF AskedAt, Asking, Typed, WorldOK, Data, Updated, Fits, Jobs
<1>3. PICK p, q : p = mem /\ q = [mem EXCEPT !.promoted = @ \cup {t}]
  OBVIOUS
<1>4. /\ Data(t, q) /\ q \in Productions /\ q.starts = mem.starts /\ q.books = mem.books
      /\ q.settled = mem.settled
  <2>1. /\ q \in Productions
        /\ q.track = mem.track /\ q.outcome = mem.outcome /\ q.status = mem.status
        /\ q.signOff = mem.signOff /\ q.settled = mem.settled /\ q.starts = mem.starts
        /\ q.books = mem.books
    BY <1>1, <1>2, <1>3 DEF Productions
  <2> QED BY <1>2, <2>1 DEF Data, Updated, Fits, Limited, Placed
<1>5. \/ Close(k, "promotion", p) /\ job' = job
      \/ job' = [job EXCEPT ![j] = "active"] /\ Wait(k, q)
      \/ job' = job /\ Close(k, "ready", p)
      \/ job' = job /\ Wait(k, p)
  BY <1>1, <1>3 DEF Promote
<1>6. \A i \in Jobs : job'[i] = job[i] \/ (i = j /\ job'[i] \notin Bad)
  BY <1>2, <1>5 DEF Bad
<1>7. mem'.starts = mem.starts /\ mem'.books = mem.books
  BY <1>1, <1>2, <1>3, <1>4, <1>5, SameData
<1>8. CASE k = "levels"
  <2>1. PICK S, O : S = {"promote"} /\ O = {"promotion", "ready", "timeout"}
    OBVIOUS
  <2>2. O \subseteq Closings /\ "started" \notin O /\ \A o \in O : Known(t, "none", o)
    <3>1. O \subseteq Closings \ {"gates", "unread"} /\ "started" \notin O
      BY <2>1 DEF Closings, Promise!Good, Promise!Holds
    <3> QED BY <3>1, OtherOutcome
  <2>3. \A r \in S : Leads(s, r) /\ Known(t, r, "open")
    BY <1>1, <2>1, AskedTells, <1>8 DEF Leads
  <2>4. Cur(k, t, S, O, mem.settled[t])
    <3>1. CASE Close(k, "promotion", p) \/ Close(k, "ready", p)
      BY <1>1, <1>2, <1>3, <2>1, <2>2, <3>1, CloseCur
    <3>2. CASE Wait(k, p)
      BY <1>1, <1>2, <1>3, <2>1, <3>2, WaitCur
    <3>3. CASE Wait(k, q)
      <4>1. "promote" \in S /\ "timeout" \in O
        BY <2>1
      <4>2. Cur(k, t, S, O, q.settled[t])
        BY <1>1, <1>4, <3>3, <4>1, WaitCur
      <4> QED BY <1>4, <4>2
    <3> QED BY <1>5, <3>1, <3>2, <3>3
  <2>5. \A kind \in {"probe", "analysis", "audit"} : job'[<<t, kind>>] = job[<<t, kind>>]
    <3>1. {<<t, "probe">>, <<t, "analysis">>, <<t, "audit">>} \subseteq Jobs
      BY <1>8, AskedTells
    <3>2. ASSUME NEW kind \in {"probe", "analysis", "audit"} PROVE <<t, kind>> \in Jobs /\ <<t, kind>> # j
      BY <3>1
    <3> QED BY <1>6, <3>2
  <2>6. Recounted(t, p) /\ mem'.starts = p.starts /\ mem'.books = p.books
    BY <1>3, <1>7, SameRecounted
  <2>7. \A i \in Jobs : job'[i] = job[i] \/ (i[1] = t /\ job'[i] \notin Bad)
    BY <1>6
  <2> QED BY <1>1, <1>2, <1>8, <2>2, <2>3, <2>4, <2>5, <2>6, <2>7, QuietTells
<1>9. CASE k # "levels"
  <2>1. Spares(t)
    BY <1>2, <1>6, <1>7 DEF Spares
  <2> QED BY <1>9, <2>1, SparesTells
<1> QED BY <1>8, <1>9

\* What a start leaves of the other jobs.
LEMMA StartData ==
    ASSUME NEW k \in Tracks, NEW j \in Jobs, NEW limit, NEW p \in Productions, Start(k, j, limit, p),
           job \in [Jobs -> JobStates]
    PROVE  /\ \A i \in Jobs : i # j => mem'.starts[i] = p.starts[i] /\ job'[i] = job[i]
           /\ job'[j] = job[j] \/ job'[j] \notin Bad
           /\ mem'.books = p.books
<1>1. CASE p.starts[j] >= limit
  <2>1. Close(k, "started", p) /\ job' = job
    BY <1>1 DEF Start
  <2> QED BY <2>1, SameData
<1>2. CASE ~(p.starts[j] >= limit)
  <2>1. PICK q : q = [p EXCEPT !.starts[j] = @ + 1]
    OBVIOUS
  <2>2. /\ job' = [job EXCEPT ![j] = IF j \in Unseen THEN "sent" ELSE "active"]
        /\ Wait(k, q)
    BY <1>2, <2>1 DEF Start
  <2>3. q.starts = [p.starts EXCEPT ![j] = @ + 1] /\ q.books = p.books
    BY <2>1 DEF Productions
  <2>4. p.starts \in [Jobs -> Nat]
    BY DEF Productions
  <2>5. q \in Productions
    <3>1. [p.starts EXCEPT ![j] = @ + 1] \in [Jobs -> Nat]
      BY <2>4
    <3> QED BY <2>1, <3>1 DEF Productions
  <2>6. mem'.starts = q.starts /\ mem'.books = q.books
    BY <2>2, <2>5, SameData
  <2>7. \A i \in Jobs : i # j => mem'.starts[i] = p.starts[i]
    BY <2>3, <2>4, <2>6
  <2>8. /\ \A i \in Jobs : i # j => job'[i] = job[i]
        /\ job'[j] \in {"sent", "active"}
    BY <2>2
  <2> QED BY <2>3, <2>6, <2>7, <2>8 DEF Bad
<1> QED BY <1>1, <1>2

\* A step of a language.
LEMMA LanguageTells ==
    ASSUME NEW k, NEW t, NEW s, AskedTold(k, t, s), k # "levels",
           hurt' = hurt, torn \subseteq torn', source' = source,
           \A j \in Jobs : j[1] # t => mem'.starts[j] = mem.starts[j] /\ job'[j] = job[j],
           \A j \in Jobs : job'[j] = job[j] \/ job'[j] \notin Bad,
           mem'.books = mem.books
    PROVE  Tells(k, t, s)
<1>1. Spares(t)
  BY DEF Spares
<1> QED BY <1>1, SparesTells

LEMMA TranslateTells ==
    ASSUME NEW k, NEW t, NEW s, AskedTold(k, t, s), Translate(k) PROVE Tells(k, t, s)
<1> DEFINE j == <<t, "translation">>
<1>1. /\ k = "languages" /\ t = Target(k) /\ Apart /\ AskedAt(k, t, s) /\ k \in Tracks
      /\ t \in Names(Languages) /\ t \in Targets
  BY OfLanguages, AskedAtFacts DEF Translate, At, AskedAt, AskedTold, StepsOf
<1>2. /\ mem \in Productions /\ job \in [Jobs -> JobStates] /\ j \in Jobs
      /\ hurt' = hurt /\ torn \subseteq torn' /\ source' = source
  BY <1>1, AskedData, ApartSame DEF AskedAt, Asking, Typed, WorldOK, Data, Updated, Fits, Jobs
<1>3. PICK p : p = [mem EXCEPT !.editions = @ \cup {t}]
  OBVIOUS
<1>4. p \in Productions /\ p.starts = mem.starts /\ p.books = mem.books
  BY <1>1, <1>2, <1>3 DEF Productions
<1>5. \/ (GoTo(k, "review", p) \/ Wait(k, p)) /\ job' = job
      \/ Start(k, j, Starts, p)
  BY <1>1, <1>3 DEF Translate
<1>6. CASE (GoTo(k, "review", p) \/ Wait(k, p)) /\ job' = job
  <2>1. mem'.starts = p.starts /\ mem'.books = p.books
    BY <1>1, <1>4, <1>6, SameData
  <2> QED BY <1>1, <1>2, <1>4, <1>6, <2>1, LanguageTells
<1>7. CASE Start(k, j, Starts, p)
  <2>1. /\ \A i \in Jobs : i # j => mem'.starts[i] = p.starts[i] /\ job'[i] = job[i]
        /\ job'[j] = job[j] \/ job'[j] \notin Bad
        /\ mem'.books = p.books
    BY <1>1, <1>2, <1>4, <1>7, StartData
  <2> QED BY <1>1, <1>2, <1>4, <2>1, LanguageTells
<1> QED BY <1>5, <1>6, <1>7

LEMMA ReviewTells ==
    ASSUME NEW k, NEW t, NEW s, AskedTold(k, t, s), Review(k) PROVE Tells(k, t, s)
<1> DEFINE j == <<t, "review">>
<1>1. /\ k = "languages" /\ t = Target(k) /\ Apart /\ AskedAt(k, t, s) /\ k \in Tracks
      /\ t \in Names(Languages)
  BY OfLanguages, AskedAtFacts DEF Review, AtEdition, At, AskedAt, AskedTold, StepsOf
<1>2. /\ mem \in Productions /\ job \in [Jobs -> JobStates] /\ j \in Jobs
      /\ hurt' = hurt /\ torn \subseteq torn' /\ source' = source
  BY <1>1, AskedData, ApartSame DEF AskedAt, Asking, Typed, WorldOK, Data, Updated, Fits, Jobs
<1>3. \/ (GoTo(k, "corrections", mem) \/ Wait(k, mem)) /\ job' = job
      \/ Start(k, j, Starts, mem)
  BY <1>1 DEF Review
<1>4. PICK p : p = mem
  OBVIOUS
<1>5. CASE (GoTo(k, "corrections", mem) \/ Wait(k, mem)) /\ job' = job
  <2>1. mem'.starts = p.starts /\ mem'.books = p.books
    BY <1>1, <1>2, <1>4, <1>5, SameData
  <2> QED BY <1>1, <1>2, <1>4, <1>5, <2>1, LanguageTells
<1>6. CASE Start(k, j, Starts, mem)
  <2>1. /\ \A i \in Jobs : i # j => mem'.starts[i] = p.starts[i] /\ job'[i] = job[i]
        /\ job'[j] = job[j] \/ job'[j] \notin Bad
        /\ mem'.books = p.books
    BY <1>1, <1>2, <1>4, <1>6, StartData
  <2> QED BY <1>1, <1>2, <1>4, <2>1, LanguageTells
<1> QED BY <1>3, <1>5, <1>6

LEMMA CorrectionsTell ==
    ASSUME NEW k, NEW t, NEW s, AskedTold(k, t, s), Correct(k) \/ CorrectBreaks(k) \/ Corrections(k)
    PROVE  Tells(k, t, s)
<1>1. s = "corrections" /\ t = Target(k) /\ AskedAt(k, t, s)
  BY DEF Correct, CorrectBreaks, Corrections, AtEdition, At, AskedAt, AskedTold
<1>2. k = "languages" /\ k \in Tracks
  BY <1>1, OfLanguages, AskedAtFacts DEF StepsOf
<1>3. /\ mem \in Productions /\ job' = job
      /\ hurt' = hurt /\ torn \subseteq torn' /\ source' = source
  BY <1>1, AskedData DEF Correct, CorrectBreaks, Corrections, Looks, Apart, happened, Data, Updated, Fits
<1>4. PICK p : p = [mem EXCEPT !.settled[t] = 1]
  OBVIOUS
<1>5. p \in Productions /\ p.starts = mem.starts /\ p.books = mem.books
  <2>1. Data(t, p)
    BY <1>1, <1>2, <1>4, SettledData
  <2> QED BY <1>3, <1>4, <2>1 DEF Data, Updated, Fits, Productions
<1>6. \/ GoTo(k, "corrections", p) \/ Raise(k, p) \/ GoTo(k, "promote", p)
      \/ \E o : Close(k, o, p)
  BY <1>1, <1>4 DEF Correct, CorrectBreaks, Corrections, SignedOff, Passed
<1>7. mem'.starts = p.starts /\ mem'.books = p.books
  BY <1>2, <1>5, <1>6, SameData
<1> QED BY <1>2, <1>3, <1>5, <1>7, LanguageTells

\* Every step of a track, and every step that raises, tells what it does.
LEMMA StepTells ==
    ASSUME NEW k, NEW t, NEW s, AskedTold(k, t, s), Step(k) PROVE Tells(k, t, s)
  BY ReadSourceTells, ProbeClosesTells, ProbeAdoptsTells, ProbeTells, WriteWaitsTells, WriteTells,
     JudgeLevelsTells, MendNothingTells, MendTells, MendEndsTells, DropTells, AuditTells,
     SettleNothingTells, SettleTells, RepairTells, VerdictTells, PromoteTells, TranslateTells,
     ReviewTells, CorrectionsTell, RefusedTells, RaisedTells
  DEF Step

LEMMA FaultTells ==
    ASSUME NEW k, NEW t, NEW s, AskedTold(k, t, s), Fault(k) PROVE Tells(k, t, s) \/ DropDies(k)
  BY MendBreaksTells, RepairBreaksTells, CorrectionsTell, RaisedTells DEF Fault

\* A step of a track leaves all told.
LEMMA TrackTold ==
    ASSUME Told, NEW k \in Tracks, Step(k) \/ Fault(k), ~DropDies(k) PROVE Told'
<1>1. Asking(k) /\ Earned
  BY OnlyTheAsked DEF Asking, Earned, Descending, Told
<1>2. PICK t : t = Target(k)
  OBVIOUS
<1>3. PICK s : s = mem.track[k].step
  OBVIOUS
<1>4. AskedAt(k, t, s)
  BY <1>1, <1>2, <1>3 DEF AskedAt
<1>5. Kept(k, t, s)
  BY <1>4, StepKept, FaultKept
<1>6. AskedTold(k, t, s)
  BY <1>4, <1>5 DEF AskedTold
<1> QED BY <1>6, StepTells, FaultTells, TellsTold

\* What is told of level u stays told.
StillTold(u) ==
    /\ \A r, o, st, b : Reasoned(u, r, o, st, b) => Reasoned(u, r, o, st, b)'
    /\ \A r, o : Known(u, r, o) => Known(u, r, o)'

\* Production q tells of the levels what production p tells.
TellsAs(p, q) == AsFar(p, q) /\ q.starts = p.starts /\ q.books = p.books

\* What is known of the levels as the row stands.
RowKnown ==
    \A x \in 1 .. Len(Levels) :
        Known(Levels[x], StepAt(row, "levels", x), row.outcome[Levels[x]])

\* What is not a step of a track copies the row or the tick's copy of it, or leaves them.
LEMMA CopiesTold ==
    ASSUME Told, Earned', JobsTold', \A u \in Names(Levels) : StillTold(u),
           \A st : SourceTold(st) => SourceTold(st)',
           TellsAs(row, row') \/ TellsAs(mem, row'),
           TellsAs(mem, mem') \/ (TellsAs(row, mem') /\ (AsFar(mem, row) \/ (row' = row /\ RowKnown'))),
           ~tick'.open => AsFar(mem', row')
    PROVE  Told'
<1>1. PICK p, m, q, n : p = row /\ m = mem /\ q = row' /\ n = mem'
  OBVIOUS
<1>2. SourceTold(row.starts)' /\ SourceTold(mem.starts)'
  <2>1. SourceTold(p.starts) /\ SourceTold(m.starts)
    BY <1>1 DEF Told
  <2>2. q.starts \in {p.starts, m.starts} /\ n.starts \in {p.starts, m.starts}
    BY <1>1 DEF TellsAs
  <2>3. SourceTold(q.starts)' /\ SourceTold(n.starts)'
    BY <2>1, <2>2
  <2> QED BY <1>1, <2>3
<1>3. ASSUME NEW x \in 1 .. Len(Levels) PROVE LevelTold(x)'
  <2>1. PICK u : u = Levels[x]
    OBVIOUS
  <2>2. u \in Names(Levels) /\ u \in Targets /\ StillTold(u) /\ "levels" \in Tracks
    <3>1. u \in Names(Levels) /\ "levels" \in Tracks
      BY <1>3, <2>1, LevelList DEF Names, Tracks, Lists
    <3> QED BY <3>1 DEF Targets
  <2>3. /\ Reasoned(u, StepAt(p, "levels", x), p.outcome[u], p.starts, u \in p.books)
        /\ Reasoned(u, StepAt(m, "levels", x), m.outcome[u], m.starts, u \in m.books)
        /\ Known(u, StepAt(m, "levels", x), m.outcome[u])
    BY <1>1, <1>3, <2>1 DEF Told, LevelTold
  <2>4. /\ Reasoned(u, StepAt(p, "levels", x), p.outcome[u], p.starts, u \in p.books)'
        /\ Reasoned(u, StepAt(m, "levels", x), m.outcome[u], m.starts, u \in m.books)'
        /\ Known(u, StepAt(m, "levels", x), m.outcome[u])'
    <3>1. PICK pr, po, ps, pb, mr, mo, ms, mb :
             /\ pr = StepAt(p, "levels", x) /\ po = p.outcome[u] /\ ps = p.starts /\ pb = (u \in p.books)
             /\ mr = StepAt(m, "levels", x) /\ mo = m.outcome[u] /\ ms = m.starts /\ mb = (u \in m.books)
      OBVIOUS
    <3>2. Reasoned(u, pr, po, ps, pb) /\ Reasoned(u, mr, mo, ms, mb) /\ Known(u, mr, mo)
      BY <2>3, <3>1
    <3>3. Reasoned(u, pr, po, ps, pb)' /\ Reasoned(u, mr, mo, ms, mb)' /\ Known(u, mr, mo)'
      BY <2>2, <3>2 DEF StillTold
    <3>4. StepAt(p, "levels", x)' = pr /\ StepAt(m, "levels", x)' = mr
      BY <3>1 DEF StepAt
    <3> QED BY <3>1, <3>3, <3>4
  <2>5. \A a, b : TellsAs(a, b) => /\ StepAt(b, "levels", x) = StepAt(a, "levels", x)
                                   /\ b.outcome[u] = a.outcome[u] /\ b.starts = a.starts
                                   /\ b.books = a.books
    BY <2>2 DEF TellsAs, AsFar, StepAt
  <2>6. Reasoned(u, StepAt(q, "levels", x), q.outcome[u], q.starts, u \in q.books)'
    <3>1. TellsAs(p, q) \/ TellsAs(m, q)
      BY <1>1
    <3> QED BY <2>4, <2>5, <3>1
  <2>7. Reasoned(u, StepAt(n, "levels", x), n.outcome[u], n.starts, u \in n.books)'
    <3>1. TellsAs(p, n) \/ TellsAs(m, n)
      BY <1>1
    <3> QED BY <2>4, <2>5, <3>1
  <2>8. Known(u, StepAt(n, "levels", x), n.outcome[u])'
    <3>1. CASE TellsAs(p, n) /\ q = p /\ RowKnown'
      <4>1. Known(Levels[x], StepAt(row, "levels", x), row.outcome[Levels[x]])'
        BY <1>3, <3>1 DEF RowKnown
      <4>2. Known(u, StepAt(q, "levels", x), q.outcome[u])'
        BY <1>1, <2>1, <4>1 DEF StepAt
      <4> QED BY <2>5, <3>1, <4>2
    <3>2. CASE TellsAs(m, n)
      BY <2>4, <2>5, <3>2
    <3>3. CASE TellsAs(p, n) /\ AsFar(m, p)
      <4>1. StepAt(p, "levels", x) = StepAt(m, "levels", x) /\ p.outcome[u] = m.outcome[u]
        BY <2>2, <3>3 DEF AsFar, StepAt
      <4> QED BY <2>4, <2>5, <3>3, <4>1
    <3> QED BY <1>1, <3>1, <3>2, <3>3
  <2> QED BY <1>1, <2>1, <2>6, <2>7, <2>8 DEF LevelTold, StepAt
<1> QED BY <1>2, <1>3 DEF Told

\* Where the world is as it was.
LEMMA SameWorldStillTold ==
    ASSUME ed' = ed, job' = job, hurt' = hurt, source' = source, torn \subseteq torn'
    PROVE  /\ \A u \in Names(Levels) : StillTold(u)
           /\ \A st : SourceTold(st) => SourceTold(st)'
           /\ JobsTold => JobsTold'
<1>1. \A u \in Names(Levels) : StillTold(u)
  BY OtherTold DEF StillTold
<1>2. \A st : SourceTold(st) => SourceTold(st)'
  BY DEF SourceTold
<1>3. JobsTold => JobsTold'
  BY DEF JobsTold
<1> QED BY <1>1, <1>2, <1>3

LEMMA BeginTold ==
    ASSUME Told, Earned', Begin PROVE Told'
<1>1. PICK q : q = [row EXCEPT !.status = "running", !.rights = TRUE]
  OBVIOUS
<1>2. /\ row' = row /\ mem' = q /\ ed' = ed /\ job' = job /\ edits' = edits /\ breaks' = breaks
      /\ hurt' = hurt /\ source' = source /\ torn \subseteq torn' /\ tick'.open /\ ~tick.open
  BY <1>1 DEF Begin, world, happened
<1>3. TellsAs(row, row) /\ TellsAs(row, q)
  BY <1>1 DEF TellsAs, AsFar, Told, Earned, Descending, Typed, Fits, Productions
<1>4. AsFar(mem, row)
  BY <1>2 DEF Told
<1>5. /\ \A u \in Names(Levels) : StillTold(u)
      /\ \A st : SourceTold(st) => SourceTold(st)'
      /\ JobsTold'
  BY <1>2, SameWorldStillTold DEF Told
<1> QED BY <1>2, <1>3, <1>4, <1>5, CopiesTold

LEMMA SaveTold ==
    ASSUME Told, Earned', Save PROVE Told'
<1>1. PICK status : row' = [mem EXCEPT !.status = status] \/ row' = mem
  BY DEF Save
<1>2. /\ mem' = row' /\ ed' = ed /\ job' = job /\ edits' = edits /\ breaks' = breaks
      /\ hurt' = hurt /\ source' = source /\ torn \subseteq torn'
  BY DEF Save, world, happened
<1>3. TellsAs(mem, row')
  <2>1. mem \in Productions
    BY DEF Told, Earned, Descending, Typed, Fits
  <2>2. /\ row'.outcome = mem.outcome /\ row'.settled = mem.settled /\ row'.signOff = mem.signOff
        /\ row'.track = mem.track /\ row'.starts = mem.starts /\ row'.books = mem.books
    BY <1>1, <2>1 DEF Productions
  <2> QED BY <2>2 DEF TellsAs, AsFar
<1>4. TellsAs(mem, mem') /\ AsFar(mem', row')
  BY <1>2, <1>3 DEF AsFar
<1>5. /\ \A u \in Names(Levels) : StillTold(u)
      /\ \A st : SourceTold(st) => SourceTold(st)'
      /\ JobsTold'
  BY <1>2, SameWorldStillTold DEF Told
<1> QED BY <1>3, <1>4, <1>5, CopiesTold

\* What the row tells of a level whose text it has not lost sight of when the worker dies.
LEMMA RowIsKnown ==
    ASSUME Told, NEW x \in 1 .. Len(Levels), Levels[x] \notin torn \cup LosesSight
    PROVE  Known(Levels[x], StepAt(row, "levels", x), row.outcome[Levels[x]])
<1>1. PICK u, i, s : u = Levels[x] /\ i = row.track["levels"].index /\ s = row.track["levels"].step
  OBVIOUS
<1>2. u \in Names(Levels) /\ u \in Targets /\ "levels" \in Tracks /\ Lists["levels"] = Levels
      /\ DOMAIN Levels = 1 .. Len(Levels)
  <2>1. u \in Names(Levels) /\ "levels" \in Tracks
    BY <1>1, LevelList DEF Names, Tracks, Lists
  <2> QED BY <2>1, LevelList DEF Targets, Lists
<1>3. Known(u, StepAt(mem, "levels", x), mem.outcome[u]) /\ u \notin torn
  BY <1>1 DEF Told, LevelTold
<1>4. row.outcome[u] # "open" => mem.outcome[u] = row.outcome[u]
  BY <1>2 DEF Told, Earned, Descending, Ahead
<1>5. CASE row.outcome[u] # "open"
  BY <1>1, <1>3, <1>4, <1>5 DEF Known, Calm
<1>6. CASE row.outcome[u] = "open" /\ x # i
  BY <1>1, <1>6 DEF Known, StepAt
<1>7. CASE row.outcome[u] = "open" /\ x = i /\ mem.track["levels"] = row.track["levels"]
  <2>1. mem.outcome[u] = "open"
    <3>1. Decided(mem) /\ mem.track["levels"].index = x
      BY <1>1, <1>7 DEF Told, Earned, Descending, Rests
    <3>2. mem.outcome[Lists["levels"][x]] = "open" <=> x >= x
      BY <1>2, <3>1 DEF Decided
    <3> QED BY <1>1, <1>2, <3>2
  <2>2. StepAt(mem, "levels", x) = s /\ StepAt(row, "levels", x) = s
    BY <1>1, <1>7 DEF StepAt
  <2> QED BY <1>1, <1>3, <1>7, <2>1, <2>2
<1>8. CASE row.outcome[u] = "open" /\ x = i /\ mem.track["levels"] # row.track["levels"]
  <2>1. ed[u].read /\ ed[u].audited
    BY <1>1, <1>2, <1>8 DEF LosesSight
  <2> QED BY <1>1, <1>8, <2>1 DEF Known
<1> QED BY <1>5, <1>6, <1>7, <1>8

LEMMA CrashTold ==
    ASSUME Told, Earned', Crash PROVE Told'
<1>1. /\ mem' = row /\ row' = row /\ ed' = ed /\ job' = job
      /\ hurt' = hurt /\ source' = source /\ torn' = torn \cup LosesSight
  BY DEF Crash, world
<1>2. TellsAs(row, row') /\ TellsAs(row, mem') /\ AsFar(mem', row')
  BY <1>1 DEF TellsAs, AsFar
<1>3. /\ \A u \in Names(Levels) : StillTold(u)
      /\ \A st : SourceTold(st) => SourceTold(st)'
      /\ JobsTold'
  BY <1>1, SameWorldStillTold DEF Told
<1>4. RowKnown'
  <2>1. ASSUME NEW x \in 1 .. Len(Levels)
        PROVE  Known(Levels[x], StepAt(row, "levels", x), row.outcome[Levels[x]])'
    <3>1. CASE Levels[x] \in torn'
      BY <3>1 DEF Known, Calm
    <3>2. CASE Levels[x] \notin torn'
      <4>1. PICK p : p = row
        OBVIOUS
      <4>2. PICK u, r, o : u = Levels[x] /\ r = StepAt(p, "levels", x) /\ o = p.outcome[u]
        OBVIOUS
      <4>3. Known(u, r, o)
        BY <1>1, <3>2, <4>1, <4>2, RowIsKnown
      <4>4. Known(u, r, o)'
        BY <1>1, <4>3 DEF Known, Calm
      <4>5. StepAt(row, "levels", x)' = r /\ row'.outcome[Levels[x]] = o
        BY <1>1, <4>1, <4>2 DEF StepAt
      <4> QED BY <4>2, <4>4, <4>5
    <3> QED BY <3>1, <3>2
  <2> QED BY <2>1 DEF RowKnown
<1> QED BY <1>1, <1>2, <1>3, <1>4, CopiesTold

LEMMA OldTellsAs ==
    ASSUME NEW p \in Productions, NEW k \in Tracks
    PROVE  TellsAs(p, [p EXCEPT !.track[k].old = TRUE])
<1>1. PICK q : q = [p EXCEPT !.track[k].old = TRUE]
  OBVIOUS
<1>2. q.starts = p.starts /\ q.books = p.books
  BY <1>1 DEF Productions
<1> QED BY <1>1, <1>2, OldIsAsFar DEF TellsAs

LEMMA TimePassesTold ==
    ASSUME Told, Earned', NEW k \in Tracks, TimePasses(k) PROVE Told'
<1>1. TellsAs(row, row') /\ TellsAs(mem, mem')
  <2>1. row \in Productions /\ mem \in Productions
    BY DEF Told, Earned, Descending, Typed, Fits
  <2>2. TellsAs(mem, mem)
    BY DEF TellsAs, AsFar
  <2>3. mem' = [mem EXCEPT !.track[k].old = TRUE] \/ mem' = mem
    BY DEF TimePasses
  <2> QED BY <2>1, <2>2, <2>3, OldTellsAs DEF TimePasses
<1>2. /\ ed' = ed /\ job' = job /\ edits' = edits /\ breaks' = breaks /\ tick' = tick
      /\ hurt' = hurt /\ source' = source /\ torn \subseteq torn'
  BY DEF TimePasses, world, happened
<1>3. ~tick'.open => AsFar(mem', row')
  <2>1. ~tick.open => AsFar(mem, row)
    BY DEF Told
  <2> QED BY <1>1, <1>2, <2>1 DEF TellsAs, AsFar
<1>4. /\ \A u \in Names(Levels) : StillTold(u)
      /\ \A st : SourceTold(st) => SourceTold(st)'
      /\ JobsTold'
  BY <1>2, SameWorldStillTold DEF Told
<1> QED BY <1>1, <1>3, <1>4, CopiesTold

LEMMA ProtectedTold ==
    ASSUME Told, Earned', Protected PROVE Told'
<1>1. /\ \A t \in Targets : row'.outcome[t] \in {"rights", "not_attempted"} /\ mem' = row'
  BY ProtectedDescends DEF Told, Earned
<1>2. /\ mem' = row' /\ ed' = ed /\ job' = job /\ edits' = edits /\ breaks' = breaks
      /\ hurt' = hurt /\ source' = source /\ torn \subseteq torn'
  BY DEF Protected, world, happened
<1>3. row'.starts = row.starts
  <2>1. row \in Productions
    BY DEF Told, Earned, Descending, Typed, Fits
  <2>2. PICK out, track : row' = [row EXCEPT !.status = "failed", !.outcome = out, !.track = track]
    <3>1. PICK out : out = [t \in Targets |-> IF t = (Levels \o Languages)[1] THEN "rights"
                                             ELSE "not_attempted"]
      OBVIOUS
    <3>2. row' = [row EXCEPT !.status = "failed", !.outcome = out,
                             !.track = [k \in Tracks |-> [@[k] EXCEPT !.index = Len(Lists[k]) + 1]]]
      BY <3>1 DEF Protected
    <3>3. PICK track : track = [k \in Tracks |-> [row.track[k] EXCEPT !.index = Len(Lists[k]) + 1]]
      OBVIOUS
    <3>4. row' = [row EXCEPT !.status = "failed", !.outcome = out, !.track = track]
      BY <2>1, <3>2, <3>3 DEF Productions
    <3> QED BY Zenon, <3>4
  <2> QED BY <2>1, <2>2 DEF Productions
<1>4. JobsTold'
  BY <1>2, SameWorldStillTold DEF Told
<1>5. SourceTold(row.starts)' /\ SourceTold(mem.starts)'
  BY <1>2, <1>3 DEF SourceTold, Told
<1>6. ASSUME NEW x \in 1 .. Len(Levels) PROVE LevelTold(x)'
  <2>1. Levels[x] \in Targets
    BY <1>6, LevelList DEF Names, Targets
  <2>2. PICK o : o = row'.outcome[Levels[x]]
    OBVIOUS
  <2>3. o \in {"rights", "not_attempted"} /\ mem'.outcome[Levels[x]] = o
    BY <1>1, <1>2, <2>1, <2>2
  <2>4. \A u, r, st, b : Reasoned(u, r, o, st, b)' /\ Known(u, r, o)'
    BY <2>3 DEF Reasoned, Known
  <2> QED BY <2>2, <2>3, <2>4 DEF LevelTold
<1>7. AsFar(mem', row')
  BY <1>2 DEF AsFar
<1> QED BY <1>4, <1>5, <1>6, <1>7 DEF Told

\* What happens elsewhere leaves the production as it is.
LEMMA ElsewhereTold ==
    ASSUME Told, Earned', Elsewhere, JobsTold', \A u \in Names(Levels) : StillTold(u),
           \A st : SourceTold(st) => SourceTold(st)'
    PROVE  Told'
<1>1. TellsAs(row, row') /\ TellsAs(mem, mem') /\ (~tick'.open => AsFar(mem', row'))
  BY DEF Elsewhere, TellsAs, AsFar, Told
<1> QED BY <1>1, CopiesTold

\* A level whose job failed or went silent, or the source's did, or whose text a person edited.
LEMMA ExcusedStillTold ==
    ASSUME NEW u \in Names(Levels), Excused(u)', u \in torn' \/ ed'[u] = ed[u], torn \subseteq torn'
    PROVE  StillTold(u)
<1>1. \A r, o, st, b : Reasoned(u, r, o, st, b)'
  BY DEF Reasoned
<1>2. \A r, o : Known(u, r, o) => Known(u, r, o)'
  BY DEF Known, Calm
<1> QED BY <1>1, <1>2 DEF StillTold

\* A level whose jobs go on, and of whose text no more is unknown than was.
LEMMA MovesStillTold ==
    ASSUME NEW u \in Names(Levels), hurt' = hurt,
           torn \subseteq torn',
           ed[u].read => ed'[u].read, ed[u].audited => ed'[u].audited,
           job[<<u, "probe">>] \in {"active", "done", "declined"}
              => job'[<<u, "probe">>] \in {"active", "done", "declined"},
           job[<<u, "analysis">>] = "active" => ed'[u].read \/ job'[<<u, "analysis">>] = "active",
           ed[u].text = "none" => ed'[u].text = "none" \/ job'[<<u, "analysis">>] = "active",
           job[<<u, "audit">>] = "active" => ed'[u].audited \/ job'[<<u, "audit">>] = "active"
    PROVE  StillTold(u)
<1>1. ASSUME NEW r, NEW st, NEW b, Begins(u, r, st, b) PROVE Begins(u, r, st, b)'
  BY <1>1 DEF Begins
<1>2. Excused(u) => Excused(u)'
  BY DEF Excused
<1>3. ASSUME NEW r, NEW o, NEW st, NEW b, Reasoned(u, r, o, st, b) PROVE Reasoned(u, r, o, st, b)'
  BY <1>1, <1>2, <1>3 DEF Reasoned
<1>4. \A r, o : Known(u, r, o) => Known(u, r, o)'
  BY DEF Known, Calm
<1> QED BY <1>3, <1>4 DEF StillTold

LEMMA DoneStillTold ==
    ASSUME Told, NEW j \in Jobs, Done(j), NEW u \in Names(Levels) PROVE StillTold(u)
<1>1. /\ job \in [Jobs -> JobStates] /\ ed \in [Names(Rungs) \cup Targets -> Editions]
      /\ u \in Targets /\ u \in Names(Rungs) /\ u # Source /\ u \notin Names(Languages)
      /\ {<<u, "probe">>, <<u, "book">>, <<u, "analysis">>, <<u, "audit">>} \subseteq Jobs
  <2>1. u \in Targets
    BY DEF Targets
  <2> QED BY <2>1, JobsLookedAt, TwoKindsOfTargets
      DEF Told, Earned, Descending, Typed, WorldOK
<1>2. PICK t : t = j[1]
  OBVIOUS
<1>3. /\ hurt' = hurt /\ edits' = edits /\ breaks' = breaks /\ torn \subseteq torn' /\ job[j] = "active"
  <2>1. UNCHANGED happened /\ job[j] = "active"
    BY ZenonT(40) DEF Done
  <2> QED BY <2>1 DEF happened
<1>4. CASE UNCHANGED ed /\ j[2] \in {"probe", "promotion"} /\ \E v \in {"done", "declined"} : job' = [job EXCEPT ![j] = v]
  <2>1. PICK v \in {"done", "declined"} : job' = [job EXCEPT ![j] = v]
    BY <1>4
  <2>2. /\ job'[<<u, "analysis">>] = job[<<u, "analysis">>] /\ job'[<<u, "audit">>] = job[<<u, "audit">>]
        /\ job'[<<u, "probe">>] \in {job[<<u, "probe">>], "done", "declined"}
    BY <1>1, <1>4, <2>1
  <2> QED BY <1>3, <1>4, <2>2, MovesStillTold
<1>5. CASE /\ j = <<Source, "analysis">> /\ UNCHANGED ed /\ job' = [job EXCEPT ![j] = "done"]
  <2>1. \A kind \in {"probe", "analysis", "audit"} : job'[<<u, kind>>] = job[<<u, kind>>]
    BY <1>1, <1>5
  <2> QED BY <1>3, <1>5, <2>1, MovesStillTold
<1>6. CASE /\ j[2] = "book" /\ ed' = [ed EXCEPT ![t].text = "review"]
           /\ job' = [job EXCEPT ![j] = "done", ![<<t, "analysis">>] = "active"]
  <2>1. /\ job'[<<u, "probe">>] = job[<<u, "probe">>] /\ job'[<<u, "audit">>] = job[<<u, "audit">>]
        /\ job'[<<u, "analysis">>] = IF t = u THEN "active" ELSE job[<<u, "analysis">>]
    BY <1>1, <1>6
  <2>2. /\ ed'[u].read = ed[u].read /\ ed'[u].audited = ed[u].audited
        /\ t # u => ed'[u].text = ed[u].text
    BY <1>1, <1>6 DEF Editions
  <2> QED BY <1>3, <2>1, <2>2, MovesStillTold
<1>7. CASE /\ j[2] = "analysis" /\ t # Source
           /\ \E above \in SUBSET Chapters, over \in BOOLEAN :
                 ed' = [ed EXCEPT ![t].read = TRUE, ![t].above = above, ![t].over = over]
           /\ job' = [job EXCEPT ![j] = "done"]
  <2>1. PICK above \in SUBSET Chapters, over \in BOOLEAN :
           ed' = [ed EXCEPT ![t].read = TRUE, ![t].above = above, ![t].over = over]
    BY ZenonT(20), <1>7
  <2>2. j = <<t, "analysis">>
    BY <1>2, <1>7 DEF Jobs
  <2>3. /\ job'[<<u, "probe">>] = job[<<u, "probe">>] /\ job'[<<u, "audit">>] = job[<<u, "audit">>]
        /\ t # u => job'[<<u, "analysis">>] = job[<<u, "analysis">>]
    BY <1>1, <1>7, <2>2
  <2>4. /\ ed'[u].read = (t = u \/ ed[u].read) /\ ed'[u].audited = ed[u].audited
        /\ ed'[u].text = ed[u].text
    <3>1. CASE t = u
      <4>1. /\ ed'[u] = [ed[u] EXCEPT !.read = TRUE, !.above = above, !.over = over]
            /\ ed[u] \in Editions
        BY <1>1, <2>1, <3>1
      <4> QED BY <3>1, <4>1 DEF Editions
    <3>2. CASE t # u
      <4>1. ed'[u] = ed[u]
        BY <1>1, <2>1, <3>2
      <4>2. ed[u] \in Editions
        BY <1>1
      <4> QED BY <3>2, <4>1, <4>2 DEF Editions
    <3> QED BY <3>1, <3>2
  <2> QED BY <1>3, <2>3, <2>4, MovesStillTold
<1>8. CASE /\ j[2] = "translation" /\ ed' = [ed EXCEPT ![t].text = "review"]
           /\ job' = [job EXCEPT ![j] = "done"]
  <2>1. t \in Names(Languages)
    BY <1>2, <1>8 DEF Jobs
  <2>2. \A kind \in {"probe", "analysis", "audit"} : job'[<<u, kind>>] = job[<<u, kind>>]
    BY <1>1, <1>8
  <2>3. ed'[u] = ed[u]
    BY <1>1, <1>8, <2>1
  <2> QED BY <1>3, <2>2, <2>3, MovesStillTold
<1>9. CASE /\ j[2] \in {"audit", "review"}
           /\ \E fixes \in SUBSET Severities, stuck \in SUBSET Paras, alone \in BOOLEAN :
                 ed' = [ed EXCEPT ![t] = Findings(@, fixes, stuck, alone)]
           /\ job' = [job EXCEPT ![j] = "done"]
  <2>1. PICK fixes \in SUBSET Severities, stuck \in SUBSET Paras, alone \in BOOLEAN :
           ed' = [ed EXCEPT ![t] = Findings(@, fixes, stuck, alone)]
    BY <1>9
  <2>2. /\ job'[<<u, "probe">>] = job[<<u, "probe">>]
        /\ job'[<<u, "analysis">>] = job[<<u, "analysis">>]
        /\ t # u => job'[<<u, "audit">>] = job[<<u, "audit">>]
    <3>1. j[2] \notin {"probe", "analysis"} /\ (t # u => j # <<u, "audit">>)
      BY <1>2, <1>9
    <3> QED BY <1>1, <1>9, <3>1
  <2>3. /\ ed'[u].read = ed[u].read /\ ed'[u].audited = (t = u \/ ed[u].audited)
        /\ ed'[u].text = ed[u].text
    <3>1. CASE t = u
      <4>1. ed'[u] = Findings(ed[u], fixes, stuck, alone) /\ ed[u] \in Editions
        BY <1>1, <2>1, <3>1
      <4> QED BY <3>1, <4>1 DEF Findings, Editions
    <3>2. CASE t # u
      <4>1. ed'[u] = ed[u]
        BY <1>1, <2>1, <3>2
      <4>2. ed[u] \in Editions
        BY <1>1
      <4> QED BY <3>2, <4>1, <4>2 DEF Editions
    <3> QED BY <3>1, <3>2
  <2> QED BY <1>3, <2>2, <2>3, MovesStillTold
<1> QED BY ZenonT(40), <1>2, <1>4, <1>5, <1>6, <1>7, <1>8, <1>9 DEF Done

\* A job that moves on to a state the production may look at, or whose target is told of it.
LEMMA MovedJobsTold ==
    ASSUME JobsTold, hurt \subseteq hurt',
           \A i \in Jobs : job'[i] = job[i] \/ job'[i] \notin Bad \/ i[1] \in hurt'
    PROVE  JobsTold'
  BY DEF JobsTold

\* One job of level u moves on, and nothing else of it.
LEMMA OneJobTold ==
    ASSUME NEW u \in Names(Levels), NEW j \in Jobs, NEW v, job' = [job EXCEPT ![j] = v],
           job \in [Jobs -> JobStates], ed' = ed,
           hurt \subseteq hurt', torn \subseteq torn',
           j[1] \in {u, Source} => {u, Source} \cap hurt' # {}
    PROVE  StillTold(u)
<1>1. CASE j[1] \in {u, Source}
  BY <1>1, ExcusedStillTold DEF Excused
<1>2. CASE j[1] \notin {u, Source}
  <2>1. \A kind : <<u, kind>> \in Jobs => job'[<<u, kind>>] = job[<<u, kind>>]
    BY <1>2
  <2> QED BY <2>1, OtherTold DEF StillTold
<1> QED BY <1>1, <1>2

SourceIs == source \in [read : BOOLEAN, rungs : SUBSET STRING]

LEMMA InitSource == Init => SourceIs
<1> SUFFICES ASSUME Init PROVE SourceIs
  OBVIOUS
<1>1. PICK i \in 1 .. Len(Rungs) + 1 : source.rungs = Names(SubSeq(Rungs, i, Len(Rungs)))
  BY DEF Init
<1>2. Names(SubSeq(Rungs, i, Len(Rungs))) \subseteq STRING
  BY ProductionAssumption DEF Names
<1>3. source \in [read : BOOLEAN,
                  rungs : {Names(SubSeq(Rungs, x, Len(Rungs))) : x \in 1 .. Len(Rungs) + 1}]
  BY DEF Init
<1> QED BY <1>1, <1>2, <1>3 DEF SourceIs

LEMMA NextSource ==
    ASSUME Told, SourceIs, [Next]_vars PROVE SourceIs'
<1>1. CASE source' = source
  BY <1>1 DEF SourceIs
<1>2. CASE source' = [source EXCEPT !.read = TRUE]
  BY <1>2 DEF SourceIs
<1>3. CASE Protected \/ Begin \/ Save \/ Crash \/ UNCHANGED vars
  BY <1>1, <1>3 DEF Protected, Begin, Save, Crash, world, vars
<1>4. ASSUME NEW k \in Tracks, Step(k) \/ Fault(k) PROVE SourceIs'
  <2>1. Asking(k)
    BY <1>4, OnlyTheAsked DEF Asking, Earned, Descending, Told
  <2>2. source' = source
    BY <1>4, <2>1, StepDoes, FaultDoes DEF Does, DropDies
  <2> QED BY <1>1, <2>2
<1>5. ASSUME NEW k \in Tracks, TimePasses(k) PROVE SourceIs'
  BY <1>1, <1>5 DEF TimePasses, world
<1>6. ASSUME NEW j \in Jobs, Outside(j) PROVE SourceIs'
  <2>1. ~Done(j) => source' = source
    BY <1>6 DEF Outside, Taken, Fails, GoesSilent, Abandoned, EndsStale
  <2>2. Done(j) => source' = source \/ source' = [source EXCEPT !.read = TRUE]
    BY ZenonT(40) DEF Done
  <2> QED BY <1>1, <1>2, <2>1, <2>2
<1>7. ASSUME NEW t \in Targets, HumanEdit(t) PROVE SourceIs'
  BY <1>1, <1>7 DEF HumanEdit
<1> QED BY <1>3, <1>4, <1>5, <1>6, <1>7 DEF Next

\* What a job that is done leaves of the jobs and of the source.
LEMMA DoneMoves ==
    ASSUME NEW j \in Jobs, Done(j), job \in [Jobs -> JobStates], SourceIs
    PROVE  /\ hurt' = hurt /\ job[j] = "active"
           /\ \A i \in Jobs : job'[i] = job[i] \/ job'[i] \in {"done", "declined", "active"}
           /\ \/ source' = source /\ job'[<<Source, "analysis">>] = job[<<Source, "analysis">>]
              \/ source'.read
<1>1. UNCHANGED happened /\ job[j] = "active"
  BY ZenonT(40) DEF Done
<1>2. hurt' = hurt /\ <<Source, "analysis">> \in Jobs
  BY <1>1 DEF happened, Jobs
<1>3. \/ /\ j = <<Source, "analysis">> /\ source' = [source EXCEPT !.read = TRUE]
         /\ job' = [job EXCEPT ![j] = "done"]
      \/ /\ j[2] = "probe" /\ source' = source
         /\ \E verdict \in {"done", "declined"} : job' = [job EXCEPT ![j] = verdict]
      \/ /\ j[2] = "book" /\ source' = source
         /\ job' = [job EXCEPT ![j] = "done", ![<<j[1], "analysis">>] = "active"]
      \/ /\ j[2] = "analysis" /\ j[1] # Source /\ source' = source
         /\ job' = [job EXCEPT ![j] = "done"]
      \/ /\ (j[2] = "translation" \/ j[2] \in {"audit", "review"} \/ j[2] = "promotion")
         /\ source' = source /\ job' = [job EXCEPT ![j] = "done"]
  BY ZenonT(40) DEF Done
<1>4. \A i \in Jobs : job'[i] = job[i] \/ job'[i] \in {"done", "declined", "active"}
  BY <1>3
<1>5. j[2] = "book" => j[1] # Source
  BY ProductionAssumption DEF Jobs
<1>6. CASE j = <<Source, "analysis">>
  <2>1. source' = [source EXCEPT !.read = TRUE]
    BY <1>3, <1>6
  <2>2. source'.read
    BY <2>1 DEF SourceIs
  <2> QED BY <1>1, <1>2, <1>4, <2>2
<1>7. CASE j # <<Source, "analysis">>
  <2>1. source' = source /\ job'[<<Source, "analysis">>] = job[<<Source, "analysis">>]
    BY <1>2, <1>3, <1>5, <1>7
  <2> QED BY <1>1, <1>2, <1>4, <2>1
<1> QED BY <1>6, <1>7

LEMMA OutsideTold ==
    ASSUME Told, Earned', SourceIs, NEW j \in Jobs, Outside(j) PROVE Told'
<1>1. Elsewhere /\ job \in [Jobs -> JobStates] /\ JobsTold
  BY OutsideLosesNothing DEF Told, Earned, Descending, Typed, WorldOK
<1>2. /\ \A u \in Names(Levels) : <<u, "probe">> \in Jobs /\ <<u, "analysis">> \in Jobs /\ <<u, "audit">> \in Jobs
      /\ \A u \in Names(Levels) : u \in Targets
  BY JobsLookedAt DEF Targets
<1>3. CASE Taken(j)
  <2>1. /\ job[j] = "sent" /\ job' = [job EXCEPT ![j] = "active"] /\ ed' = ed /\ source' = source
        /\ hurt' = hurt /\ edits' = edits /\ breaks' = breaks /\ torn \subseteq torn'
    BY <1>3 DEF Taken, happened
  <2>2. \A i \in Jobs : job'[i] = job[i] \/ (job[i] = "sent" /\ job'[i] = "active")
    BY <1>1, <2>1
  <2>3. JobsTold'
    BY <1>1, <2>1, <2>2, MovedJobsTold DEF Bad
  <2>4. ASSUME NEW u \in Names(Levels) PROVE StillTold(u)
    BY <1>2, <2>1, <2>2, <2>4, MovesStillTold
  <2>5. ASSUME NEW st, SourceTold(st) PROVE SourceTold(st)'
    <3>1. <<Source, "analysis">> \in Jobs
      BY DEF Jobs
    <3> QED BY <2>1, <2>2, <2>5, <3>1 DEF SourceTold
  <2> QED BY <1>1, <2>3, <2>4, <2>5, ElsewhereTold
<1>4. CASE Done(j)
  <2>1. \A u \in Names(Levels) : StillTold(u)
    BY <1>4, DoneStillTold
  <2>2. /\ hurt' = hurt /\ job[j] = "active"
        /\ \A i \in Jobs : job'[i] = job[i] \/ job'[i] \in {"done", "declined", "active"}
        /\ \/ source' = source /\ job'[<<Source, "analysis">>] = job[<<Source, "analysis">>]
           \/ source'.read
    BY <1>1, <1>4, DoneMoves
  <2>3. JobsTold'
    BY <1>1, <2>2, MovedJobsTold DEF Bad
  <2>4. ASSUME NEW st, SourceTold(st) PROVE SourceTold(st)'
    BY <2>2, <2>4 DEF SourceTold
  <2> QED BY <1>1, <2>1, <2>3, <2>4, ElsewhereTold
<1>5. CASE Fails(j) \/ GoesSilent(j)
  <2>1. PICK how \in {"failed", "refused", "stalled"} : job' = [job EXCEPT ![j] = how]
    BY <1>5 DEF Fails, GoesSilent
  <2>2. /\ ed' = ed /\ source' = source /\ hurt' = hurt \cup {j[1]}
        /\ edits' = edits /\ breaks' = breaks /\ torn \subseteq torn'
    BY <1>5 DEF Fails, GoesSilent
  <2>3. JobsTold'
    <3>1. \A i \in Jobs : job'[i] = job[i] \/ i = j
      BY <1>1, <2>1
    <3> QED BY <1>1, <2>2, <3>1, MovedJobsTold
  <2>4. ASSUME NEW u \in Names(Levels) PROVE StillTold(u)
    BY <1>1, <2>1, <2>2, <2>4, OneJobTold
  <2>5. ASSUME NEW st, SourceTold(st) PROVE SourceTold(st)'
    <3>1. <<Source, "analysis">> \in Jobs
      BY DEF Jobs
    <3>2. CASE j = <<Source, "analysis">>
      BY <2>2, <3>2 DEF SourceTold
    <3>3. CASE j # <<Source, "analysis">>
      BY <1>1, <2>1, <2>2, <2>5, <3>1, <3>3 DEF SourceTold
    <3> QED BY <3>2, <3>3
  <2> QED BY <1>1, <2>3, <2>4, <2>5, ElsewhereTold
<1>6. CASE Abandoned(j) \/ EndsStale(j)
  <2>1. PICK v \in {"failed", "none"} : job' = [job EXCEPT ![j] = v]
    BY <1>6 DEF Abandoned, EndsStale
  <2>2. /\ ed' = ed /\ source' = source /\ hurt' = hurt /\ job[j] \in {"stalled", "void"}
        /\ edits' = edits /\ breaks' = breaks /\ torn \subseteq torn'
    BY <1>6 DEF Abandoned, EndsStale, happened
  <2>3. j[1] \in hurt
    BY <1>1, <2>2 DEF JobsTold, Bad
  <2>4. JobsTold'
    <3>1. \A i \in Jobs : job'[i] = job[i] \/ i = j
      BY <1>1, <2>1
    <3> QED BY <1>1, <2>2, <2>3, <3>1, MovedJobsTold
  <2>5. ASSUME NEW u \in Names(Levels) PROVE StillTold(u)
    BY <1>1, <2>1, <2>2, <2>3, <2>5, OneJobTold
  <2>6. ASSUME NEW st, SourceTold(st) PROVE SourceTold(st)'
    <3>1. <<Source, "analysis">> \in Jobs
      BY DEF Jobs
    <3>2. CASE j = <<Source, "analysis">>
      BY <2>2, <2>3, <3>2 DEF SourceTold
    <3>3. CASE j # <<Source, "analysis">>
      BY <1>1, <2>1, <2>2, <2>6, <3>1, <3>3 DEF SourceTold
    <3> QED BY <3>2, <3>3
  <2> QED BY <1>1, <2>4, <2>5, <2>6, ElsewhereTold
<1> QED BY <1>3, <1>4, <1>5, <1>6 DEF Outside

LEMMA HumanEditTold ==
    ASSUME Told, Earned', NEW t \in Targets, HumanEdit(t) PROVE Told'
<1>1. /\ Elsewhere /\ job \in [Jobs -> JobStates] /\ JobsTold /\ edits \in Nat
      /\ ed \in [Names(Rungs) \cup Targets -> Editions] /\ t # Source /\ <<Source, "analysis">> \in Jobs
  <2>1. t # Source /\ <<Source, "analysis">> \in Jobs
    BY JobsLookedAt DEF Jobs
  <2> QED BY <2>1, ProductionAssumption
      DEF HumanEdit, Told, Earned, Descending, Typed, WorldOK, HappenedOK
<1>2. hurt' = hurt \cup {t} /\ source' = source /\ torn' = torn \cup {t}
  BY DEF HumanEdit
<1>3. /\ \A u \in (Names(Rungs) \cup Targets) \ {t} : ed'[u] = ed[u]
      /\ \A j \in Jobs : j[1] # t => job'[j] = job[j]
  <2>1. PICK carried \in {FALSE, ed[t].read} :
           /\ ed' = [ed EXCEPT ![t] = Rewritten(@, carried)]
           /\ job' = [j \in Jobs |->
                         IF job[j] = "refused" THEN job[j]
                         ELSE IF j \in {<<t, "audit">>, <<t, "review">>} /\ job[j] \in {"active", "stalled"} THEN "void"
                         ELSE IF j \in {<<t, "audit">>, <<t, "review">>} THEN "none"
                         ELSE IF j = <<t, "analysis">> /\ ~carried /\ job[j] # "none" THEN "active"
                         ELSE job[j]]
    BY DEF HumanEdit
  <2> QED BY <1>1, <2>1
<1>4. torn \subseteq torn' /\ t \in torn'
  BY <1>2
<1>5. JobsTold'
  <2>1. \A i \in Jobs : job'[i] = job[i] \/ i[1] \in hurt'
    BY <1>2, <1>3
  <2> QED BY <1>1, <1>2, <2>1, MovedJobsTold
<1>6. ASSUME NEW u \in Names(Levels) PROVE StillTold(u)
  <2>1. u \in Targets
    BY <1>6 DEF Targets
  <2>2. CASE u = t
    BY <1>2, <1>4, <1>6, <2>2, ExcusedStillTold DEF Excused
  <2>3. CASE u # t
    <3>1. ed'[u] = ed[u] /\ \A kind : <<u, kind>> \in Jobs => job'[<<u, kind>>] = job[<<u, kind>>]
      BY <1>3, <2>1, <2>3
    <3> QED BY <1>2, <1>4, <1>6, <3>1, OtherTold DEF StillTold
  <2> QED BY <2>2, <2>3
<1>7. ASSUME NEW st, SourceTold(st) PROVE SourceTold(st)'
  <2>1. job'[<<Source, "analysis">>] = job[<<Source, "analysis">>]
    BY <1>1, <1>3
  <2> QED BY <1>2, <1>7, <2>1 DEF SourceTold
<1> QED BY <1>1, <1>5, <1>6, <1>7, ElsewhereTold

LEMMA DropDiesTold ==
    ASSUME Told, Earned', NEW k \in Tracks, Asking(k), DropDies(k) PROVE Told'
<1>1. PICK t : t = Target(k)
  OBVIOUS
<1>2. PICK s : s = mem.track[k].step
  OBVIOUS
<1>3. AskedAt(k, t, s)
  BY <1>1, <1>2 DEF AskedAt, Told
<1>4. /\ k = "levels" /\ Purge(t) /\ mem' = row /\ tick' = Closed
      /\ row' = row /\ edits' = edits /\ breaks' = breaks /\ torn' = torn \cup {t}
      /\ hurt' = hurt /\ source' = source
  <2>1. At(k, "mend") /\ Purge(Target(k)) /\ mem' = row /\ tick' = Closed
        /\ row' = row /\ edits' = edits /\ breaks' = breaks /\ torn' = torn \cup {Target(k)}
        /\ hurt' = hurt /\ source' = source
    BY DEF DropDies, AtEdition
  <2> QED BY <1>1, <2>1, AtALevel DEF StepsOf
<1>5. /\ t \in Names(Levels) /\ t \in Targets /\ Typed /\ t # Source
      /\ row.track[k].step = "mend" /\ row.outcome[t] = "open"
      /\ t = Lists[k][row.track[k].index] /\ row.track[k].index \in 1 .. Len(Lists[k])
  BY <1>3, <1>4, AskedAtFacts DEF AskedAt, Asking, DropDies, AtEdition, At
<1>6. /\ ed'[t].text = "none"
      /\ \A u \in (Names(Rungs) \cup Targets) \ {t} : ed'[u] = ed[u]
      /\ \A j \in Jobs : j[1] # t => job'[j] = job[j]
  BY <1>4, <1>5, PurgeKeeps
<1>7. \A j \in Jobs : job'[j] = job[j] \/ job'[j] = "none"
  BY <1>4 DEF Purge
<1>8. torn \subseteq torn' /\ t \in torn'
  BY <1>4
<1>9. JobsTold'
  BY <1>4, <1>7, MovedJobsTold DEF Told, Bad
<1>10. ASSUME NEW st, SourceTold(st) PROVE SourceTold(st)'
  <2>1. job'[<<Source, "analysis">>] = job[<<Source, "analysis">>]
    BY <1>5, <1>6 DEF Jobs
  <2> QED BY <1>4, <1>10, <2>1 DEF SourceTold
<1>11. ASSUME NEW u \in Names(Levels), u # t PROVE StillTold(u)
  <2>1. u \in Targets
    BY DEF Targets
  <2>2. ed'[u] = ed[u] /\ \A kind : <<u, kind>> \in Jobs => job'[<<u, kind>>] = job[<<u, kind>>]
    BY <1>6, <1>11, <2>1
  <2> QED BY <1>4, <1>8, <2>2, OtherTold DEF StillTold
<1>12. PICK p : p = row
  OBVIOUS
<1>13. SourceTold(row.starts)' /\ SourceTold(mem.starts)'
  <2>1. SourceTold(p.starts)'
    BY <1>10, <1>12 DEF Told
  <2> QED BY <1>4, <1>12, <2>1
<1>14. ASSUME NEW x \in 1 .. Len(Levels) PROVE LevelTold(x)'
  <2>1. PICK u : u = Levels[x]
    OBVIOUS
  <2>2. u \in Names(Levels) /\ Lists["levels"] = Levels
    BY <2>1, LevelList DEF Names, Lists
  <2>3. PICK r, o, st, b : r = StepAt(p, "levels", x) /\ o = p.outcome[u] /\ st = p.starts /\ b = (u \in p.books)
    OBVIOUS
  <2>4. Reasoned(u, r, o, st, b)
    BY <1>12, <2>1, <2>3 DEF Told, LevelTold
  <2>5. Reasoned(u, r, o, st, b)'
    <3>1. CASE u # t
      BY <1>11, <2>2, <2>4, <3>1 DEF StillTold
    <3>2. CASE u = t
      <4>1. x = p.track[k].index
        <5>1. PICK i : i = p.track[k].index
          OBVIOUS
        <5>2. /\ k = "levels" /\ i \in 1 .. Len(Lists[k]) /\ t = Lists[k][i]
              /\ x \in 1 .. Len(Lists["levels"]) /\ t = Lists["levels"][x]
          BY <1>4, <1>5, <1>12, <2>1, <2>2, <3>2, <5>1
        <5>3. /\ k \in Tracks /\ x \in 1 .. Len(Lists[k]) /\ i \in 1 .. Len(Lists[k])
              /\ Lists[k][i] = Lists[k][x]
          BY <5>2
        <5>4. i = x
          BY <5>3, OnePlace
        <5> QED BY <5>1, <5>4
      <4>2. r = "mend" /\ o = "open"
        BY <1>4, <1>5, <1>12, <2>3, <3>2, <4>1 DEF StepAt
      <4>3. ASSUME ~Excused(t) PROVE Begins(t, "mend", st, b)'
        <5>1. Begins(t, "mend", st, b)
          BY <2>4, <3>2, <4>2, <4>3 DEF Reasoned
        <5>2. job'[<<t, "probe">>] = job[<<t, "probe">>]
          BY <1>4, <1>5, JobsLookedAt DEF Purge
        <5> QED BY <1>6, <5>1, <5>2 DEF Begins
      <4>4. Excused(t) => Excused(t)'
        BY <1>4 DEF Excused
      <4> QED BY <3>2, <4>2, <4>3, <4>4 DEF Reasoned
    <3> QED BY <3>1, <3>2
  <2>6. Known(u, r, o)'
    <3>1. CASE u = t
      BY <1>8, <3>1 DEF Known, Calm
    <3>2. CASE u # t
      <4>1. r = "none"
        <5>1. p.track["levels"].index # x
          BY <1>4, <1>5, <1>12, <2>1, <2>2, <3>2
        <5> QED BY <2>3, <5>1 DEF StepAt
      <4>2. Known(u, StepAt(mem, "levels", x), mem.outcome[u]) /\ ed'[u] = ed[u]
        BY <1>6, <2>1, <2>2, <3>2 DEF Told, LevelTold, Targets
      <4>3. o # "open" => mem.outcome[u] = o
        BY <1>12, <2>2, <2>3 DEF Told, Earned, Descending, Ahead, Targets
      <4> QED BY <1>8, <4>1, <4>2, <4>3 DEF Known, Calm
    <3> QED BY <3>1, <3>2
  <2>7. StepAt(p, "levels", x)' = r
    BY <2>3 DEF StepAt
  <2> QED BY <1>4, <1>12, <2>1, <2>3, <2>5, <2>6, <2>7 DEF LevelTold, StepAt
<1>15. AsFar(mem', row')
  BY <1>4 DEF AsFar
<1> QED BY <1>9, <1>13, <1>14, <1>15 DEF Told

LEMMA InitTold == Init => Told
<1> SUFFICES ASSUME Init PROVE Told
  OBVIOUS
<1>1. Earned
  BY InitEarned
<1>2. PICK signOff \in SignOffs : row =
            [status |-> "queued", rights |-> FALSE, signOff |-> signOff,
             track |-> [k \in Tracks |-> NewTrack(k)],
             outcome |-> [t \in Targets |-> "open"], editions |-> {}, books |-> {},
             promoted |-> {}, starts |-> [j \in Jobs |-> 0],
             errors |-> [e \in Targets \X Steps |-> 0],
             mended |-> [t \in Names(Levels) |-> [c \in Chapters |-> {}]],
             settled |-> [t \in Targets |-> 0], repaired |-> [t \in Names(Levels) |-> {}]]
  BY DEF Init
<1>3. /\ \A k \in Tracks : row.track[k].step \in {"source", "translate"}
      /\ \A t \in Targets : row.outcome[t] = "open"
      /\ \A j \in Jobs : row.starts[j] = 0
  BY <1>2 DEF NewTrack
<1>4. mem = row /\ \A j \in Jobs : job[j] = "none"
  BY DEF Init
<1>5. JobsTold
  BY <1>4 DEF JobsTold, Bad
<1>6. SourceTold(row.starts)
  BY <1>3 DEF SourceTold, Jobs
<1>7. ASSUME NEW x \in 1 .. Len(Levels) PROVE LevelTold(x)
  <2>1. PICK u : u = Levels[x]
    OBVIOUS
  <2>2. u \in Names(Levels) /\ u \in Targets /\ "levels" \in Tracks
    <3>1. u \in Names(Levels) /\ "levels" \in Tracks
      BY <1>7, <2>1, LevelList DEF Names, Tracks, Lists
    <3> QED BY <3>1 DEF Targets
  <2>3. PICK r : r = StepAt(row, "levels", x)
    OBVIOUS
  <2>4. r \in {"source", "translate", "none"}
    BY <1>3, <2>2, <2>3 DEF StepAt
  <2>5. \A kind \in {"probe", "book", "analysis", "audit"} : row.starts[<<u, kind>>] = 0
    BY <1>3, <2>2, JobsLookedAt
  <2>6. Begins(u, r, row.starts, u \in row.books)
    BY <2>4, <2>5 DEF Begins, Late
  <2>7. Reasoned(u, r, row.outcome[u], row.starts, u \in row.books) /\ Known(u, r, row.outcome[u])
    BY <1>3, <2>2, <2>4, <2>6 DEF Reasoned, Known
  <2> QED BY <1>4, <2>1, <2>3, <2>7 DEF LevelTold, StepAt
<1>8. AsFar(mem, row)
  BY <1>4 DEF AsFar
<1> QED BY <1>1, <1>4, <1>5, <1>6, <1>7, <1>8 DEF Told

LEMMA NextTold == Told /\ SourceIs /\ [Next]_vars => Told' /\ SourceIs'
<1> SUFFICES ASSUME Told, SourceIs, [Next]_vars PROVE Told'
  BY NextSource
<1>0. Earned'
  BY NextEarned DEF Told
<1>1. CASE Protected
  BY <1>0, <1>1, ProtectedTold
<1>2. CASE Begin
  BY <1>0, <1>2, BeginTold
<1>3. CASE Save
  BY <1>0, <1>3, SaveTold
<1>4. CASE Crash
  BY <1>0, <1>4, CrashTold
<1>5. ASSUME NEW k \in Tracks, Step(k) \/ Fault(k) PROVE Told'
  <2>1. CASE DropDies(k)
    <3>1. Asking(k)
      BY <1>5, OnlyTheAsked DEF Asking, Earned, Descending, Told
    <3> QED BY <1>0, <2>1, <3>1, DropDiesTold
  <2>2. CASE ~DropDies(k)
    BY <1>5, <2>2, TrackTold
  <2> QED BY <2>1, <2>2
<1>6. ASSUME NEW k \in Tracks, TimePasses(k) PROVE Told'
  BY <1>0, <1>6, TimePassesTold
<1>7. ASSUME NEW j \in Jobs, Outside(j) PROVE Told'
  BY <1>0, <1>7, OutsideTold
<1>8. ASSUME NEW t \in Targets, HumanEdit(t) PROVE Told'
  BY <1>0, <1>8, HumanEditTold
<1>9. CASE UNCHANGED vars
  <2>1. /\ Elsewhere /\ ed' = ed /\ job' = job /\ hurt' = hurt /\ source' = source
        /\ edits' = edits /\ breaks' = breaks /\ torn \subseteq torn'
    BY <1>9 DEF vars, Elsewhere
  <2>2. /\ \A u \in Names(Levels) : StillTold(u)
        /\ \A st : SourceTold(st) => SourceTold(st)'
        /\ JobsTold'
    BY <2>1, SameWorldStillTold DEF Told
  <2> QED BY <1>0, <2>1, <2>2, ElsewhereTold
<1> QED BY <1>1, <1>2, <1>3, <1>4, <1>5, <1>6, <1>7, <1>8, <1>9 DEF Next

LEMMA AlwaysTold == Spec => []Told
  BY InitTold, InitSource, NextTold, PTL DEF Spec

\* What was told of a level that is held.
LEMMA ToldOfTheHeld ==
    ASSUME Told, NEW t \in Names(Levels)
    PROVE  /\ row.outcome[t] = "started" => {t, Source} \cap hurt # {}
           /\ row.outcome[t] \in {"gates", "unread"} /\ t \notin torn => ed[t].read /\ ed[t].audited
<1>1. PICK x \in 1 .. Len(Levels) : t = Levels[x]
  BY LevelList DEF Names
<1>2. LevelTold(x)
  BY DEF Told
<1>3. row.outcome[t] = "started" => Excused(t)
  BY <1>1, <1>2 DEF LevelTold, Reasoned
<1>4. row.outcome[t] # "open" => mem.outcome[t] = row.outcome[t]
  BY DEF Told, Earned, Descending, Ahead, Targets
<1>5. Known(t, StepAt(mem, "levels", x), mem.outcome[t])
  BY <1>1, <1>2 DEF LevelTold
<1> QED BY <1>3, <1>4, <1>5 DEF Known, Excused, Calm

\* A level is held for a reason, in every production with or without languages, whatever dies,
\* breaks or is edited: as started too often only after a job that failed or went silent, of its own
\* or of the source, or an edit of its text (_started and _refused, production.py), and by its gates
\* or as unread only when its judges and its auditors had read the text as it stands (_verdict), but
\* for a level whose text was changed without the saved row knowing.  A step that looks for its job
\* again after the row was saved holds nothing for that.
THEOREM LevelsAreHeldForAReason == Spec => []HeldForAReason
<1>1. Told => HeldForAReason
  BY ToldOfTheHeld DEF HeldForAReason, HeldAfterFailing, NotHeldUnread
<1> QED BY <1>1, AlwaysTold, PTL
================================================================================
