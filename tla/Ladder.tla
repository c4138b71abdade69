-------------------------------- MODULE Ladder ---------------------------------
(***************************************************************************)
(* What a production promises whoever asked for it (the docstring of        *)
(* catalog/production.py and the outcomes of _apply and _finish), without   *)
(* its steps, jobs, ticks and restarts.                                     *)
(*                                                                          *)
(* The levels asked for are descended from the top: nothing is spent on a   *)
(* level before the levels above it are made or found not to be needed.  A  *)
(* level that is held or not reached closes the levels below it.  The       *)
(* languages do not depend on the levels.  An outcome is never taken back,  *)
(* and the production is closed when every target has one.                  *)
(***************************************************************************)
EXTENDS Naturals, Sequences

CONSTANTS
    Levels,      \* the levels asked for, highest first, each once
    Languages    \* the languages asked for; none is named like a level

VARIABLES
    outcome,     \* what became of each target
    spent,       \* the targets paid work was begun for
    status       \* the production itself

vars == <<outcome, spent, status>>

Names(s) == {s[i] : i \in DOMAIN s}
Targets == Names(Levels) \cup Names(Languages)

Good == {"ready", "not_needed"}
\* The reasons a target is held for; each needs a person, or another start.
Holds == {"rights", "refused", "started", "timeout", "error", "no_probe", "unread", "too_long",
          "gates", "review", "promotion"}
Outcomes == Good \cup Holds \cup {"open", "not_reached", "not_attempted"}

\* The levels above t in what was asked for.
Above(t) == {Levels[i] : i \in {i \in DOMAIN Levels : \E j \in DOMAIN Levels : i < j /\ Levels[j] = t}}

\* The outcomes o are those of a ladder descended a rung at a time.
Descended(o) ==
    /\ \A t \in Targets : \A u \in Above(t) :
          /\ o[u] = "open" => o[t] = "open"
          /\ o[u] = "not_reached" => o[t] = "not_reached"
          /\ o[u] \in Holds \cup {"not_attempted"} => o[t] = "not_attempted"
    /\ \A t \in Names(Languages) :
          o[t] = "not_attempted" => \E u \in Targets : o[u] = "rights"

\* The status a production with these outcomes has.
StatusOf(o) ==
    IF \E t \in Targets : o[t] = "open" THEN "open"
    ELSE IF \A t \in Targets : o[t] \in Good \cup {"not_reached"} THEN "succeeded"
    ELSE "failed"

Init ==
    /\ outcome = [t \in Targets |-> "open"]
    /\ spent = {}
    /\ status = "open"

\* Paid work is begun for a target.
Spend(t) ==
    /\ outcome[t] = "open"
    /\ \A u \in Above(t) : outcome[u] \in Good
    /\ spent' = spent \cup {t}
    /\ UNCHANGED <<outcome, status>>

\* Some targets get their outcomes.
Decide ==
    /\ outcome' \in [Targets -> Outcomes]
    /\ \A t \in Targets : outcome[t] # "open" => outcome'[t] = outcome[t]
    /\ Descended(outcome')
    /\ status' = StatusOf(outcome')
    /\ UNCHANGED spent

Next == Decide \/ \E t \in Targets : Spend(t)

Spec == Init /\ [][Next]_vars

--------------------------------------------------------------------------------
\* Nothing is spent on a level while a level above it may still be held: the ladder is
\* descended a rung at a time (_apply).
SpentInOrder == \A t \in spent : \A u \in Above(t) : outcome[u] \in Good

================================================================================
