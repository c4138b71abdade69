----------------------------- MODULE PlanAccounts -----------------------------
(* Pausing the plan accounts (catalog/plan_pause.py): rows say which accounts are paused, a    *)
(* request tells every registered worker whether to take plan jobs, and a worker that starts   *)
(* registers and asks for itself (config/celery.py), while workers stop and the broker is      *)
(* away.  A worker's control messages arrive in the order they were sent.                      *)
EXTENDS Naturals, Sequences, TLC

CONSTANTS
    Workers, Handlers,
    Accounts,      \* all there are
    Named,         \* those the settings name (CODEX_HOMES, CLAUDE_CONFIG_DIRS)
    Codex, Claude, \* [Workers -> Accounts]: the two a worker works on
    OneAtATime,    \* no button is pressed before the last request was answered
    MaxPresses, MaxStarts, MaxTroubles   \* bounds

PlanConstants ==
    /\ Codex \in [Workers -> Accounts] /\ Claude \in [Workers -> Accounts]
    /\ Named \subseteq Accounts /\ OneAtATime \in BOOLEAN

VARIABLES
    paused,      \* PlanAccountPause rows
    registered,  \* PlanWorker rows
    node,        \* [Workers -> [at, takes, mail]]: the process, whether it takes from the plan
                 \* queue, the control messages it has not read
    request,     \* [Handlers -> what the request is at, what it has read]
    counts       \* [presses, starts, troubles]: bounded

planVars == <<paused, registered, node, request, counts>>

Off == [at |-> "off", takes |-> FALSE, mail |-> <<>>]
Idle == [at |-> "idle"]
Count(what, limit) == counts[what] < limit /\ counts' = [counts EXCEPT ![what] = @ + 1]

\* Mutant: only the Codex account is looked at.
StandsForCodex(w, accounts) == Codex[w] \in accounts

\* worker_is_paused: a worker stands still when either of its accounts is paused.
Stands(w, accounts) == Codex[w] \in accounts \/ Claude[w] \in accounts

Init ==
    /\ paused = {} /\ registered = {} /\ node = [w \in Workers |-> Off]
    /\ request = [h \in Handlers |-> Idle]
    /\ counts = [presses |-> 0, starts |-> 0, troubles |-> 0]

--------------------------------------------------------------------------------
(* The dashboard's buttons.                                                     *)

\* known_accounts: what the settings name and the workers reported.
Known == Named \cup {Codex[w] : w \in registered} \cup {Claude[w] : w \in registered}

\* The rows are written: one account or all of them, paused or resumed.
Press(h, rows) ==
    /\ request[h].at = "idle" /\ Count("presses", MaxPresses)
    /\ OneAtATime => \A g \in Handlers : request[g].at = "idle"
    /\ paused' = rows /\ request' = [request EXCEPT ![h] = [at |-> "apply"]]
    /\ UNCHANGED <<registered, node>>

PressOne(h, account) == Press(h, paused \cup {account}) \/ Press(h, paused \ {account})
PressAll(h) == Press(h, paused \cup Known) \/ Press(h, {})

\* apply_to_workers reads the pauses, and then who there is to be told.
ReadPauses(h) ==
    /\ request[h].at = "apply"
    /\ request' = [request EXCEPT ![h] = [at |-> "list", accounts |-> paused]]
    /\ UNCHANGED <<paused, registered, node, counts>>

ReadWorkers(h) ==
    /\ request[h].at = "list"
    /\ request' = [request EXCEPT ![h] = [at |-> "tell", accounts |-> request[h].accounts, left |-> registered]]
    /\ UNCHANGED <<paused, registered, node, counts>>

\* cancel_consumer or add_consumer: a process that is not there hears nothing.
Tell(h, w) ==
    /\ request[h].at = "tell" /\ w \in request[h].left
    /\ request' = [request EXCEPT ![h].left = @ \ {w}]
    /\ node' = IF node[w].at = "off" THEN node
               ELSE [node EXCEPT ![w].mail = Append(@, ~Stands(w, request[h].accounts))]
    /\ UNCHANGED <<paused, registered, counts>>

\* The broker is away: it is logged, and the next worker told.
TellNobody(h, w) ==
    /\ request[h].at = "tell" /\ w \in request[h].left /\ Count("troubles", MaxTroubles)
    /\ request' = [request EXCEPT ![h].left = @ \ {w}]
    /\ UNCHANGED <<paused, registered, node>>

Respond(h) ==
    /\ request[h].at = "tell" /\ request[h].left = {}
    /\ request' = [request EXCEPT ![h] = Idle]
    /\ UNCHANGED <<paused, registered, node, counts>>

--------------------------------------------------------------------------------
(* The workers.                                                                 *)

\* A worker of the plan queue comes up and takes from it.
Start(w) ==
    /\ node[w].at = "off" /\ Count("starts", MaxStarts)
    /\ node' = [node EXCEPT ![w] = [at |-> "starting", takes |-> TRUE, mail |-> <<>>]]
    /\ UNCHANGED <<paused, registered, request>>

\* stop_if_paused: it registers first ...
Register(w) ==
    /\ node[w].at = "starting" /\ registered' = registered \cup {w}
    /\ node' = [node EXCEPT ![w].at = "asking"]
    /\ UNCHANGED <<paused, request, counts>>

\* ... and then asks whether it is paused, before it reads any control message.
AskForItself(w) ==
    /\ node[w].at = "asking"
    /\ node' = [node EXCEPT ![w].at = "up", ![w].takes = ~Stands(w, paused)]
    /\ UNCHANGED <<paused, registered, request, counts>>

\* The database does not answer: the worker comes up all the same, as it is.
AskInVain(w) ==
    /\ node[w].at \in {"starting", "asking"} /\ Count("troubles", MaxTroubles)
    /\ node' = [node EXCEPT ![w].at = "up"]
    /\ UNCHANGED <<paused, registered, request>>

Obey(w) ==
    /\ node[w].at = "up" /\ node[w].mail # <<>>
    /\ node' = [node EXCEPT ![w].takes = Head(node[w].mail), ![w].mail = Tail(@)]
    /\ UNCHANGED <<paused, registered, request, counts>>

Stop(w) ==
    /\ node[w].at # "off" /\ node' = [node EXCEPT ![w] = Off]
    /\ UNCHANGED <<paused, registered, request, counts>>

Next ==
    \/ \E h \in Handlers : \/ \E account \in Accounts : PressOne(h, account)
                          \/ PressAll(h) \/ ReadPauses(h) \/ ReadWorkers(h) \/ Respond(h)
                          \/ \E w \in Workers : Tell(h, w) \/ TellNobody(h, w)
    \/ \E w \in Workers : Start(w) \/ Register(w) \/ AskForItself(w) \/ AskInVain(w) \/ Obey(w) \/ Stop(w)

Spec == Init /\ [][Next]_planVars

--------------------------------------------------------------------------------
(* Properties.                                                                  *)

\* "the pause outlives a worker restart" (plan_pause.py:5): once every request is answered, a
\* worker that is up and has heard what it was told takes plan jobs just when neither of its
\* accounts is paused, whenever it came up; one that could not be reached or could not ask is
\* excepted until it starts again.
PausesHold ==
    (\A h \in Handlers : request[h].at = "idle") /\ counts.troubles = 0 =>
        \A w \in Workers : node[w].at = "up" /\ node[w].mail = <<>> =>
            node[w].takes = (Codex[w] \notin paused /\ Claude[w] \notin paused)
================================================================================
