------------------------------- MODULE CliCalls -------------------------------
(* A call to a plan's command-line tool (ai/cli_calls.py and the two providers): what one      *)
(* process said becomes an answer or an error that carries the tokens it used, a call that     *)
(* failed in passing is made once more, and the ledger gets what both cost (spend.py).         *)
(* A process is what it said: its answer and its words, and the tokens it reported.            *)
EXTENDS Naturals, FiniteSets, Sequences

CONSTANT Most    \* the most tokens a process reports

VARIABLE said    \* the input: what the first process says and what a second would

Answers == {"fits", "unfit", "none"}                \* of the schema, not of it or no JSON, no answer
Words == {"", "usage limit", "unreachable"}         \* what the error says (the regular expressions)
Processes ==
    [ended : {"exit"}, answer : Answers, words : Words, tokens : 0..Most]
    \cup {[ended |-> "timeout", answer |-> "none", words |-> "", tokens |-> 0]}

Init == said \in Processes \X Processes

--------------------------------------------------------------------------------
(* One process: _ask.                                                           *)

Answered(tokens) == [kind |-> "answer", tokens |-> tokens]
Failed(kind, tokens) == [kind |-> kind, tokens |-> tokens]

\* The tool was killed, answered as asked, or failed; a failure carries what was used, if any.
Outcome(process) ==
    IF process.ended = "timeout" THEN Failed("timeout", 0)
    ELSE IF process.answer = "fits" THEN Answered(process.tokens)
    ELSE Failed(IF process.answer = "none" THEN process.words ELSE "", process.tokens)

--------------------------------------------------------------------------------
(* tried_twice.                                                                 *)

\* _together: what the first call used is added to the second's.
Together(first, second) == [second EXCEPT !.tokens = @ + first.tokens]

\* _raise_if_used_up and _raise_if_unreachable name an error by its cause; a timeout says nothing.
Named(error) ==
    [error EXCEPT !.kind = CASE @ = "usage limit" -> "Allowance used up"
                             [] @ = "unreachable" -> "Network unreachable"
                             [] @ = "answer" -> "answer"
                             [] OTHER -> "failed"]

\* A failure worth a second try: not a timeout, which the plan may have paid for, and not a
\* used-up allowance.
Passing(first) == first.kind \notin {"answer", "timeout", "usage limit"}

TriedTwice(one, two) ==
    IF Passing(Outcome(one)) THEN Named(Together(Outcome(one), Outcome(two))) ELSE Named(Outcome(one))

\* The ledger's row: the response's usage, or what the error carries (record_failed_call).
Recorded(result) == result.tokens

--------------------------------------------------------------------------------
(* Properties.                                                                  *)

\* "so the ledger shows what both cost" (cli_calls.py:136): the ledger has the tokens that every
\* process reported that was run, whichever failed and however; a second one is run after a failure
\* in passing and never after one that may be paid for without having said so.
CostsAreCarried ==
    LET one == said[1]
        two == said[2]
        again == one.ended = "exit" /\ one.answer # "fits" /\ ~(one.answer = "none" /\ one.words = "usage limit")
    IN Recorded(TriedTwice(one, two)) = one.tokens + (IF again THEN two.tokens ELSE 0)
================================================================================
