--------------------------- MODULE EnrichmentProofs ----------------------------
(***************************************************************************)
(* Theorems about Enrichment for every set of blocks and editors, every     *)
(* range of wordings and every number of corrections, failures and crashes. *)
(***************************************************************************)
EXTENDS Enrichment, TLAPS

--------------------------------------------------------------------------------
(* Types.                                                                    *)

Steps == {"idle", "claim", "remark", "read", "write"}
Jobs == [kind : Kinds \cup {"none"}, stage : Stages \cup {"none"}, step : Steps,
         hash : Texts \cup {NoText}, read : Texts \cup {NoText}]

\* A job at work is of a stage, on a text, and what it read is one.
Employed(j) ==
    /\ j.step # "idle" => j.kind \in Kinds /\ j.stage \in Stages
    /\ j.step \in {"remark", "read", "write"} => j.hash \in Texts
    /\ j.step = "remark" => j.stage # "split"
    /\ j.step = "write" => j.read \in Texts

Txs == [does : {"nothing", "revise", "remove", "apply"}, block : Blocks \cup {None},
        wording : Wordings \cup {Gone, None}, finding : Places \cup {NoPlace}]

\* A transaction that is open changes a block, or applies a finding to the finding's block.
Opened(x) ==
    /\ x.does \in {"revise", "remove"} =>
          x.block \in Blocks /\ x.wording \in (IF x.does = "remove" THEN {Gone} ELSE Wordings)
    /\ x.does = "apply" =>
          /\ x.finding \in Places /\ x.finding.wording \in Flawed
          /\ x.block = x.finding.block /\ x.wording = x.finding.wording + 1

Fit ==
    /\ TypeOK
    /\ DOMAIN runs = Stages /\ DOMAIN made = {"lexical", "qa"}
    /\ job \in [Workers -> Jobs] /\ \A w \in Workers : Employed(job[w])
    /\ tx \in [Editors -> Txs] /\ \A e \in Editors : Opened(tx[e])
    /\ \A p \in DOMAIN findings : p.wording \in Flawed

LEMMA WordingTyped ==
    /\ LastWording \in Nat /\ Flawed \subseteq 0 .. (LastWording - 1) /\ 0 \in Wordings
    /\ \A n \in Flawed : n \in Wordings /\ n + 1 \in Wordings /\ n \in Int
    /\ Wordings \subseteq Nat /\ Gone \notin Wordings /\ None \notin Wordings /\ Gone # None
BY WordingsAssumption DEF Wordings, Gone, None

LEMMA InitFit == Init => Fit
  <1> SUFFICES ASSUME Init PROVE Fit
    OBVIOUS
  <1>1. text \in Texts /\ spans \in [Blocks -> Wordings \cup {None}]
    BY WordingTyped DEF Init, Texts
  <1>2. DOMAIN runs = Stages /\ \A s \in Stages : DOMAIN runs[s] = {}
    BY DEF Init, NoRows
  <1>3. DOMAIN made = {"lexical", "qa"} /\ \A s \in {"lexical", "qa"} : DOMAIN made[s] = {}
    BY DEF Init, NoRows
  <1>4. current \in [{"lexical", "qa"} -> Texts \cup {NoText}] /\ queue \in [Kinds -> Nat]
    BY DEF Init
  <1>5. \A p \in DOMAIN findings : p \in Places /\ findings[p] = "open" /\ p.wording \in Flawed
    BY WordingTyped DEF Init, Places
  <1>6. job \in [Workers -> Jobs] /\ \A w \in Workers : Employed(job[w])
    BY DEF Init, Idle, Jobs, Steps, Employed
  <1>7. tx \in [Editors -> Txs] /\ \A e \in Editors : Opened(tx[e])
    BY DEF Init, NoTx, Txs, Opened
  <1> QED
    BY <1>1, <1>2, <1>3, <1>4, <1>5, <1>6, <1>7 DEF Fit, TypeOK, FindingStatus

\* A run that is written leaves the others as they are.
LEMMA SetRunFacts ==
    ASSUME DOMAIN runs = Stages, NEW s \in Stages, NEW t, NEW x, SetRun(s, t, x)
    PROVE  /\ DOMAIN runs' = Stages /\ \A u \in Stages : u # s => runs'[u] = runs[u]
           /\ DOMAIN runs'[s] = DOMAIN runs[s] \cup {t} /\ runs'[s][t] = x
           /\ \A k \in DOMAIN runs[s] : k # t => runs'[s][k] = runs[s][k]
  <1>1. runs' = [runs EXCEPT ![s] = Put(runs[s], t, x)]
    BY DEF SetRun
  <1>2. DOMAIN runs' = Stages /\ runs'[s] = Put(runs[s], t, x) /\ \A u \in Stages : u # s => runs'[u] = runs[u]
    BY <1>1
  <1>3. /\ DOMAIN Put(runs[s], t, x) = DOMAIN runs[s] \cup {t} /\ Put(runs[s], t, x)[t] = x
        /\ \A k \in DOMAIN runs[s] : k # t => Put(runs[s], t, x)[k] = runs[s][k]
    BY DEF Put
  <1> QED
    BY <1>2, <1>3

RunsTyped ==
    /\ DOMAIN runs = Stages
    /\ \A s \in Stages : /\ DOMAIN runs[s] \subseteq Texts
                         /\ \A t \in DOMAIN runs[s] : runs[s][t] \in {"running", "succeeded", "failed"}

LEMMA SetRunTyped ==
    ASSUME RunsTyped, NEW s \in Stages, NEW t \in Texts, NEW x \in {"running", "succeeded", "failed"},
           SetRun(s, t, x)
    PROVE  RunsTyped'
  <1>1. \A u \in Stages : \/ runs'[u] = runs[u]
                          \/ /\ DOMAIN runs'[u] = DOMAIN runs[u] \cup {t} /\ runs'[u][t] = x
                             /\ \A k \in DOMAIN runs[u] : k # t => runs'[u][k] = runs[u][k]
    BY SetRunFacts DEF RunsTyped
  <1>2. DOMAIN runs' = Stages
    BY SetRunFacts DEF RunsTyped
  <1> QED
    BY <1>1, <1>2 DEF RunsTyped

FindingsTyped == \A p \in DOMAIN findings : p \in Places /\ findings[p] \in FindingStatus /\ p.wording \in Flawed

LEMMA SetAllFacts ==
    ASSUME NEW F, NEW P, NEW s
    PROVE  /\ DOMAIN SetAll(F, P, s) = DOMAIN F
           /\ \A p \in DOMAIN F : SetAll(F, P, s)[p] = IF p \in P THEN s ELSE F[p]
BY DEF SetAll

\* A correction changes the blocks it names and what is cut from them, and makes the artifacts stale.
LEMMA CommitFacts ==
    ASSUME TypeOK, NEW C \in SUBSET Blocks, NEW changes \in [C -> Wordings \cup {Gone}], NEW F,
           Commit(changes, F)
    PROVE  /\ text' \in Texts /\ \A b \in Blocks : text'[b] = IF b \in C THEN changes[b] ELSE text[b]
           /\ spans' \in [Blocks -> Wordings \cup {None}]
           /\ current' \in [{"lexical", "qa"} -> Texts \cup {NoText}]
           /\ findings' = F /\ queue' \in [Kinds -> Nat] /\ UNCHANGED <<runs, made, job>>
  <1>1. text' = [b \in Blocks |-> IF b \in C THEN changes[b] ELSE text[b]] /\ text' \in Texts
    BY DEF Commit, TypeOK, Texts
  <1>2. spans' \in [Blocks -> Wordings \cup {None}]
    BY DEF Commit, TypeOK
  <1>3. current' \in [{"lexical", "qa"} -> Texts \cup {NoText}]
    BY DEF Commit, TypeOK
  <1>4. queue' \in [Kinds -> Nat]
    BY DEF Commit, TypeOK, Kinds
  <1> QED
    BY <1>1, <1>2, <1>3, <1>4 DEF Commit

Closings == FindingStatus \ {"open"}

\* The three ways a correction is committed, the blocks it changes and the findings it closes.
LEMMA RevisionFacts ==
    ASSUME Fit, NEW e \in Editors, FinishRevision(e)
    PROVE  /\ tx[e].does \in {"revise", "remove"} /\ tx[e].block \in Blocks
           /\ tx' = [tx EXCEPT ![e] = NoTx] /\ used' = used
           /\ text' \in Texts
           /\ \A b \in Blocks : text'[b] = IF b = tx[e].block THEN tx[e].wording ELSE text[b]
           /\ spans' \in [Blocks -> Wordings \cup {None}]
           /\ current' \in [{"lexical", "qa"} -> Texts \cup {NoText}] /\ queue' \in [Kinds -> Nat]
           /\ UNCHANGED <<runs, made, job>>
           /\ DOMAIN findings' = DOMAIN findings
           /\ \A p \in DOMAIN findings :
                 \/ findings'[p] = findings[p]
                 \/ /\ findings'[p] = "superseded" /\ findings[p] = "open" /\ p.block = tx[e].block
                    /\ FindingFree(p)
           /\ \A p \in DOMAIN findings : p.code = "qa" /\ p.block = tx[e].block /\ findings[p] = "open" =>
                                            FindingFree(p)
  <1> DEFINE retired == IF tx[e].does = "remove"
                          THEN {p \in DOMAIN findings : p.block = tx[e].block /\ findings[p] = "open"}
                          ELSE OpenOn(findings, tx[e].block)
             at == {tx[e].block}
             changes == [x \in at |-> tx[e].wording]
  <1>1. tx[e].does \in {"revise", "remove"} /\ \A p \in retired : FindingFree(p)
    BY DEF FinishRevision
  <1>2. /\ Commit(changes, SetAll(findings, retired, "superseded"))
        /\ used' = used /\ tx' = [tx EXCEPT ![e] = NoTx]
    BY DEF FinishRevision
  <1>3. tx[e].block \in Blocks /\ tx[e].wording \in Wordings \cup {Gone}
    BY <1>1 DEF Fit, Opened
  <1>4. at \in SUBSET Blocks /\ changes \in [at -> Wordings \cup {Gone}]
    BY <1>3
  <1>5. retired \subseteq DOMAIN findings /\ \A p \in retired : findings[p] = "open" /\ p.block = tx[e].block
    BY DEF OpenOn
  <1>6. \A p \in DOMAIN findings : p.code = "qa" /\ p.block = tx[e].block /\ findings[p] = "open" => p \in retired
    BY DEF OpenOn
  <1>7. \A b \in Blocks : /\ b \in at => changes[b] = tx[e].wording
                          /\ b \in at <=> b = tx[e].block
    OBVIOUS
  <1> HIDE DEF retired, at, changes
  <1>8. /\ text' \in Texts
        /\ \A b \in Blocks : text'[b] = IF b \in at THEN changes[b] ELSE text[b]
        /\ spans' \in [Blocks -> Wordings \cup {None}]
        /\ current' \in [{"lexical", "qa"} -> Texts \cup {NoText}] /\ queue' \in [Kinds -> Nat]
        /\ findings' = SetAll(findings, retired, "superseded") /\ UNCHANGED <<runs, made, job>>
    BY <1>2, <1>4, CommitFacts DEF Fit
  <1>9. /\ DOMAIN findings' = DOMAIN findings
        /\ \A p \in DOMAIN findings : findings'[p] = IF p \in retired THEN "superseded" ELSE findings[p]
    BY <1>8 DEF SetAll
  <1>10. ASSUME NEW b \in Blocks PROVE text'[b] = IF b = tx[e].block THEN tx[e].wording ELSE text[b]
    <2>1. text'[b] = IF b \in at THEN changes[b] ELSE text[b]
      BY <1>8
    <2> QED
      BY <1>7, <2>1
  <1>11. \A p \in DOMAIN findings :
            \/ findings'[p] = findings[p]
            \/ /\ findings'[p] = "superseded" /\ findings[p] = "open" /\ p.block = tx[e].block
               /\ FindingFree(p)
    BY <1>1, <1>5, <1>9
  <1>12. \A p \in DOMAIN findings : p.code = "qa" /\ p.block = tx[e].block /\ findings[p] = "open" =>
                                        FindingFree(p)
    BY <1>1, <1>6
  <1> QED
    BY <1>1, <1>2, <1>3, <1>8, <1>9, <1>10, <1>11, <1>12

LEMMA AppliedFacts ==
    ASSUME Fit, NEW e \in Editors, FinishApply(e)
    PROVE  /\ tx[e].does = "apply" /\ tx[e].block \in Blocks /\ BlockFree(tx[e].block)
           /\ text[tx[e].block] \notin {Gone, tx[e].wording}
           /\ tx' = [tx EXCEPT ![e] = NoTx] /\ used' = used
           /\ text' \in Texts
           /\ \A b \in Blocks : text'[b] = IF b = tx[e].block THEN tx[e].wording ELSE text[b]
           /\ spans' \in [Blocks -> Wordings \cup {None}]
           /\ current' \in [{"lexical", "qa"} -> Texts \cup {NoText}] /\ queue' \in [Kinds -> Nat]
           /\ UNCHANGED <<runs, made, job>>
           /\ DOMAIN findings' = DOMAIN findings
           /\ \A p \in DOMAIN findings :
                 \/ findings'[p] = findings[p]
                 \/ findings'[p] = "applied" /\ p = tx[e].finding
                 \/ /\ findings'[p] = "superseded" /\ findings[p] = "open" /\ p.block = tx[e].block
                    /\ p # tx[e].finding /\ FindingFree(p)
           /\ \A p \in DOMAIN findings :
                 p.code = "qa" /\ p.block = tx[e].block /\ findings[p] = "open" /\ p # tx[e].finding =>
                     FindingFree(p)
  <1> DEFINE q == tx[e].finding
             others == OpenOn(findings, q.block) \ {q}
             at == {q.block}
             changes == [x \in at |-> tx[e].wording]
             closed == SetAll(SetAll(findings, others, "superseded"), {q}, "applied")
  <1>0. TypeOK
    BY DEF Fit
  <1>1. /\ tx[e].does = "apply" /\ BlockFree(q.block) /\ text[q.block] \notin {Gone, tx[e].wording}
        /\ \A p \in others : FindingFree(p)
        /\ Commit(changes, closed) /\ used' = used /\ tx' = [tx EXCEPT ![e] = NoTx]
    BY DEF FinishApply
  <1>2. tx[e].block = q.block /\ q.block \in Blocks /\ tx[e].wording \in Wordings
    BY <1>1, WordingTyped DEF Fit, Opened, Places
  <1>3. at \in SUBSET Blocks /\ changes \in [at -> Wordings \cup {Gone}]
    BY <1>2
  <1>4. /\ others \subseteq DOMAIN findings
        /\ \A p \in others : findings[p] = "open" /\ p.block = q.block /\ p # q
    BY DEF OpenOn
  <1>5. \A p \in DOMAIN findings :
           p.code = "qa" /\ p.block = q.block /\ findings[p] = "open" /\ p # q => p \in others
    BY DEF OpenOn
  <1>6. \A b \in Blocks : /\ b \in at => changes[b] = tx[e].wording
                          /\ b \in at <=> b = q.block
    OBVIOUS
  <1>7. /\ DOMAIN closed = DOMAIN findings
        /\ \A p \in DOMAIN findings : closed[p] = IF p = q THEN "applied"
                                                  ELSE IF p \in others THEN "superseded" ELSE findings[p]
    BY DEF SetAll
  <1> HIDE DEF q, others, at, changes, closed
  <1>8. /\ text' \in Texts
        /\ \A b \in Blocks : text'[b] = IF b \in at THEN changes[b] ELSE text[b]
        /\ spans' \in [Blocks -> Wordings \cup {None}]
        /\ current' \in [{"lexical", "qa"} -> Texts \cup {NoText}] /\ queue' \in [Kinds -> Nat]
        /\ findings' = closed /\ UNCHANGED <<runs, made, job>>
    BY ZenonT(40), <1>0, <1>1, <1>3, CommitFacts
  <1>9. ASSUME NEW b \in Blocks PROVE text'[b] = IF b = tx[e].block THEN tx[e].wording ELSE text[b]
    <2>1. text'[b] = IF b \in at THEN changes[b] ELSE text[b]
      BY <1>8
    <2> QED
      BY <1>2, <1>6, <2>1
  <1>10. \A p \in DOMAIN findings :
            \/ findings'[p] = findings[p]
            \/ findings'[p] = "applied" /\ p = q
            \/ /\ findings'[p] = "superseded" /\ findings[p] = "open" /\ p.block = q.block
               /\ p # q /\ FindingFree(p)
    BY <1>1, <1>4, <1>7, <1>8
  <1>11. \A p \in DOMAIN findings :
            p.code = "qa" /\ p.block = q.block /\ findings[p] = "open" /\ p # q => FindingFree(p)
    BY <1>1, <1>5
  <1> QED
    BY <1>1, <1>2, <1>7, <1>8, <1>9, <1>10, <1>11 DEF q

LEMMA InitialsFacts ==
    ASSUME Fit, NEW e \in Editors, ApplyInitials(e)
    PROVE  /\ tx' = tx /\ Count("edits")
           /\ \A p \in DOMAIN findings : p.code = "qa" /\ findings[p] = "open" =>
                 FindingFree(p) /\ BlockFree(p.block)
           /\ text' \in Texts /\ text' # text
           /\ \A b \in Blocks :
                 \/ text'[b] = text[b]
                 \/ text[b] \in Flawed /\ text'[b] = text[b] + 1 /\ BlockFree(b)
           /\ spans' \in [Blocks -> Wordings \cup {None}]
           /\ current' \in [{"lexical", "qa"} -> Texts \cup {NoText}] /\ queue' \in [Kinds -> Nat]
           /\ UNCHANGED <<runs, made, job>>
           /\ DOMAIN findings' = DOMAIN findings
           /\ \A p \in DOMAIN findings :
                 \/ findings'[p] = findings[p]
                 \/ findings'[p] = "applied" /\ findings[p] = "open" /\ p.code = "qa"
  <1> DEFINE open == {p \in DOMAIN findings : p.code = "qa" /\ findings[p] = "open"}
             blocks == {p.block : p \in open}
             changes == [b \in blocks |-> text[b] + 1]
             closed == SetAll(findings, open, "applied")
  <1>1. /\ open # {} /\ Commit(changes, closed) /\ Count("edits") /\ tx' = tx
        /\ \A p \in open : FindingFree(p) /\ BlockFree(p.block) /\ text[p.block] = p.wording
    BY DEF ApplyInitials
  <1>2. \A p \in open : p \in Places /\ p.block \in Blocks /\ p.wording \in Flawed
    BY DEF Fit, TypeOK, Places
  <1>3. \A b \in blocks : /\ b \in Blocks /\ text[b] \in Flawed /\ BlockFree(b)
                          /\ changes[b] = text[b] + 1 /\ changes[b] \in Wordings /\ text[b] \in Int
    BY <1>1, <1>2, WordingTyped
  <1>4. blocks \in SUBSET Blocks /\ changes \in [blocks -> Wordings \cup {Gone}]
    BY <1>3
  <1>5. blocks # {}
    BY <1>1
  <1>6. /\ DOMAIN closed = DOMAIN findings
        /\ \A p \in DOMAIN findings : closed[p] = IF p \in open THEN "applied" ELSE findings[p]
    BY DEF SetAll
  <1>7. \A p \in DOMAIN findings : p \in open <=> p.code = "qa" /\ findings[p] = "open"
    OBVIOUS
  <1> HIDE DEF open, blocks, changes, closed
  <1>8. /\ text' \in Texts /\ \A b \in Blocks : text'[b] = IF b \in blocks THEN changes[b] ELSE text[b]
        /\ spans' \in [Blocks -> Wordings \cup {None}]
        /\ current' \in [{"lexical", "qa"} -> Texts \cup {NoText}] /\ queue' \in [Kinds -> Nat]
        /\ findings' = closed /\ UNCHANGED <<runs, made, job>>
    BY <1>1, <1>4, CommitFacts DEF Fit
  <1>9. text' # text
    <2>1. PICK b \in blocks : TRUE
      BY <1>5
    <2>2. text'[b] = text[b] + 1 /\ text[b] \in Int
      BY <1>3, <1>8, <2>1
    <2> QED
      BY <2>2
  <1>10. \A b \in Blocks : \/ text'[b] = text[b]
                           \/ text[b] \in Flawed /\ text'[b] = text[b] + 1 /\ BlockFree(b)
    BY <1>3, <1>8
  <1>11. \A p \in DOMAIN findings :
            \/ findings'[p] = findings[p]
            \/ findings'[p] = "applied" /\ findings[p] = "open" /\ p.code = "qa"
    BY <1>6, <1>7, <1>8
  <1>12. DOMAIN findings' = DOMAIN findings
    BY <1>6, <1>8
  <1>13. \A p \in DOMAIN findings : p.code = "qa" /\ findings[p] = "open" => FindingFree(p) /\ BlockFree(p.block)
    BY <1>1, <1>7
  <1> QED
    BY <1>1, <1>8, <1>9, <1>10, <1>11, <1>12, <1>13

\* The steps that commit no correction.
LEMMA OtherSteps ==
    ASSUME [Next]_vars
    PROVE  \/ \E e \in Editors : FinishRevision(e) \/ FinishApply(e) \/ ApplyInitials(e)
           \/ text' = text
  <1>1. CASE \E e \in Editors : Correct(e)
    BY <1>1 DEF Correct, Revise, Remove, LockBlock, BeginApply, Dismiss, Reopen, Decide
  <1>2. CASE \E e \in Editors : EndTx(e)
    BY <1>2 DEF EndTx, Abort
  <1>3. CASE \E s \in Stages : Ask(s)
    BY <1>3 DEF Ask
  <1>4. CASE \E w \in Workers : Work(w)
    BY <1>4 DEF Work, Deliver, Claim, Remark, Read, WriteSpans, WriteLexicon, WriteScan
  <1>5. CASE (\E w \in Workers : Fail(w) \/ Crash(w)) \/ Rest \/ UNCHANGED vars
    BY <1>5 DEF Fail, Crash, Rest, vars
  <1> QED
    BY <1>1, <1>2, <1>3, <1>4, <1>5 DEF Next

LEMMA TxSet ==
    ASSUME Fit, NEW e \in Editors, NEW x \in Txs, Opened(x), tx' = [tx EXCEPT ![e] = x]
    PROVE  tx' \in [Editors -> Txs] /\ \A d \in Editors : Opened(tx[d])'
  <1>1. \A d \in Editors : tx'[d] = x \/ tx'[d] = tx[d]
    BY DEF Fit
  <1>2. tx' \in [Editors -> Txs]
    BY DEF Fit
  <1>3. \A d \in Editors : Opened(tx'[d])
    BY <1>1 DEF Fit
  <1> QED
    BY <1>2, <1>3 DEF Opened

LEMMA NoTxTyped == NoTx \in Txs /\ Opened(NoTx)
BY DEF NoTx, Txs, Opened

\* An editor begins to change block b, or to apply finding p.
Locks(e, b) ==
    /\ tx[e] = NoTx /\ BlockFree(b) /\ text[b] # Gone /\ text' = text /\ findings' = findings
    /\ \/ \E n \in Wordings :
             /\ Reverts \/ n > text[b]
             /\ tx' = [tx EXCEPT ![e] = [NoTx EXCEPT !.does = "revise", !.block = b, !.wording = n]]
       \/ tx' = [tx EXCEPT ![e] = [NoTx EXCEPT !.does = "remove", !.block = b, !.wording = Gone]]

Applies(e, p) ==
    /\ tx[e] = NoTx /\ FindingFree(p) /\ findings[p] = "open" /\ text[p.block] = p.wording
    /\ text' = text /\ findings' = findings
    /\ tx' = [tx EXCEPT ![e] = [does |-> "apply", block |-> p.block,
                                wording |-> p.wording + 1, finding |-> p]]

LEMMA TxSteps ==
    ASSUME [Next]_vars
    PROVE  \/ tx' = tx
           \/ \E e \in Editors : tx' = [tx EXCEPT ![e] = NoTx] /\ EndTx(e)
           \/ \E e \in Editors, b \in Blocks : Locks(e, b)
           \/ \E e \in Editors : \E p \in DOMAIN findings : Applies(e, p)
  <1>1. ASSUME NEW e \in Editors, Revise(e) PROVE \E b \in Blocks : Locks(e, b)
    BY <1>1 DEF Revise, LockBlock, Locks
  <1>2. ASSUME NEW e \in Editors, Remove(e) PROVE \E b \in Blocks : Locks(e, b)
    BY <1>2 DEF Remove, LockBlock, Locks
  <1>3. ASSUME NEW e \in Editors, BeginApply(e) PROVE \E p \in DOMAIN findings : Applies(e, p)
    BY <1>3 DEF BeginApply, Applies
  <1>4. ASSUME NEW e \in Editors, ApplyInitials(e) \/ Dismiss(e) \/ Reopen(e) PROVE tx' = tx
    BY <1>4 DEF ApplyInitials, Dismiss, Reopen, Decide
  <1>5. ASSUME NEW e \in Editors, EndTx(e) PROVE tx' = [tx EXCEPT ![e] = NoTx]
    BY <1>5 DEF EndTx, FinishRevision, FinishApply, Abort
  <1>6. CASE \E s \in Stages : Ask(s)
    BY <1>6 DEF Ask
  <1>7. CASE \E w \in Workers : Work(w)
    BY <1>7 DEF Work, Deliver, Claim, Remark, Read, WriteSpans, WriteLexicon, WriteScan
  <1>8. CASE (\E w \in Workers : Fail(w) \/ Crash(w)) \/ Rest \/ UNCHANGED vars
    BY <1>8 DEF Fail, Crash, Rest, vars
  <1> QED
    BY <1>1, <1>2, <1>3, <1>4, <1>5, <1>6, <1>7, <1>8 DEF Next, Correct

LEMMA TxKept == ASSUME Fit, [Next]_vars PROVE tx' \in [Editors -> Txs] /\ \A d \in Editors : Opened(tx[d])'
  <1>1. CASE tx' = tx
    BY <1>1 DEF Fit, Opened
  <1>2. ASSUME NEW e \in Editors, NEW b \in Blocks, Locks(e, b)
        PROVE  \E x \in Txs : Opened(x) /\ tx' = [tx EXCEPT ![e] = x]
    <2>1. ASSUME NEW n \in Wordings
          PROVE  /\ [NoTx EXCEPT !.does = "revise", !.block = b, !.wording = n] \in Txs
                 /\ Opened([NoTx EXCEPT !.does = "revise", !.block = b, !.wording = n])
      BY DEF NoTx, Txs, Opened
    <2>2. /\ [NoTx EXCEPT !.does = "remove", !.block = b, !.wording = Gone] \in Txs
          /\ Opened([NoTx EXCEPT !.does = "remove", !.block = b, !.wording = Gone])
      BY DEF NoTx, Txs, Opened
    <2> QED
      BY <1>2, <2>1, <2>2 DEF Locks
  <1>3. ASSUME NEW e \in Editors, NEW p \in DOMAIN findings, Applies(e, p)
        PROVE  \E x \in Txs : Opened(x) /\ tx' = [tx EXCEPT ![e] = x]
    <2> DEFINE x == [does |-> "apply", block |-> p.block, wording |-> p.wording + 1, finding |-> p]
    <2>1. p \in Places /\ p.wording \in Flawed /\ p.block \in Blocks
      BY DEF Fit, TypeOK, Places
    <2>2. x \in Txs /\ Opened(x)
      BY <2>1, WordingTyped DEF Txs, Opened
    <2> QED
      BY <1>3, <2>2 DEF Applies
  <1>4. ASSUME NEW e \in Editors, tx' = [tx EXCEPT ![e] = NoTx]
        PROVE  \E x \in Txs : Opened(x) /\ tx' = [tx EXCEPT ![e] = x]
    BY <1>4, NoTxTyped
  <1>5. CASE \E e \in Editors : \E x \in Txs : Opened(x) /\ tx' = [tx EXCEPT ![e] = x]
    BY <1>5, TxSet
  <1> QED
    BY <1>1, <1>2, <1>3, <1>4, <1>5, TxSteps

LEMMA AfterTyped ==
    ASSUME NEW j \in Jobs, Employed(j), j.step # "idle"
    PROVE  After(j) \in Jobs /\ Employed(After(j)) /\ After(j).step \in {"idle", "claim"}
  <1>1. CASE j.kind = "refresh" /\ j.stage # "qa"
    <2> DEFINE next == IF j.stage = "split" THEN "lexical" ELSE "qa"
    <2>1. After(j) = [j EXCEPT !.stage = next, !.step = "claim", !.hash = NoText, !.read = NoText]
      BY <1>1 DEF After
    <2>2. next \in Stages
      BY DEF Stages
    <2> HIDE DEF next
    <2>3. /\ After(j) \in Jobs /\ After(j).step = "claim" /\ After(j).stage = next
          /\ After(j).kind = j.kind
      BY <2>1, <2>2 DEF Jobs, Steps
    <2> QED
      BY <2>2, <2>3 DEF Employed
  <1>2. CASE ~(j.kind = "refresh" /\ j.stage # "qa")
    <2>1. After(j) = Idle
      BY <1>2 DEF After
    <2> QED
      BY <2>1 DEF Idle, Jobs, Steps, Employed
  <1> QED
    BY <1>1, <1>2

LEMMA JobSet ==
    ASSUME Fit, NEW w \in Workers, NEW x \in Jobs, Employed(x), job' = [job EXCEPT ![w] = x]
    PROVE  job' \in [Workers -> Jobs] /\ \A v \in Workers : Employed(job[v])'
  <1>1. \A v \in Workers : job'[v] = x \/ job'[v] = job[v]
    BY DEF Fit
  <1>2. job' \in [Workers -> Jobs]
    BY DEF Fit
  <1>3. \A v \in Workers : Employed(job'[v])
    BY <1>1 DEF Fit
  <1> QED
    BY <1>2, <1>3 DEF Employed

\* What a worker's own step makes of its job.
LEMMA WorkFacts ==
    ASSUME Fit, NEW w \in Workers, Work(w) \/ Fail(w) \/ Crash(w)
    PROVE  \E x \in Jobs :
              /\ Employed(x) /\ job' = [job EXCEPT ![w] = x]
              /\ \/ x.step \in {"idle", "claim"}
                 \/ Claim(w) /\ x.step \in {"remark", "read"} /\ x.hash = text
                 \/ Read(w) /\ x.step = "write" /\ x.hash = job[w].hash /\ x.read = text
  <1>0. job[w] \in Jobs /\ Employed(job[w]) /\ text \in Texts /\ job \in [Workers -> Jobs]
    BY DEF Fit, TypeOK
  <1>1. Idle \in Jobs /\ Employed(Idle) /\ Idle.step = "idle"
    BY DEF Idle, Jobs, Steps, Employed
  <1>2. CASE Deliver(w)
    <2>1. PICK kind \in Kinds :
             job' = [job EXCEPT ![w] = [Idle EXCEPT !.kind = kind, !.stage = First(kind), !.step = "claim"]]
      BY <1>2 DEF Deliver
    <2>2. First(kind) \in Stages
      BY DEF First, Kinds, Stages
    <2>3. ASSUME NEW stage \in Stages
          PROVE  /\ [Idle EXCEPT !.kind = kind, !.stage = stage, !.step = "claim"] \in Jobs
                 /\ Employed([Idle EXCEPT !.kind = kind, !.stage = stage, !.step = "claim"])
                 /\ [Idle EXCEPT !.kind = kind, !.stage = stage, !.step = "claim"].step = "claim"
      BY DEF Idle, Jobs, Steps, Employed
    <2> QED
      BY <2>1, <2>2, <2>3
  <1>3. ASSUME job' = [job EXCEPT ![w] = After(job[w])], job[w].step # "idle"
        PROVE  \E x \in Jobs : Employed(x) /\ job' = [job EXCEPT ![w] = x] /\ x.step \in {"idle", "claim"}
    BY <1>0, <1>3, AfterTyped
  <1>4. ASSUME job' = [job EXCEPT ![w] = Idle]
        PROVE  \E x \in Jobs : Employed(x) /\ job' = [job EXCEPT ![w] = x] /\ x.step \in {"idle", "claim"}
    BY <1>1, <1>4
  <1>5. CASE Claim(w) /\ ~(Status(job[w].stage, text) = "succeeded" /\ job[w].stage = "split")
    <2> DEFINE step == IF Status(job[w].stage, text) = "succeeded" THEN "remark" ELSE "read"
               x == [job[w] EXCEPT !.step = step, !.hash = text]
    <2>1. job' = [job EXCEPT ![w].step = step, ![w].hash = text] /\ job[w].step = "claim"
      BY <1>5 DEF Claim
    <2>2. job' = [job EXCEPT ![w] = x]
      BY <1>0, <2>1
    <2>3. step \in {"remark", "read"} /\ (step = "remark" => job[w].stage # "split")
      BY <1>5
    <2> HIDE DEF step
    <2>4. /\ x \in Jobs /\ x.step = step /\ x.hash = text /\ x.kind = job[w].kind
          /\ x.stage = job[w].stage
      BY <1>0, <2>3 DEF Jobs, Steps
    <2>5. Employed(x)
      BY <1>0, <2>1, <2>3, <2>4 DEF Employed
    <2> QED
      BY <1>5, <2>2, <2>3, <2>4, <2>5
  <1>6. CASE Claim(w) /\ Status(job[w].stage, text) = "succeeded" /\ job[w].stage = "split"
    BY <1>3, <1>6 DEF Claim
  <1>7. CASE Read(w)
    <2> DEFINE x == [job[w] EXCEPT !.step = "write", !.read = text]
    <2>1. job' = [job EXCEPT ![w].step = "write", ![w].read = text] /\ job[w].step = "read"
      BY <1>7 DEF Read
    <2>2. job' = [job EXCEPT ![w] = x]
      BY <1>0, <2>1
    <2>3. /\ x \in Jobs /\ x.step = "write" /\ x.hash = job[w].hash /\ x.read = text
          /\ x.kind = job[w].kind /\ x.stage = job[w].stage
      BY <1>0 DEF Jobs, Steps
    <2>4. Employed(x)
      BY <1>0, <2>1, <2>3 DEF Employed
    <2> QED
      BY <1>7, <2>2, <2>3, <2>4
  <1>8. CASE Remark(w)
    BY <1>3, <1>8 DEF Remark
  <1>9. CASE WriteSpans(w) \/ WriteLexicon(w) \/ WriteScan(w)
    BY <1>3, <1>9 DEF WriteSpans, WriteLexicon, WriteScan
  <1>10. CASE Fail(w)
    BY <1>3, <1>4, <1>10 DEF Fail
  <1>11. CASE Crash(w)
    BY <1>4, <1>11 DEF Crash
  <1> QED
    BY <1>2, <1>5, <1>6, <1>7, <1>8, <1>9, <1>10, <1>11 DEF Work

\* The other steps touch no job, no run and no spans but those of the blocks that change.
LEMMA NoWork ==
    ASSUME [Next]_vars
    PROVE  \/ \E w \in Workers : Work(w) \/ Fail(w) \/ Crash(w)
           \/ UNCHANGED <<job, runs, made>>
  <1>1. CASE \E e \in Editors : Correct(e)
    BY <1>1 DEF Correct, Revise, Remove, LockBlock, BeginApply, ApplyInitials, Commit, Dismiss, Reopen, Decide
  <1>2. CASE \E e \in Editors : EndTx(e)
    BY <1>2 DEF EndTx, FinishRevision, FinishApply, Commit, Abort
  <1>3. CASE (\E s \in Stages : Ask(s)) \/ Rest \/ UNCHANGED vars
    BY <1>3 DEF Ask, Rest, vars
  <1> QED
    BY <1>1, <1>2, <1>3 DEF Next

LEMMA JobKept == ASSUME Fit, [Next]_vars PROVE job' \in [Workers -> Jobs] /\ \A v \in Workers : Employed(job[v])'
  <1>1. CASE job' = job
    BY <1>1 DEF Fit, Employed
  <1> QED
    BY <1>1, JobSet, WorkFacts, NoWork

\* Runs are written by the workers, of the text that is there or of the one they claimed.
LEMMA RunSteps ==
    ASSUME Fit, [Next]_vars
    PROVE  \/ runs' = runs
           \/ \E w \in Workers : /\ Claim(w) /\ job[w].stage \in Stages
                                 /\ Status(job[w].stage, text) # "succeeded"
                                 /\ SetRun(job[w].stage, text, "running")
           \/ \E w \in Workers : /\ Fail(w) /\ job[w].step \in {"read", "write"} /\ job[w].stage \in Stages
                                 /\ SetRun(job[w].stage, job[w].hash, "failed")
           \/ \E w \in Workers : /\ WriteSpans(w) \/ WriteLexicon(w) \/ WriteScan(w)
                                 /\ job[w].step = "write" /\ job[w].stage \in Stages
                                 /\ SetRun(job[w].stage, job[w].hash, "succeeded")
  <1>0. \A w \in Workers : job[w].step # "idle" => job[w].stage \in Stages
    BY DEF Fit, Employed
  <1>1. ASSUME NEW w \in Workers, Claim(w)
        PROVE  \/ runs' = runs
               \/ /\ job[w].stage \in Stages /\ Status(job[w].stage, text) # "succeeded"
                  /\ SetRun(job[w].stage, text, "running")
    BY <1>0, <1>1 DEF Claim
  <1>2. ASSUME NEW w \in Workers, Fail(w)
        PROVE  /\ job[w].step \in {"read", "write"} /\ job[w].stage \in Stages
               /\ SetRun(job[w].stage, job[w].hash, "failed")
    BY <1>0, <1>2 DEF Fail
  <1>3. ASSUME NEW w \in Workers, WriteSpans(w) \/ WriteLexicon(w) \/ WriteScan(w)
        PROVE  /\ job[w].step = "write" /\ job[w].stage \in Stages
               /\ SetRun(job[w].stage, job[w].hash, "succeeded")
    BY <1>0, <1>3 DEF WriteSpans, WriteLexicon, WriteScan
  <1>4. ASSUME NEW w \in Workers, Deliver(w) \/ Remark(w) \/ Read(w) \/ Crash(w) PROVE runs' = runs
    BY <1>4 DEF Deliver, Remark, Read, Crash
  <1> QED
    BY <1>1, <1>2, <1>3, <1>4, NoWork DEF Work

LEMMA RunsKept == ASSUME Fit, [Next]_vars PROVE RunsTyped'
  <1>1. RunsTyped /\ text \in Texts /\ \A w \in Workers : Employed(job[w])
    BY DEF Fit, TypeOK, RunsTyped
  <1>2. CASE runs' = runs
    BY <1>1, <1>2 DEF RunsTyped
  <1>3. ASSUME NEW s \in Stages, NEW t \in Texts, NEW x \in {"running", "succeeded", "failed"}, SetRun(s, t, x)
        PROVE  RunsTyped'
    BY <1>1, <1>3, SetRunTyped
  <1>4. \A w \in Workers : job[w].step \in {"read", "write"} => job[w].hash \in Texts
    BY <1>1 DEF Employed
  <1> QED
    BY <1>1, <1>2, <1>3, <1>4, RunSteps

MadeTyped ==
    /\ DOMAIN made = {"lexical", "qa"}
    /\ \A s \in {"lexical", "qa"} : /\ DOMAIN made[s] \subseteq Texts
                                    /\ \A t \in DOMAIN made[s] : made[s][t] \in Texts

LEMMA MadeKept == ASSUME Fit, [Next]_vars PROVE MadeTyped'
  <1>1. MadeTyped /\ \A w \in Workers : Employed(job[w])
    BY DEF Fit, TypeOK, MadeTyped
  <1>2. CASE made' = made
    BY <1>1, <1>2 DEF MadeTyped
  <1>3. ASSUME NEW s \in {"lexical", "qa"}, NEW t \in Texts, NEW u \in Texts,
               made' = [made EXCEPT ![s] = Put(made[s], t, u)]
        PROVE  MadeTyped'
    <2>1. /\ DOMAIN made' = {"lexical", "qa"} /\ made'[s] = Put(made[s], t, u)
          /\ \A v \in {"lexical", "qa"} : v # s => made'[v] = made[v]
      BY <1>1, <1>3 DEF MadeTyped
    <2>2. /\ DOMAIN Put(made[s], t, u) = DOMAIN made[s] \cup {t}
          /\ \A k \in DOMAIN Put(made[s], t, u) : Put(made[s], t, u)[k] \in {u, made[s][k]}
          /\ \A k \in DOMAIN Put(made[s], t, u) : k \notin DOMAIN made[s] => Put(made[s], t, u)[k] = u
      BY DEF Put
    <2>3. DOMAIN made'[s] \subseteq Texts /\ \A k \in DOMAIN made'[s] : made'[s][k] \in Texts
      BY <1>1, <2>1, <2>2 DEF MadeTyped
    <2> QED
      BY <1>1, <2>1, <2>3 DEF MadeTyped
  <1>4. ASSUME NEW w \in Workers, job[w].step = "write" PROVE job[w].hash \in Texts /\ job[w].read \in Texts
    BY <1>1, <1>4 DEF Employed
  <1>5. ASSUME NEW w \in Workers, WriteLexicon(w) PROVE MadeTyped'
    BY <1>3, <1>4, <1>5 DEF WriteLexicon
  <1>6. ASSUME NEW w \in Workers, WriteScan(w) PROVE MadeTyped'
    BY <1>3, <1>4, <1>6 DEF WriteScan
  <1>7. ASSUME NEW w \in Workers,
               Deliver(w) \/ Claim(w) \/ Remark(w) \/ Read(w) \/ WriteSpans(w) \/ Fail(w) \/ Crash(w)
        PROVE  made' = made
    BY <1>7 DEF Deliver, Claim, Remark, Read, WriteSpans, Fail, Crash
  <1> QED
    BY <1>2, <1>5, <1>6, <1>7, NoWork DEF Work

LEMMA CurrentKept == ASSUME Fit, [Next]_vars PROVE current' \in [{"lexical", "qa"} -> Texts \cup {NoText}]
  <1>1. /\ current \in [{"lexical", "qa"} -> Texts \cup {NoText}]
        /\ \A w \in Workers : job[w].step \in {"remark", "write"} => job[w].hash \in Texts
    BY DEF Fit, TypeOK, Employed
  <1>2. CASE current' = current
    BY <1>1, <1>2
  <1>3. CASE \E e \in Editors : FinishRevision(e) \/ FinishApply(e) \/ ApplyInitials(e)
    BY <1>3, RevisionFacts, AppliedFacts, InitialsFacts
  <1>4. CASE \E w \in Workers : Remark(w)
    BY <1>1, <1>4 DEF Remark
  <1>5. CASE \E w \in Workers : WriteLexicon(w) \/ WriteScan(w)
    BY <1>1, <1>5 DEF WriteLexicon, WriteScan
  <1>6. ASSUME NEW w \in Workers, Deliver(w) \/ Claim(w) \/ Read(w) \/ WriteSpans(w) \/ Fail(w) \/ Crash(w)
        PROVE  current' = current
    BY <1>6 DEF Deliver, Claim, Read, WriteSpans, Fail, Crash
  <1>7. ASSUME NEW e \in Editors, Revise(e) \/ Remove(e) \/ BeginApply(e) \/ Dismiss(e) \/ Reopen(e) \/ Abort(e)
        PROVE  current' = current
    BY <1>7 DEF Revise, Remove, LockBlock, BeginApply, Dismiss, Reopen, Decide, Abort
  <1>8. CASE (\E s \in Stages : Ask(s)) \/ Rest \/ UNCHANGED vars
    BY <1>2, <1>8 DEF Ask, Rest, vars
  <1> QED
    BY <1>2, <1>3, <1>4, <1>5, <1>6, <1>7, <1>8 DEF Next, Correct, EndTx, Work

LEMMA SpansKept == ASSUME Fit, [Next]_vars PROVE spans' \in [Blocks -> Wordings \cup {None}]
  <1>1. /\ spans \in [Blocks -> Wordings \cup {None}]
        /\ \A w \in Workers : job[w].step = "write" => job[w].read \in Texts
    BY DEF Fit, TypeOK, Employed
  <1>2. CASE spans' = spans
    BY <1>1, <1>2
  <1>3. CASE \E e \in Editors : FinishRevision(e) \/ FinishApply(e) \/ ApplyInitials(e)
    BY <1>3, RevisionFacts, AppliedFacts, InitialsFacts
  <1>4. ASSUME NEW w \in Workers, WriteSpans(w) PROVE spans' \in [Blocks -> Wordings \cup {None}]
    <2>1. job[w].read \in [Blocks -> Wordings \cup {Gone}]
      BY <1>1, <1>4 DEF WriteSpans, Texts
    <2>2. spans' = [b \in Blocks |-> IF Gone \in {text[b], job[w].read[b]} THEN spans[b] ELSE job[w].read[b]]
      BY <1>4 DEF WriteSpans
    <2> QED
      BY <1>1, <2>1, <2>2
  <1>5. ASSUME NEW w \in Workers,
               Deliver(w) \/ Claim(w) \/ Remark(w) \/ Read(w) \/ WriteLexicon(w) \/ WriteScan(w) \/ Fail(w) \/ Crash(w)
        PROVE  spans' = spans
    BY <1>5 DEF Deliver, Claim, Remark, Read, WriteLexicon, WriteScan, Fail, Crash
  <1>6. ASSUME NEW e \in Editors, Revise(e) \/ Remove(e) \/ BeginApply(e) \/ Dismiss(e) \/ Reopen(e) \/ Abort(e)
        PROVE  spans' = spans
    BY <1>6 DEF Revise, Remove, LockBlock, BeginApply, Dismiss, Reopen, Decide, Abort
  <1>7. CASE (\E s \in Stages : Ask(s)) \/ Rest \/ UNCHANGED vars
    BY <1>2, <1>7 DEF Ask, Rest, vars
  <1> QED
    BY <1>2, <1>3, <1>4, <1>5, <1>6, <1>7 DEF Next, Correct, EndTx, Work

LEMMA QueueKept == ASSUME Fit, [Next]_vars PROVE queue' \in [Kinds -> Nat]
  <1>1. queue \in [Kinds -> Nat] /\ \A w \in Workers : job[w].step # "idle" => job[w].kind \in Kinds
    BY DEF Fit, TypeOK, Employed
  <1>2. CASE queue' = queue
    BY <1>1, <1>2
  <1>3. CASE \E e \in Editors : FinishRevision(e) \/ FinishApply(e) \/ ApplyInitials(e)
    BY <1>3, RevisionFacts, AppliedFacts, InitialsFacts
  <1>4. ASSUME NEW k, queue' = [queue EXCEPT ![k] = @ + 1] PROVE queue' \in [Kinds -> Nat]
    <2>1. CASE k \in Kinds
      BY <1>1, <1>4, <2>1
    <2>2. CASE k \notin Kinds
      <3>1. queue' = queue
        BY <1>1, <1>4, <2>2
      <3> QED
        BY <1>2, <3>1
    <2> QED
      BY <2>1, <2>2
  <1>5. ASSUME NEW k \in Kinds, queue[k] > 0, queue' = [queue EXCEPT ![k] = @ - 1]
        PROVE  queue' \in [Kinds -> Nat]
    BY <1>1, <1>5
  <1>6. ASSUME NEW w \in Workers, Deliver(w) \/ Crash(w) PROVE queue' \in [Kinds -> Nat]
    BY <1>4, <1>5, <1>6 DEF Deliver, Crash
  <1>7. ASSUME NEW w \in Workers,
               Claim(w) \/ Remark(w) \/ Read(w) \/ WriteSpans(w) \/ WriteLexicon(w) \/ WriteScan(w) \/ Fail(w)
        PROVE  queue' = queue
    BY <1>7 DEF Claim, Remark, Read, WriteSpans, WriteLexicon, WriteScan, Fail
  <1>8. ASSUME NEW e \in Editors, Revise(e) \/ Remove(e) \/ BeginApply(e) \/ Dismiss(e) \/ Reopen(e) \/ Abort(e)
        PROVE  queue' = queue
    BY <1>8 DEF Revise, Remove, LockBlock, BeginApply, Dismiss, Reopen, Decide, Abort
  <1>9. CASE \E s \in Stages : Ask(s)
    BY <1>4, <1>9 DEF Ask
  <1>10. CASE Rest \/ UNCHANGED vars
    BY <1>2, <1>10 DEF Rest, vars
  <1> QED
    BY <1>2, <1>3, <1>6, <1>7, <1>8, <1>9, <1>10 DEF Next, Correct, EndTx, Work

\* A person closes a finding, or opens it again while its words stand.
Decides(p) ==
    /\ FindingFree(p) /\ text' = text /\ tx' = tx
    /\ \/ findings[p] = "open" /\ findings' = [findings EXCEPT ![p] = "dismissed"]
       \/ /\ findings[p] = "dismissed" /\ text[p.block] = p.wording
          /\ findings' = [findings EXCEPT ![p] = "open"]

Commits(e) == FinishRevision(e) \/ FinishApply(e) \/ ApplyInitials(e)

LEMMA FindingSteps ==
    ASSUME [Next]_vars
    PROVE  \/ findings' = findings
           \/ \E e \in Editors : Commits(e)
           \/ \E p \in DOMAIN findings : Decides(p)
           \/ \E w \in Workers : Remark(w) /\ job[w].stage = "qa"
           \/ \E w \in Workers : WriteScan(w)
  <1>1. ASSUME NEW e \in Editors, Dismiss(e) \/ Reopen(e) PROVE \E p \in DOMAIN findings : Decides(p)
    BY <1>1 DEF Dismiss, Reopen, Decide, Decides
  <1>2. ASSUME NEW e \in Editors, Revise(e) \/ Remove(e) \/ BeginApply(e) \/ Abort(e) PROVE findings' = findings
    BY <1>2 DEF Revise, Remove, LockBlock, BeginApply, Abort
  <1>3. ASSUME NEW w \in Workers,
               Deliver(w) \/ Claim(w) \/ Read(w) \/ WriteSpans(w) \/ WriteLexicon(w) \/ Fail(w) \/ Crash(w)
        PROVE  findings' = findings
    BY <1>3 DEF Deliver, Claim, Read, WriteSpans, WriteLexicon, Fail, Crash
  <1>4. ASSUME NEW w \in Workers, Remark(w), job[w].stage # "qa" PROVE findings' = findings
    BY <1>4 DEF Remark
  <1>5. CASE (\E s \in Stages : Ask(s)) \/ Rest \/ UNCHANGED vars
    BY <1>5 DEF Ask, Rest, vars
  <1> QED
    BY <1>1, <1>2, <1>3, <1>4, <1>5 DEF Next, Correct, EndTx, Work, Commits

\* What a scan writes: it closes the findings of other texts and adds its own slips.
LEMMA ScanFacts ==
    ASSUME Fit, NEW w \in Workers, WriteScan(w)
    PROVE  /\ job[w].step = "write" /\ job[w].stage = "qa" /\ job[w].hash \in Texts /\ job[w].read \in Texts
           /\ text' = text /\ tx' = tx
           /\ DOMAIN findings' = DOMAIN findings \cup SlipsIn(job[w].read, job[w].hash)
           /\ \A p \in OfOtherTexts(findings, job[w].hash) : FindingFree(p)
           /\ \A p \in DOMAIN findings' :
                 findings'[p] = IF p \in OfOtherTexts(findings, job[w].hash) THEN "superseded"
                                ELSE IF p \in DOMAIN findings THEN findings[p] ELSE "open"
           /\ \A p \in SlipsIn(job[w].read, job[w].hash) :
                 /\ p \in Places /\ p.code = "qa" /\ p.hash = job[w].hash
                 /\ p.wording = job[w].read[p.block] /\ p.wording \in Flawed
  <1>1. job[w].step = "write" /\ job[w].stage = "qa"
    BY DEF WriteScan
  <1>2. job[w].hash \in Texts /\ job[w].read \in Texts
    BY <1>1 DEF Fit, Employed
  <1>3. /\ text' = text /\ tx' = tx
        /\ \A p \in OfOtherTexts(findings, job[w].hash) : FindingFree(p)
        /\ findings' = [p \in DOMAIN findings \cup SlipsIn(job[w].read, job[w].hash) |->
                          IF p \in OfOtherTexts(findings, job[w].hash) THEN "superseded"
                          ELSE IF p \in DOMAIN findings THEN findings[p] ELSE "open"]
    BY DEF WriteScan
  <1>4. ASSUME NEW p \in SlipsIn(job[w].read, job[w].hash)
        PROVE  /\ p \in Places /\ p.code = "qa" /\ p.hash = job[w].hash
               /\ p.wording = job[w].read[p.block] /\ p.wording \in Flawed
    <2>1. PICK b \in Blocks :
             /\ job[w].read[b] \in Flawed
             /\ p = [code |-> "qa", hash |-> job[w].hash, block |-> b, wording |-> job[w].read[b]]
      BY <1>4 DEF SlipsIn
    <2>2. job[w].read[b] \in Wordings
      BY <2>1, WordingTyped
    <2>3. p \in Places
      BY <1>2, <2>1, <2>2 DEF Places
    <2> QED
      BY <2>1, <2>3
  <1> QED
    BY <1>1, <1>2, <1>3, <1>4

LEMMA RemarkFacts ==
    ASSUME Fit, NEW w \in Workers, Remark(w), job[w].stage = "qa"
    PROVE  /\ job[w].step = "remark" /\ text' = text /\ tx' = tx /\ UNCHANGED runs
           /\ DOMAIN findings' = DOMAIN findings
           /\ \A p \in OfOtherTexts(findings, job[w].hash) : FindingFree(p)
           /\ \A p \in DOMAIN findings :
                 findings'[p] = IF p \in OfOtherTexts(findings, job[w].hash) THEN "superseded" ELSE findings[p]
BY DEF Remark, SetAll

LEMMA FindingsKept == ASSUME Fit, [Next]_vars PROVE FindingsTyped'
  <1>1. FindingsTyped
    BY DEF Fit, TypeOK, FindingsTyped
  <1>2. CASE findings' = findings
    BY <1>1, <1>2 DEF FindingsTyped
  <1>3. ASSUME DOMAIN findings' = DOMAIN findings,
               \A p \in DOMAIN findings : findings'[p] \in {findings[p], "superseded", "applied", "dismissed", "open"}
        PROVE  FindingsTyped'
    BY <1>1, <1>3 DEF FindingsTyped, FindingStatus
  <1>4. ASSUME NEW e \in Editors, FinishRevision(e) PROVE FindingsTyped'
    BY <1>3, <1>4, RevisionFacts
  <1>5. ASSUME NEW e \in Editors, FinishApply(e) PROVE FindingsTyped'
    BY <1>3, <1>5, AppliedFacts
  <1>6. ASSUME NEW e \in Editors, ApplyInitials(e) PROVE FindingsTyped'
    BY <1>3, <1>6, InitialsFacts
  <1>7. ASSUME NEW p \in DOMAIN findings, Decides(p) PROVE FindingsTyped'
    BY <1>3, <1>7 DEF Decides
  <1>8. ASSUME NEW w \in Workers, Remark(w), job[w].stage = "qa" PROVE FindingsTyped'
    BY <1>3, <1>8, RemarkFacts
  <1>9. ASSUME NEW w \in Workers, WriteScan(w) PROVE FindingsTyped'
    <2>1. \A p \in DOMAIN findings' : p \in Places /\ p.wording \in Flawed
      BY <1>1, <1>9, ScanFacts DEF FindingsTyped
    <2>2. \A p \in DOMAIN findings' : findings'[p] \in FindingStatus
      BY <1>1, <1>9, ScanFacts DEF FindingsTyped, FindingStatus
    <2> QED
      BY <2>1, <2>2 DEF FindingsTyped
  <1> QED
    BY <1>2, <1>4, <1>5, <1>6, <1>7, <1>8, <1>9, FindingSteps DEF Commits

LEMMA FitKept == Fit /\ [Next]_vars => Fit'
  <1> SUFFICES ASSUME Fit, [Next]_vars PROVE Fit'
    OBVIOUS
  <1>1. text' \in Texts
    BY OtherSteps, RevisionFacts, AppliedFacts, InitialsFacts DEF Fit, TypeOK
  <1>2. /\ spans' \in [Blocks -> Wordings \cup {None}] /\ queue' \in [Kinds -> Nat]
        /\ current' \in [{"lexical", "qa"} -> Texts \cup {NoText}]
    BY SpansKept, QueueKept, CurrentKept
  <1>3. RunsTyped' /\ MadeTyped' /\ FindingsTyped'
    BY RunsKept, MadeKept, FindingsKept
  <1>4. job' \in [Workers -> Jobs] /\ \A w \in Workers : Employed(job[w])'
    BY JobKept
  <1>5. tx' \in [Editors -> Txs] /\ \A e \in Editors : Opened(tx[e])'
    BY TxKept
  <1> QED
    BY <1>1, <1>2, <1>3, <1>4, <1>5 DEF Fit, TypeOK, RunsTyped, MadeTyped, FindingsTyped

\* Every variable has its type in every reachable state.
THEOREM EnrichmentTyped == Spec => []TypeOK
  <1>1. Init => Fit
    BY InitFit
  <1>2. Fit /\ [Next]_vars => Fit'
    BY FitKept
  <1>3. Fit => TypeOK
    BY DEF Fit
  <1> QED
    BY <1>1, <1>2, <1>3, PTL DEF Spec

--------------------------------------------------------------------------------
(* A suggestion is written only over the words it was made for.              *)

\* The findings are the scan's, and one that is being applied is open, of words that stand,
\* and nobody else's.
Offer(e) ==
    tx[e].does = "apply" =>
        /\ tx[e].finding \in DOMAIN findings /\ findings[tx[e].finding] = "open"
        /\ text[tx[e].finding.block] = tx[e].finding.wording
        /\ \A d \in Editors : HoldsFinding(d, tx[e].finding) => d = e

Offered == (\A p \in DOMAIN findings : p.code = "qa") /\ \A e \in Editors : Offer(e)

LEMMA CodesKept ==
    ASSUME Fit, \A p \in DOMAIN findings : p.code = "qa", [Next]_vars
    PROVE  \A p \in DOMAIN findings' : p.code = "qa"
  <1>1. CASE DOMAIN findings' = DOMAIN findings
    BY <1>1
  <1>2. ASSUME NEW e \in Editors, Commits(e) PROVE DOMAIN findings' = DOMAIN findings
    BY <1>2, RevisionFacts, AppliedFacts, InitialsFacts DEF Commits
  <1>3. ASSUME NEW p \in DOMAIN findings, Decides(p) PROVE DOMAIN findings' = DOMAIN findings
    BY <1>3 DEF Decides
  <1>4. ASSUME NEW w \in Workers, WriteScan(w) PROVE \A p \in DOMAIN findings' : p.code = "qa"
    BY <1>4, ScanFacts
  <1>5. ASSUME NEW w \in Workers, Remark(w), job[w].stage = "qa" PROVE DOMAIN findings' = DOMAIN findings
    BY <1>5, RemarkFacts
  <1> QED
    BY <1>1, <1>2, <1>3, <1>4, <1>5, FindingSteps

\* A finding that somebody is applying stays open, and its block keeps the words, until it is applied.
LEMMA HeldKept ==
    ASSUME Fit, Offered, [Next]_vars, NEW e \in Editors, tx[e].does = "apply", tx'[e] = tx[e]
    PROVE  /\ tx[e].finding \in DOMAIN findings' /\ findings'[tx[e].finding] = "open"
           /\ text'[tx[e].finding.block] = tx[e].finding.wording
  <1> DEFINE p == tx[e].finding
  <1>0. /\ p \in DOMAIN findings /\ findings[p] = "open" /\ text[p.block] = p.wording /\ p.code = "qa"
        /\ p.block \in Blocks /\ HoldsFinding(e, p) /\ tx \in [Editors -> Txs]
        /\ \A d \in Editors : HoldsFinding(d, p) => d = e
        /\ tx[e] # NoTx
    BY DEF Offered, Offer, Fit, Opened, Places, HoldsFinding, NoTx
  <1>1. ~FindingFree(p)
    BY <1>0 DEF FindingFree
  <1> HIDE DEF p
  <1>2. CASE findings' = findings /\ text' = text
    BY <1>0, <1>2 DEF p
  <1>3. ASSUME NEW d \in Editors, FinishRevision(d)
        PROVE  p \in DOMAIN findings' /\ findings'[p] = "open" /\ text'[p.block] = p.wording
    <2>1. p.block # tx[d].block /\ p \in DOMAIN findings' /\ findings'[p] = findings[p]
      BY <1>0, <1>1, <1>3, RevisionFacts
    <2> QED
      BY <1>0, <1>3, <2>1, RevisionFacts
  <1>4. ASSUME NEW d \in Editors, FinishApply(d)
        PROVE  p \in DOMAIN findings' /\ findings'[p] = "open" /\ text'[p.block] = p.wording
    <2>1. tx' = [tx EXCEPT ![d] = NoTx]
      BY <1>4, AppliedFacts
    <2>2. d # e
      BY <1>0, <2>1
    <2>3. p # tx[d].finding
      BY <1>0, <1>4, <2>2, AppliedFacts DEF HoldsFinding
    <2>4. p.block # tx[d].block /\ p \in DOMAIN findings' /\ findings'[p] = findings[p]
      BY <1>0, <1>1, <1>4, <2>3, AppliedFacts
    <2> QED
      BY <1>0, <1>4, <2>4, AppliedFacts
  <1>5. ASSUME NEW d \in Editors, ApplyInitials(d)
        PROVE  FALSE
    BY <1>0, <1>1, <1>5, InitialsFacts
  <1>6. ASSUME NEW q \in DOMAIN findings, Decides(q)
        PROVE  p \in DOMAIN findings' /\ findings'[p] = "open" /\ text'[p.block] = p.wording
    BY <1>0, <1>1, <1>6 DEF Decides
  <1>7. ASSUME NEW w \in Workers, Remark(w), job[w].stage = "qa"
        PROVE  p \in DOMAIN findings' /\ findings'[p] = "open" /\ text'[p.block] = p.wording
    BY <1>0, <1>1, <1>7, RemarkFacts
  <1>8. ASSUME NEW w \in Workers, WriteScan(w)
        PROVE  p \in DOMAIN findings' /\ findings'[p] = "open" /\ text'[p.block] = p.wording
    BY <1>0, <1>1, <1>8, ScanFacts
  <1>9. \/ \E d \in Editors : Commits(d)
        \/ text' = text
    BY OtherSteps DEF Commits
  <1> QED
    BY <1>2, <1>3, <1>4, <1>5, <1>6, <1>7, <1>8, <1>9, FindingSteps DEF Commits, p

LEMMA OfferedKept == Fit /\ Offered /\ [Next]_vars => Offered'
  <1> SUFFICES ASSUME Fit, Offered, [Next]_vars PROVE Offered'
    OBVIOUS
  <1>0. tx \in [Editors -> Txs] /\ NoTx.does = "nothing"
    BY DEF Fit, NoTx
  <1>1. \A p \in DOMAIN findings' : p.code = "qa"
    BY CodesKept DEF Offered
  <1>2. ASSUME NEW d \in Editors, NEW e \in Editors, tx'[d] = tx[d], tx'[e] = tx[e],
               tx[d].does = "apply", tx[e].does = "apply", tx[d].finding = tx[e].finding
        PROVE  d = e
    BY <1>2 DEF Offered, Offer, HoldsFinding
  <1>3. CASE tx' = tx
    <2>1. ASSUME NEW e \in Editors, tx[e].does = "apply"
          PROVE  /\ tx[e].finding \in DOMAIN findings' /\ findings'[tx[e].finding] = "open"
                 /\ text'[tx[e].finding.block] = tx[e].finding.wording
      BY <1>3, <2>1, HeldKept
    <2> QED
      BY <1>1, <1>2, <1>3, <2>1 DEF Offered, Offer, HoldsFinding
  <1>4. ASSUME NEW c \in Editors, NEW x \in Txs, tx' = [tx EXCEPT ![c] = x], x.does # "apply"
        PROVE  Offered'
    <2>1. ASSUME NEW e \in Editors, tx'[e].does = "apply"
          PROVE  /\ tx'[e] = tx[e] /\ tx[e].finding \in DOMAIN findings' /\ findings'[tx[e].finding] = "open"
                 /\ text'[tx[e].finding.block] = tx[e].finding.wording
      <3>1. e # c /\ tx'[e] = tx[e]
        BY <1>0, <1>4, <2>1
      <3> QED
        BY <2>1, <3>1, HeldKept
    <2> QED
      BY <1>1, <1>2, <2>1 DEF Offered, Offer, HoldsFinding
  <1>5. ASSUME NEW c \in Editors, NEW p \in DOMAIN findings, Applies(c, p) PROVE Offered'
    <2>1. /\ tx'[c].does = "apply" /\ tx'[c].finding = p /\ findings'[p] = "open"
          /\ text'[p.block] = p.wording /\ p \in DOMAIN findings'
          /\ \A e \in Editors : e # c => tx'[e] = tx[e]
      BY <1>0, <1>5 DEF Applies
    <2>2. \A d \in Editors : tx[d].does = "apply" => tx[d].finding # p
      BY <1>5 DEF Applies, FindingFree, HoldsFinding
    <2>3. ASSUME NEW e \in Editors, e # c, tx'[e].does = "apply"
          PROVE  /\ tx'[e] = tx[e] /\ tx[e].finding \in DOMAIN findings' /\ findings'[tx[e].finding] = "open"
                 /\ text'[tx[e].finding.block] = tx[e].finding.wording
      BY <2>1, <2>3, HeldKept
    <2> QED
      BY <1>1, <1>2, <2>1, <2>2, <2>3 DEF Offered, Offer, HoldsFinding
  <1>6. ASSUME NEW c \in Editors, NEW b \in Blocks, Locks(c, b)
        PROVE  \E x \in Txs : x.does # "apply" /\ tx' = [tx EXCEPT ![c] = x]
    <2>1. ASSUME NEW n \in Wordings
          PROVE  /\ [NoTx EXCEPT !.does = "revise", !.block = b, !.wording = n] \in Txs
                 /\ [NoTx EXCEPT !.does = "revise", !.block = b, !.wording = n].does = "revise"
      BY DEF NoTx, Txs
    <2>2. /\ [NoTx EXCEPT !.does = "remove", !.block = b, !.wording = Gone] \in Txs
          /\ [NoTx EXCEPT !.does = "remove", !.block = b, !.wording = Gone].does = "remove"
      BY DEF NoTx, Txs
    <2> QED
      BY <1>6, <2>1, <2>2 DEF Locks
  <1> QED
    BY <1>0, <1>3, <1>4, <1>5, <1>6, NoTxTyped, TxSteps

LEMMA InitOffered == Init /\ ~Audited => Offered
BY DEF Init, Offered, Offer, NoTx

\* While no auditor's finding waits on a block, a suggestion is only written over the words it was
\* made for, for any number of editors, corrections, scans, decisions and crashes, and although
\* the finding is read before its block is locked (apply_text_quality_finding).
THEOREM SuggestionsFit == ASSUME ~Audited PROVE Spec => OverItsWords
  <1>1. Init => Fit /\ Offered
    BY InitFit, InitOffered
  <1>2. Fit /\ Offered /\ [Next]_vars => (Fit /\ Offered)'
    BY FitKept, OfferedKept
  <1>3. Fit /\ Offered => \A e \in Editors : tx[e].does = "apply" /\ text' # text /\ tx'[e] = NoTx =>
                                    text[tx[e].block] = tx[e].finding.wording
    BY DEF Fit, Opened, Offered, Offer
  <1> QED
    BY <1>1, <1>2, <1>3, PTL DEF Spec, OverItsWords

--------------------------------------------------------------------------------
(* What is derived is of the text that stands.  Without reverts a text that   *)
(* is left never comes back, so that what was made of it is of no other.      *)

\* Text u has come from text t by corrections that type nothing again.
Before(t, u) == \A b \in Blocks : u[b] = Gone \/ (t[b] # Gone /\ t[b] <= u[b])

LEMMA TextWords ==
    ASSUME NEW t \in Texts, NEW b \in Blocks
    PROVE  /\ t[b] \in Wordings \cup {Gone} /\ t[b] \in Int /\ (t[b] = Gone \/ t[b] \in Nat)
           /\ Gone \notin Flawed
  <1>1. t[b] \in Wordings \cup {Gone}
    BY DEF Texts
  <1>2. Gone \in Int /\ Gone \notin Flawed
    BY WordingTyped DEF Gone
  <1>3. \A n \in Wordings : n \in Nat /\ n \in Int
    BY WordingTyped
  <1>4. CASE t[b] \in Wordings
    BY <1>1, <1>2, <1>3, <1>4
  <1>5. CASE t[b] = Gone
    BY <1>1, <1>2, <1>5
  <1> QED
    BY <1>1, <1>4, <1>5

LEMMA BeforeOrder ==
    ASSUME NEW t \in Texts, NEW u \in Texts, NEW v \in Texts
    PROVE  /\ Before(t, t) /\ (Before(t, u) /\ Before(u, v) => Before(t, v))
           /\ (Before(t, u) /\ Before(u, t) => t = u)
  <1>1. \A b \in Blocks : /\ t[b] \in Int /\ (t[b] = Gone \/ t[b] \in Nat)
                          /\ u[b] \in Int /\ (u[b] = Gone \/ u[b] \in Nat)
                          /\ v[b] \in Int /\ (v[b] = Gone \/ v[b] \in Nat)
    BY TextWords
  <1>2. Before(t, t)
    BY <1>1 DEF Before
  <1>3. Before(t, u) /\ Before(u, v) => Before(t, v)
    BY <1>1 DEF Before
  <1>4. ASSUME Before(t, u), Before(u, t) PROVE t = u
    <2>1. \A b \in Blocks : t[b] = u[b]
      BY <1>1, <1>4 DEF Before
    <2> QED
      BY <2>1 DEF Texts
  <1> QED
    BY <1>2, <1>3, <1>4

\* A block that is being changed is there and gets newer words, and nobody else changes it.
Lock(e, b) ==
    HoldsBlock(e, b) =>
        /\ text[b] # Gone /\ (tx[e].does = "revise" => tx[e].wording > text[b])
        /\ \A d \in Editors : HoldsBlock(d, b) => d = e

Locked == \A e \in Editors, b \in Blocks : Lock(e, b)

\* A correction leaves the old text behind.
LEMMA TextMoves ==
    ASSUME Fit, Offered, Locked, [Next]_vars
    PROVE  /\ text' \in Texts /\ Before(text, text')
           /\ (\E e \in Editors : Commits(e)) => text' # text
  <1>0. text \in Texts /\ \A b \in Blocks : text[b] \in Int /\ Gone \notin Flawed
    <2>1. text \in Texts
      BY DEF Fit, TypeOK
    <2> QED
      BY <2>1, TextWords
  <1>1. CASE text' = text /\ ~\E e \in Editors : Commits(e)
    BY <1>0, <1>1, BeforeOrder
  <1>2. ASSUME NEW e \in Editors, FinishRevision(e)
        PROVE  text' \in Texts /\ Before(text, text') /\ text' # text
    <2>1. /\ HoldsBlock(e, tx[e].block) /\ tx[e].block \in Blocks
          /\ tx[e].wording \in (IF tx[e].does = "remove" THEN {Gone} ELSE Wordings)
          /\ tx[e].does \in {"revise", "remove"}
      BY <1>2, RevisionFacts DEF HoldsBlock, Fit, Opened
    <2>2. /\ text[tx[e].block] # Gone
          /\ tx[e].wording = Gone \/ (tx[e].wording \in Int /\ tx[e].wording > text[tx[e].block])
      BY <2>1, WordingTyped DEF Locked, Lock
    <2>3. /\ text' \in Texts
          /\ \A b \in Blocks : text'[b] = IF b = tx[e].block THEN tx[e].wording ELSE text[b]
      BY <1>2, RevisionFacts
    <2>4. text'[tx[e].block] # text[tx[e].block]
      BY <1>0, <2>1, <2>2, <2>3
    <2>5. Before(text, text')
      BY <1>0, <2>1, <2>2, <2>3 DEF Before
    <2> QED
      BY <2>3, <2>4, <2>5
  <1>3. ASSUME NEW e \in Editors, FinishApply(e)
        PROVE  text' \in Texts /\ Before(text, text') /\ text' # text
    <2>1. tx[e].does = "apply" /\ tx[e].block \in Blocks
      BY <1>3, AppliedFacts
    <2>2. text[tx[e].block] \in Flawed /\ tx[e].wording = text[tx[e].block] + 1
      BY <2>1 DEF Offered, Offer, Fit, Opened
    <2>3. /\ text' \in Texts
          /\ \A b \in Blocks : text'[b] = IF b = tx[e].block THEN tx[e].wording ELSE text[b]
      BY <1>3, AppliedFacts
    <2>4. text'[tx[e].block] # text[tx[e].block]
      BY <1>0, <2>1, <2>2, <2>3
    <2>5. Before(text, text')
      BY <1>0, <2>1, <2>2, <2>3 DEF Before
    <2> QED
      BY <2>3, <2>4, <2>5
  <1>4. ASSUME NEW e \in Editors, ApplyInitials(e)
        PROVE  text' \in Texts /\ Before(text, text') /\ text' # text
    <2>1. /\ text' \in Texts /\ text' # text
          /\ \A b \in Blocks : text'[b] = text[b] \/ (text[b] \in Flawed /\ text'[b] = text[b] + 1)
      BY <1>4, InitialsFacts
    <2>2. Before(text, text')
      BY <1>0, <2>1 DEF Before
    <2> QED
      BY <2>1, <2>2
  <1> QED
    BY <1>1, <1>2, <1>3, <1>4, OtherSteps DEF Commits

\* The block an editor has locked keeps its words until that editor commits.
LEMMA BlockKept ==
    ASSUME Fit, Locked, [Next]_vars, NEW e \in Editors, NEW b \in Blocks, HoldsBlock(e, b), tx'[e] = tx[e]
    PROVE  text'[b] = text[b]
  <1>0. ~BlockFree(b) /\ tx[e] # NoTx /\ tx \in [Editors -> Txs]
    BY DEF BlockFree, HoldsBlock, NoTx, Fit
  <1>1. ASSUME NEW d \in Editors, FinishRevision(d) PROVE text'[b] = text[b]
    <2>1. tx' = [tx EXCEPT ![d] = NoTx] /\ HoldsBlock(d, tx[d].block)
      BY <1>1, RevisionFacts DEF HoldsBlock
    <2>2. d # e
      BY <1>0, <2>1
    <2>3. tx[d].block # b
      BY <2>1, <2>2 DEF Locked, Lock
    <2> QED
      BY <1>1, <2>3, RevisionFacts
  <1>2. ASSUME NEW d \in Editors, FinishApply(d) PROVE text'[b] = text[b]
    BY <1>0, <1>2, AppliedFacts
  <1>3. ASSUME NEW d \in Editors, ApplyInitials(d) PROVE text'[b] = text[b]
    BY <1>0, <1>3, InitialsFacts
  <1> QED
    BY <1>1, <1>2, <1>3, OtherSteps

LEMMA LockedKept == ASSUME ~Reverts, Fit, Locked, [Next]_vars PROVE Locked'
  <1>0. tx \in [Editors -> Txs]
    BY DEF Fit
  <1>1. ASSUME NEW e \in Editors, NEW b \in Blocks, tx'[e] = tx[e], HoldsBlock(e, b)
        PROVE  /\ text'[b] # Gone /\ (tx'[e].does = "revise" => tx'[e].wording > text'[b])
               /\ \A d \in Editors : tx'[d] = tx[d] /\ HoldsBlock(d, b) => d = e
    BY <1>1, BlockKept DEF Locked, Lock
  <1>2. ASSUME NEW c \in Editors, NEW x \in Txs, tx' = [tx EXCEPT ![c] = x],
               x.does \notin {"revise", "remove"}
        PROVE  Locked'
    <2>1. \A d \in Editors : tx'[d].does \in {"revise", "remove"} => tx'[d] = tx[d]
      BY <1>0, <1>2
    <2> QED
      BY <1>1, <2>1 DEF Locked, Lock, HoldsBlock
  <1>3. CASE tx' = tx
    BY <1>1, <1>3 DEF Locked, Lock, HoldsBlock
  <1>4. ASSUME NEW c \in Editors, NEW b \in Blocks, Locks(c, b) PROVE Locked'
    <2>1. /\ tx'[c].block = b /\ text' = text /\ text[b] # Gone
          /\ tx'[c].does = "revise" => tx'[c].wording > text[b]
          /\ \A d \in Editors : d # c => tx'[d] = tx[d]
      <3>1. ASSUME NEW n \in Wordings, n > text[b],
                   tx' = [tx EXCEPT ![c] = [NoTx EXCEPT !.does = "revise", !.block = b, !.wording = n]]
            PROVE  /\ tx'[c].block = b /\ tx'[c].wording > text[b]
                   /\ \A d \in Editors : d # c => tx'[d] = tx[d]
        BY <1>0, <3>1 DEF NoTx
      <3>2. ASSUME tx' = [tx EXCEPT ![c] = [NoTx EXCEPT !.does = "remove", !.block = b, !.wording = Gone]]
            PROVE  /\ tx'[c].block = b /\ tx'[c].does = "remove"
                   /\ \A d \in Editors : d # c => tx'[d] = tx[d]
        BY <1>0, <3>2 DEF NoTx
      <3> QED
        BY <1>4, <3>1, <3>2 DEF Locks
    <2>2. \A d \in Editors : ~HoldsBlock(d, b)
      BY <1>4 DEF Locks, BlockFree
    <2> QED
      BY <1>1, <2>1, <2>2 DEF Locked, Lock, HoldsBlock
  <1>5. ASSUME NEW c \in Editors, NEW p \in DOMAIN findings, Applies(c, p) PROVE Locked'
    <2>1. tx'[c].does = "apply" /\ \A d \in Editors : d # c => tx'[d] = tx[d]
      BY <1>0, <1>5 DEF Applies
    <2> QED
      BY <1>1, <2>1 DEF Locked, Lock, HoldsBlock
  <1>6. NoTx \in Txs /\ NoTx.does = "nothing"
    BY NoTxTyped DEF NoTx
  <1> QED
    BY <1>2, <1>3, <1>4, <1>5, <1>6, TxSteps

\* A job at work is on a text the edition had, and has read one it had since.
JobPast(j, t) ==
    /\ j.step \in {"remark", "read", "write"} => Before(j.hash, t)
    /\ j.step = "write" => Before(j.hash, j.read) /\ Before(j.read, t)

\* Every text that was worked on is one the edition had, in the order it had them.
Past ==
    /\ \A s \in Stages : \A t \in DOMAIN runs[s] : Before(t, text)
    /\ \A w \in Workers : JobPast(job[w], text)

LEMMA PastKept == ASSUME Fit, Offered, Locked, Past, [Next]_vars PROVE Past'
  <1>0. /\ text \in Texts /\ text' \in Texts /\ Before(text, text') /\ job \in [Workers -> Jobs]
        /\ DOMAIN runs = Stages /\ \A s \in Stages : DOMAIN runs[s] \subseteq Texts
        /\ \A w \in Workers : Employed(job[w])
    BY TextMoves DEF Fit, TypeOK
  <1>1. ASSUME NEW t \in Texts, Before(t, text) PROVE Before(t, text')
    BY <1>0, <1>1, BeforeOrder
  <1>2. ASSUME NEW w \in Workers PROVE JobPast(job[w], text')
    BY <1>0, <1>1 DEF Past, JobPast, Employed
  <1>3. \A s \in Stages : \A t \in DOMAIN runs[s] : Before(t, text')
    BY <1>0, <1>1 DEF Past
  <1>4. ASSUME NEW s \in Stages, NEW t \in Texts, NEW x, SetRun(s, t, x), Before(t, text')
        PROVE  \A u \in Stages : \A k \in DOMAIN runs'[u] : Before(k, text')
    <2>1. /\ \A u \in Stages : u # s => runs'[u] = runs[u]
          /\ DOMAIN runs'[s] = DOMAIN runs[s] \cup {t}
      BY <1>0, <1>4, SetRunFacts
    <2> QED
      BY <1>3, <1>4, <2>1
  <1>5. ASSUME NEW w \in Workers, job[w].step \in {"read", "write"}
        PROVE  job[w].hash \in Texts /\ Before(job[w].hash, text')
    BY <1>0, <1>2, <1>5 DEF JobPast, Employed
  <1>6. \A u \in Stages : \A k \in DOMAIN runs'[u] : Before(k, text')
    BY <1>0, <1>3, <1>4, <1>5, RunSteps
  <1>7. ASSUME NEW w \in Workers, NEW x \in Jobs, job' = [job EXCEPT ![w] = x], JobPast(x, text')
        PROVE  \A v \in Workers : JobPast(job'[v], text')
    <2>1. \A v \in Workers : job'[v] = x \/ job'[v] = job[v]
      BY <1>0, <1>7
    <2> QED
      BY <1>2, <1>7, <2>1
  <1>8. ASSUME NEW w \in Workers, Work(w) \/ Fail(w) \/ Crash(w)
        PROVE  \A v \in Workers : JobPast(job'[v], text')
    <2>1. PICK x \in Jobs :
             /\ job' = [job EXCEPT ![w] = x]
             /\ \/ x.step \in {"idle", "claim"}
                \/ Claim(w) /\ x.step \in {"remark", "read"} /\ x.hash = text
                \/ Read(w) /\ x.step = "write" /\ x.hash = job[w].hash /\ x.read = text
      BY <1>8, WorkFacts
    <2>2. Read(w) => Before(job[w].hash, text) /\ Before(job[w].hash, text')
      BY <1>2 DEF Read, Past, JobPast
    <2>3. JobPast(x, text')
      BY <1>0, <2>1, <2>2 DEF JobPast
    <2> QED
      BY <1>7, <2>1, <2>3
  <1>9. CASE job' = job
    BY <1>2, <1>6, <1>9 DEF Past
  <1>10. ASSUME \A v \in Workers : JobPast(job'[v], text') PROVE Past'
    BY <1>6, <1>10 DEF Past
  <1> QED
    BY <1>8, <1>9, <1>10, NoWork

\* Nothing has been made of a text that has only just come to stand.
LEMMA Fresh ==
    ASSUME Fit, Offered, Locked, Past, [Next]_vars, text' # text
    PROVE  /\ runs' = runs /\ job' = job /\ \A s \in Stages : text' \notin DOMAIN runs'[s]
  <1>0. /\ text \in Texts /\ text' \in Texts /\ Before(text, text')
    BY TextMoves DEF Fit, TypeOK
  <1>1. runs' = runs /\ job' = job
    BY OtherSteps, RevisionFacts, AppliedFacts, InitialsFacts
  <1>2. ASSUME NEW s \in Stages, text' \in DOMAIN runs[s] PROVE FALSE
    <2>1. Before(text', text)
      BY <1>2 DEF Past
    <2> QED
      BY <1>0, <2>1, BeforeOrder
  <1> QED
    BY <1>1, <1>2

\* While the worker is on an older text, nothing has been made of the text that stands.
Unseen ==
    \A w \in Workers : job[w].step \in {"remark", "read", "write"} /\ job[w].hash # text =>
        \A s \in Stages : text \notin DOMAIN runs[s]

LEMMA UnseenKept ==
    ASSUME \A v, w \in Workers : v = w, Fit, Offered, Locked, Past, Unseen, [Next]_vars
    PROVE  Unseen'
  <1>0. job \in [Workers -> Jobs]
    BY DEF Fit
  <1>1. CASE text' # text
    BY <1>1, Fresh DEF Unseen
  <1>2. CASE text' = text /\ UNCHANGED <<job, runs, made>>
    BY <1>2 DEF Unseen
  <1>3. ASSUME text' = text, NEW w \in Workers, Work(w) \/ Fail(w) \/ Crash(w) PROVE Unseen'
    <2>1. PICK x \in Jobs :
             /\ job' = [job EXCEPT ![w] = x]
             /\ \/ x.step \in {"idle", "claim"}
                \/ Claim(w) /\ x.step \in {"remark", "read"} /\ x.hash = text
                \/ Read(w) /\ x.step = "write" /\ x.hash = job[w].hash /\ x.read = text
      BY <1>3, WorkFacts
    <2>2. \A v \in Workers : job'[v] = x /\ v = w
      BY <1>0, <2>1
    <2>3. Read(w) => runs' = runs /\ job[w].step = "read"
      BY DEF Read
    <2>4. Read(w) /\ job[w].hash # text => \A s \in Stages : text' \notin DOMAIN runs'[s]
      BY <1>3, <2>3 DEF Unseen
    <2> QED
      BY <1>3, <2>1, <2>2, <2>4 DEF Unseen
  <1> QED
    BY <1>1, <1>2, <1>3, NoWork

\* What a worker is about to write of the text that stands was read from that text.
LEMMA ReadIsText ==
    ASSUME Fit, Past, NEW w \in Workers, job[w].step = "write", job[w].hash = text
    PROVE  job[w].read = text
  <1>1. text \in Texts /\ job[w].read \in Texts
    BY DEF Fit, TypeOK, Employed
  <1>2. Before(text, job[w].read) /\ Before(job[w].read, text)
    BY DEF Past, JobPast
  <1> QED
    BY <1>1, <1>2, BeforeOrder

\* Stage s has a run of text t in the rows r that succeeded.
Done(r, s, t) == t \in DOMAIN r[s] /\ r[s][t] = "succeeded"

\* A stage comes to count as done for the text that stands when a worker on that text writes.
LEMMA DoneMoves ==
    ASSUME Fit, [Next]_vars, NEW s \in Stages, Done(runs', s, text), ~Done(runs, s, text)
    PROVE  \E w \in Workers : /\ WriteSpans(w) \/ WriteLexicon(w) \/ WriteScan(w)
                              /\ job[w].stage = s /\ job[w].hash = text
  <1>0. DOMAIN runs = Stages
    BY DEF Fit
  <1>1. ASSUME NEW u \in Stages, NEW t \in Texts, NEW x \in {"running", "failed"}, SetRun(u, t, x) PROVE FALSE
    <2>1. /\ \A v \in Stages : v # u => runs'[v] = runs[v]
          /\ DOMAIN runs'[u] = DOMAIN runs[u] \cup {t} /\ runs'[u][t] = x
          /\ \A k \in DOMAIN runs[u] : k # t => runs'[u][k] = runs[u][k]
      BY <1>0, <1>1, SetRunFacts
    <2>2. CASE u # s
      BY <2>1, <2>2 DEF Done
    <2>3. CASE u = s
      BY <2>1, <2>3 DEF Done
    <2> QED
      BY <2>2, <2>3
  <1>2. ASSUME NEW w \in Workers, WriteSpans(w) \/ WriteLexicon(w) \/ WriteScan(w), job[w].stage \in Stages,
               SetRun(job[w].stage, job[w].hash, "succeeded")
        PROVE  job[w].stage = s /\ job[w].hash = text
    <2> DEFINE u == job[w].stage
               t == job[w].hash
    <2>1. /\ \A v \in Stages : v # u => runs'[v] = runs[v]
          /\ DOMAIN runs'[u] = DOMAIN runs[u] \cup {t} /\ runs'[u][t] = "succeeded"
          /\ \A k \in DOMAIN runs[u] : k # t => runs'[u][k] = runs[u][k]
      BY <1>0, <1>2, SetRunFacts
    <2> HIDE DEF u, t
    <2>2. CASE u # s
      BY <2>1, <2>2 DEF Done
    <2>3. CASE t # text
      BY <2>1, <2>2, <2>3 DEF Done
    <2> QED
      BY <2>2, <2>3 DEF u, t
  <1>3. runs' # runs
    OBVIOUS
  <1>4. text \in Texts /\ \A w \in Workers : job[w].step \in {"read", "write"} => job[w].hash \in Texts
    BY DEF Fit, TypeOK, Employed
  <1> QED
    BY <1>1, <1>2, <1>3, <1>4, RunSteps

\* No run is ever taken away.
LEMMA RunsStay == ASSUME Fit, [Next]_vars, NEW s \in Stages PROVE DOMAIN runs[s] \subseteq DOMAIN runs'[s]
  <1>0. DOMAIN runs = Stages
    BY DEF Fit
  <1>1. ASSUME NEW u \in Stages, NEW t, NEW x, SetRun(u, t, x) PROVE DOMAIN runs[s] \subseteq DOMAIN runs'[s]
    BY <1>0, <1>1, SetRunFacts
  <1> QED
    BY <1>1, RunSteps

\* The steps that change the spans: a correction, and a worker's writing them.
LEMMA SpanSteps ==
    ASSUME [Next]_vars
    PROVE  spans' = spans \/ (\E e \in Editors : Commits(e)) \/ \E w \in Workers : WriteSpans(w)
  <1>1. ASSUME NEW w \in Workers,
               Deliver(w) \/ Claim(w) \/ Remark(w) \/ Read(w) \/ WriteLexicon(w) \/ WriteScan(w) \/ Fail(w) \/ Crash(w)
        PROVE  spans' = spans
    BY <1>1 DEF Deliver, Claim, Remark, Read, WriteLexicon, WriteScan, Fail, Crash
  <1>2. ASSUME NEW e \in Editors, Revise(e) \/ Remove(e) \/ BeginApply(e) \/ Dismiss(e) \/ Reopen(e) \/ Abort(e)
        PROVE  spans' = spans
    BY <1>2 DEF Revise, Remove, LockBlock, BeginApply, Dismiss, Reopen, Decide, Abort
  <1>3. CASE (\E s \in Stages : Ask(s)) \/ Rest \/ UNCHANGED vars
    BY <1>3 DEF Ask, Rest, vars
  <1> QED
    BY <1>1, <1>2, <1>3 DEF Next, Correct, EndTx, Work, Commits

SplitFits(r, t, sp) == Done(r, "split", t) => \A b \in Blocks : t[b] # Gone => sp[b] = t[b]

LEMMA SplitKept ==
    ASSUME Fit, Offered, Locked, Past, Unseen, SplitFits(runs, text, spans), [Next]_vars
    PROVE  SplitFits(runs', text', spans')
  <1>0. "split" \in Stages
    BY DEF Stages
  <1>1. CASE text' # text
    BY <1>0, <1>1, Fresh DEF SplitFits, Done
  <1>2. ASSUME text' = text, NEW w \in Workers, WriteSpans(w) PROVE SplitFits(runs', text', spans')
    <2>1. /\ job[w].step = "write" /\ job[w].stage = "split" /\ SetRun("split", job[w].hash, "succeeded")
          /\ spans' = [b \in Blocks |-> IF Gone \in {text[b], job[w].read[b]} THEN spans[b] ELSE job[w].read[b]]
      BY <1>2 DEF WriteSpans
    <2>2. CASE job[w].hash = text
      <3>1. job[w].read = text
        BY <2>1, <2>2, ReadIsText
      <3> QED
        BY <1>2, <2>1, <3>1 DEF SplitFits
    <2>3. CASE job[w].hash # text
      <3>1. text \notin DOMAIN runs["split"]
        BY <1>0, <2>1, <2>3 DEF Unseen
      <3>2. DOMAIN runs'["split"] = DOMAIN runs["split"] \cup {job[w].hash}
        BY <1>0, <2>1, SetRunFacts DEF Fit
      <3> QED
        BY <1>2, <2>3, <3>1, <3>2 DEF SplitFits, Done
    <2> QED
      BY <2>2, <2>3
  <1>3. CASE text' = text /\ spans' = spans /\ ~\E w \in Workers : WriteSpans(w)
    <2>1. \A w \in Workers : WriteLexicon(w) \/ WriteScan(w) => job[w].stage # "split"
      BY DEF WriteLexicon, WriteScan
    <2>2. Done(runs', "split", text) => Done(runs, "split", text)
      BY <1>0, <1>3, <2>1, DoneMoves
    <2> QED
      BY <1>3, <2>2 DEF SplitFits
  <1>4. \A e \in Editors : Commits(e) => text' # text
    BY TextMoves
  <1> QED
    BY <1>1, <1>2, <1>3, <1>4, SpanSteps

\* Every finding is of a text that was scanned.
Kept == \A p \in DOMAIN findings : p.hash \in DOMAIN runs["qa"]

\* A finding of the text that stands is of its words, and was not superseded.
Stands(p) == p.hash = text => p.wording = text[p.block] /\ findings[p] # "superseded"
Standing == \A p \in DOMAIN findings : Stands(p)

LEMMA KeptKept == ASSUME Fit, Kept, [Next]_vars PROVE Kept'
  <1>0. "qa" \in Stages
    BY DEF Stages
  <1>1. ASSUME DOMAIN findings' = DOMAIN findings PROVE Kept'
    BY <1>0, <1>1, RunsStay DEF Kept
  <1>2. ASSUME NEW e \in Editors, Commits(e) PROVE DOMAIN findings' = DOMAIN findings
    BY <1>2, RevisionFacts, AppliedFacts, InitialsFacts DEF Commits
  <1>3. ASSUME NEW p \in DOMAIN findings, Decides(p) PROVE DOMAIN findings' = DOMAIN findings
    BY <1>3 DEF Decides
  <1>4. ASSUME NEW w \in Workers, Remark(w), job[w].stage = "qa" PROVE DOMAIN findings' = DOMAIN findings
    BY <1>4, RemarkFacts
  <1>5. ASSUME NEW w \in Workers, WriteScan(w) PROVE Kept'
    <2>1. SetRun("qa", job[w].hash, "succeeded")
      BY <1>5 DEF WriteScan
    <2>2. DOMAIN runs'["qa"] = DOMAIN runs["qa"] \cup {job[w].hash}
      BY <1>0, <2>1, SetRunFacts DEF Fit
    <2>3. \A p \in DOMAIN findings' : p \in DOMAIN findings \/ p.hash = job[w].hash
      BY <1>5, ScanFacts
    <2> QED
      BY <2>2, <2>3 DEF Kept
  <1> QED
    BY <1>1, <1>2, <1>3, <1>4, <1>5, FindingSteps

\* Only the scan of another text supersedes a finding while its own text stands: there is none.
LEMMA OtherIsOld ==
    ASSUME Fit, Unseen, Kept, NEW w \in Workers, job[w].step \in {"remark", "write"},
           NEW p \in OfOtherTexts(findings, job[w].hash)
    PROVE  p \in DOMAIN findings /\ p.hash # text
  <1>1. p \in DOMAIN findings /\ p.hash # job[w].hash
    BY DEF OfOtherTexts
  <1>2. CASE job[w].hash # text
    BY <1>1, <1>2 DEF Unseen, Kept, Stages
  <1> QED
    BY <1>1, <1>2

LEMMA StandingKept ==
    ASSUME Fit, Offered, Locked, Past, Unseen, Kept, Standing, [Next]_vars PROVE Standing'
  <1>0. Kept'
    BY KeptKept
  <1>1. CASE text' # text
    <2>1. \A p \in DOMAIN findings' : p.hash # text'
      BY <1>0, <1>1, Fresh DEF Kept, Stages
    <2> QED
      BY <2>1 DEF Standing, Stands
  <1>2. CASE text' = text /\ findings' = findings
    BY <1>2 DEF Standing, Stands
  <1>3. ASSUME text' = text, NEW p \in DOMAIN findings, Decides(p) PROVE Standing'
    <2>1. DOMAIN findings' = DOMAIN findings
      BY <1>3 DEF Decides
    <2>2. \A q \in DOMAIN findings : findings'[q] = "superseded" => findings[q] = "superseded"
      BY <1>3 DEF Decides
    <2> QED
      BY <1>3, <2>1, <2>2 DEF Standing, Stands
  <1>4. ASSUME text' = text, NEW w \in Workers, Remark(w), job[w].stage = "qa" PROVE Standing'
    <2>1. \A p \in OfOtherTexts(findings, job[w].hash) : p.hash # text
      BY <1>4, RemarkFacts, OtherIsOld
    <2> QED
      BY <1>4, <2>1, RemarkFacts DEF Standing, Stands
  <1>5. ASSUME text' = text, NEW w \in Workers, WriteScan(w) PROVE Standing'
    <2>1. job[w].step = "write"
      BY <1>5, ScanFacts
    <2>2. \A p \in OfOtherTexts(findings, job[w].hash) : p.hash # text
      BY <2>1, OtherIsOld
    <2>3. job[w].hash = text => job[w].read = text
      BY <2>1, ReadIsText
    <2>4. ASSUME NEW p \in DOMAIN findings', p.hash = text
          PROVE  p.wording = text[p.block] /\ findings'[p] # "superseded"
      <3>1. findings'[p] = IF p \in DOMAIN findings THEN findings[p] ELSE "open"
        BY <1>5, <2>2, <2>4, ScanFacts
      <3>2. CASE p \in DOMAIN findings
        BY <2>4, <3>1, <3>2 DEF Standing, Stands
      <3>3. CASE p \notin DOMAIN findings
        <4>1. p \in SlipsIn(job[w].read, job[w].hash)
          BY <1>5, <3>3, ScanFacts
        <4>2. p.wording = job[w].read[p.block] /\ p.hash = job[w].hash
          BY <1>5, <4>1, ScanFacts
        <4> QED
          BY <2>3, <2>4, <3>1, <3>3, <4>2
      <3> QED
        BY <3>2, <3>3
    <2> QED
      BY <1>5, <2>4 DEF Standing, Stands
  <1>6. \A e \in Editors : Commits(e) => text' # text
    BY TextMoves
  <1> QED
    BY <1>1, <1>2, <1>3, <1>4, <1>5, <1>6, FindingSteps

\* Once the text has been scanned, what is open fits it, and every slip in it has its row.
OpenFits(t, F) == \A p \in DOMAIN F : F[p] = "open" => t[p.block] = p.wording
ScanFits(r, t, F) == Done(r, "qa", t) => OpenFits(t, F) /\ SlipsIn(t, t) \subseteq DOMAIN F

LEMMA ScanKept ==
    ASSUME Fit, Offered, Locked, Past, Unseen, Kept, Standing, ScanFits(runs, text, findings), [Next]_vars
    PROVE  ScanFits(runs', text', findings')
  <1>0. "qa" \in Stages
    BY DEF Stages
  <1>1. CASE text' # text
    BY <1>0, <1>1, Fresh DEF ScanFits, Done
  <1>2. ASSUME text' = text, NEW w \in Workers, WriteScan(w) PROVE ScanFits(runs', text', findings')
    <2>1. job[w].step = "write"
      BY <1>2, ScanFacts
    <2>2. CASE job[w].hash = text
      <3>1. job[w].read = text
        BY <2>1, <2>2, ReadIsText
      <3>2. SlipsIn(text, text) \subseteq DOMAIN findings'
        BY <1>2, <2>2, <3>1, ScanFacts
      <3>3. ASSUME NEW p \in DOMAIN findings', findings'[p] = "open" PROVE text[p.block] = p.wording
        <4>1. CASE p \in DOMAIN findings
          <5>1. findings[p] = "open" /\ p \notin OfOtherTexts(findings, text)
            BY <1>2, <2>2, <3>3, <4>1, ScanFacts
          <5>2. p.hash = text
            BY <4>1, <5>1 DEF OfOtherTexts, Offered
          <5> QED
            BY <4>1, <5>2 DEF Standing, Stands
        <4>2. CASE p \notin DOMAIN findings
          BY <1>2, <3>1, <4>2, ScanFacts
        <4> QED
          BY <4>1, <4>2
      <3> QED
        BY <1>2, <3>2, <3>3 DEF ScanFits, OpenFits
    <2>3. CASE job[w].hash # text
      <3>1. text \notin DOMAIN runs["qa"]
        BY <1>0, <2>1, <2>3 DEF Unseen
      <3>2. SetRun("qa", job[w].hash, "succeeded")
        BY <1>2 DEF WriteScan
      <3>3. DOMAIN runs'["qa"] = DOMAIN runs["qa"] \cup {job[w].hash}
        BY <1>0, <3>2, SetRunFacts DEF Fit
      <3> QED
        BY <1>2, <2>3, <3>1, <3>3 DEF ScanFits, Done
    <2> QED
      BY <2>2, <2>3
  <1>3. ASSUME text' = text, ~\E w \in Workers : WriteScan(w), DOMAIN findings' = DOMAIN findings,
               OpenFits(text, findings) => OpenFits(text, findings')
        PROVE  ScanFits(runs', text', findings')
    <2>1. \A w \in Workers : WriteSpans(w) \/ WriteLexicon(w) => job[w].stage # "qa"
      BY DEF WriteSpans, WriteLexicon
    <2>2. Done(runs', "qa", text) => Done(runs, "qa", text)
      BY <1>0, <1>3, <2>1, DoneMoves
    <2> QED
      BY <1>3, <2>2 DEF ScanFits
  <1>4. ASSUME NEW p \in DOMAIN findings, Decides(p)
        PROVE  DOMAIN findings' = DOMAIN findings /\ (OpenFits(text, findings) => OpenFits(text, findings'))
    BY <1>4 DEF Decides, OpenFits
  <1>5. ASSUME NEW w \in Workers, Remark(w), job[w].stage = "qa"
        PROVE  DOMAIN findings' = DOMAIN findings /\ (OpenFits(text, findings) => OpenFits(text, findings'))
    BY <1>5, RemarkFacts DEF OpenFits
  <1>6. \A e \in Editors : Commits(e) => text' # text
    BY TextMoves
  <1> QED
    BY <1>1, <1>2, <1>3, <1>4, <1>5, <1>6, FindingSteps

Derived ==
    /\ Fit /\ Offered /\ Locked /\ Past /\ Unseen /\ Kept /\ Standing
    /\ SplitFits(runs, text, spans) /\ ScanFits(runs, text, findings)

LEMMA InitDerived == Init /\ ~Audited => Derived
  <1> SUFFICES ASSUME Init, ~Audited PROVE Derived
    OBVIOUS
  <1>1. Fit /\ Offered
    BY InitFit, InitOffered
  <1>2. /\ \A s \in Stages : DOMAIN runs[s] = {}
        /\ DOMAIN findings = {} /\ (\A w \in Workers : job[w].step = "idle")
        /\ \A e \in Editors : tx[e].does = "nothing"
    BY DEF Init, NoRows, Idle, NoTx
  <1>3. Locked /\ Past /\ Unseen /\ Kept /\ Standing
    BY <1>2 DEF Locked, Lock, HoldsBlock, Past, JobPast, Unseen, Kept, Standing
  <1>4. SplitFits(runs, text, spans) /\ ScanFits(runs, text, findings)
    BY <1>2 DEF SplitFits, ScanFits, Done, Stages
  <1> QED
    BY <1>1, <1>3, <1>4 DEF Derived

LEMMA DerivedKept ==
    ASSUME ~Reverts, \A v, w \in Workers : v = w PROVE Derived /\ [Next]_vars => Derived'
  <1> SUFFICES ASSUME Derived, [Next]_vars PROVE Derived'
    OBVIOUS
  <1>1. /\ Fit /\ Offered /\ Locked /\ Past /\ Unseen /\ Kept /\ Standing
        /\ SplitFits(runs, text, spans) /\ ScanFits(runs, text, findings)
    BY DEF Derived
  <1>2. Fit' /\ Offered' /\ Locked' /\ Past' /\ Unseen' /\ Kept' /\ Standing'
    BY <1>1, FitKept, OfferedKept, LockedKept, PastKept, UnseenKept, KeptKept, StandingKept
  <1>3. SplitFits(runs', text', spans') /\ ScanFits(runs', text', findings')
    BY <1>1, SplitKept, ScanKept
  <1> QED
    BY <1>2, <1>3 DEF Derived

LEMMA DerivedIsSaid == Derived => DerivedIsOfText
  <1> SUFFICES ASSUME Derived PROVE DerivedIsOfText
    OBVIOUS
  <1>1. \A s \in Stages : Status(s, text) = "succeeded" => Done(runs, s, text)
    BY DEF Status, Done
  <1>2. SplitIsOfText
    BY <1>1 DEF Derived, SplitFits, SplitIsOfText, Splittable, SpansFit, Present, Stages
  <1>3. \A p \in SlipsIn(text, text) : p.hash = text
    BY DEF SlipsIn
  <1>4. ScanIsOfText
    BY <1>1, <1>3 DEF Derived, ScanFits, OpenFits, Standing, Stands, ScanIsOfText, Stages
  <1> QED
    BY <1>2, <1>4 DEF DerivedIsOfText

\* The sentences that count as split are cut from the words that stand, and what the scan left open
\* is of those words, whatever is edited between the hash, the read and the write, with runs
\* that fail, workers that die and findings decided meanwhile (publication_blocker,
\* split_edition_sentences, analyze_edition_source_quality).  One worker at a time, and no
\* wording typed again: a stale run could otherwise count for a text that came back.
THEOREM DerivedStands ==
    ASSUME ~Reverts, ~Audited, \A v, w \in Workers : v = w
    PROVE  Spec => []DerivedIsOfText
  <1>1. Init => Derived
    BY InitDerived
  <1>2. Derived /\ [Next]_vars => Derived'
    BY DerivedKept
  <1>3. Derived => DerivedIsOfText
    BY DerivedIsSaid
  <1> QED
    BY <1>1, <1>2, <1>3, PTL DEF Spec
=============================================================================
