------------------------- MODULE PublicationProofs -------------------------
(***************************************************************************)
(* What Almonium serves is backed by what is here and what is behind is    *)
(* said to be, for every work, whoever writes beside the worker, but for   *)
(* the editions that torn, doubt and back name.                            *)
(*                                                                         *)
(* The argument: a publication's run is there from before the call to      *)
(* after its save, so an edition Almonium may serve though it is not       *)
(* published here has a run that has not succeeded, and whoever purges it  *)
(* then is remembered.  What a publication read is the last thing Almonium *)
(* was told, so only metadata that was sent before it and comes back can   *)
(* pass for it.                                                            *)
(***************************************************************************)
EXTENDS Publication, TLAPS

----------------------------------------------------------------------------
(* Chains, messages and the queue. *)

\* A chain has one or two editions, and so has what is left of it after its first.
LEMMA ChainFacts ==
  ASSUME NEW c \in Chains
  PROVE  /\ 1 \in DOMAIN c /\ c[1] \in Editions
         /\ \A i \in DOMAIN c : c[i] \in Editions
         /\ Len(c) > 1 => /\ Tail(c) \in Chains
                          /\ \A i \in DOMAIN Tail(c) : Tail(c)[i] = c[2]
                          /\ 2 \in DOMAIN c
<1>1. CASE \E e \in Editions : c = <<e>>
  BY <1>1
<1>2. CASE \E d, e \in Editions : c = <<d, e>>
  <2>1. PICK d \in Editions, e \in Editions : c = <<d, e>>
    BY <1>2
  <2>2. Tail(c) = <<e>>
    BY <2>1
  <2> QED BY <2>1, <2>2 DEF Chains
<1> QED BY <1>1, <1>2 DEF Chains

LEMMA MessageFacts ==
  ASSUME NEW m \in Messages
  PROVE  /\ m.chain \in Chains
         /\ m.task \in {"publish", "unpublish", "withdraw"}
         /\ m # NoMessage
         /\ m.task # "publish" => m.tries \in 0..MaxRetries /\ \E e \in Editions : m.chain = <<e>>
  BY DEF Messages, Chains, NoMessage

\* A message of a publication, and of a recall.
LEMMA PublishIsMessage ==
  ASSUME NEW c \in Chains PROVE Publish(c) \in Messages /\ Publish(c).chain = c
  BY DEF Messages, Publish

LEMMA RecallIsMessage ==
  ASSUME NEW e \in Editions, NEW task \in {"unpublish", "withdraw"}
  PROVE  [task |-> task, chain |-> <<e>>, tries |-> 0] \in Messages
  BY BoundsAssumption DEF Messages

LEMMA AddDomain ==
  ASSUME NEW q, NEW m PROVE DOMAIN Add(q, m) = DOMAIN q \cup {m}
  BY DEF Add, Put

LEMMA TakeDomain ==
  ASSUME NEW q, NEW m PROVE DOMAIN Take(q, m) \subseteq DOMAIN q
  BY DEF Take

\* A retry adds at most a message of the same chain.
LEMMA RetryDomain ==
  ASSUME NEW q, NEW m \in Messages, m.task # "publish", DOMAIN q \subseteq Messages
  PROVE  /\ DOMAIN Retry(m, q) \subseteq Messages
         /\ \A n \in DOMAIN Retry(m, q) : n \in DOMAIN q \/ n.chain = m.chain
<1> DEFINE again == [m EXCEPT !.tries = @ + 1]
           Recalls == [task : {"unpublish", "withdraw"}, chain : {<<e>> : e \in Editions},
                       tries : 0..MaxRetries]
<1>1. CASE m.tries < MaxRetries
  <2>1. m \in Recalls
    BY DEF Messages
  <2>2. again = [task |-> m.task, chain |-> m.chain, tries |-> m.tries + 1]
    BY <2>1
  <2>3. m.tries + 1 \in 0..MaxRetries
    BY <1>1, <2>1, BoundsAssumption
  <2>4. m.task \in {"unpublish", "withdraw"} /\ m.chain \in {<<e>> : e \in Editions}
    BY <2>1
  <2>5. again.chain = m.chain /\ again \in Recalls
    BY <2>2, <2>3, <2>4
  <2>6. again \in Messages
    BY <2>5, Zenon DEF Messages
  <2>7. Retry(m, q) = Add(q, again)
    BY <1>1 DEF Retry
  <2>8. DOMAIN Retry(m, q) = DOMAIN q \cup {again}
    BY <2>7, AddDomain
  <2> HIDE DEF again
  <2> QED BY <2>5, <2>6, <2>8
<1>2. CASE ~(m.tries < MaxRetries)
  BY <1>2 DEF Retry
<1> QED BY <1>1, <1>2

\* The run of a version is set, and no other.
LEMMA PutFacts ==
  ASSUME NEW f, NEW k, NEW v
  PROVE  /\ DOMAIN Put(f, k, v) = DOMAIN f \cup {k}
         /\ Put(f, k, v)[k] = v
         /\ \A x \in DOMAIN f : x # k => Put(f, k, v)[x] = f[x]
  BY DEF Put

\* What an import queues are editions of the bundle it answers for.
LEMMA PendingIsChain ==
  ASSUME NEW e \in Editions, NEW after, Pending(Slugs(e), after) # <<>>
  PROVE  Pending(Slugs(e), after) \in Chains
<1> DEFINE slugs == Slugs(e)
           left == {i \in DOMAIN slugs : after[slugs[i]] # "published"}
<1>1. slugs \in Chains
  BY SourceAssumption DEF Slugs, Bundle, Chains
<1>2. left # {}
  BY <1>1 DEF Pending
<1>3. slugs[CHOOSE i \in left : TRUE] \in Editions
  BY <1>1, <1>2, ChainFacts
<1>4. Pending(slugs, after) \in {slugs, <<slugs[CHOOSE i \in left : TRUE]>>}
  BY <1>2 DEF Pending
<1> QED BY <1>1, <1>3, <1>4 DEF Chains

----------------------------------------------------------------------------
(* Types. *)

\* The first edition of a message is an edition.
LEMMA FirstIsEdition ==
  ASSUME NEW m \in Messages PROVE m.chain[1] \in Editions
  BY MessageFacts, ChainFacts

\* What is left of a chain is queued.
LEMMA RestFacts ==
  ASSUME NEW m \in Messages, DOMAIN queue \subseteq Messages
  PROVE  /\ DOMAIN Rest(m) \subseteq Messages
         /\ \A n \in DOMAIN Rest(m) :
              n \in DOMAIN queue \/ \A i \in DOMAIN n.chain : n.chain[i] = m.chain[2] /\ 2 \in DOMAIN m.chain
<1>1. m.chain \in Chains
  BY MessageFacts
<1>2. CASE Len(m.chain) > 1
  <2>1. Tail(m.chain) \in Chains /\ 2 \in DOMAIN m.chain
    BY <1>1, <1>2, ChainFacts
  <2>2. \A i \in DOMAIN Tail(m.chain) : Tail(m.chain)[i] = m.chain[2]
    BY <1>1, <1>2, ChainFacts
  <2>3. DOMAIN Rest(m) = DOMAIN queue \cup {Publish(Tail(m.chain))}
    BY <1>2, AddDomain DEF Rest
  <2> QED BY <2>1, <2>2, <2>3, PublishIsMessage
<1>3. CASE ~(Len(m.chain) > 1)
  BY <1>3 DEF Rest
<1> QED BY <1>2, <1>3

\* Rows of runs are written one version at a time.
LEMMA SetRunTypes ==
  ASSUME TypeOK, NEW e \in Editions, NEW v \in Values,
         NEW to \in {"running", "failed", "succeeded"}, SetRun(e, v, to)
  PROVE  /\ DOMAIN runs' = Editions
         /\ \A f \in Editions : DOMAIN runs'[f] \subseteq Values
              /\ \A w \in DOMAIN runs'[f] : runs'[f][w] \in {"running", "failed", "succeeded"}
<1>1. DOMAIN runs' = Editions /\ runs'[e] = Put(runs[e], v, to)
      /\ \A f \in Editions : f # e => runs'[f] = runs[f]
  BY DEF SetRun, TypeOK
<1>2. DOMAIN runs'[e] = DOMAIN runs[e] \cup {v} /\ runs'[e][v] = to
      /\ \A x \in DOMAIN runs[e] : x # v => runs'[e][x] = runs[e][x]
  BY <1>1 DEF Put
<1>3. /\ DOMAIN runs'[e] \subseteq Values
      /\ \A w \in DOMAIN runs'[e] : runs'[e][w] \in {"running", "failed", "succeeded"}
  BY <1>2 DEF TypeOK
<1> QED BY <1>1, <1>3 DEF TypeOK

\* A publication's message is dropped, sent on or begun.
BeginsWith(m) ==
  /\ job = Idle /\ m.task = "publish"
  /\ \/ queue' = Take(queue, m) /\ UNCHANGED <<runs, job, back>>
     \/ /\ Len(m.chain) > 1 /\ queue' = Add(Take(queue, m), Publish(Tail(m.chain)))
        /\ UNCHANGED <<runs, job, back>>
     \/ /\ ~PublicationBlocked(m.chain[1])
        /\ meta[m.chain[1]] \notin Sent(m.chain[1])
        /\ SetRun(m.chain[1], meta[m.chain[1]], "running")
        /\ queue' = Take(queue, m)
        /\ job' = [msg |-> m, step |-> "call", seen |-> meta[m.chain[1]]]
        /\ back' = back \ {m.chain[1]}
  /\ UNCHANGED <<status, meta, facts, print, origin, served, form, used, torn, doubt>>

LEMMA BeginPublishCases == BeginPublish => \E m \in DOMAIN queue : BeginsWith(m)
<1> SUFFICES ASSUME BeginPublish PROVE \E m \in DOMAIN queue : BeginsWith(m)
  OBVIOUS
<1> PICK m \in DOMAIN queue :
      LET e == m.chain[1]
          left == Take(queue, m)
      IN /\ job = Idle /\ m.task = "publish"
         /\ \/ /\ PublicationBlocked(e)
               /\ queue' = left
               /\ UNCHANGED <<runs, job, back>>
            \/ /\ ~PublicationBlocked(e) /\ meta[e] \in Sent(e)
               /\ queue' = IF Len(m.chain) > 1 THEN Add(left, Publish(Tail(m.chain))) ELSE left
               /\ UNCHANGED <<runs, job, back>>
            \/ /\ ~PublicationBlocked(e) /\ meta[e] \notin Sent(e)
               /\ SetRun(e, meta[e], "running")
               /\ queue' = left
               /\ job' = [msg |-> m, step |-> "call", seen |-> meta[e]]
               /\ back' = back \ {e}
         /\ UNCHANGED <<status, meta, facts, print, origin, served, form, used, torn, doubt>>
  BY DEF BeginPublish
<1>1. CASE Len(m.chain) > 1
  BY <1>1 DEF BeginsWith
<1>2. CASE ~(Len(m.chain) > 1)
  BY <1>2 DEF BeginsWith
<1> QED BY <1>1, <1>2

\* A purge leaves no rows.
LEMMA PurgeTypes ==
  ASSUME TypeOK, NEW e, Purge(e)
  PROVE  /\ status' \in [Editions -> Statuses]
         /\ DOMAIN runs' = Editions
         /\ \A f \in Editions : DOMAIN runs'[f] \subseteq Values
              /\ \A w \in DOMAIN runs'[f] : runs'[f][w] \in {"running", "failed", "succeeded"}
<1>1. status' \in [Editions -> Statuses]
  BY DEF Purge, TypeOK, Statuses
<1>2. DOMAIN NoRuns = {}
  BY DEF NoRuns
<1>3. DOMAIN runs' = Editions /\ \A f \in Editions : runs'[f] = runs[f] \/ runs'[f] = NoRuns
  BY DEF Purge, TypeOK
<1> QED BY <1>1, <1>2, <1>3 DEF TypeOK

\* Statuses, versions, runs, messages and the worker's job keep their types.
LEMMA TypesStay == TypeOK /\ [Next]_vars => TypeOK'
<1> SUFFICES ASSUME TypeOK, [Next]_vars PROVE TypeOK'
  OBVIOUS
<1> USE BoundsAssumption, SourceAssumption DEF past
<1>1. ASSUME NEW e \in Editions, AskPublish(e) PROVE TypeOK'
  <2>1. DOMAIN queue' = DOMAIN queue \cup {Publish(<<e>>)}
    BY <1>1, AddDomain DEF AskPublish
  <2>2. Publish(<<e>>) \in Messages
    BY PublishIsMessage DEF Chains
  <2> QED BY <1>1, <2>1, <2>2 DEF AskPublish, TypeOK
<1>2. ASSUME NEW e \in Editions, AskUnpublish(e) PROVE TypeOK'
  <2>1. DOMAIN queue' = DOMAIN queue \cup {[task |-> "unpublish", chain |-> <<e>>, tries |-> 0]}
    BY <1>2, AddDomain DEF AskUnpublish
  <2> QED BY <1>2, <2>1, RecallIsMessage DEF AskUnpublish, TypeOK
<1>3. ASSUME NEW e \in Editions, NEW page \in {"confirm", "remove"}, OpenForm(e, page) PROVE TypeOK'
  BY <1>3 DEF OpenForm, TypeOK
<1>4. CASE FactsMove
  BY <1>4 DEF FactsMove, TypeOK
<1>5. ASSUME NEW e \in Editions, OriginEdits(e) PROVE TypeOK'
  <2>1. origin' \in [Editions -> 0..MaxOrigin]
    BY <1>5 DEF OriginEdits, TypeOK
  <2> QED BY <1>5, <2>1 DEF OriginEdits, TypeOK
<1>6. ASSUME NEW e \in Editions, NEW publish \in BOOLEAN, Import(e, publish) PROVE TypeOK'
  <2>1. DOMAIN queue' \subseteq Messages
    <3> DEFINE after == [x \in Editions |->
                  IF x \in {y \in {e, Source[e]} \cap Editions : ~Current(y)} /\ status[x] # "published"
                  THEN "ready" ELSE status[x]]
               pending == Pending(Slugs(e), after)
    <3>1. queue' = IF publish /\ pending # <<>> THEN Add(queue, Publish(pending)) ELSE queue
      BY <1>6 DEF Import
    <3>2. pending # <<>> => pending \in Chains
      BY PendingIsChain
    <3> HIDE DEF pending
    <3>3. pending # <<>> => Publish(pending) \in Messages
      BY <3>2, PublishIsMessage
    <3>4. CASE publish /\ pending # <<>>
      <4>1. DOMAIN queue' = DOMAIN queue \cup {Publish(pending)}
        BY <3>1, <3>4, AddDomain
      <4> QED BY <3>3, <3>4, <4>1 DEF TypeOK
    <3>5. CASE ~(publish /\ pending # <<>>)
      BY <3>1, <3>5 DEF TypeOK
    <3> QED BY <3>4, <3>5
  <2>2. status' \in [Editions -> Statuses]
    BY <1>6 DEF Import, TypeOK, Statuses
  <2> DEFINE fresh == {x \in {e, Source[e]} \cap Editions : ~Current(x)}
  <2>3. PICK new \in [fresh -> Values] :
          /\ meta' = [x \in Editions |-> IF x \in fresh THEN new[x] ELSE meta[x]]
          /\ back' = back \cup {x \in fresh : Returns(x, new[x])}
    BY <1>6 DEF Import
  <2>4. meta' \in [Editions -> Values] /\ back' \subseteq Editions
    <3> HIDE DEF fresh
    <3>1. fresh \subseteq Editions
      BY DEF fresh
    <3> QED BY <2>3, <3>1 DEF TypeOK
  <2>5. print' \in [Editions -> 0..MaxOrigin]
    BY <1>6 DEF Import, TypeOK
  <2>6. UNCHANGED <<facts, origin, runs, served, job, form, torn, doubt>>
    BY <1>6 DEF Import
  <2> QED BY <2>1, <2>2, <2>4, <2>5, <2>6 DEF TypeOK
<1>7. CASE Confirm
  <2>1. form \in [page : {"confirm", "remove"}, edition : Editions, seen : Statuses]
    BY <1>7 DEF Confirm, TypeOK, NoForm
  <2>2. DOMAIN queue' \subseteq DOMAIN queue \cup {Publish(<<form.edition>>)}
    <3>1. queue' = queue \/ queue' = Add(queue, Publish(<<form.edition>>))
      BY <1>7 DEF Confirm
    <3>2. DOMAIN Add(queue, Publish(<<form.edition>>)) = DOMAIN queue \cup {Publish(<<form.edition>>)}
      BY AddDomain
    <3> QED BY <3>1, <3>2
  <2>3. Publish(<<form.edition>>) \in Messages
    BY <2>1, PublishIsMessage DEF Chains
  <2>4. status' \in [Editions -> Statuses]
    BY <1>7, <2>1 DEF Confirm, TypeOK
  <2>5. meta' \in [Editions -> Values]
    BY <1>7, <2>1 DEF Confirm, TypeOK
  <2>6. torn' \subseteq Editions /\ back' \subseteq Editions
    BY <1>7, <2>1 DEF Confirm, TypeOK
  <2> QED BY <1>7, <2>2, <2>3, <2>4, <2>5, <2>6 DEF Confirm, TypeOK
<1>17. CASE Remove
  <2>1. form \in [page : {"confirm", "remove"}, edition : Editions, seen : Statuses]
    BY <1>17 DEF Remove, TypeOK, NoForm
  <2>2. CASE form.seen = "published"
    <3> DEFINE m == [task |-> "withdraw", chain |-> <<form.edition>>, tries |-> 0]
    <3>1. queue' = Add(queue, m) /\ UNCHANGED <<status, runs, doubt>>
      BY <1>17, <2>2 DEF Remove
    <3>2. UNCHANGED <<meta, facts, print, origin, served, job, used, torn, back>> /\ form' = NoForm
      BY <1>17 DEF Remove
    <3>3. m \in Messages
      BY <2>1, RecallIsMessage
    <3> HIDE DEF m
    <3>4. DOMAIN queue' = DOMAIN queue \cup {m}
      BY <3>1, AddDomain
    <3> QED BY <3>1, <3>2, <3>3, <3>4 DEF TypeOK
  <2>3. CASE form.seen # "published" /\ UNCHANGED <<status, runs, doubt, queue>>
    BY <1>17, <2>3 DEF Remove, TypeOK
  <2>4. CASE /\ form.seen # "published" /\ Purge(form.edition) /\ UNCHANGED queue
             /\ doubt' = IF Doubtful(form.edition) THEN doubt \cup {form.edition} ELSE doubt
    <3>1. UNCHANGED <<meta, facts, print, origin, served, job, used, torn, back>> /\ form' = NoForm
      BY <1>17 DEF Remove
    <3>2. doubt' \subseteq Editions
      BY <2>1, <2>4 DEF TypeOK
    <3> QED BY <2>4, <3>1, <3>2, PurgeTypes DEF TypeOK
  <2> QED BY <1>17, <2>2, <2>3, <2>4 DEF Remove
<1>8. CASE BeginPublish
  <2>1. PICK m \in DOMAIN queue : BeginsWith(m)
    BY <1>8, BeginPublishCases
  <2>2. m \in Messages /\ m.chain[1] \in Editions /\ m.chain \in Chains
    BY FirstIsEdition, MessageFacts DEF TypeOK
  <2>3. DOMAIN queue' \subseteq Messages
    <3>1. DOMAIN Take(queue, m) \subseteq Messages
      BY TakeDomain DEF TypeOK
    <3>2. Len(m.chain) > 1 => Publish(Tail(m.chain)) \in Messages
      BY <2>2, ChainFacts, PublishIsMessage
    <3>3. DOMAIN Add(Take(queue, m), Publish(Tail(m.chain))) =
            DOMAIN Take(queue, m) \cup {Publish(Tail(m.chain))}
      BY AddDomain
    <3>4. queue' = Take(queue, m)
          \/ (Len(m.chain) > 1 /\ queue' = Add(Take(queue, m), Publish(Tail(m.chain))))
      BY <2>1 DEF BeginsWith
    <3> QED BY <3>1, <3>2, <3>3, <3>4
  <2>4. meta[m.chain[1]] \in Values
    BY <2>2 DEF TypeOK
  <2>5. job' \in [msg : Messages, step : {"call", "save", "settle"}, seen : Values] \cup {Idle}
    BY <2>1, <2>2, <2>4 DEF BeginsWith
  <2>6. /\ DOMAIN runs' = Editions
        /\ \A f \in Editions : DOMAIN runs'[f] \subseteq Values
             /\ \A w \in DOMAIN runs'[f] : runs'[f][w] \in {"running", "failed", "succeeded"}
    BY <2>1, <2>2, <2>4, SetRunTypes DEF BeginsWith, TypeOK
  <2>7. back' \subseteq Editions
    BY <2>1 DEF BeginsWith, TypeOK
  <2> QED BY <2>1, <2>3, <2>5, <2>6, <2>7 DEF BeginsWith, TypeOK
<1>9. CASE CallPublish
  <2>1. job \in [msg : Messages, step : {"call", "save", "settle"}, seen : Values]
    BY <1>9 DEF CallPublish, TypeOK, Idle
  <2>2. Edition \in Editions
    BY <2>1, FirstIsEdition DEF Edition
  <2>3. served' \in [Editions -> Told \cup {None}]
    BY <1>9, <2>1, <2>2 DEF CallPublish, TypeOK, Told
  <2>4. job' \in [msg : Messages, step : {"call", "save", "settle"}, seen : Values] \cup {Idle}
    BY <1>9, <2>1 DEF CallPublish
  <2>5. /\ DOMAIN runs' = Editions
        /\ \A f \in Editions : DOMAIN runs'[f] \subseteq Values
             /\ \A w \in DOMAIN runs'[f] : runs'[f][w] \in {"running", "failed", "succeeded"}
    BY <1>9, <2>1, <2>2, SetRunTypes DEF CallPublish, EndRun, TypeOK
  <2> QED BY <1>9, <2>3, <2>4, <2>5 DEF CallPublish, TypeOK
<1>10. CASE SavePublish
  <2>1. job \in [msg : Messages, step : {"call", "save", "settle"}, seen : Values]
    BY <1>10 DEF SavePublish, TypeOK, Idle
  <2>2. job' \in [msg : Messages, step : {"call", "save", "settle"}, seen : Values] \cup {Idle}
    BY <1>10, <2>1 DEF SavePublish
  <2>3. status' \in [Editions -> Statuses]
    BY <1>10 DEF SavePublish, TypeOK, Statuses
  <2> QED BY <1>10, <2>2, <2>3 DEF SavePublish, TypeOK
<1>18. CASE SettlePublish
  <2>1. job \in [msg : Messages, step : {"call", "save", "settle"}, seen : Values]
    BY <1>18 DEF SettlePublish, TypeOK, Idle
  <2>2. Edition \in Editions
    BY <2>1, FirstIsEdition DEF Edition
  <2>3. DOMAIN queue' \subseteq Messages
    BY <1>18, <2>1, RestFacts DEF SettlePublish, TypeOK
  <2>5. /\ DOMAIN runs' = Editions
        /\ \A f \in Editions : DOMAIN runs'[f] \subseteq Values
             /\ \A w \in DOMAIN runs'[f] : runs'[f][w] \in {"running", "failed", "succeeded"}
    BY <1>18, <2>1, <2>2, SetRunTypes DEF SettlePublish, EndRun, TypeOK
  <2> QED BY <1>18, <2>3, <2>5 DEF SettlePublish, TypeOK
<1>11. CASE BeginRecall
  <2>1. PICK m \in DOMAIN queue :
          /\ job = Idle /\ m.task \in {"unpublish", "withdraw"}
          /\ \/ queue' \in {Retry(m, Take(queue, m)), Take(queue, m)} /\ UNCHANGED job
             \/ queue' = Take(queue, m) /\ job' = [msg |-> m, step |-> "call", seen |-> 0]
          /\ UNCHANGED <<status, meta, facts, print, origin, runs, served, form, used, past>>
    BY <1>11 DEF BeginRecall
  <2>2. m \in Messages
    BY DEF TypeOK
  <2>3. DOMAIN Take(queue, m) \subseteq Messages
    BY TakeDomain DEF TypeOK
  <2>4. DOMAIN queue' \subseteq Messages
    BY <2>1, <2>2, <2>3, RetryDomain
  <2>5. job' \in [msg : Messages, step : {"call", "save", "settle"}, seen : Values] \cup {Idle}
    BY <2>1, <2>2 DEF Values
  <2> QED BY <2>1, <2>4, <2>5 DEF TypeOK, past
<1>12. CASE CallRecall
  <2>1. job \in [msg : Messages, step : {"call", "save", "settle"}, seen : Values]
    BY <1>12 DEF CallRecall, TypeOK, Idle
  <2>2. Edition \in Editions
    BY <2>1, FirstIsEdition DEF Edition
  <2>3. served' \in [Editions -> Told \cup {None}]
    BY <1>12, <2>2 DEF CallRecall, TypeOK
  <2>4. job' \in [msg : Messages, step : {"call", "save", "settle"}, seen : Values] \cup {Idle}
    BY <1>12, <2>1 DEF CallRecall
  <2>5. DOMAIN queue' \subseteq Messages
    BY <1>12, <2>1, RetryDomain DEF CallRecall, TypeOK
  <2> QED BY <1>12, <2>3, <2>4, <2>5 DEF CallRecall, TypeOK
<1>13. CASE SaveUnpublish
  <2>1. status' \in [Editions -> Statuses]
    BY <1>13 DEF SaveUnpublish, TypeOK, Statuses
  <2> QED BY <1>13, <2>1 DEF SaveUnpublish, TypeOK
<1>14. CASE PurgeWithdrawn
  <2>1. job \in [msg : Messages, step : {"call", "save", "settle"}, seen : Values]
    BY <1>14 DEF PurgeWithdrawn, TypeOK, Idle
  <2>2. CASE RemovalBlocked(Edition)
    <3>1. DOMAIN queue' \subseteq Messages
      BY <1>14, <2>1, <2>2, RetryDomain DEF PurgeWithdrawn, TypeOK
    <3> QED BY <1>14, <2>2, <3>1 DEF PurgeWithdrawn, TypeOK
  <2>3. CASE ~RemovalBlocked(Edition)
    <3>1. Purge(Edition) /\ UNCHANGED <<queue, meta, facts, print, origin, served, form, past>> /\ job' = Idle
      BY <1>14, <2>3 DEF PurgeWithdrawn
    <3> QED BY <3>1, PurgeTypes DEF TypeOK
  <2> QED BY <2>2, <2>3
<1>15. CASE Crash
  <2>1. job \in [msg : Messages, step : {"call", "save", "settle"}, seen : Values]
    BY <1>15 DEF Crash, TypeOK
  <2>2. DOMAIN queue' \subseteq Messages
    <3>1. DOMAIN Add(queue, job.msg) = DOMAIN queue \cup {job.msg}
      BY AddDomain
    <3>2. queue' = Add(queue, job.msg) \/ queue' = queue
      BY <1>15 DEF Crash
    <3> QED BY <2>1, <3>1, <3>2 DEF TypeOK
  <2> QED BY <1>15, <2>2 DEF Crash, TypeOK
<1>16. CASE UNCHANGED vars
  BY <1>16 DEF vars, TypeOK
<1> QED BY <1>1, <1>2, <1>3, <1>4, <1>5, <1>6, <1>7, <1>8, <1>9, <1>10, <1>11, <1>12, <1>13,
           <1>14, <1>15, <1>16, <1>17, <1>18 DEF Next, Work

\* Every status, version, run, message and job is what the code may store or hold.
THEOREM PublicationTyped == Spec => []TypeOK
<1>1. Init => TypeOK
  BY BoundsAssumption DEF Init, TypeOK, NoRuns, Statuses, Values
<1> QED BY <1>1, TypesStay, PTL DEF Spec

----------------------------------------------------------------------------
(* The inductive invariant. *)

InHand(e, tasks) == job # Idle /\ job.msg.chain[1] = e /\ job.msg.task \in tasks

\* A publication under way: it is the only one of what was read, whose run is there unless the
\* edition was purged meanwhile, and its edition's source is published.
PublishHolds ==
  \A e \in Editions : InHand(e, {"publish"}) =>
    /\ job.seen \notin Sent(e)
    /\ e \in doubt \/ (Here(e) /\ HasRun(e, job.seen) /\ runs[e][job.seen] = "running")
    /\ e \in back \/ meta[e] = job.seen \/ meta[e] \notin Sent(e)
    /\ job.step # "call" => served[e] # None /\ served[e].meta = job.seen
    /\ job.step = "settle" => e \in Astray \/ status[e] = "published"
    /\ job.step # "settle" /\ Source[e] # None
         => status[Source[e]] = "published" \/ e \in Astray \/ Source[e] \in Astray

\* A recall under way: nothing published was made of its edition, and once Almonium answered
\* it serves the edition no more.
RecallHolds ==
  \A e \in Editions : InHand(e, {"unpublish", "withdraw"}) =>
    /\ job.step = "save" => served[e] = None
    /\ job.msg.task = "unpublish" =>
         \A d \in Editions : Source[d] = e =>
           status[d] # "published" \/ d \in Astray \/ e \in Astray

\* An open form is of an edition that was there.
FormHolds == form # NoForm => form.seen # "absent"

\* What is served has its text, and is published or has a publication whose end is not known.
ServedHolds ==
  \A e \in Editions : served[e] # None =>
    e \in doubt \/ (Here(e) /\ (status[e] = "published" \/ e \in torn \/ Unsettled(e)))

\* What was sent and stands is what Almonium was told last.
LastHolds ==
  \A e \in Editions :
    served[e] # None /\ meta[e] \in Sent(e) /\ e \notin back => served[e].meta = meta[e]

Inv ==
  /\ PublishHolds /\ RecallHolds /\ FormHolds /\ ServedHolds /\ LastHolds /\ DerivedHasSource

----------------------------------------------------------------------------
(* What the steps do to what the invariant speaks of. *)

\* The edition of the job is an edition.
LEMMA JobFacts ==
  ASSUME TypeOK, job # Idle
  PROVE  /\ job \in [msg : Messages, step : {"call", "save", "settle"}, seen : Values]
         /\ job.msg.chain[1] \in Editions /\ Edition = job.msg.chain[1]
         /\ job.msg.task \in {"publish", "unpublish", "withdraw"}
<1>1. job \in [msg : Messages, step : {"call", "save", "settle"}, seen : Values]
  BY DEF TypeOK
<1> QED BY <1>1, FirstIsEdition, MessageFacts DEF Edition

\* An edition with a run that is under way has one whose end is not known.
LEMMA RunningIsUnsettled ==
  ASSUME NEW e, NEW v, HasRun(e, v), runs[e][v] = "running"
  PROVE  Unsettled(e)
  BY DEF HasRun, Unsettled

\* A step that changes neither editions, runs, what is served nor the job.
LEMMA QuietStep ==
  ASSUME Inv, UNCHANGED <<status, meta, runs, served, job, torn, doubt, back>>, FormHolds'
  PROVE  Inv'
<1>1. PublishHolds'
  BY DEF Inv, PublishHolds, InHand, Sent, Here, HasRun, Astray
<1>2. RecallHolds'
  BY DEF Inv, RecallHolds, InHand, Astray
<1>3. ServedHolds' /\ LastHolds'
  BY DEF Inv, ServedHolds, LastHolds, Here, Sent, Unsettled
<1>4. DerivedHasSource'
  BY DEF Inv, DerivedHasSource, Astray
<1> QED BY <1>1, <1>2, <1>3, <1>4 DEF Inv

\* The pages change a status only by remembering it, and metadata likewise.
LEMMA PageStep ==
  ASSUME TypeOK, Inv, FormHolds', UNCHANGED <<runs, served, job, doubt>>,
         torn \subseteq torn', back \subseteq back',
         \A e \in Editions :
           /\ Here(e) => Here(e)'
           /\ e \in torn' \/ (status'[e] = "published" <=> status[e] = "published")
           /\ e \in back' \/ meta'[e] = meta[e] \/ meta'[e] \notin Sent(e)
  PROVE  Inv'
<1>1. \A e \in Editions : Sent(e)' = Sent(e) /\ (Unsettled(e)' <=> Unsettled(e))
  BY DEF Sent, Unsettled
<1>2. Astray \subseteq Astray'
  BY DEF Astray
<1>3. \A e \in Editions :
         e \in Astray' \/ (status'[e] = "published" <=> status[e] = "published")
  BY DEF Astray
<1>4. PublishHolds'
  <2> SUFFICES ASSUME NEW e \in Editions, InHand(e, {"publish"})
               PROVE  /\ job.seen \notin Sent(e)
                      /\ e \in doubt \/ (Here(e)' /\ HasRun(e, job.seen) /\ runs[e][job.seen] = "running")
                      /\ e \in back' \/ meta'[e] = job.seen \/ meta'[e] \notin Sent(e)
                      /\ job.step # "call" => served[e] # None /\ served[e].meta = job.seen
                      /\ job.step = "settle" => e \in Astray' \/ status'[e] = "published"
                      /\ job.step # "settle" /\ Source[e] # None
                           => status'[Source[e]] = "published" \/ e \in Astray' \/ Source[e] \in Astray'
    BY <1>1 DEF PublishHolds, InHand, HasRun
  <2>1. Source[e] # None => Source[e] \in Editions
    BY SourceAssumption
  <2> QED BY <1>2, <1>3, <2>1 DEF Inv, PublishHolds
<1>5. RecallHolds'
  BY <1>2, <1>3 DEF Inv, RecallHolds, InHand
<1>6. ServedHolds'
  BY <1>1 DEF Inv, ServedHolds
<1>7. LastHolds'
  BY <1>1 DEF Inv, LastHolds
<1>8. DerivedHasSource'
  <2> SUFFICES ASSUME NEW e \in Editions, status'[e] = "published", Source[e] # None
               PROVE  status'[Source[e]] = "published" \/ e \in Astray' \/ Source[e] \in Astray'
    BY DEF DerivedHasSource
  <2>1. Source[e] \in Editions
    BY SourceAssumption
  <2> QED BY <1>2, <1>3, <2>1 DEF Inv, DerivedHasSource
<1> QED BY <1>4, <1>5, <1>6, <1>7, <1>8 DEF Inv

----------------------------------------------------------------------------
(* The invariant is kept by the pages. *)

\* A form is saved.
LEMMA ConfirmKeeps ==
  ASSUME TypeOK, Inv, Confirm
  PROVE  Inv'
<1> DEFINE e == form.edition
<1>1. form \in [page : {"confirm", "remove"}, edition : Editions, seen : Statuses]
  BY DEF Confirm, TypeOK, NoForm
<1>2. form.seen # "absent"
  BY DEF Confirm, NoForm, Inv, FormHolds
<1>3. FormHolds' /\ UNCHANGED <<runs, served, job, doubt>>
  BY DEF Confirm, FormHolds
<1>4. CASE UNCHANGED <<status, meta, queue, torn, back>>
  BY <1>3, <1>4, QuietStep
<1>5. CASE \E v \in Values :
             /\ Here(e)
             /\ status' = [status EXCEPT ![e] = form.seen]
             /\ meta' = [meta EXCEPT ![e] = v]
             /\ torn' = IF status[e] # form.seen THEN torn \cup {e} ELSE torn
             /\ back' = IF Returns(e, v) THEN back \cup {e} ELSE back
  <2> PICK v \in Values :
             /\ Here(e)
             /\ status' = [status EXCEPT ![e] = form.seen]
             /\ meta' = [meta EXCEPT ![e] = v]
             /\ torn' = IF status[e] # form.seen THEN torn \cup {e} ELSE torn
             /\ back' = IF Returns(e, v) THEN back \cup {e} ELSE back
    BY <1>5
  <2>1. e \in Editions
    BY <1>1
  <2> HIDE DEF e
  <2>2. /\ status'[e] = form.seen /\ meta'[e] = v
        /\ \A f \in Editions : f # e => status'[f] = status[f] /\ meta'[f] = meta[f]
    BY <2>1 DEF TypeOK
  <2>3. torn \subseteq torn' /\ back \subseteq back'
    OBVIOUS
  <2>4. ASSUME NEW f \in Editions
        PROVE  /\ Here(f) => Here(f)'
               /\ f \in torn' \/ (status'[f] = "published" <=> status[f] = "published")
               /\ f \in back' \/ meta'[f] = meta[f] \/ meta'[f] \notin Sent(f)
    BY <1>2, <2>2 DEF Here, Returns
  <2> QED BY <1>3, <2>3, <2>4, PageStep
<1> QED BY <1>4, <1>5 DEF Confirm

\* A bundle lands.
LEMMA ImportKeeps ==
  ASSUME TypeOK, Inv, NEW e \in Editions, NEW publish \in BOOLEAN, Import(e, publish)
  PROVE  Inv'
<1> DEFINE fresh == {x \in {e, Source[e]} \cap Editions : ~Current(x)}
           after == [x \in Editions |->
                       IF x \in fresh /\ status[x] # "published" THEN "ready" ELSE status[x]]
<1>1. PICK new \in [fresh -> Values] :
          /\ meta' = [x \in Editions |-> IF x \in fresh THEN new[x] ELSE meta[x]]
          /\ back' = back \cup {x \in fresh : Returns(x, new[x])}
  BY DEF Import
<1>2. status' = after /\ UNCHANGED <<runs, served, job, form, torn, doubt>>
  BY DEF Import
<1>3. fresh \subseteq Editions
  OBVIOUS
<1> HIDE DEF fresh
<1>4. ASSUME NEW f \in Editions
      PROVE  /\ Here(f) => Here(f)'
             /\ f \in torn' \/ (status'[f] = "published" <=> status[f] = "published")
             /\ f \in back' \/ meta'[f] = meta[f] \/ meta'[f] \notin Sent(f)
  <2>1. Here(f) => Here(f)'
    BY <1>2 DEF Here
  <2>2. status'[f] = "published" <=> status[f] = "published"
    BY <1>2
  <2>3. f \in fresh => meta'[f] = new[f] /\ (Returns(f, new[f]) => f \in back')
    BY <1>1
  <2>4. f \notin fresh => meta'[f] = meta[f]
    BY <1>1
  <2> QED BY <2>1, <2>2, <2>3, <2>4 DEF Returns
<1>5. FormHolds'
  BY <1>2 DEF Inv, FormHolds
<1>6. back \subseteq back' /\ torn \subseteq torn'
  BY <1>1, <1>2
<1> QED BY <1>2, <1>4, <1>5, <1>6, PageStep

\* An edition goes: nothing here was made of it, and what Almonium may still serve of it is
\* remembered.
LEMMA PurgeKeeps ==
  ASSUME TypeOK, Inv, NEW e \in Editions, Purge(e), ~RemovalBlocked(e),
         UNCHANGED <<meta, served, torn, back>>, doubt \subseteq doubt',
         e \in doubt' \/ served[e] = None,
         job' = Idle \/ (job' = job /\ (InHand(e, {"publish"}) => e \in doubt')),
         FormHolds'
  PROVE  Inv'
<1>1. /\ \A f \in Editions : f # e => status'[f] = status[f] /\ runs'[f] = runs[f]
      /\ status'[e] = "absent" /\ DOMAIN runs'[e] = {}
  BY DEF Purge, TypeOK, NoRuns
<1>2. \A f \in Editions : f # e => Sent(f)' = Sent(f) /\ (Unsettled(f)' <=> Unsettled(f))
  BY <1>1 DEF Sent, Unsettled
<1>3. Sent(e)' = {}
  BY <1>1 DEF Sent
<1>4. Astray \subseteq Astray'
  BY DEF Astray
<1>5. \A d \in Editions : Source[d] = e => status[d] = "absent" /\ status'[d] = "absent"
  <2> SUFFICES ASSUME NEW d \in Editions, Source[d] = e
               PROVE  status[d] = "absent" /\ status'[d] = "absent"
    OBVIOUS
  <2>1. status[d] = "absent"
    BY DEF RemovalBlocked, Derived, Here
  <2> QED BY <1>1, <2>1
<1>6. PublishHolds'
  <2> SUFFICES ASSUME NEW f \in Editions, InHand(f, {"publish"})'
               PROVE  /\ job'.seen \notin Sent(f)'
                      /\ f \in doubt' \/ (Here(f)' /\ job'.seen \in DOMAIN runs'[f] /\ runs'[f][job'.seen] = "running")
                      /\ f \in back' \/ meta'[f] = job'.seen \/ meta'[f] \notin Sent(f)'
                      /\ job'.step # "call" => served'[f] # None /\ served'[f].meta = job'.seen
                      /\ job'.step = "settle" => f \in Astray' \/ status'[f] = "published"
                      /\ job'.step # "settle" /\ Source[f] # None
                           => status'[Source[f]] = "published" \/ f \in Astray' \/ Source[f] \in Astray'
    BY DEF PublishHolds, HasRun
  <2>1. job' = job /\ InHand(f, {"publish"}) /\ (InHand(e, {"publish"}) => e \in doubt')
    BY DEF InHand
  <2>2. f = e => f \in doubt' /\ f \in Astray'
    BY <2>1 DEF Astray
  <2>3. job.seen \notin Sent(f) /\ (f \in back \/ meta[f] = job.seen \/ meta[f] \notin Sent(f))
    BY <2>1 DEF Inv, PublishHolds
  <2>4. f # e => f \in doubt \/ (Here(f) /\ HasRun(f, job.seen) /\ runs[f][job.seen] = "running")
    BY <2>1 DEF Inv, PublishHolds
  <2>5. f # e => (Here(f)' <=> Here(f)) /\ (HasRun(f, job.seen)' <=> HasRun(f, job.seen))
    BY <1>1, <2>1 DEF Here, HasRun
  <2>6. job.step # "call" => served[f] # None /\ served[f].meta = job.seen
    BY <2>1 DEF Inv, PublishHolds
  <2>7. f # e /\ job.step = "settle" => f \in Astray \/ status[f] = "published"
    BY <2>1 DEF Inv, PublishHolds
  <2>8. job.step # "settle" /\ Source[f] # None
          => status[Source[f]] = "published" \/ f \in Astray \/ Source[f] \in Astray
    BY <2>1 DEF Inv, PublishHolds
  <2>9. f # e /\ Source[f] = e => f \in doubt
    BY <1>5, <2>4 DEF Here
  <2>10. Source[f] # None => Source[f] \in Editions
    BY SourceAssumption
  <2>11. job'.step # "settle" /\ Source[f] # None
           => status'[Source[f]] = "published" \/ f \in Astray' \/ Source[f] \in Astray'
    BY <1>1, <1>4, <2>1, <2>2, <2>8, <2>9, <2>10 DEF Astray
  <2>12. CASE f = e
    BY <1>3, <2>1, <2>2, <2>6, <2>11, <2>12
  <2>13. CASE f # e
    BY <1>1, <1>2, <1>4, <2>1, <2>3, <2>4, <2>5, <2>6, <2>7, <2>11, <2>13 DEF HasRun
  <2> QED BY <2>12, <2>13
<1>7. RecallHolds'
  BY <1>1, <1>4 DEF Inv, RecallHolds, InHand
<1>8. ServedHolds'
  BY <1>1, <1>2 DEF Inv, ServedHolds, Here
<1>9. LastHolds'
  BY <1>2, <1>3 DEF Inv, LastHolds
<1>10. DerivedHasSource'
  BY <1>1, <1>4, <1>5, SourceAssumption DEF Inv, DerivedHasSource
<1> QED BY <1>6, <1>7, <1>8, <1>9, <1>10 DEF Inv

\* A page removes.
LEMMA RemoveKeeps ==
  ASSUME TypeOK, Inv, Remove
  PROVE  Inv'
<1> DEFINE e == form.edition
<1>1. e \in Editions /\ form # NoForm
  BY DEF Remove, TypeOK, NoForm
<1>2. FormHolds' /\ UNCHANGED <<meta, served, job, torn, back>>
  BY DEF Remove, FormHolds
<1>3. CASE UNCHANGED <<status, runs, doubt>>
  BY <1>2, <1>3, QuietStep
<1>4. CASE /\ form.seen # "published" /\ Here(e) /\ ~RemovalBlocked(e)
           /\ Purge(e)
           /\ doubt' = IF Doubtful(e) THEN doubt \cup {e} ELSE doubt
  <2>1. e \in doubt' \/ (e \notin torn /\ ~Unsettled(e) /\ status[e] # "published")
    BY <1>4 DEF Doubtful
  <2>2. e \in doubt' \/ served[e] = None
    BY <1>1, <1>4, <2>1 DEF Inv, ServedHolds
  <2>3. InHand(e, {"publish"}) => e \in doubt'
    <3> SUFFICES ASSUME InHand(e, {"publish"}), e \notin doubt' PROVE FALSE
      OBVIOUS
    <3>1. e \notin doubt
      BY <1>4
    <3>2. HasRun(e, job.seen) /\ runs[e][job.seen] = "running"
      BY <1>1, <3>1 DEF Inv, PublishHolds
    <3>3. Unsettled(e)
      BY <3>2, RunningIsUnsettled
    <3> QED BY <2>1, <3>3
  <2>4. doubt \subseteq doubt'
    BY <1>4
  <2> HIDE DEF e
  <2> QED BY <1>1, <1>2, <1>4, <2>2, <2>3, <2>4, PurgeKeeps
<1> QED BY <1>3, <1>4 DEF Remove

----------------------------------------------------------------------------
(* The invariant is kept by the worker. *)

\* With no job under way nothing is said of jobs.
LEMMA IdleHolds == ASSUME job' = Idle PROVE PublishHolds' /\ RecallHolds'
  BY DEF PublishHolds, RecallHolds, InHand

\* A publication is dropped, sent on or begun.
LEMMA BeginPublishKeeps ==
  ASSUME TypeOK, Inv, BeginPublish
  PROVE  Inv'
<1> PICK m \in DOMAIN queue : BeginsWith(m)
  BY BeginPublishCases
<1> DEFINE e == m.chain[1]
<1>1. m \in Messages /\ e \in Editions /\ m # NoMessage
  BY FirstIsEdition, MessageFacts DEF TypeOK
<1>2. UNCHANGED <<status, meta, served, form, torn, doubt>> /\ m.task = "publish"
  BY DEF BeginsWith
<1>3. FormHolds'
  BY <1>2 DEF Inv, FormHolds
<1>4. CASE UNCHANGED <<runs, job, back>>
  BY <1>2, <1>3, <1>4, QuietStep
<1>5. CASE /\ ~PublicationBlocked(e) /\ meta[e] \notin Sent(e)
           /\ SetRun(e, meta[e], "running")
           /\ job' = [msg |-> m, step |-> "call", seen |-> meta[e]]
           /\ back' = back \ {e}
  <2> HIDE DEF e
  <2>1. /\ runs'[e] = Put(runs[e], meta[e], "running")
        /\ \A f \in Editions : f # e => runs'[f] = runs[f]
    BY <1>1, <1>5 DEF SetRun, TypeOK
  <2>2. /\ meta[e] \in DOMAIN runs'[e] /\ runs'[e][meta[e]] = "running"
        /\ \A v \in DOMAIN runs[e] : v # meta[e] => v \in DOMAIN runs'[e] /\ runs'[e][v] = runs[e][v]
        /\ DOMAIN runs'[e] = DOMAIN runs[e] \cup {meta[e]}
    BY <2>1 DEF Put
  <2>3. Sent(e)' = Sent(e) /\ Unsettled(e)'
    BY <1>5, <2>2 DEF Sent, Unsettled
  <2>4. \A f \in Editions : f # e => Sent(f)' = Sent(f) /\ (Unsettled(f)' <=> Unsettled(f))
    BY <2>1 DEF Sent, Unsettled
  <2>5. Here(e) /\ (Source[e] # None => status[Source[e]] = "published")
    BY <1>5 DEF PublicationBlocked, Here
  <2>6. PublishHolds'
    <3> SUFFICES ASSUME NEW f \in Editions, InHand(f, {"publish"})'
                 PROVE  /\ meta[e] \notin Sent(f)'
                        /\ Here(f)' /\ meta[e] \in DOMAIN runs'[f] /\ runs'[f][meta[e]] = "running"
                        /\ meta'[f] = meta[e]
                        /\ Source[f] # None => status'[Source[f]] = "published"
      BY <1>5 DEF PublishHolds, HasRun
    <3>1. f = e
      BY <1>5 DEF InHand, e
    <3> QED BY <1>2, <1>5, <2>2, <2>3, <2>5, <3>1 DEF Here
  <2>7. RecallHolds'
    BY <1>2, <1>5 DEF RecallHolds, InHand
  <2>8. ServedHolds'
    BY <1>2, <2>3, <2>4 DEF Inv, ServedHolds, Here
  <2>9. LastHolds'
    <3> SUFFICES ASSUME NEW f \in Editions, served[f] # None, meta[f] \in Sent(f)', f \notin back'
                 PROVE  served[f].meta = meta[f]
      BY <1>2 DEF LastHolds
    <3>1. f # e
      BY <1>5, <2>3
    <3> QED BY <1>5, <2>4, <3>1 DEF Inv, LastHolds
  <2>10. DerivedHasSource'
    BY <1>2 DEF Inv, DerivedHasSource, Astray
  <2> QED BY <1>3, <2>6, <2>7, <2>8, <2>9, <2>10 DEF Inv
<1> QED BY <1>4, <1>5 DEF BeginsWith

\* What a publication in hand says of its edition.
LEMMA PublishFacts ==
  ASSUME TypeOK, Inv, job # Idle, job.msg.task = "publish"
  PROVE  /\ Edition \in Editions /\ InHand(Edition, {"publish"}) /\ job.seen \in Values
         /\ job.seen \notin Sent(Edition)
         /\ \/ Edition \in doubt
            \/ Here(Edition) /\ HasRun(Edition, job.seen) /\ runs[Edition][job.seen] = "running"
         /\ Edition \in back \/ meta[Edition] = job.seen \/ meta[Edition] \notin Sent(Edition)
         /\ job.step # "call" => served[Edition] # None /\ served[Edition].meta = job.seen
         /\ job.step = "settle" => Edition \in Astray \/ status[Edition] = "published"
         /\ job.step # "settle" /\ Source[Edition] # None
              => status[Source[Edition]] = "published" \/ Edition \in Astray \/ Source[Edition] \in Astray
<1>1. Edition \in Editions /\ InHand(Edition, {"publish"}) /\ job.seen \in Values
  BY JobFacts DEF InHand
<1> QED BY <1>1 DEF Inv, PublishHolds

\* The end of a run: which runs there are then.
LEMMA EndRunFacts ==
  ASSUME TypeOK, NEW e \in Editions, NEW v, NEW to, EndRun(e, v, to), v \notin Sent(e)
  PROVE  /\ \A f \in Editions : f # e => Sent(f)' = Sent(f) /\ (Unsettled(f)' <=> Unsettled(f))
         /\ Sent(e)' \subseteq Sent(e) \cup {v}
         /\ to = "failed" => Sent(e)' = Sent(e) /\ (HasRun(e, v) => Unsettled(e)')
<1>1. /\ \A f \in Editions : f # e => runs'[f] = runs[f]
      /\ HasRun(e, v) => runs'[e] = Put(runs[e], v, to)
      /\ ~HasRun(e, v) => runs'[e] = runs[e]
  BY DEF EndRun, SetRun, TypeOK
<1>2. CASE ~HasRun(e, v)
  BY <1>1, <1>2 DEF Sent, Unsettled
<1>3. CASE HasRun(e, v)
  <2>1. /\ DOMAIN runs'[e] = DOMAIN runs[e] /\ runs'[e][v] = to /\ v \in DOMAIN runs[e]
        /\ \A x \in DOMAIN runs[e] : x # v => runs'[e][x] = runs[e][x]
    BY <1>1, <1>3 DEF Put, HasRun
  <2>2. Sent(e)' \subseteq Sent(e) \cup {v}
    BY <2>1 DEF Sent
  <2>3. to = "failed" => v \notin Sent(e)' /\ Unsettled(e)'
    BY <2>1 DEF Sent, Unsettled
  <2>4. Sent(e) \subseteq Sent(e)'
    BY <2>1 DEF Sent
  <2> QED BY <1>1, <2>2, <2>3, <2>4 DEF Sent, Unsettled
<1> QED BY <1>2, <1>3

\* A call ends, or its answer is lost: then its run has failed.
LEMMA CallPublishKeeps ==
  ASSUME TypeOK, Inv, CallPublish
  PROVE  Inv'
<1> DEFINE told == [meta |-> job.seen, facts |-> facts]
<1>1. job # Idle /\ job.msg.task = "publish" /\ job.step = "call"
  BY DEF CallPublish, Idle, NoMessage
<1> PICK e \in Editions : e = Edition
  BY <1>1, PublishFacts
<1>2. UNCHANGED <<status, meta, facts, form, torn, doubt, back>>
  BY DEF CallPublish, past
<1>3. /\ e \in Editions
      /\ job.seen \notin Sent(e)
      /\ e \in doubt \/ (Here(e) /\ HasRun(e, job.seen) /\ runs[e][job.seen] = "running")
      /\ e \in back \/ meta[e] = job.seen \/ meta[e] \notin Sent(e)
  BY <1>1, PublishFacts
<1>4. FormHolds' /\ DerivedHasSource'
  BY <1>2 DEF Inv, FormHolds, DerivedHasSource, Astray
<1>5. told # None => told.meta = job.seen
  OBVIOUS
<1>6. CASE served' = [served EXCEPT ![e] = told] /\ job' = [job EXCEPT !.step = "save"] /\ UNCHANGED runs
  <2>1. served'[e] = told /\ \A f \in Editions : f # e => served'[f] = served[f]
    BY <1>3, <1>6 DEF TypeOK
  <2>2. \A f \in Editions : Sent(f)' = Sent(f) /\ (Unsettled(f)' <=> Unsettled(f))
    BY <1>6 DEF Sent, Unsettled
  <2>3. served'[e] # None
    <3>1. job.seen \in Values /\ facts \in 0..MaxFacts
      BY <1>1, PublishFacts DEF TypeOK
    <3> QED BY <2>1, <3>1, NoneAssumption DEF Values
  <2>4. job'.msg = job.msg /\ job'.seen = job.seen /\ job'.step = "save"
    BY <1>6, <1>1, JobFacts
  <2> HIDE DEF told
  <2>5. PublishHolds'
    <3> SUFFICES ASSUME NEW f \in Editions, InHand(f, {"publish"})'
                 PROVE  /\ job.seen \notin Sent(f)'
                        /\ f \in doubt' \/ (Here(f)' /\ job.seen \in DOMAIN runs'[f] /\ runs'[f][job.seen] = "running")
                        /\ f \in back' \/ meta'[f] = job.seen \/ meta'[f] \notin Sent(f)'
                        /\ served'[f] # None /\ served'[f].meta = job.seen
                        /\ Source[f] # None
                             => status'[Source[f]] = "published" \/ f \in Astray' \/ Source[f] \in Astray'
      BY <2>4 DEF PublishHolds, HasRun
    <3>1. f = e
      BY <2>4 DEF InHand, Edition
    <3>2. Source[e] # None
            => status[Source[e]] = "published" \/ e \in Astray \/ Source[e] \in Astray
      BY <1>1, PublishFacts
    <3>3. served'[f] # None /\ served'[f].meta = job.seen
      BY <1>5, <2>1, <2>3, <3>1
    <3>4. Astray' = Astray
      BY <1>2 DEF Astray
    <3> QED BY <1>2, <1>3, <1>6, <2>2, <3>1, <3>2, <3>3, <3>4 DEF Here, HasRun
  <2>6. RecallHolds'
    BY <1>1, <2>4 DEF RecallHolds, InHand
  <2>7. ServedHolds'
    <3>1. e \in doubt \/ (Here(e) /\ Unsettled(e))
      BY <1>3, RunningIsUnsettled
    <3> QED BY <1>2, <2>1, <2>2, <3>1 DEF Inv, ServedHolds, Here
  <2>8. LastHolds'
    BY <1>2, <1>3, <1>5, <2>1, <2>2, <2>3 DEF Inv, LastHolds
  <2> QED BY <1>4, <2>5, <2>6, <2>7, <2>8 DEF Inv
<1>7. CASE served' \in {served, [served EXCEPT ![e] = told]} /\ EndRun(e, job.seen, "failed") /\ job' = Idle
  <2>1. /\ served'[e] = served[e] \/ served'[e] = told
        /\ \A f \in Editions : f # e => served'[f] = served[f]
    BY <1>3, <1>7 DEF TypeOK
  <2>2. \A f \in Editions : f # e => Sent(f)' = Sent(f) /\ (Unsettled(f)' <=> Unsettled(f))
    BY <1>3, <1>7, EndRunFacts
  <2>3. Sent(e)' = Sent(e) /\ (HasRun(e, job.seen) => Unsettled(e)')
    BY <1>3, <1>7, EndRunFacts
  <2>4. e \in doubt \/ (Here(e) /\ Unsettled(e)')
    BY <1>3, <2>3
  <2>5. PublishHolds' /\ RecallHolds'
    BY <1>7, IdleHolds
  <2>6. ServedHolds'
    BY <1>2, <2>1, <2>2, <2>4 DEF Inv, ServedHolds, Here
  <2>7. LastHolds'
    <3> SUFFICES ASSUME NEW f \in Editions, served'[f] # None, meta[f] \in Sent(f)', f \notin back
                 PROVE  served'[f].meta = meta[f]
      BY <1>2 DEF LastHolds
    <3>1. CASE f = e
      BY <1>3, <2>3, <3>1
    <3>2. CASE f # e
      BY <2>1, <2>2, <3>2 DEF Inv, LastHolds
    <3> QED BY <3>1, <3>2
  <2> QED BY <1>4, <2>5, <2>6, <2>7 DEF Inv
<1> QED BY <1>6, <1>7 DEF CallPublish

\* The edition is published.
LEMMA SavePublishKeeps ==
  ASSUME TypeOK, Inv, SavePublish
  PROVE  Inv'
<1> DEFINE e == Edition
<1>1. job # Idle /\ job.msg.task = "publish" /\ job.step = "save"
  BY DEF SavePublish, Idle, NoMessage
<1>2. UNCHANGED <<meta, runs, served, form, torn, doubt, back>>
  BY DEF SavePublish, past
<1>3. e \in Editions /\ \A f \in Editions : f # e => status'[f] = status[f]
  BY <1>1, PublishFacts DEF SavePublish, TypeOK
<1>4. /\ Here(e) => status'[e] = "published" /\ job' = [job EXCEPT !.step = "settle"]
      /\ ~Here(e) => status'[e] = status[e] /\ job' = Idle
  BY <1>3 DEF SavePublish, TypeOK
<1>5. /\ e \in doubt \/ (Here(e) /\ HasRun(e, job.seen) /\ runs[e][job.seen] = "running")
      /\ job.seen \notin Sent(e)
      /\ e \in back \/ meta[e] = job.seen \/ meta[e] \notin Sent(e)
      /\ served[e] # None /\ served[e].meta = job.seen
      /\ Source[e] # None
           => status[Source[e]] = "published" \/ e \in Astray \/ Source[e] \in Astray
  BY <1>1, PublishFacts
<1> HIDE DEF e
<1>6. \A f \in Editions : Here(f)' <=> Here(f)
  BY <1>3, <1>4 DEF Here
<1>7. \A f \in Editions : /\ Sent(f)' = Sent(f) /\ (Unsettled(f)' <=> Unsettled(f))
                          /\ \A v : HasRun(f, v)' <=> HasRun(f, v)
  BY <1>2 DEF Sent, Unsettled, HasRun
<1>8. Astray' = Astray
  BY <1>2 DEF Astray
<1>9. FormHolds'
  BY <1>2 DEF Inv, FormHolds
<1>10. PublishHolds' /\ RecallHolds'
  <2>1. CASE ~Here(e)
    BY <1>4, <2>1, IdleHolds
  <2>2. CASE Here(e)
    <3>1. job'.msg = job.msg /\ job'.seen = job.seen /\ job'.step = "settle"
      BY <1>1, <1>4, <2>2, JobFacts
    <3>2. ASSUME NEW f \in Editions, InHand(f, {"publish"})' PROVE f = e
      BY <3>1, <3>2 DEF InHand, Edition, e
    <3>3. PublishHolds'
      <4> SUFFICES ASSUME NEW f \in Editions, InHand(f, {"publish"})'
                   PROVE  /\ job.seen \notin Sent(f)'
                          /\ f \in doubt' \/ (Here(f)' /\ job.seen \in DOMAIN runs'[f] /\ runs'[f][job.seen] = "running")
                          /\ f \in back' \/ meta'[f] = job.seen \/ meta'[f] \notin Sent(f)'
                          /\ served'[f] # None /\ served'[f].meta = job.seen
                          /\ status'[f] = "published"
        BY <3>1 DEF PublishHolds, HasRun
      <4> QED BY <1>2, <1>4, <1>5, <1>6, <1>7, <2>2, <3>2 DEF HasRun
    <3>4. RecallHolds'
      BY <1>1, <3>1 DEF RecallHolds, InHand
    <3> QED BY <3>3, <3>4
  <2> QED BY <2>1, <2>2
<1>11. ServedHolds'
  BY <1>2, <1>3, <1>4, <1>6, <1>7 DEF Inv, ServedHolds
<1>12. LastHolds'
  BY <1>2, <1>7 DEF Inv, LastHolds
<1>13. DerivedHasSource'
  <2> SUFFICES ASSUME NEW f \in Editions, status'[f] = "published", Source[f] # None
               PROVE  status'[Source[f]] = "published" \/ f \in Astray \/ Source[f] \in Astray
    BY <1>8 DEF DerivedHasSource
  <2>1. status[Source[f]] = "published" \/ f \in Astray \/ Source[f] \in Astray
    BY <1>3, <1>5 DEF Inv, DerivedHasSource
  <2>2. Source[f] \in Editions
    BY SourceAssumption
  <2> QED BY <1>3, <1>4, <2>1, <2>2
<1> QED BY <1>9, <1>10, <1>11, <1>12, <1>13 DEF Inv

\* Its run has succeeded.
LEMMA SettlePublishKeeps ==
  ASSUME TypeOK, Inv, SettlePublish
  PROVE  Inv'
<1>1. job # Idle /\ job.step = "settle"
  BY DEF SettlePublish, Idle
<1>2. job.msg.task = "publish"
  BY DEF SettlePublish
<1> PICK e \in Editions : e = Edition
  BY <1>1, <1>2, PublishFacts
<1>3. UNCHANGED <<status, meta, served, form, torn, doubt, back>> /\ job' = Idle
      /\ EndRun(e, job.seen, "succeeded")
  BY DEF SettlePublish, past
<1>4. /\ e \in Editions
      /\ job.seen \notin Sent(e)
      /\ e \in doubt \/ (Here(e) /\ HasRun(e, job.seen) /\ runs[e][job.seen] = "running")
      /\ e \in back \/ meta[e] = job.seen \/ meta[e] \notin Sent(e)
      /\ served[e] # None /\ served[e].meta = job.seen
      /\ e \in Astray \/ status[e] = "published"
  BY <1>1, <1>2, PublishFacts
<1>5. \A f \in Editions : f # e => Sent(f)' = Sent(f) /\ (Unsettled(f)' <=> Unsettled(f))
  BY <1>3, <1>4, EndRunFacts
<1>6. Sent(e)' \subseteq Sent(e) \cup {job.seen}
  BY <1>3, <1>4, EndRunFacts
<1>7. PublishHolds' /\ RecallHolds'
  BY <1>3, IdleHolds
<1>8. ServedHolds'
  BY <1>3, <1>4, <1>5 DEF Inv, ServedHolds, Here, Astray
<1>9. LastHolds'
  BY <1>3, <1>4, <1>5, <1>6 DEF Inv, LastHolds
<1>10. DerivedHasSource' /\ FormHolds'
  BY <1>3 DEF Inv, DerivedHasSource, FormHolds, Astray
<1> QED BY <1>7, <1>8, <1>9, <1>10 DEF Inv

\* An unpublishing or a withdrawal is refused or begun.
LEMMA BeginRecallKeeps ==
  ASSUME TypeOK, Inv, BeginRecall
  PROVE  Inv'
<1> PICK m \in DOMAIN queue :
          /\ job = Idle /\ m.task \in {"unpublish", "withdraw"}
          /\ \/ UNCHANGED job
             \/ /\ m.task = "unpublish" => ~UnpublishBlocked(m.chain[1])
                /\ job' = [msg |-> m, step |-> "call", seen |-> 0]
          /\ UNCHANGED <<status, meta, facts, print, origin, runs, served, form, used, past>>
  BY DEF BeginRecall
<1>1. UNCHANGED <<status, meta, runs, served, form, torn, doubt, back>>
  BY DEF past
<1>2. FormHolds' /\ ServedHolds' /\ LastHolds' /\ DerivedHasSource'
  BY <1>1 DEF Inv, FormHolds, ServedHolds, LastHolds, DerivedHasSource, Astray, Here, Unsettled, Sent
<1>3. CASE job' = job
  BY <1>1, <1>2, <1>3, QuietStep
<1>4. CASE /\ m.task = "unpublish" => ~UnpublishBlocked(m.chain[1])
           /\ job' = [msg |-> m, step |-> "call", seen |-> 0]
  <2>1. PublishHolds'
    BY <1>4 DEF PublishHolds, InHand
  <2>2. RecallHolds'
    <3> SUFFICES ASSUME NEW e \in Editions, InHand(e, {"unpublish", "withdraw"})',
                        m.task = "unpublish", NEW d \in Editions, Source[d] = e
                 PROVE  status[d] # "published"
      BY <1>1, <1>4 DEF RecallHolds
    <3>1. e = m.chain[1]
      BY <1>4 DEF InHand
    <3> QED BY <1>4, <3>1 DEF UnpublishBlocked, Derived, Here
  <2> QED BY <1>2, <2>1, <2>2 DEF Inv
<1> QED BY <1>3, <1>4

\* Almonium lets go of the edition, or its answer is lost.
LEMMA CallRecallKeeps ==
  ASSUME TypeOK, Inv, CallRecall
  PROVE  Inv'
<1> DEFINE e == Edition
<1>1. job # Idle /\ job.msg.task \in {"unpublish", "withdraw"}
  BY DEF CallRecall, Idle, NoMessage
<1>2. UNCHANGED <<status, meta, runs, form, torn, doubt, back>>
  BY DEF CallRecall, past
<1>3. e \in Editions /\ job \in [msg : Messages, step : {"call", "save", "settle"}, seen : Values]
  BY <1>1, JobFacts
<1>4. \A f \in Editions : served'[f] = served[f] \/ served'[f] = None
  BY <1>3 DEF CallRecall, TypeOK
<1>5. FormHolds' /\ ServedHolds' /\ LastHolds' /\ DerivedHasSource'
  BY <1>2, <1>4 DEF Inv, FormHolds, ServedHolds, LastHolds, DerivedHasSource, Astray, Here, Unsettled, Sent
<1>6. CASE job' = Idle
  BY <1>5, <1>6, IdleHolds DEF Inv
<1>7. CASE job' = [job EXCEPT !.step = "save"] /\ served' = [served EXCEPT ![e] = None]
  <2>1. job'.msg = job.msg /\ served'[e] = None
    BY <1>3, <1>7 DEF TypeOK
  <2>2. PublishHolds'
    BY <1>1, <2>1 DEF PublishHolds, InHand
  <2>3. RecallHolds'
    <3> SUFFICES ASSUME NEW f \in Editions, InHand(f, {"unpublish", "withdraw"})'
                 PROVE  /\ served'[f] = None
                        /\ job.msg.task = "unpublish" =>
                             \A d \in Editions : Source[d] = f =>
                               status'[d] # "published" \/ d \in Astray' \/ f \in Astray'
      BY <2>1 DEF RecallHolds
    <3>1. f = e /\ InHand(f, {"unpublish", "withdraw"})
      BY <1>1, <2>1 DEF InHand, Edition
    <3> QED BY <1>2, <2>1, <3>1 DEF Inv, RecallHolds, Astray
  <2> QED BY <1>5, <2>2, <2>3 DEF Inv
<1> QED BY <1>6, <1>7 DEF CallRecall

\* What a recall in hand says of its edition.
LEMMA RecallFacts ==
  ASSUME TypeOK, Inv, job # Idle, job.msg.task \in {"unpublish", "withdraw"}, job.step = "save"
  PROVE  /\ Edition \in Editions /\ served[Edition] = None
         /\ job.msg.task = "unpublish" =>
              \A d \in Editions : Source[d] = Edition =>
                status[d] # "published" \/ d \in Astray \/ Edition \in Astray
<1>1. Edition \in Editions /\ InHand(Edition, {"unpublish", "withdraw"})
  BY JobFacts DEF InHand
<1> QED BY <1>1 DEF Inv, RecallHolds

\* The status is put back.
LEMMA SaveUnpublishKeeps ==
  ASSUME TypeOK, Inv, SaveUnpublish
  PROVE  Inv'
<1> DEFINE e == Edition
<1>1. /\ e \in Editions /\ served[e] = None
      /\ \A d \in Editions : Source[d] = e =>
           status[d] # "published" \/ d \in Astray \/ e \in Astray
  BY RecallFacts DEF SaveUnpublish, Idle, NoMessage
<1>2. UNCHANGED <<meta, runs, served, form, torn, doubt, back>> /\ job' = Idle
  BY DEF SaveUnpublish, past
<1>3. /\ status'[e] # "published" \/ status'[e] = status[e]
      /\ \A f \in Editions : f # e => status'[f] = status[f]
  BY <1>1 DEF SaveUnpublish, TypeOK
<1>4. status'[e] # "published"
  BY <1>1 DEF SaveUnpublish, TypeOK, Here
<1> HIDE DEF e
<1>5. FormHolds' /\ LastHolds'
  BY <1>2 DEF Inv, FormHolds, LastHolds, Sent
<1>6. ServedHolds'
  BY <1>1, <1>2, <1>3 DEF Inv, ServedHolds, Here, Unsettled
<1>7. DerivedHasSource'
  <2> SUFFICES ASSUME NEW f \in Editions, status'[f] = "published", Source[f] # None
               PROVE  status'[Source[f]] = "published" \/ f \in Astray \/ Source[f] \in Astray
    BY <1>2 DEF DerivedHasSource, Astray
  <2>1. f # e /\ status[f] = "published" /\ Source[f] \in Editions
    BY <1>3, <1>4, SourceAssumption
  <2>2. status[Source[f]] = "published" \/ f \in Astray \/ Source[f] \in Astray
    BY <2>1 DEF Inv, DerivedHasSource
  <2> QED BY <1>1, <1>3, <2>1, <2>2
<1> QED BY <1>2, <1>5, <1>6, <1>7, IdleHolds DEF Inv

\* The text goes: Almonium no longer serves it, and nothing here was made of it.
LEMMA PurgeWithdrawnKeeps ==
  ASSUME TypeOK, Inv, PurgeWithdrawn
  PROVE  Inv'
<1> DEFINE e == Edition
<1>1. e \in Editions /\ served[e] = None
  BY RecallFacts DEF PurgeWithdrawn, Idle, NoMessage
<1>2. UNCHANGED <<meta, served, form, torn, doubt, back>> /\ job' = Idle
  BY DEF PurgeWithdrawn, past
<1>3. FormHolds'
  BY <1>2 DEF Inv, FormHolds
<1>4. CASE RemovalBlocked(e)
  <2>1. UNCHANGED <<status, runs>>
    BY <1>4 DEF PurgeWithdrawn
  <2>2. ServedHolds' /\ LastHolds' /\ DerivedHasSource'
    BY <1>2, <2>1 DEF Inv, ServedHolds, LastHolds, DerivedHasSource, Astray, Here, Unsettled, Sent
  <2> QED BY <1>2, <1>3, <2>2, IdleHolds DEF Inv
<1>5. CASE ~RemovalBlocked(e)
  <2>1. Purge(e)
    BY <1>5 DEF PurgeWithdrawn
  <2> QED BY <1>1, <1>2, <1>3, <1>5, <2>1, PurgeKeeps
<1> QED BY <1>4, <1>5

\* A worker dies: what it was about is no longer in hand.
LEMMA CrashKeeps ==
  ASSUME Inv, Crash
  PROVE  Inv'
<1>1. UNCHANGED <<status, meta, runs, served, form, torn, doubt, back>> /\ job' = Idle
  BY DEF Crash, past
<1>2. FormHolds' /\ ServedHolds' /\ LastHolds' /\ DerivedHasSource'
  BY <1>1 DEF Inv, FormHolds, ServedHolds, LastHolds, DerivedHasSource, Astray, Here, Unsettled, Sent
<1> QED BY <1>1, <1>2, IdleHolds DEF Inv

----------------------------------------------------------------------------
(* The theorems. *)

LEMMA InvBegins == Init => Inv
<1> SUFFICES ASSUME Init PROVE Inv
  OBVIOUS
<1>1. PublishHolds /\ RecallHolds
  BY DEF Init, PublishHolds, RecallHolds, InHand
<1>2. FormHolds /\ ServedHolds /\ LastHolds /\ DerivedHasSource
  BY DEF Init, FormHolds, ServedHolds, LastHolds, DerivedHasSource
<1> QED BY <1>1, <1>2 DEF Inv

LEMMA InvStays == TypeOK /\ Inv /\ [Next]_vars => Inv'
<1> SUFFICES ASSUME TypeOK, Inv, [Next]_vars PROVE Inv'
  OBVIOUS
<1>1. ASSUME NEW e \in Editions, AskPublish(e) \/ AskUnpublish(e) \/ OriginEdits(e) PROVE Inv'
  <2>1. UNCHANGED <<status, meta, runs, served, job, form, torn, doubt, back>>
    BY <1>1 DEF AskPublish, AskUnpublish, OriginEdits, past
  <2>2. FormHolds'
    BY <2>1 DEF Inv, FormHolds
  <2> QED BY <2>1, <2>2, QuietStep
<1>2. ASSUME NEW e \in Editions, NEW page \in {"confirm", "remove"}, OpenForm(e, page) PROVE Inv'
  <2>1. UNCHANGED <<status, meta, runs, served, job, torn, doubt, back>>
    BY <1>2 DEF OpenForm, past
  <2>2. FormHolds'
    BY <1>2 DEF OpenForm, FormHolds, Here
  <2> QED BY <2>1, <2>2, QuietStep
<1>3. ASSUME NEW e \in Editions, NEW publish \in BOOLEAN, Import(e, publish) PROVE Inv'
  BY <1>3, ImportKeeps
<1>4. CASE FactsMove \/ UNCHANGED vars
  <2>1. UNCHANGED <<status, meta, runs, served, job, form, torn, doubt, back>>
    BY <1>4 DEF FactsMove, vars, past
  <2>2. FormHolds'
    BY <2>1 DEF Inv, FormHolds
  <2> QED BY <2>1, <2>2, QuietStep
<1> QED BY <1>1, <1>2, <1>3, <1>4, ConfirmKeeps, RemoveKeeps, BeginPublishKeeps, CallPublishKeeps,
           SavePublishKeeps, SettlePublishKeeps, BeginRecallKeeps, CallRecallKeeps,
           SaveUnpublishKeeps, PurgeWithdrawnKeeps, CrashKeeps
        DEF Next, Work

LEMMA InvAlways == Spec => [](TypeOK /\ Inv)
<1>1. Init => Inv
  BY InvBegins
<1>2. TypeOK /\ Inv /\ [Next]_vars => Inv'
  BY InvStays
<1> QED BY <1>1, <1>2, PublicationTyped, PTL DEF Spec

\* What Almonium serves keeps its text here, and what was made of a published edition is
\* published only with it, over lost answers, purges, imports and forms that write late, for
\* every work: the editions for which it can fail are those torn and doubt name.
THEOREM NothingShownIsLost == Spec => []ShownIsBacked
<1>1. Inv => ShownIsBacked
  BY DEF Inv, ShownIsBacked, LiveHasText, ServedHolds
<1> QED BY <1>1, InvAlways, PTL

\* A published edition whose metadata Almonium does not serve is said to be behind, unless that
\* metadata was sent before and came back.
THEOREM BehindIsSaid == Spec => []StaleIsSeen
<1>1. Inv => StaleIsSeen
  BY DEF Inv, StaleIsSeen, LastHolds, Stale
<1> QED BY <1>1, InvAlways, PTL

=============================================================================
