---------------------------- MODULE CanvasProofs ----------------------------
(***************************************************************************)
(* Theorems about a request of the harness, applied to the scene           *)
(* (CanvasWorkflow), for any scene, operations and limits.                 *)
(***************************************************************************)
EXTENDS CanvasWorkflow, FiniteSetTheorems, SequenceTheorems, WellFoundedInduction, TLAPS

----------------------------------------------------------------------------
(* Induction up to a number, and what is computed step by step.            *)

\* A set of the numbers up to n that holds 0, and with each its successor, holds them all:
\* it has no least number it misses.
LEMMA UpTo ==
  ASSUME NEW n \in Nat, NEW S, 0 \in S, \A i \in 0 .. n - 1 : i \in S => i + 1 \in S
  PROVE  \A i \in 0 .. n : i \in S
<1> DEFINE Missed == {i \in Nat : i <= n /\ i \notin S}
<1>1. SUFFICES ASSUME Missed # {} PROVE FALSE
  OBVIOUS
<1>2. PICK m \in Missed : \A k \in Missed : ~(<<k, m>> \in OpToRel(<, Nat))
  BY <1>1, NatLessThanWellFounded, WFMin
<1>3. \A k \in Missed : ~(k < m)
  BY <1>2 DEF OpToRel
<1>4. m # 0 /\ m - 1 \in Nat /\ m - 1 < m
  OBVIOUS
<1>5. m - 1 \notin Missed
  BY <1>3, <1>4
<1> QED BY <1>4, <1>5

\* The positions up to i that are in places.
Upto(places, i) == places \cap (1 .. i)

LEMMA UptoGrows ==
  ASSUME NEW places, NEW i \in Nat
  PROVE  /\ IsFiniteSet(Upto(places, i)) /\ Cardinality(Upto(places, i)) \in Nat
         /\ Cardinality(Upto(places, i + 1)) =
              IF i + 1 \in places THEN Cardinality(Upto(places, i)) + 1 ELSE Cardinality(Upto(places, i))
         /\ Cardinality(Upto(places, 0)) = 0
<1>1. IsFiniteSet(Upto(places, i))
  <2>1. IsFiniteSet(1 .. i)
    BY FS_Interval
  <2>2. Upto(places, i) \in SUBSET (1 .. i)
    BY DEF Upto
  <2> QED BY <2>1, <2>2, FS_Subset
<1>2. Cardinality(Upto(places, i)) \in Nat
  BY <1>1, FS_CardinalityType
<1>3. CASE i + 1 \in places
  <2>1. Upto(places, i + 1) = Upto(places, i) \cup {i + 1} /\ i + 1 \notin Upto(places, i)
    BY <1>3 DEF Upto
  <2>2. Cardinality(Upto(places, i) \cup {i + 1}) = Cardinality(Upto(places, i)) + 1
    BY <1>1, <2>1, FS_AddElement
  <2>3. Upto(places, 0) = {}
    BY DEF Upto
  <2> QED BY <1>1, <1>2, <1>3, <2>1, <2>2, <2>3, FS_EmptySet
<1>4. CASE i + 1 \notin places
  <2>1. Upto(places, i + 1) = Upto(places, i) /\ Upto(places, 0) = {}
    BY <1>4 DEF Upto
  <2> QED BY <1>1, <1>2, <1>4, <2>1, FS_EmptySet
<1> QED BY <1>3, <1>4

\* Among takes the members one by one.
LEMMA AmongUnfolds ==
  ASSUME NEW seq, Len(seq) \in Nat, NEW places
  PROVE  \E f : /\ Among(seq, places) = f[Len(seq)]
                /\ f[0] = <<>>
                /\ \A i \in 1 .. Len(seq) :
                     f[i] = IF i \in places THEN Append(f[i - 1], seq[i]) ELSE f[i - 1]
<1> DEFINE n == Len(seq)
           Taken(f) == f = [i \in 0 .. Len(seq) |->
                              IF i = 0 THEN <<>> ELSE IF i \in places THEN Append(f[i - 1], seq[i]) ELSE f[i - 1]]
           Begun(f, k) == f[0] = <<>> /\ \A i \in 1 .. k :
                            f[i] = IF i \in places THEN Append(f[i - 1], seq[i]) ELSE f[i - 1]
           Can == {k \in 0 .. n : \E f : Begun(f, k)}
<1>1. Among(seq, places) = (CHOOSE f : Taken(f))[Len(seq)]
  BY DEF Among
<1>2. 0 \in Can
  <2>1. Begun([i \in {0} |-> <<>>], 0)
    OBVIOUS
  <2> HIDE DEF Begun
  <2> QED BY <2>1
<1>3. ASSUME NEW k \in 0 .. n - 1, k \in Can PROVE k + 1 \in Can
  <2>1. PICK f : Begun(f, k)
    BY <1>3
  <2>2. PICK x : x = IF k + 1 \in places THEN Append(f[k], seq[k + 1]) ELSE f[k]
    OBVIOUS
  <2>3. PICK g : g = [i \in 0 .. k + 1 |-> IF i <= k THEN f[i] ELSE x]
    OBVIOUS
  <2>4. g[0] = <<>> /\ g[k + 1] = x /\ \A i \in 0 .. k : g[i] = f[i]
    BY <2>1, <2>3
  <2>5. ASSUME NEW i \in 1 .. k + 1
        PROVE  g[i] = IF i \in places THEN Append(g[i - 1], seq[i]) ELSE g[i - 1]
    <3>1. CASE i <= k
      <4>1. g[i] = f[i] /\ g[i - 1] = f[i - 1] /\ i \in 1 .. k
        BY <2>4, <3>1
      <4> QED BY <2>1, <4>1
    <3>2. CASE i = k + 1
      <4>1. g[i - 1] = f[k]
        BY <2>4, <3>2
      <4> QED BY <2>2, <2>4, <3>2, <4>1
    <3> QED BY <3>1, <3>2
  <2>6. Begun(g, k + 1)
    BY <2>4, <2>5
  <2>7. k + 1 \in 0 .. n
    OBVIOUS
  <2> HIDE DEF Begun
  <2> QED BY <2>6, <2>7
<1>4. n \in Can
  <2>1. n \in Nat /\ n \in 0 .. n
    OBVIOUS
  <2> HIDE DEF Can, n
  <2>2. \A i \in 0 .. n : i \in Can
    BY <1>2, <1>3, <2>1, UpTo
  <2> QED BY <2>1, <2>2
<1>5. PICK f : Begun(f, n)
  BY <1>4
<1>6. PICK g : g = [i \in 0 .. n |-> f[i]]
  OBVIOUS
<1>7. Taken(g)
  <2>1. ASSUME NEW i \in 0 .. n
        PROVE  g[i] = IF i = 0 THEN <<>> ELSE IF i \in places THEN Append(g[i - 1], seq[i]) ELSE g[i - 1]
    <3>1. CASE i = 0
      BY <1>5, <1>6, <3>1
    <3>2. CASE i # 0
      <4>1. i \in 1 .. n /\ i - 1 \in 0 .. n
        BY <3>2
      <4> QED BY <1>5, <1>6, <3>2, <4>1
    <3> QED BY <3>1, <3>2
  <2> QED BY <1>6, <2>1
<1>8. Taken(CHOOSE h : Taken(h))
  <2> HIDE DEF Taken
  <2> QED BY <1>7
<1>9. PICK h : h = (CHOOSE e : Taken(e))
  OBVIOUS
<1>10. Taken(h) /\ Among(seq, places) = h[Len(seq)]
  <2> HIDE DEF Taken
  <2> QED BY <1>1, <1>8, <1>9
<1>11. Begun(h, n)
  <2>1. ASSUME NEW i \in 0 .. n
        PROVE  h[i] = IF i = 0 THEN <<>> ELSE IF i \in places THEN Append(h[i - 1], seq[i]) ELSE h[i - 1]
    BY <1>10
  <2>2. h[0] = <<>>
    BY <2>1
  <2>3. ASSUME NEW i \in 1 .. n
        PROVE  h[i] = IF i \in places THEN Append(h[i - 1], seq[i]) ELSE h[i - 1]
    <3>1. i \in 0 .. n /\ i # 0
      OBVIOUS
    <3> QED BY <2>1, <3>1
  <2> QED BY <2>2, <2>3
<1> QED BY <1>10, <1>11

\* Among keeps the members at the places and nothing else, each where it is counted.
LEMMA AmongIs ==
  ASSUME NEW S, NEW seq \in Seq(S), NEW places
  PROVE  /\ Among(seq, places) \in Seq(S)
         /\ Len(Among(seq, places)) = Cardinality(Upto(places, Len(seq)))
         /\ \A k \in 1 .. Len(Among(seq, places)) : \E j \in Upto(places, Len(seq)) :
              Among(seq, places)[k] = seq[j] /\ k = Cardinality(Upto(places, j))
         /\ \A j \in Upto(places, Len(seq)) :
              /\ Cardinality(Upto(places, j)) \in 1 .. Len(Among(seq, places))
              /\ Among(seq, places)[Cardinality(Upto(places, j))] = seq[j]
<1>1. Len(seq) \in Nat /\ \A i \in 1 .. Len(seq) : seq[i] \in S
  BY LenProperties, ElementOfSeq
<1>2. PICK f : /\ Among(seq, places) = f[Len(seq)]
               /\ f[0] = <<>>
               /\ \A i \in 1 .. Len(seq) :
                    f[i] = IF i \in places THEN Append(f[i - 1], seq[i]) ELSE f[i - 1]
  BY <1>1, AmongUnfolds
<1> DEFINE C(i) == Cardinality(Upto(places, i))
           Fine(i) == /\ f[i] \in Seq(S) /\ Len(f[i]) = C(i)
                      /\ \A k \in 1 .. Len(f[i]) : \E j \in Upto(places, i) : f[i][k] = seq[j] /\ k = C(j)
                      /\ \A j \in Upto(places, i) : C(j) \in 1 .. Len(f[i]) /\ f[i][C(j)] = seq[j]
           Done == {i \in 0 .. Len(seq) : Fine(i)}
<1>3. \A i \in Nat : C(i) \in Nat /\ C(i + 1) = (IF i + 1 \in places THEN C(i) + 1 ELSE C(i))
  BY UptoGrows
<1>4. C(0) = 0
  BY UptoGrows
<1>5. \A i \in Nat : Upto(places, i + 1) = IF i + 1 \in places THEN Upto(places, i) \cup {i + 1} ELSE Upto(places, i)
  BY DEF Upto
<1>6. \A i \in Nat : \A j \in Upto(places, i) : j \in 1 .. i
  BY DEF Upto
<1> HIDE DEF C
<1>7. Fine(0)
  <2>1. Len(<<>>) = 0 /\ <<>> \in Seq(S)
    OBVIOUS
  <2>2. Upto(places, 0) = {}
    BY DEF Upto
  <2> QED BY <1>2, <1>4, <2>1, <2>2
<1>8. ASSUME NEW i \in 0 .. Len(seq) - 1, Fine(i) PROVE Fine(i + 1)
  <2>1. i \in Nat /\ i + 1 \in 1 .. Len(seq) /\ (i + 1) - 1 = i
    BY <1>1
  <2>2. seq[i + 1] \in S
    BY <1>1, <2>1
  <2>3. CASE i + 1 \in places
    <3>1. f[i + 1] = Append(f[i], seq[i + 1])
      BY <1>2, <2>1, <2>3
    <3>2. C(i + 1) = C(i) + 1 /\ Upto(places, i + 1) = Upto(places, i) \cup {i + 1}
      BY <1>3, <1>5, <2>1, <2>3
    <3>3. /\ f[i + 1] \in Seq(S) /\ Len(f[i + 1]) = Len(f[i]) + 1
          /\ \A k \in 1 .. Len(f[i]) : f[i + 1][k] = f[i][k]
          /\ f[i + 1][Len(f[i]) + 1] = seq[i + 1]
      BY <1>8, <2>2, <3>1, AppendProperties
    <3>4. Len(f[i]) \in Nat
      BY <1>8, LenProperties
    <3>5. ASSUME NEW k \in 1 .. Len(f[i + 1])
          PROVE  \E j \in Upto(places, i + 1) : f[i + 1][k] = seq[j] /\ k = C(j)
      <4>1. CASE k \in 1 .. Len(f[i])
        <5>1. PICK j \in Upto(places, i) : f[i][k] = seq[j] /\ k = C(j)
          BY <1>8, <4>1
        <5> QED BY <3>2, <3>3, <4>1, <5>1
      <4>2. CASE k = Len(f[i]) + 1
        <5>1. k = C(i + 1)
          BY <1>8, <3>2, <4>2
        <5> QED BY <3>2, <3>3, <4>2, <5>1
      <4> QED BY <3>3, <3>4, <4>1, <4>2
    <3>6. ASSUME NEW j \in Upto(places, i + 1)
          PROVE  C(j) \in 1 .. Len(f[i + 1]) /\ f[i + 1][C(j)] = seq[j]
      <4>1. CASE j \in Upto(places, i)
        <5>1. C(j) \in 1 .. Len(f[i]) /\ f[i][C(j)] = seq[j]
          BY <1>8, <4>1
        <5> QED BY <3>3, <3>4, <5>1
      <4>2. CASE j = i + 1
        <5>1. C(j) = Len(f[i]) + 1
          BY <1>8, <3>2, <4>2
        <5> QED BY <3>3, <3>4, <4>2, <5>1
      <4> QED BY <3>2, <4>1, <4>2
    <3> QED BY <1>8, <3>2, <3>3, <3>5, <3>6
  <2>4. CASE i + 1 \notin places
    <3>1. f[i + 1] = f[i]
      BY <1>2, <2>1, <2>4
    <3>2. C(i + 1) = C(i) /\ Upto(places, i + 1) = Upto(places, i)
      BY <1>3, <1>5, <2>1, <2>4
    <3> QED BY <1>8, <3>1, <3>2
  <2> QED BY <2>3, <2>4
<1> HIDE DEF Fine
<1>9. 0 \in Done /\ \A i \in 0 .. Len(seq) - 1 : i \in Done => i + 1 \in Done
  BY <1>1, <1>7, <1>8
<1>10. Fine(Len(seq))
  <2> HIDE DEF Done
  <2>1. \A i \in 0 .. Len(seq) : i \in Done
    BY <1>1, <1>9, UpTo
  <2> USE DEF Done
  <2> QED BY <1>1, <2>1
<1> USE DEF Fine, C
<1> QED BY <1>2, <1>10

----------------------------------------------------------------------------
(* Types.                                                                  *)

CallIds   == Nat \X Nat
Messages  == [role : {"user", "assistant", "tool"}, calls : SUBSET CallIds, call : CallIds \cup {<<>>},
              ok : BOOLEAN, ids : SUBSET Ids]
RefMaps   == UNION {[D -> Ids] : D \in SUBSET Refs}
Scopes    == [spacing : SUBSET Keys, overlap : SUBSET Keys, relations : SUBSET StructureRelations]
Convs     == [history : Seq(Messages), cancelled : BOOLEAN, turnScope : Scopes, refMap : RefMaps,
              diagramPlan : SUBSET Refs, pendingRelations : SUBSET StructureRelations]
Works     == [phase : Phase, iter : 0 .. MAX_ITERATIONS - 1, changed : SUBSET Ids, text : BOOLEAN,
              editable : SUBSET Ids]
Harnesses == [cursorTurn : Nat, sent : Nat, cancelled : BOOLEAN, inspected : BOOLEAN]

OpNames      == {"create_geo", "create_text", "connect_shapes", "move_shape", "place_region",
                 "update_text", "delete_shape"}
Results      == [op : OpNames, ok : BOOLEAN, ids : SUBSET Ids, ref : Refs \cup {Nothing}]
StageCalls   == [id : CallIds, op : CanvasCalls, error : BOOLEAN]
DeclareCalls == [id : CallIds, op : [op : {"declare_structure"}, relations : SUBSET StructureRelations]]
IsBatch(b)   == b \in [calls : Seq(StageCalls), base : {b.base}, scope : Scopes, results : Seq(Results),
                       declares : Seq(DeclareCalls), deferred : Seq(StageCalls), edited : SUBSET Ids,
                       laidOut : SUBSET Ids, leftover : SUBSET Keys, didApply : BOOLEAN]

Typed ==
  /\ pc \in Parked \cup {"idle"} /\ turn \in 0 .. MaxSends
  /\ conv \in Convs /\ work \in Works /\ IsBatch(batch) /\ harness \in Harnesses
  /\ outcome \in {"none", "completed", "failed", "question"} /\ emitted \in 0 .. 1
  /\ pc # "idle" => emitted = 0
OnCanvas ==
  /\ minted \subseteq Ids
  /\ DOMAIN scene \subseteq minted /\ DOMAIN saved \subseteq minted /\ DOMAIN clipboard \subseteq minted

----------------------------------------------------------------------------
(* What a batch may be on its way through its two stages.                  *)

Valid(calls) == {i \in DOMAIN calls : ~calls[i].error}
Parsed(calls) == \A i \in Valid(calls) : calls[i].op \in CanvasOps
DeferredOps(calls) == \A i \in Valid(calls) : calls[i].op.op \in DEFERRED_REFERENCE_OPS
Creating(calls) == {i \in Valid(calls) : calls[i].op.op \in CreatingOps}

\* The results of the stage, each of its operation; a created shape has an id.
Reported(calls, results, made) ==
  /\ Len(results) = Cardinality(Valid(calls))
  /\ \A i \in DOMAIN results : /\ results[i].ids \subseteq made
                               /\ results[i].ok /\ results[i].ref # Nothing => results[i].ids # {}
Staged ==
  /\ pc \in Applies => DOMAIN batch.base \subseteq minted /\ Parsed(batch.calls)
  /\ pc \in {"early", "earlySave"} =>
       Valid(batch.deferred) = DOMAIN batch.deferred /\ Parsed(batch.deferred) /\ DeferredOps(batch.deferred)
  /\ pc = "early" => Cardinality(minted) + Cardinality(Creating(batch.calls)) <= Cardinality(Ids)
  /\ pc \in {"late", "lateSave"} => DeferredOps(batch.calls)
  /\ pc \in {"earlySave", "lateSave"} => Reported(batch.calls, batch.results, minted)

----------------------------------------------------------------------------
(* The conversation.                                                       *)

\* Call ids begin with the position of the answer that made them, and every result is of an
\* earlier answer.
Numbering(h) ==
  \A i \in DOMAIN h :
    /\ \A id \in h[i].calls : id[1] = i
    /\ IsFiniteSet(h[i].calls)
    /\ h[i].role # "assistant" => h[i].calls = {}
    /\ h[i].role = "tool" => \E a \in 1 .. i - 1 : h[i].call \in h[a].calls
ResultsOf(h, a) == {j \in DOMAIN h : h[j].role = "tool" /\ h[j].call \in h[a].calls}
Complete(h, a) ==
  /\ ResultsOf(h, a) = a + 1 .. a + Cardinality(h[a].calls)
  /\ {h[j].call : j \in ResultsOf(h, a)} = h[a].calls
AllAnswered(h) == Numbering(h) /\ \A a \in DOMAIN h : h[a].role = "assistant" => Complete(h, a)

\* The last answer is being worked off: so many of its calls are left, with these ids.
Open(h, left, count) ==
  /\ Numbering(h)
  /\ \E a \in DOMAIN h :
       /\ h[a].role = "assistant"
       /\ \A b \in DOMAIN h \ {a} : h[b].role = "assistant" => Complete(h, b)
       /\ \A j \in a + 1 .. Len(h) : h[j].role = "tool" /\ h[j].call \in h[a].calls
       /\ h[a].calls = {h[j].call : j \in a + 1 .. Len(h)} \cup left
       /\ Cardinality(h[a].calls) = Len(h) - a + count
IdsOf(calls) == {calls[i].id : i \in DOMAIN calls}

Answering ==
  /\ pc \in {"early", "earlySave"} =>
       Open(conv.history, IdsOf(batch.calls) \cup IdsOf(batch.declares) \cup IdsOf(batch.deferred),
            Len(batch.calls) + Len(batch.declares) + Len(batch.deferred))
  /\ pc \in {"late", "lateSave"} => Open(conv.history, IdsOf(batch.calls), Len(batch.calls))
  /\ pc \notin Applies \cup {"idle"} => AllAnswered(conv.history)

\* The cursor of HarnessTurn is at what was delivered, and belongs to this user turn.
Counting(n) == [i \in 1 .. n |-> i]
Delivering ==
  /\ harness.cursorTurn <= turn
  /\ pc = "context" => harness.cursorTurn < turn /\ conv.history = <<>> /\ delivered = <<>>
  /\ pc \notin {"idle", "context"} => harness.cursorTurn = turn /\ harness.sent <= Len(conv.history)
  /\ pc = "asking" => delivered = Counting(Len(conv.history))
  /\ pc \notin {"idle", "context", "asking"} => delivered = Counting(harness.sent)

CancelHeard == conv.cancelled => harness.cancelled

\* What the model was told of is saved, but for the moment between apply and save.
ToldIsSaved(h, here, away, kept) ==
  \A i \in DOMAIN h : (h[i].ids \cap DOMAIN here) \ DOMAIN away \subseteq DOMAIN kept
Saving == pc \notin {"idle", "earlySave", "lateSave"} => ToldIsSaved(conv.history, scene, clipboard, saved)

\* A ref of an earlier batch names a shape whose result was reported.
RefsReported(c, made) ==
  \A r \in DOMAIN c.refMap : c.refMap[r] \in made /\ \E i \in DOMAIN c.history : c.refMap[r] \in c.history[i].ids

----------------------------------------------------------------------------
(* Structure and review.                                                   *)

Moves(s) == s.spacing \cup s.overlap
FreezeHolds(s) == Moves(s) \cap NodesOf(s.relations, {"freeze"}) = {}
Freezing ==
  work.phase = "build" =>
    /\ FreezeHolds(conv.turnScope)
    /\ pc \in {"late", "lateSave"} => batch.scope = conv.turnScope
    /\ pc = "lateSave" => batch.laidOut \subseteq Moves(batch.scope)

\* The shapes an operation names as its target.
Targets(op) ==
  CASE op.op \in {"move_shape", "update_text", "delete_shape"} -> {op.id}
    [] op.op = "place_region" -> op.ids
    [] OTHER -> {}
Reviewing ==
  work.phase = "review" =>
    /\ pc \in {"early", "earlySave"} => \A i \in Valid(batch.deferred) : batch.deferred[i].op.op \in REVIEW_TOOL_NAMES
    /\ pc \in {"late", "lateSave"} => Moves(batch.scope) \subseteq work.editable \cup batch.leftover
    /\ pc = "late" => \A i \in Valid(batch.calls) : Targets(batch.calls[i].op) \subseteq work.editable
    /\ pc = "lateSave" => batch.edited \cup batch.laidOut \subseteq work.editable \cup batch.leftover

\* Nothing is left of phases that are over.
Phases ==
  /\ pc \in Applies => work.phase # "finalize"
  /\ pc = "rendering" => work.phase = "review"
  /\ pc \in {"context", "inspecting"} => work.phase = "build"

Sound ==
  /\ Typed /\ OnCanvas /\ Staged
  /\ Answering /\ Delivering /\ CancelHeard /\ Saving /\ RefsReported(conv, minted)
  /\ Freezing /\ Reviewing /\ Phases

----------------------------------------------------------------------------
(* One operation, and a batch of them.                                     *)

LEMMA OverDomain == ASSUME NEW f, NEW g, NEW h, h = Over(f, g) PROVE DOMAIN h = DOMAIN f \cup DOMAIN g
BY DEF Over

LEMMA OverValues ==
  ASSUME NEW f, NEW g, NEW h, h = Over(f, g)
  PROVE  /\ \A x \in DOMAIN f : h[x] = f[x]
         /\ \A x \in DOMAIN g \ DOMAIN f : h[x] = g[x]
BY DEF Over

LEMMA OnlyIs == ASSUME NEW x, NEW v, NEW h, h = Only(x, v) PROVE DOMAIN h = {x} /\ h[x] = v
BY DEF Only

\* f with one more value.
LEMMA OverOnly ==
  ASSUME NEW f, NEW x, NEW v, NEW h, h = Over(f, Only(x, v))
  PROVE  DOMAIN h = DOMAIN f \cup {x}
<1>1. PICK o : o = Only(x, v)
  OBVIOUS
<1>2. DOMAIN o = {x}
  BY <1>1, OnlyIs
<1>3. h = Over(f, o)
  BY <1>1
<1>4. DOMAIN h = DOMAIN f \cup DOMAIN o
  BY <1>3, OverDomain
<1> QED BY <1>2, <1>4

IsWorking(b) ==
  /\ b \in [byId : {b.byId}, fresh : {b.fresh}, pending : SUBSET Ids, refs : {b.refs}, connects : {b.connects},
            results : Seq(Results), edited : SUBSET Ids, minted : SUBSET Ids]
  /\ DOMAIN b.byId \subseteq b.minted /\ DOMAIN b.fresh \subseteq b.minted /\ DOMAIN b.connects \subseteq b.minted

\* The result r is of a shape that exists, and of one at all where it announces a ref.
Honest(r, made) == r.ids \subseteq made /\ (r.ok /\ r.ref # Nothing => r.ids # {})

\* What an operation does to the working copy.
Advances(b, op, c) ==
  /\ IsWorking(c)
  /\ DOMAIN c.byId \subseteq DOMAIN b.byId
  /\ \/ c.minted = b.minted
     \/ op.op \in CreatingOps /\ \E id \in Ids \ b.minted : c.minted = b.minted \cup {id}
  /\ \E r \in Results : Honest(r, c.minted) /\ c.results = Append(b.results, r)
  /\ c.edited \subseteq b.edited \cup Targets(op)

LEMMA ResultIs ==
  ASSUME NEW op, op.op \in OpNames, NEW ok \in BOOLEAN, NEW ids \in SUBSET Ids, NEW ref \in Refs \cup {Nothing},
         NEW r, r = Result(op, ok, ids, ref)
  PROVE  r \in Results /\ r.ids = ids /\ r.ok = ok /\ r.ref = ref
BY DEF Result, Results

\* A working copy with some of its fields changed.
Copy(byId, fresh, pending, refs, connects, results, edited, made) ==
  [byId |-> byId, fresh |-> fresh, pending |-> pending, refs |-> refs, connects |-> connects,
   results |-> results, edited |-> edited, minted |-> made]

LEMMA CopyIs ==
  ASSUME NEW byId, NEW fresh, NEW pending, NEW refs, NEW connects, NEW results, NEW edited, NEW made,
         pending \in SUBSET Ids, results \in Seq(Results), edited \in SUBSET Ids, made \in SUBSET Ids,
         DOMAIN byId \subseteq made, DOMAIN fresh \subseteq made, DOMAIN connects \subseteq made,
         NEW c, c = Copy(byId, fresh, pending, refs, connects, results, edited, made)
  PROVE  /\ IsWorking(c)
         /\ c.byId = byId /\ c.fresh = fresh /\ c.pending = pending /\ c.refs = refs /\ c.connects = connects
         /\ c.results = results /\ c.edited = edited /\ c.minted = made
BY DEF Copy, IsWorking

LEMMA WorkingIs ==
  ASSUME NEW b, IsWorking(b)
  PROVE  /\ b.pending \in SUBSET Ids /\ b.results \in Seq(Results) /\ b.edited \in SUBSET Ids
         /\ b.minted \in SUBSET Ids
         /\ DOMAIN b.byId \subseteq b.minted /\ DOMAIN b.fresh \subseteq b.minted
         /\ DOMAIN b.connects \subseteq b.minted
BY DEF IsWorking

LEMMA AppendResult ==
  ASSUME NEW results \in Seq(Results), NEW r \in Results
  PROVE  Append(results, r) \in Seq(Results)
BY AppendProperties

LEMMA FailsAdvances ==
  ASSUME NEW b, IsWorking(b), NEW op, op.op \in OpNames
  PROVE  Advances(b, op, Fails(b, op))
<1>1. PICK r : r = Result(op, FALSE, {}, Nothing)
  OBVIOUS
<1>2. PICK c : c = [b EXCEPT !.results = Append(@, r)]
  OBVIOUS
<1>3. Fails(b, op) = c
  BY <1>1, <1>2 DEF Fails
<1>4. r \in Results /\ r.ids = {} /\ ~r.ok
  BY <1>1 DEF Result, Results
<1>5. PICK results : results = Append(b.results, r)
  OBVIOUS
<1>6. c = Copy(b.byId, b.fresh, b.pending, b.refs, b.connects, results, b.edited, b.minted)
  BY <1>2, <1>5 DEF IsWorking, Copy
<1>7. results \in Seq(Results)
  BY <1>4, <1>5, WorkingIs, AppendResult
<1>8. /\ IsWorking(c) /\ c.byId = b.byId /\ c.results = results /\ c.edited = b.edited /\ c.minted = b.minted
  BY <1>6, <1>7, WorkingIs, CopyIs
<1>9. Honest(r, c.minted) /\ c.results = Append(b.results, r)
  BY <1>4, <1>5, <1>8 DEF Honest
<1> QED BY <1>3, <1>4, <1>8, <1>9 DEF Advances

LEMMA DoesAdvances ==
  ASSUME NEW b, IsWorking(b), NEW op, op.op \in OpNames, NEW ids, ids \subseteq b.minted, ids \subseteq Targets(op)
  PROVE  Advances(b, op, Does(b, op, ids))
<1>1. PICK r : r = Result(op, TRUE, ids, Nothing)
  OBVIOUS
<1>2. PICK results : results = Append(b.results, r)
  OBVIOUS
<1>3. PICK edited : edited = b.edited \cup ids
  OBVIOUS
<1>4. PICK c : c = [b EXCEPT !.results = results, !.edited = edited]
  OBVIOUS
<1>5. Does(b, op, ids) = c
  BY <1>1, <1>2, <1>3, <1>4 DEF Does, IsWorking
<1>6. ids \in SUBSET Ids /\ edited \in SUBSET Ids
  BY <1>3, WorkingIs
<1>7. r \in Results /\ r.ids = ids /\ r.ref = Nothing
  BY <1>1, <1>6 DEF Result, Results
<1>8. c = Copy(b.byId, b.fresh, b.pending, b.refs, b.connects, results, edited, b.minted)
  BY <1>4 DEF IsWorking, Copy
<1>9. results \in Seq(Results)
  BY <1>2, <1>7, WorkingIs, AppendResult
<1>10. /\ IsWorking(c) /\ c.byId = b.byId /\ c.results = results /\ c.edited = edited /\ c.minted = b.minted
  BY <1>6, <1>8, <1>9, WorkingIs, CopyIs
<1>11. Honest(r, c.minted) /\ c.results = Append(b.results, r)
  BY <1>2, <1>7, <1>10 DEF Honest
<1> QED BY <1>3, <1>5, <1>7, <1>10, <1>11 DEF Advances

\* While ids are left, the next one is none that was minted.
LEMMA NewIdIsNew ==
  ASSUME NEW b, IsWorking(b), b.minted # Ids
  PROVE  newId(b) \in Ids \ b.minted
<1>1. \E id \in Ids : id \notin b.minted
  BY DEF IsWorking
<1> QED BY <1>1 DEF newId

LEMMA CreatesAdvances ==
  ASSUME NEW b, IsWorking(b), b.minted # Ids, NEW op, op.op \in {"create_geo", "create_text"},
         op.ref \in Refs \cup {Nothing}, NEW type
  PROVE  Advances(b, op, Creates(b, op, type))
<1>1. PICK id : id = newId(b)
  OBVIOUS
<1>2. id \in Ids \ b.minted
  BY <1>1, NewIdIsNew
<1>3. PICK r : r = Result(op, TRUE, {id}, op.ref)
  OBVIOUS
<1>4. PICK fresh : fresh = Over(b.fresh, Only(id, Element(type)))
  OBVIOUS
<1>5. PICK refs : refs = IF op.ref = Nothing THEN b.refs ELSE Over(Only(op.ref, id), b.refs)
  OBVIOUS
<1>6. PICK results : results = Append(b.results, r)
  OBVIOUS
<1>7. PICK made : made = b.minted \cup {id}
  OBVIOUS
<1>8. PICK c : c = [b EXCEPT !.fresh = fresh, !.minted = made, !.refs = refs, !.results = results]
  OBVIOUS
<1>9. Creates(b, op, type) = c
  BY <1>1, <1>3, <1>4, <1>5, <1>6, <1>7, <1>8 DEF Creates, IsWorking
<1>10. r \in Results /\ r.ids = {id}
  BY <1>2, <1>3 DEF Result, Results, OpNames
<1>11. DOMAIN fresh = DOMAIN b.fresh \cup {id}
  <2>1. PICK f : f = b.fresh
    OBVIOUS
  <2>2. PICK element : element = Element(type)
    OBVIOUS
  <2>3. fresh = Over(f, Only(id, element))
    BY <1>4, <2>1, <2>2
  <2> QED BY <2>1, <2>3, OverOnly
<1>12. c = Copy(b.byId, fresh, b.pending, refs, b.connects, results, b.edited, made)
  BY <1>8 DEF IsWorking, Copy
<1>13. results \in Seq(Results)
  BY <1>6, <1>10, WorkingIs, AppendResult
<1>14. /\ made \in SUBSET Ids
       /\ DOMAIN b.byId \subseteq made /\ DOMAIN fresh \subseteq made /\ DOMAIN b.connects \subseteq made
  BY <1>2, <1>7, <1>11, WorkingIs
<1>15. /\ IsWorking(c) /\ c.byId = b.byId /\ c.results = results /\ c.edited = b.edited /\ c.minted = made
  BY <1>12, <1>13, <1>14, WorkingIs, CopyIs
<1>16. Honest(r, c.minted) /\ c.results = Append(b.results, r)
  BY <1>6, <1>7, <1>10, <1>15 DEF Honest
<1>17. op.op \in CreatingOps
  BY DEF CreatingOps
<1> QED BY <1>2, <1>7, <1>9, <1>10, <1>15, <1>16, <1>17 DEF Advances

LEMMA ConnectAdvances ==
  ASSUME NEW b, IsWorking(b), b.minted # Ids, NEW op, op.op = "connect_shapes"
  PROVE  Advances(b, op, connect_shapes(b, op))
<1>1. PICK from : from = Resolve(b, op.from)
  OBVIOUS
<1>2. PICK to : to = Resolve(b, op.to)
  OBVIOUS
<1>3. CASE Nothing \in {from, to}
  <2>1. connect_shapes(b, op) = Fails(b, op)
    BY <1>1, <1>2, <1>3 DEF connect_shapes
  <2> QED BY <2>1, FailsAdvances DEF OpNames
<1>4. CASE Nothing \notin {from, to}
  <2>1. PICK id : id = newId(b)
    OBVIOUS
  <2>2. id \in Ids \ b.minted
    BY <2>1, NewIdIsNew
  <2>3. PICK r : r = Result(op, TRUE, {id}, Nothing)
    OBVIOUS
  <2>4. PICK connects : connects = Over(b.connects, Only(id, [from |-> from, to |-> to]))
    OBVIOUS
  <2>5. PICK results : results = Append(b.results, r)
    OBVIOUS
  <2>6. PICK made : made = b.minted \cup {id}
    OBVIOUS
  <2>7. PICK c : c = [b EXCEPT !.connects = connects, !.minted = made, !.results = results]
    OBVIOUS
  <2>8. connect_shapes(b, op) = c
    BY <1>1, <1>2, <1>4, <2>1, <2>3, <2>4, <2>5, <2>6, <2>7 DEF connect_shapes, IsWorking
  <2>9. r \in Results /\ r.ids = {id}
    BY <2>2, <2>3 DEF Result, Results, OpNames
  <2>10. DOMAIN connects = DOMAIN b.connects \cup {id}
    BY <2>4, OverOnly
  <2>11. c = Copy(b.byId, b.fresh, b.pending, b.refs, connects, results, b.edited, made)
    BY <2>7 DEF IsWorking, Copy
  <2>12. results \in Seq(Results)
    BY <2>5, <2>9, WorkingIs, AppendResult
  <2>13. /\ made \in SUBSET Ids
         /\ DOMAIN b.byId \subseteq made /\ DOMAIN b.fresh \subseteq made /\ DOMAIN connects \subseteq made
    BY <2>2, <2>6, <2>10, WorkingIs
  <2>14. /\ IsWorking(c) /\ c.byId = b.byId /\ c.results = results /\ c.edited = b.edited /\ c.minted = made
    BY <2>11, <2>12, <2>13, WorkingIs, CopyIs
  <2>15. Honest(r, c.minted) /\ c.results = Append(b.results, r)
    BY <2>5, <2>6, <2>9, <2>14 DEF Honest
  <2>16. op.op \in CreatingOps
    BY DEF CreatingOps
  <2> QED BY <2>2, <2>6, <2>8, <2>9, <2>14, <2>15, <2>16 DEF Advances
<1> QED BY <1>3, <1>4

\* Every operation; one that may create needs an id that is left.
LEMMA ApplyOpAdvances ==
  ASSUME NEW b, IsWorking(b), NEW op \in CanvasOps, op.op \in CreatingOps => b.minted # Ids
  PROVE  Advances(b, op, ApplyOp(b, op))
<1>1. CASE op \in [op : {"create_geo", "create_text"}, ref : Refs \cup {Nothing}]
  <2>1. op.op \in {"create_geo", "create_text"} /\ op.ref \in Refs \cup {Nothing} /\ b.minted # Ids
    BY <1>1 DEF CreatingOps
  <2>2. CASE op.op = "create_text"
    <3>1. ApplyOp(b, op) = Creates(b, op, "text")
      BY <2>2 DEF ApplyOp, create_text
    <3> QED BY <2>1, <3>1, CreatesAdvances
  <2>3. CASE op.op = "create_geo"
    <3>1. PICK c : c = Creates(b, op, "rectangle")
      OBVIOUS
    <3>2. Advances(b, op, c)
      BY <2>1, <3>1, CreatesAdvances
    <3>3. PICK pending : pending = c.pending \cup (c.minted \ b.minted)
      OBVIOUS
    <3>4. PICK d : d = [c EXCEPT !.pending = pending]
      OBVIOUS
    <3>5. IsWorking(c)
      BY <3>2 DEF Advances
    <3>6. ApplyOp(b, op) = d
      BY <2>3, <3>1, <3>3, <3>4, <3>5 DEF ApplyOp, create_geo, IsWorking
    <3>7. d = Copy(c.byId, c.fresh, pending, c.refs, c.connects, c.results, c.edited, c.minted)
      BY <3>4, <3>5 DEF IsWorking, Copy
    <3>8. pending \in SUBSET Ids
      BY <3>3, <3>5, WorkingIs
    <3>9. /\ IsWorking(d) /\ d.byId = c.byId /\ d.results = c.results /\ d.edited = c.edited
          /\ d.minted = c.minted
      BY <3>5, <3>7, <3>8, WorkingIs, CopyIs
    <3> QED BY <3>2, <3>6, <3>9 DEF Advances
  <2> QED BY <2>1, <2>2, <2>3
<1>2. CASE op \in [op : {"move_shape", "update_text", "delete_shape"}, id : Keys]
  <2>1. op.op \in OpNames /\ Targets(op) = {op.id}
    BY <1>2 DEF OpNames, Targets
  <2>2. ASSUME op.id \in DOMAIN b.byId PROVE {op.id} \in SUBSET b.minted
    BY <2>2 DEF IsWorking
  <2>3. CASE op.id \notin DOMAIN b.byId
    <3>1. ApplyOp(b, op) = Fails(b, op)
      BY <1>2, <2>3 DEF ApplyOp, move_shape, update_text, delete_shape
    <3> QED BY <2>1, <3>1, FailsAdvances
  <2>4. CASE op.id \in DOMAIN b.byId /\ op.op \in {"move_shape", "update_text"}
    <3>1. ApplyOp(b, op) = Does(b, op, {op.id})
      BY <2>4 DEF ApplyOp, move_shape, update_text
    <3> QED BY <2>1, <2>2, <2>4, <3>1, DoesAdvances
  <2>5. CASE op.id \in DOMAIN b.byId /\ op.op = "delete_shape"
    <3>1. PICK c : c = Does(b, op, {op.id})
      OBVIOUS
    <3>2. Advances(b, op, c)
      BY <2>1, <2>2, <2>5, <3>1, DoesAdvances
    <3>3. PICK rest : rest = Restrict(c.byId, DOMAIN c.byId \ {op.id})
      OBVIOUS
    <3>4. PICK d : d = [c EXCEPT !.byId = rest]
      OBVIOUS
    <3>5. ApplyOp(b, op) = d
      BY <2>5, <3>1, <3>3, <3>4 DEF ApplyOp, delete_shape
    <3>6. DOMAIN rest \subseteq DOMAIN c.byId
      BY <3>3 DEF Restrict
    <3>7. IsWorking(c)
      BY <3>2 DEF Advances
    <3>8. d = Copy(rest, c.fresh, c.pending, c.refs, c.connects, c.results, c.edited, c.minted)
      BY <3>4, <3>7 DEF IsWorking, Copy
    <3>9. DOMAIN rest \subseteq c.minted
      BY <3>6, <3>7, WorkingIs
    <3>10. /\ IsWorking(d) /\ d.byId = rest /\ d.results = c.results /\ d.edited = c.edited
           /\ d.minted = c.minted
      BY <3>7, <3>8, <3>9, WorkingIs, CopyIs
    <3> QED BY <3>2, <3>5, <3>6, <3>10 DEF Advances
  <2> QED BY <1>2, <2>3, <2>4, <2>5
<1>3. CASE op \in [op : {"place_region"}, ids : SUBSET Keys, anchorId : Keys \cup {Nothing}]
  <2>1. op.op \in OpNames /\ Targets(op) = op.ids
    BY <1>3 DEF OpNames, Targets
  <2>2. PICK moving : moving = op.ids \cap Nodes(b.byId)
    OBVIOUS
  <2>3. moving \in SUBSET b.minted /\ moving \subseteq Targets(op)
    BY <2>1, <2>2 DEF Nodes, IsWorking
  <2>4. ApplyOp(b, op) = IF moving = {} THEN Fails(b, op) ELSE Does(b, op, moving)
    BY <1>3, <2>2 DEF ApplyOp, place_region
  <2> QED BY <2>1, <2>3, <2>4, FailsAdvances, DoesAdvances
<1>4. CASE op \in [op : {"connect_shapes"}, from : Keys, to : Keys]
  <2>1. op.op = "connect_shapes" /\ b.minted # Ids
    BY <1>4 DEF CreatingOps
  <2>2. ApplyOp(b, op) = connect_shapes(b, op)
    BY <2>1 DEF ApplyOp
  <2> QED BY <2>1, <2>2, ConnectAdvances
<1> QED BY <1>1, <1>2, <1>3, <1>4 DEF CanvasOps

\* ApplyOps applies the operations one by one.
LEMMA ApplyOpsUnfolds ==
  ASSUME NEW base, NEW made, NEW ops, Len(ops) \in Nat
  PROVE  \E f : /\ ApplyOps(base, made, ops) = f[Len(ops)]
                /\ f[0] = Working(base, made)
                /\ \A i \in 1 .. Len(ops) : f[i] = ApplyOp(f[i - 1], ops[i])
<1> DEFINE n == Len(ops)
           Applied(f) == f = [i \in 0 .. Len(ops) |->
                                IF i = 0 THEN Working(base, made)
                                ELSE CHOOSE b \in {ApplyOp(a, ops[i]) : a \in {f[i - 1]}} : TRUE]
           Begun(f, k) == f[0] = Working(base, made) /\ \A i \in 1 .. k : f[i] = ApplyOp(f[i - 1], ops[i])
           Can == {k \in 0 .. n : \E f : Begun(f, k)}
<1>1. ApplyOps(base, made, ops) = (CHOOSE f : Applied(f))[Len(ops)]
  BY DEF ApplyOps
<1>2. 0 \in Can
  <2>1. Begun([i \in {0} |-> Working(base, made)], 0)
    OBVIOUS
  <2> HIDE DEF Begun
  <2> QED BY <2>1
<1>3. ASSUME NEW k \in 0 .. n - 1, k \in Can PROVE k + 1 \in Can
  <2>1. PICK f : Begun(f, k)
    BY <1>3
  <2>2. PICK x : x = ApplyOp(f[k], ops[k + 1])
    OBVIOUS
  <2>3. PICK g : g = [i \in 0 .. k + 1 |-> IF i <= k THEN f[i] ELSE x]
    OBVIOUS
  <2>4. g[0] = Working(base, made) /\ g[k + 1] = x /\ \A i \in 0 .. k : g[i] = f[i]
    BY <2>1, <2>3
  <2>5. ASSUME NEW i \in 1 .. k + 1 PROVE g[i] = ApplyOp(g[i - 1], ops[i])
    <3>1. CASE i <= k
      <4>1. g[i] = f[i] /\ g[i - 1] = f[i - 1] /\ i \in 1 .. k
        BY <2>4, <3>1
      <4> QED BY <2>1, <4>1
    <3>2. CASE i = k + 1
      <4>1. g[i - 1] = f[k]
        BY <2>4, <3>2
      <4> QED BY <2>2, <2>4, <3>2, <4>1
    <3> QED BY <3>1, <3>2
  <2>6. Begun(g, k + 1)
    BY <2>4, <2>5
  <2>7. k + 1 \in 0 .. n
    OBVIOUS
  <2> HIDE DEF Begun
  <2> QED BY <2>6, <2>7
<1>4. n \in Can
  <2>1. n \in Nat /\ n \in 0 .. n
    OBVIOUS
  <2> HIDE DEF Can, n
  <2>2. \A i \in 0 .. n : i \in Can
    BY <1>2, <1>3, <2>1, UpTo
  <2> QED BY <2>1, <2>2
<1>5. PICK f : Begun(f, n)
  BY <1>4
<1>6. PICK g : g = [i \in 0 .. n |-> f[i]]
  OBVIOUS
<1>7. Applied(g)
  <2>1. ASSUME NEW i \in 0 .. n
        PROVE  g[i] = IF i = 0 THEN Working(base, made)
                      ELSE CHOOSE b \in {ApplyOp(a, ops[i]) : a \in {g[i - 1]}} : TRUE
    <3>1. CASE i = 0
      BY <1>5, <1>6, <3>1
    <3>2. CASE i # 0
      <4>1. i \in 1 .. n /\ i - 1 \in 0 .. n
        BY <3>2
      <4>2. g[i] = ApplyOp(g[i - 1], ops[i])
        BY <1>5, <1>6, <4>1
      <4>3. {ApplyOp(a, ops[i]) : a \in {g[i - 1]}} = {ApplyOp(g[i - 1], ops[i])}
        OBVIOUS
      <4> QED BY <3>2, <4>2, <4>3
    <3> QED BY <3>1, <3>2
  <2> QED BY <1>6, <2>1
<1>8. Applied(CHOOSE h : Applied(h))
  <2> HIDE DEF Applied
  <2> QED BY <1>7
<1>9. PICK h : h = (CHOOSE e : Applied(e))
  OBVIOUS
<1>10. Applied(h) /\ ApplyOps(base, made, ops) = h[Len(ops)]
  <2> HIDE DEF Applied
  <2> QED BY <1>1, <1>8, <1>9
<1>11. Begun(h, n)
  <2>1. ASSUME NEW i \in 0 .. n
        PROVE  h[i] = IF i = 0 THEN Working(base, made)
                      ELSE CHOOSE b \in {ApplyOp(a, ops[i]) : a \in {h[i - 1]}} : TRUE
    BY <1>10
  <2>2. h[0] = Working(base, made)
    BY <2>1
  <2>3. ASSUME NEW i \in 1 .. n PROVE h[i] = ApplyOp(h[i - 1], ops[i])
    <3>1. i \in 0 .. n /\ i # 0
      OBVIOUS
    <3>2. {ApplyOp(a, ops[i]) : a \in {h[i - 1]}} = {ApplyOp(h[i - 1], ops[i])}
      OBVIOUS
    <3> QED BY <2>1, <3>1, <3>2
  <2> QED BY <2>2, <2>3
<1> QED BY <1>10, <1>11

\* The operations of a batch that may need a new id.
Creators(ops) == {i \in DOMAIN ops : ops[i].op \in CreatingOps}

\* The working copy after the first i operations of a batch.
After(b, base, made, ops, i) ==
  /\ IsWorking(b) /\ made \subseteq b.minted /\ DOMAIN b.byId \subseteq DOMAIN base
  /\ Cardinality(b.minted) <= Cardinality(made) + Cardinality(Upto(Creators(ops), i))
  /\ Len(b.results) = i /\ \A k \in 1 .. i : Honest(b.results[k], b.minted)
  /\ \A id \in b.edited : \E k \in 1 .. i : id \in Targets(ops[k])

LEMMA MintedIsFinite ==
  ASSUME NEW made \in SUBSET Ids
  PROVE  /\ IsFiniteSet(made) /\ Cardinality(made) \in Nat
         /\ \A id \in Ids \ made : /\ Cardinality(made \cup {id}) = Cardinality(made) + 1
                                   /\ made # Ids
         /\ Cardinality(made) < Cardinality(Ids) => made # Ids
         /\ Cardinality(Ids) \in Nat
<1>1. IsFiniteSet(Ids)
  BY IdsAreFinite
<1>2. IsFiniteSet(made)
  BY <1>1, FS_Subset
<1>3. Cardinality(made) \in Nat /\ Cardinality(Ids) \in Nat
  BY <1>1, <1>2, FS_CardinalityType
<1>4. \A id \in Ids \ made : Cardinality(made \cup {id}) = Cardinality(made) + 1
  BY <1>2, FS_AddElement
<1> QED BY <1>2, <1>3, <1>4

LEMMA OneMoreOp ==
  ASSUME NEW base, NEW made \in SUBSET Ids, NEW ops \in Seq(CanvasOps),
         Cardinality(made) + Cardinality(Creators(ops)) <= Cardinality(Ids),
         NEW i \in 0 .. Len(ops) - 1, NEW b, After(b, base, made, ops, i)
  PROVE  After(ApplyOp(b, ops[i + 1]), base, made, ops, i + 1)
<1>1. Len(ops) \in Nat /\ i \in Nat /\ i + 1 \in 1 .. Len(ops) /\ DOMAIN ops = 1 .. Len(ops)
  BY LenProperties
<1>2. PICK op : op = ops[i + 1]
  OBVIOUS
<1>3. op \in CanvasOps
  BY <1>1, <1>2, ElementOfSeq
<1>4. PICK P : P = Creators(ops)
  OBVIOUS
<1>5. P \subseteq 1 .. Len(ops) /\ (i + 1 \in P <=> op.op \in CreatingOps)
  BY <1>1, <1>2, <1>4 DEF Creators
<1>6. IsFiniteSet(P) /\ Cardinality(P) \in Nat
  <2>1. IsFiniteSet(1 .. Len(ops))
    BY <1>1, FS_Interval
  <2> QED BY <1>5, <2>1, FS_Subset, FS_CardinalityType
<1>7. /\ Cardinality(Upto(P, i)) \in Nat /\ Cardinality(Upto(P, i + 1)) <= Cardinality(P)
      /\ Cardinality(Upto(P, i + 1)) = IF i + 1 \in P THEN Cardinality(Upto(P, i)) + 1 ELSE Cardinality(Upto(P, i))
  <2>1. Upto(P, i + 1) \in SUBSET P
    BY DEF Upto
  <2>2. Cardinality(Upto(P, i + 1)) <= Cardinality(P)
    BY <1>6, <2>1, FS_Subset
  <2> QED BY <1>1, <2>2, UptoGrows
<1>8. PICK m : m = b.minted
  OBVIOUS
<1>9. m \in SUBSET Ids /\ IsWorking(b) /\ Cardinality(m) <= Cardinality(made) + Cardinality(Upto(P, i))
  BY <1>4, <1>8, WorkingIs DEF After
<1>10. Cardinality(m) \in Nat /\ Cardinality(made) \in Nat /\ Cardinality(Ids) \in Nat
  BY <1>9, MintedIsFinite
<1>11. ASSUME op.op \in CreatingOps PROVE b.minted # Ids
  <2>1. Cardinality(m) < Cardinality(Ids)
    BY <1>4, <1>5, <1>6, <1>7, <1>9, <1>10, <1>11
  <2> QED BY <1>8, <1>9, <2>1, MintedIsFinite
<1>12. PICK c : c = ApplyOp(b, op)
  OBVIOUS
<1>13. Advances(b, op, c)
  BY <1>3, <1>9, <1>11, <1>12, ApplyOpAdvances
<1>14. IsWorking(c) /\ DOMAIN c.byId \subseteq DOMAIN base /\ made \subseteq c.minted /\ m \subseteq c.minted
  BY <1>8, <1>13 DEF Advances, After
<1>15. Cardinality(c.minted) <= Cardinality(made) + Cardinality(Upto(P, i + 1))
  <2>1. CASE c.minted = m
    BY <1>7, <1>9, <1>10, <2>1
  <2>2. CASE op.op \in CreatingOps /\ \E id \in Ids \ m : c.minted = m \cup {id}
    <3>1. PICK id \in Ids \ m : c.minted = m \cup {id}
      BY <2>2
    <3>2. Cardinality(c.minted) = Cardinality(m) + 1
      BY <1>9, <3>1, MintedIsFinite
    <3>3. Cardinality(Upto(P, i + 1)) = Cardinality(Upto(P, i)) + 1
      BY <1>5, <1>7, <2>2
    <3> QED BY <1>7, <1>9, <1>10, <3>2, <3>3
  <2> QED BY <1>8, <1>13, <2>1, <2>2 DEF Advances
<1>16. Len(c.results) = i + 1 /\ \A k \in 1 .. i + 1 : Honest(c.results[k], c.minted)
  <2>1. PICK r \in Results : Honest(r, c.minted) /\ c.results = Append(b.results, r)
    BY <1>13 DEF Advances
  <2>2. PICK old : old = b.results
    OBVIOUS
  <2>3. old \in Seq(Results) /\ Len(old) = i /\ \A k \in 1 .. i : Honest(old[k], m)
    BY <1>8, <1>9, <2>2, WorkingIs DEF After
  <2>4. /\ Len(c.results) = i + 1 /\ c.results[i + 1] = r
        /\ \A k \in 1 .. i : c.results[k] = old[k]
    BY <1>1, <2>1, <2>2, <2>3, AppendProperties
  <2>5. \A k \in 1 .. i : Honest(c.results[k], c.minted)
    BY <1>14, <2>3, <2>4 DEF Honest
  <2> QED BY <1>1, <2>1, <2>4, <2>5
<1>17. ASSUME NEW id \in c.edited PROVE \E k \in 1 .. i + 1 : id \in Targets(ops[k])
  <2>1. id \in b.edited \/ id \in Targets(op)
    BY <1>13 DEF Advances
  <2>2. CASE id \in b.edited
    <3>1. PICK k \in 1 .. i : id \in Targets(ops[k])
      BY <2>2 DEF After
    <3> QED BY <1>1, <3>1
  <2>3. CASE id \in Targets(op)
    BY <1>1, <1>2, <2>3
  <2> QED BY <2>1, <2>2, <2>3
<1> QED BY <1>2, <1>4, <1>12, <1>14, <1>15, <1>16, <1>17 DEF After

LEMMA ApplyOpsAdvance ==
  ASSUME NEW base, NEW made \in SUBSET Ids, DOMAIN base \subseteq made, NEW ops \in Seq(CanvasOps),
         Cardinality(made) + Cardinality(Creators(ops)) <= Cardinality(Ids)
  PROVE  After(ApplyOps(base, made, ops), base, made, ops, Len(ops))
<1>1. Len(ops) \in Nat
  BY LenProperties
<1>2. PICK f : /\ ApplyOps(base, made, ops) = f[Len(ops)]
               /\ f[0] = Working(base, made)
               /\ \A i \in 1 .. Len(ops) : f[i] = ApplyOp(f[i - 1], ops[i])
  BY <1>1, ApplyOpsUnfolds
<1> DEFINE Done == {i \in 0 .. Len(ops) : After(f[i], base, made, ops, i)}
<1>3. After(f[0], base, made, ops, 0)
  <2>1. PICK c : c = f[0]
    OBVIOUS
  <2>2. PICK refs : refs = NoRefs
    OBVIOUS
  <2>3. PICK connects : connects = [id \in {} |-> {}]
    OBVIOUS
  <2>4. PICK fresh : fresh = NoScene
    OBVIOUS
  <2>5. DOMAIN connects = {} /\ DOMAIN fresh = {}
    BY <2>3, <2>4 DEF NoScene
  <2>6. PICK none \in SUBSET Ids : none = {}
    OBVIOUS
  <2>7. PICK results \in Seq(Results) : results = <<>> /\ Len(results) = 0
    <3>1. <<>> \in Seq(Results) /\ Len(<<>>) = 0
      OBVIOUS
    <3> QED BY <3>1
  <2>8. c = Copy(base, fresh, none, refs, connects, results, none, made)
    BY <1>2, <2>1, <2>2, <2>3, <2>4, <2>6, <2>7 DEF Working, Copy
  <2>9. IsWorking(c) /\ c.byId = base /\ c.results = results /\ c.edited = none /\ c.minted = made
    BY <2>5, <2>8, CopyIs
  <2>10. Cardinality(Upto(Creators(ops), 0)) = 0 /\ Cardinality(made) \in Nat
    BY UptoGrows, MintedIsFinite
  <2> QED BY <2>1, <2>6, <2>7, <2>9, <2>10 DEF After
<1>4. ASSUME NEW i \in 0 .. Len(ops) - 1, i \in Done PROVE i + 1 \in Done
  <2>1. i + 1 \in 1 .. Len(ops) /\ (i + 1) - 1 = i
    BY <1>1
  <2>2. f[i + 1] = ApplyOp(f[i], ops[i + 1])
    BY <1>2, <2>1
  <2>3. After(f[i], base, made, ops, i)
    BY <1>4
  <2>4. PICK b : b = f[i]
    OBVIOUS
  <2>5. After(ApplyOp(b, ops[i + 1]), base, made, ops, i + 1)
    BY <2>3, <2>4, OneMoreOp
  <2> QED BY <2>1, <2>2, <2>4, <2>5
<1>5. \A i \in 0 .. Len(ops) : i \in Done
  <2>1. 0 \in Done
    BY <1>1, <1>3
  <2> HIDE DEF Done
  <2> QED BY <1>1, <1>4, <2>1, UpTo
<1> QED BY <1>1, <1>2, <1>5

\* What the port makes of a batch there are ids for.
LEMMA ApplyIs ==
  ASSUME NEW base, NEW made \in SUBSET Ids, DOMAIN base \subseteq made, NEW ops \in Seq(CanvasOps),
         Cardinality(made) + Cardinality(Creators(ops)) <= Cardinality(Ids),
         NEW scope, NEW done, done = Apply(base, made, ops, scope)
  PROVE  /\ made \subseteq done.minted /\ done.minted \subseteq Ids
         /\ DOMAIN done.scene \subseteq done.minted
         /\ done.results \in Seq(Results) /\ Len(done.results) = Len(ops)
         /\ \A k \in 1 .. Len(ops) : Honest(done.results[k], done.minted)
         /\ done.edited \subseteq Ids /\ \A id \in done.edited : \E k \in 1 .. Len(ops) : id \in Targets(ops[k])
         /\ done.laidOut \subseteq Moves(scope) /\ done.laidOut \subseteq Ids
<1>1. PICK b : b = ApplyOps(base, made, ops)
  OBVIOUS
<1>2. After(b, base, made, ops, Len(ops))
  BY <1>1, ApplyOpsAdvance
<1>3. PICK shapes : shapes = Over(b.byId, b.fresh)
  OBVIOUS
<1>4. PICK arrows : arrows = [id \in DOMAIN b.connects |-> DrawArrow(shapes, b.connects[id])]
  OBVIOUS
<1>5. PICK combined : combined = Over(shapes, arrows)
  OBVIOUS
<1>6. done = [scene |-> combined, minted |-> b.minted, results |-> b.results, edited |-> b.edited,
              laidOut |-> (scope.spacing \cup scope.overlap) \cap Nodes(combined)]
  BY <1>1, <1>3, <1>4, <1>5 DEF Apply
<1>7. IsWorking(b)
  BY <1>2 DEF After
<1>8. DOMAIN combined \subseteq b.minted
  <2>1. PICK byId : byId = b.byId
    OBVIOUS
  <2>2. PICK fresh : fresh = b.fresh
    OBVIOUS
  <2>3. DOMAIN shapes = DOMAIN byId \cup DOMAIN fresh
    <3>1. shapes = Over(byId, fresh)
      BY <1>3, <2>1, <2>2
    <3> QED BY <3>1, OverDomain
  <2>4. DOMAIN combined = DOMAIN shapes \cup DOMAIN arrows
    BY <1>5, OverDomain
  <2>5. DOMAIN arrows = DOMAIN b.connects
    BY <1>4
  <2> QED BY <1>7, <2>1, <2>2, <2>3, <2>4, <2>5, WorkingIs
<1>9. done.laidOut \subseteq Moves(scope) /\ done.laidOut \subseteq DOMAIN combined
  BY <1>6 DEF Moves, Nodes
<1>10. b.minted \subseteq Ids /\ b.edited \subseteq Ids /\ b.results \in Seq(Results)
  BY <1>7, WorkingIs
<1>11. done.minted = b.minted /\ done.scene = combined /\ done.results = b.results /\ done.edited = b.edited
  BY <1>6
<1> QED BY <1>2, <1>8, <1>9, <1>10, <1>11 DEF After

----------------------------------------------------------------------------
(* The history of a conversation.                                          *)

\* An answer with the same results stays complete.
LEMMA StaysComplete ==
  ASSUME NEW h, NEW e, NEW a, Complete(h, a), e[a].calls = h[a].calls, ResultsOf(e, a) = ResultsOf(h, a),
         \A j \in ResultsOf(h, a) : e[j].call = h[j].call
  PROVE  Complete(e, a)
<1>1. PICK R : R = ResultsOf(h, a)
  OBVIOUS
<1>2. {e[j].call : j \in R} = {h[j].call : j \in R}
  BY <1>1
<1>3. R = a + 1 .. a + Cardinality(h[a].calls) /\ {h[j].call : j \in R} = h[a].calls
  BY <1>1 DEF Complete
<1> QED BY <1>1, <1>2, <1>3 DEF Complete

\* What is said after a history in which every call is answered.
LEMMA SayingIsAnswered ==
  ASSUME NEW h \in Seq(Messages), AllAnswered(h), NEW m \in Messages, m.role = "user", m.calls = {},
         NEW e, e = Append(h, m)
  PROVE  e \in Seq(Messages) /\ AllAnswered(e)
<1>1. /\ e \in Seq(Messages) /\ Len(e) = Len(h) + 1 /\ e[Len(h) + 1] = m
      /\ \A i \in 1 .. Len(h) : e[i] = h[i]
  BY AppendProperties
<1>2. Len(h) \in Nat /\ DOMAIN h = 1 .. Len(h) /\ DOMAIN e = 1 .. Len(h) + 1
  BY <1>1, LenProperties
<1>3. Numbering(e)
  <2>1. ASSUME NEW i \in DOMAIN e
        PROVE  /\ \A id \in e[i].calls : id[1] = i
               /\ IsFiniteSet(e[i].calls)
               /\ e[i].role # "assistant" => e[i].calls = {}
               /\ e[i].role = "tool" => \E a \in 1 .. i - 1 : e[i].call \in e[a].calls
    <3>1. CASE i \in 1 .. Len(h)
      <4>1. /\ \A id \in h[i].calls : id[1] = i
            /\ IsFiniteSet(h[i].calls)
            /\ h[i].role # "assistant" => h[i].calls = {}
            /\ h[i].role = "tool" => \E a \in 1 .. i - 1 : h[i].call \in h[a].calls
        BY <1>2, <3>1 DEF AllAnswered, Numbering
      <4>2. \A a \in 1 .. i - 1 : e[a] = h[a]
        BY <1>1, <1>2, <3>1
      <4> QED BY <1>1, <3>1, <4>1, <4>2
    <3>2. CASE i = Len(h) + 1
      BY <1>1, <3>2, FS_EmptySet
    <3> QED BY <1>2, <3>1, <3>2
  <2> QED BY <2>1 DEF Numbering
<1>4. ASSUME NEW a \in DOMAIN e, e[a].role = "assistant" PROVE Complete(e, a)
  <2>1. a \in 1 .. Len(h) /\ e[a] = h[a]
    BY <1>1, <1>2, <1>4
  <2>2. Complete(h, a)
    BY <1>2, <1>4, <2>1 DEF AllAnswered
  <2>3. ResultsOf(e, a) = ResultsOf(h, a)
    BY <1>1, <1>2, <2>1 DEF ResultsOf
  <2>4. \A j \in ResultsOf(h, a) : e[j] = h[j]
    BY <1>1, <1>2 DEF ResultsOf
  <2>5. e[a].calls = h[a].calls /\ \A j \in ResultsOf(h, a) : e[j].call = h[j].call
    BY <2>1, <2>4
  <2> QED BY <2>2, <2>3, <2>5, StaysComplete
<1> QED BY <1>1, <1>3, <1>4 DEF AllAnswered

\* An answer of the model opens its calls.
LEMMA AnswerOpens ==
  ASSUME NEW h \in Seq(Messages), AllAnswered(h), NEW m \in Messages, m.role = "assistant",
         IsFiniteSet(m.calls), \A id \in m.calls : id[1] = Len(h) + 1,
         NEW e, e = Append(h, m)
  PROVE  e \in Seq(Messages) /\ Open(e, m.calls, Cardinality(m.calls))
<1>1. /\ e \in Seq(Messages) /\ Len(e) = Len(h) + 1 /\ e[Len(h) + 1] = m
      /\ \A i \in 1 .. Len(h) : e[i] = h[i]
  BY AppendProperties
<1>2. Len(h) \in Nat /\ DOMAIN h = 1 .. Len(h) /\ DOMAIN e = 1 .. Len(h) + 1
  BY <1>1, LenProperties
<1>3. \A i \in 1 .. Len(h) :
        /\ \A id \in h[i].calls : id[1] = i
        /\ IsFiniteSet(h[i].calls)
        /\ h[i].role # "assistant" => h[i].calls = {}
        /\ h[i].role = "tool" => \E a \in 1 .. i - 1 : h[i].call \in h[a].calls
  BY <1>2 DEF AllAnswered, Numbering
<1>4. Numbering(e)
  <2>1. ASSUME NEW i \in DOMAIN e
        PROVE  /\ \A id \in e[i].calls : id[1] = i
               /\ IsFiniteSet(e[i].calls)
               /\ e[i].role # "assistant" => e[i].calls = {}
               /\ e[i].role = "tool" => \E a \in 1 .. i - 1 : e[i].call \in e[a].calls
    <3>1. CASE i \in 1 .. Len(h)
      <4>1. \A a \in 1 .. i - 1 : e[a] = h[a]
        BY <1>1, <1>2, <3>1
      <4> QED BY <1>1, <1>3, <3>1, <4>1
    <3>2. CASE i = Len(h) + 1
      BY <1>1, <3>2
    <3> QED BY <1>2, <3>1, <3>2
  <2> QED BY <2>1 DEF Numbering
<1>5. ASSUME NEW a \in DOMAIN e \ {Len(h) + 1}, e[a].role = "assistant" PROVE Complete(e, a)
  <2>1. a \in 1 .. Len(h) /\ e[a] = h[a]
    BY <1>1, <1>2, <1>5
  <2>2. Complete(h, a)
    BY <1>2, <1>5, <2>1 DEF AllAnswered
  <2>3. ResultsOf(e, a) = ResultsOf(h, a)
    BY <1>1, <1>2, <2>1 DEF ResultsOf
  <2>4. \A j \in ResultsOf(h, a) : e[j] = h[j]
    BY <1>1, <1>2 DEF ResultsOf
  <2>5. e[a].calls = h[a].calls /\ \A j \in ResultsOf(h, a) : e[j].call = h[j].call
    BY <2>1, <2>4
  <2> QED BY <2>2, <2>3, <2>5, StaysComplete
<1>6. Cardinality(m.calls) \in Nat
  BY FS_CardinalityType
<1>7. PICK a : a = Len(h) + 1
  OBVIOUS
<1>8. /\ a \in DOMAIN e /\ e[a] = m /\ a + 1 .. Len(e) = {}
      /\ m.calls = {e[j].call : j \in a + 1 .. Len(e)} \cup m.calls
      /\ Cardinality(m.calls) = Len(e) - a + Cardinality(m.calls)
  BY <1>1, <1>2, <1>6, <1>7
<1> QED BY <1>1, <1>4, <1>5, <1>7, <1>8 DEF Open

\* Results of calls that are open close them.
LEMMA ResultsClose ==
  ASSUME NEW h \in Seq(Messages), NEW left, NEW given, NEW count \in Nat, NEW ms \in Seq(Messages),
         Open(h, left \cup given, count + Len(ms)),
         \A i \in 1 .. Len(ms) : ms[i].role = "tool" /\ ms[i].calls = {},
         given = {ms[i].call : i \in 1 .. Len(ms)},
         NEW e, e = h \o ms
  PROVE  e \in Seq(Messages) /\ Open(e, left, count)
<1>1. /\ e \in Seq(Messages) /\ Len(e) = Len(h) + Len(ms)
      /\ \A i \in 1 .. Len(h) : e[i] = h[i]
      /\ \A i \in Len(h) + 1 .. Len(e) : e[i] = ms[i - Len(h)]
  BY ConcatProperties
<1>2. Len(h) \in Nat /\ Len(ms) \in Nat /\ DOMAIN h = 1 .. Len(h) /\ DOMAIN e = 1 .. Len(e)
  BY <1>1, LenProperties
<1>3. PICK a \in DOMAIN h :
        /\ h[a].role = "assistant"
        /\ \A b \in DOMAIN h \ {a} : h[b].role = "assistant" => Complete(h, b)
        /\ \A j \in a + 1 .. Len(h) : h[j].role = "tool" /\ h[j].call \in h[a].calls
        /\ h[a].calls = {h[j].call : j \in a + 1 .. Len(h)} \cup (left \cup given)
        /\ Cardinality(h[a].calls) = Len(h) - a + (count + Len(ms))
  BY DEF Open
<1>4. \A i \in 1 .. Len(h) :
        /\ \A id \in h[i].calls : id[1] = i
        /\ IsFiniteSet(h[i].calls)
        /\ h[i].role # "assistant" => h[i].calls = {}
        /\ h[i].role = "tool" => \E b \in 1 .. i - 1 : h[i].call \in h[b].calls
  BY <1>2 DEF Open, Numbering
<1>5. \A i \in Len(h) + 1 .. Len(e) : i - Len(h) \in 1 .. Len(ms)
  BY <1>1, <1>2
<1>6. \A i \in Len(h) + 1 .. Len(e) : e[i].role = "tool" /\ e[i].calls = {} /\ e[i].call \in h[a].calls
  BY <1>1, <1>3, <1>5
<1>7. a \in 1 .. Len(h) /\ e[a] = h[a]
  BY <1>1, <1>2
<1>8. Numbering(e)
  <2>1. ASSUME NEW i \in DOMAIN e
        PROVE  /\ \A id \in e[i].calls : id[1] = i
               /\ IsFiniteSet(e[i].calls)
               /\ e[i].role # "assistant" => e[i].calls = {}
               /\ e[i].role = "tool" => \E b \in 1 .. i - 1 : e[i].call \in e[b].calls
    <3>1. CASE i \in 1 .. Len(h)
      <4>1. \A b \in 1 .. i - 1 : e[b] = h[b]
        BY <1>1, <1>2, <3>1
      <4>2. e[i] = h[i]
        BY <1>1, <3>1
      <4>3. /\ \A id \in h[i].calls : id[1] = i
            /\ IsFiniteSet(h[i].calls)
            /\ h[i].role # "assistant" => h[i].calls = {}
            /\ h[i].role = "tool" => \E b \in 1 .. i - 1 : h[i].call \in h[b].calls
        BY <1>4, <3>1
      <4> QED BY <4>1, <4>2, <4>3
    <3>2. CASE i \in Len(h) + 1 .. Len(e)
      <4>1. a \in 1 .. i - 1
        BY <1>2, <1>7, <3>2
      <4> QED BY <1>6, <1>7, <3>2, <4>1, FS_EmptySet
    <3> QED BY <1>1, <1>2, <3>1, <3>2
  <2> QED BY <2>1 DEF Numbering
<1>9. ASSUME NEW b \in DOMAIN e \ {a}, e[b].role = "assistant" PROVE Complete(e, b)
  <2>1. b \in 1 .. Len(h) /\ e[b] = h[b]
    BY <1>1, <1>2, <1>6, <1>9
  <2>2. Complete(h, b)
    BY <1>2, <1>3, <1>9, <2>1
  <2>3. ASSUME NEW i \in Len(h) + 1 .. Len(e) PROVE e[i].call \notin h[b].calls
    <3>1. PICK id : id = e[i].call
      OBVIOUS
    <3>2. id \in h[a].calls
      BY <1>6, <3>1
    <3>3. id[1] = a
      BY <1>4, <1>7, <3>2
    <3>4. id \in h[b].calls => id[1] = b
      BY <1>4, <2>1
    <3> QED BY <3>1, <3>3, <3>4
  <2>4. ResultsOf(e, b) = ResultsOf(h, b)
    BY <1>1, <1>2, <2>1, <2>3 DEF ResultsOf
  <2>5. \A j \in ResultsOf(h, b) : e[j] = h[j]
    BY <1>1, <1>2 DEF ResultsOf
  <2> QED BY <2>1, <2>2, <2>4, <2>5, StaysComplete
<1>10. \A j \in a + 1 .. Len(e) : e[j].role = "tool" /\ e[j].call \in e[a].calls
  <2>1. ASSUME NEW j \in a + 1 .. Len(e) PROVE e[j].role = "tool" /\ e[j].call \in e[a].calls
    <3>1. CASE j <= Len(h)
      <4>1. j \in a + 1 .. Len(h) /\ j \in 1 .. Len(h)
        BY <1>1, <1>2, <1>7, <3>1
      <4> QED BY <1>1, <1>3, <1>7, <4>1
    <3>2. CASE j > Len(h)
      <4>1. j \in Len(h) + 1 .. Len(e)
        BY <1>1, <1>2, <1>7, <3>2
      <4> QED BY <1>6, <1>7, <4>1
    <3> QED BY <1>1, <1>2, <1>7, <3>1, <3>2
  <2> QED BY <2>1
<1>11. e[a].calls = {e[j].call : j \in a + 1 .. Len(e)} \cup left
  <2>1. ASSUME NEW id \in {h[j].call : j \in a + 1 .. Len(h)} PROVE id \in {e[j].call : j \in a + 1 .. Len(e)}
    <3>1. PICK j \in a + 1 .. Len(h) : id = h[j].call
      BY <2>1
    <3>2. j \in a + 1 .. Len(e) /\ e[j] = h[j]
      BY <1>1, <1>2, <1>7
    <3> QED BY <3>1, <3>2
  <2>2. ASSUME NEW id \in given PROVE id \in {e[j].call : j \in a + 1 .. Len(e)}
    <3>1. PICK i \in 1 .. Len(ms) : id = ms[i].call
      BY <2>2
    <3>2. PICK j : j = Len(h) + i
      OBVIOUS
    <3>3. j \in Len(h) + 1 .. Len(e) /\ j - Len(h) = i /\ j \in a + 1 .. Len(e)
      BY <1>1, <1>2, <1>7, <3>2
    <3>4. e[j] = ms[i]
      BY <1>1, <3>3
    <3> QED BY <3>1, <3>3, <3>4
  <2>3. \A id \in {e[j].call : j \in a + 1 .. Len(e)} : id \in e[a].calls
    BY <1>10
  <2> QED BY <1>3, <1>7, <2>1, <2>2, <2>3
<1>12. Cardinality(e[a].calls) = Len(e) - a + count
  <2>1. Cardinality(e[a].calls) = Len(h) - a + (count + Len(ms))
    BY <1>3, <1>7
  <2>2. a \in Nat /\ Len(h) - a + (count + Len(ms)) = (Len(h) + Len(ms)) - a + count
    BY <1>2, <1>7
  <2> QED BY <1>1, <2>1, <2>2
<1>13. a \in DOMAIN e /\ e[a].role = "assistant"
  BY <1>1, <1>2, <1>3, <1>7
<1> QED BY <1>1, <1>8, <1>9, <1>10, <1>11, <1>12, <1>13 DEF Open

\* When no call is left, every call is answered.
LEMMA ClosedIsAnswered ==
  ASSUME NEW h \in Seq(Messages), Open(h, {}, 0)
  PROVE  AllAnswered(h)
<1>1. Len(h) \in Nat /\ DOMAIN h = 1 .. Len(h)
  BY LenProperties
<1>2. PICK a \in DOMAIN h :
        /\ h[a].role = "assistant"
        /\ \A b \in DOMAIN h \ {a} : h[b].role = "assistant" => Complete(h, b)
        /\ \A j \in a + 1 .. Len(h) : h[j].role = "tool" /\ h[j].call \in h[a].calls
        /\ h[a].calls = {h[j].call : j \in a + 1 .. Len(h)} \cup {}
        /\ Cardinality(h[a].calls) = Len(h) - a + 0
  BY DEF Open
<1>3. ResultsOf(h, a) = a + 1 .. Len(h)
  <2>1. ASSUME NEW j \in ResultsOf(h, a) PROVE j \in a + 1 .. Len(h)
    <3>1. j \in 1 .. Len(h) /\ h[j].role = "tool" /\ h[j].call \in h[a].calls
      BY <1>1, <2>1 DEF ResultsOf
    <3>2. PICK b \in 1 .. j - 1 : h[j].call \in h[b].calls
      BY <1>1, <3>1 DEF Open, Numbering
    <3>3. b \in DOMAIN h
      BY <1>1, <3>1, <3>2
    <3>4. h[j].call[1] = a /\ h[j].call[1] = b
      BY <3>1, <3>2, <3>3 DEF Open, Numbering
    <3> QED BY <1>1, <3>1, <3>2, <3>4
  <2>2. a + 1 .. Len(h) \subseteq ResultsOf(h, a)
    BY <1>1, <1>2 DEF ResultsOf
  <2> QED BY <2>1, <2>2
<1>4. Complete(h, a)
  <2>1. a + Cardinality(h[a].calls) = Len(h)
    BY <1>1, <1>2
  <2> QED BY <1>2, <1>3, <2>1 DEF Complete
<1>5. \A b \in DOMAIN h : h[b].role = "assistant" => Complete(h, b)
  BY <1>2, <1>4
<1> QED BY <1>5 DEF AllAnswered, Open

----------------------------------------------------------------------------
(* Conversations.                                                          *)

LEMMA ConvIs ==
  ASSUME NEW c \in Convs
  PROVE  /\ c.history \in Seq(Messages) /\ c.cancelled \in BOOLEAN /\ c.turnScope \in Scopes /\ c.refMap \in RefMaps
         /\ c.diagramPlan \in SUBSET Refs /\ c.pendingRelations \in SUBSET StructureRelations
         /\ c = [history |-> c.history, cancelled |-> c.cancelled, turnScope |-> c.turnScope, refMap |-> c.refMap,
                 diagramPlan |-> c.diagramPlan, pendingRelations |-> c.pendingRelations]
BY DEF Convs

LEMMA UserMessageIs ==
  ASSUME NEW m, m = Message("user")
  PROVE  m \in Messages /\ m.role = "user" /\ m.calls = {} /\ m.ids = {}
BY DEF Message, Messages

LEMMA ConcatIs ==
  ASSUME NEW h \in Seq(Messages), NEW ms \in Seq(Messages), NEW e, e = h \o ms
  PROVE  /\ e \in Seq(Messages) /\ Len(e) = Len(h) + Len(ms) /\ Len(h) \in Nat /\ Len(ms) \in Nat
         /\ \A i \in 1 .. Len(h) : e[i] = h[i]
         /\ \A i \in Len(h) + 1 .. Len(e) : e[i] = ms[i - Len(h)]
         /\ DOMAIN h = 1 .. Len(h) /\ DOMAIN ms = 1 .. Len(ms) /\ DOMAIN e = 1 .. Len(e)
<1>1. /\ e \in Seq(Messages) /\ Len(e) = Len(h) + Len(ms)
      /\ \A i \in 1 .. Len(h) : e[i] = h[i]
      /\ \A i \in Len(h) + 1 .. Len(e) : e[i] = ms[i - Len(h)]
  BY ConcatProperties
<1> QED BY <1>1, LenProperties

\* What the model has been told stays told, and a message may be added that names no shape.
LEMMA ToldMore ==
  ASSUME NEW h \in Seq(Messages), NEW ms \in Seq(Messages), NEW e, e = h \o ms,
         NEW here, NEW away, NEW kept, ToldIsSaved(h, here, away, kept),
         \A i \in 1 .. Len(ms) : (ms[i].ids \cap DOMAIN here) \ DOMAIN away \subseteq DOMAIN kept
  PROVE  ToldIsSaved(e, here, away, kept)
<1>1. /\ e \in Seq(Messages) /\ Len(e) = Len(h) + Len(ms)
      /\ \A i \in 1 .. Len(h) : e[i] = h[i]
      /\ \A i \in Len(h) + 1 .. Len(e) : e[i] = ms[i - Len(h)]
  BY ConcatProperties
<1>2. Len(h) \in Nat /\ Len(ms) \in Nat /\ DOMAIN h = 1 .. Len(h) /\ DOMAIN e = 1 .. Len(e)
  BY <1>1, LenProperties
<1>3. ASSUME NEW i \in DOMAIN e PROVE (e[i].ids \cap DOMAIN here) \ DOMAIN away \subseteq DOMAIN kept
  <2>1. CASE i \in 1 .. Len(h)
    BY <1>1, <1>2, <2>1 DEF ToldIsSaved
  <2>2. CASE i \in Len(h) + 1 .. Len(e)
    <3>1. i - Len(h) \in 1 .. Len(ms)
      BY <1>1, <1>2, <2>2
    <3> QED BY <1>1, <2>2, <3>1
  <2> QED BY <1>1, <1>2, <2>1, <2>2
<1> QED BY <1>3 DEF ToldIsSaved

LEMMA ReportedMore ==
  ASSUME NEW c \in Convs, NEW d \in Convs, NEW made, RefsReported(c, made), d.refMap = c.refMap,
         NEW ms \in Seq(Messages), d.history = c.history \o ms
  PROVE  RefsReported(d, made)
<1>1. PICK h : h = c.history
  OBVIOUS
<1>2. PICK e : e = d.history
  OBVIOUS
<1>3. h \in Seq(Messages) /\ e = h \o ms
  BY <1>1, <1>2, ConvIs
<1>4. DOMAIN h = 1 .. Len(h) /\ DOMAIN e = 1 .. Len(e) /\ Len(e) = Len(h) + Len(ms) /\ \A i \in 1 .. Len(h) : e[i] = h[i]
  BY <1>3, ConcatProperties, LenProperties
<1>5. Len(h) \in Nat /\ Len(ms) \in Nat
  BY <1>3, LenProperties
<1>6. \A i \in DOMAIN h : i \in DOMAIN e /\ e[i] = h[i]
  BY <1>4, <1>5
<1>7. ASSUME NEW r \in DOMAIN d.refMap
      PROVE  d.refMap[r] \in made /\ \E i \in DOMAIN d.history : d.refMap[r] \in d.history[i].ids
  <2>1. PICK i \in DOMAIN h : c.refMap[r] \in h[i].ids
    BY <1>1, <1>7 DEF RefsReported
  <2> QED BY <1>2, <1>6, <1>7, <2>1 DEF RefsReported
<1> QED BY <1>7 DEF RefsReported

----------------------------------------------------------------------------
(* Where the request goes from a point at which every call is answered.    *)

\* HarnessTurn as RunTurn uses it: the cursor of an earlier user turn is not kept.
Cursor == IF harness.cursorTurn = turn THEN Settled ELSE [FreshHarness EXCEPT !.cursorTurn = turn]

\* On with the conversation d: the next turn, or the cancellation of the request.
Runs(d) ==
  /\ conv' = d /\ batch' = NoBatch
  /\ \/ /\ pc' = "idle" /\ outcome' = "failed"
        /\ delivered' = delivered /\ emitted' = emitted
        /\ IF d.cancelled THEN harness' = Settled ELSE harness' = Cursor
     \/ /\ pc' = "inspecting" /\ work'.phase = "build"
        /\ ~d.cancelled /\ ~Cursor.cancelled /\ harness' = Cursor
        /\ delivered' = delivered /\ outcome' = outcome /\ emitted' = emitted
     \/ /\ pc' = "asking"
        /\ ~d.cancelled /\ ~Cursor.cancelled /\ harness' = Cursor
        /\ delivered' = delivered \o [i \in 1 .. Len(d.history) - Cursor.sent |-> Cursor.sent + i]
        /\ outcome' = outcome /\ emitted' = emitted

\* The end of the build, or of the request.
Ends(d) ==
  /\ conv' = d /\ batch' = NoBatch /\ harness' = Settled /\ delivered' = delivered
  /\ \/ pc' = "idle" /\ outcome' \in {"completed", "question"} /\ emitted' \in emitted .. emitted + 1
     \/ pc' = "rendering" /\ work'.phase = "review" /\ outcome' = outcome /\ emitted' = emitted

\* What the conversation d must be for that, beside the scene as it is then.
Fits(d) ==
  /\ d \in Convs /\ d.cancelled = conv.cancelled /\ Len(conv.history) <= Len(d.history)
  /\ AllAnswered(d.history)
  /\ ToldIsSaved(d.history, scene', clipboard', saved') /\ RefsReported(d, minted')

LEMMA RunTurnRuns ==
  ASSUME NEW c, c.cancelled \in BOOLEAN, RunTurn(c)
  PROVE  Runs(c)
<1>1. PICK h : h = Cursor
  OBVIOUS
<1>2. CASE c.cancelled
  BY <1>2 DEF RunTurn, Runs, Fail
<1>3. CASE ~c.cancelled
  <2>1. CASE h.cancelled
    BY <1>1, <1>3, <2>1 DEF RunTurn, Runs, Fail, Cursor
  <2>2. CASE ~h.cancelled
    <3>1. conv' = c /\ batch' = NoBatch /\ outcome' = outcome /\ emitted' = emitted
      BY <1>1, <1>3, <2>2 DEF RunTurn, Cursor
    <3>2. CASE work'.phase = "build" /\ ~h.inspected
      BY <1>1, <1>3, <2>2, <3>1, <3>2 DEF RunTurn, Cursor, Runs
    <3>3. CASE ~(work'.phase = "build" /\ ~h.inspected)
      <4>1. Submit(c, h)
        BY <1>1, <1>3, <2>2, <3>1, <3>3 DEF RunTurn, Cursor
      <4> QED BY <1>1, <1>3, <2>2, <3>1, <4>1 DEF Submit, Runs
    <3> QED BY <3>2, <3>3
  <2> QED BY <2>1, <2>2
<1> QED BY <1>2, <1>3

LEMMA WorkIs ==
  ASSUME NEW w \in Works
  PROVE  /\ w.phase \in Phase /\ w.iter \in 0 .. MAX_ITERATIONS - 1 /\ w.changed \in SUBSET Ids
         /\ w.text \in BOOLEAN /\ w.editable \in SUBSET Ids
BY DEF Works

LEMMA FinishBuildEnds ==
  ASSUME NEW c, NEW w \in Works, emitted \in Nat, FinishBuild(c, w)
  PROVE  Ends(c) /\ work' \in Works /\ (work'.phase = "build" => w.phase = "build")
<1>1. CASE w.changed = {}
  <2>1. Finish(c, "completed", w.text) /\ work' = w
    BY <1>1 DEF FinishBuild
  <2> QED BY <2>1 DEF Finish, Ends
<1>2. CASE w.changed # {}
  <2>1. PICK v : v = [w EXCEPT !.phase = "review", !.editable = w.changed]
    OBVIOUS
  <2>2. v \in Works /\ v.phase = "review"
    BY <2>1 DEF Works, Phase
  <2> QED BY <1>2, <2>1, <2>2 DEF FinishBuild, Ends
<1> QED BY <1>1, <1>2

LEMMA FinalizeRuns ==
  ASSUME NEW c, c.cancelled \in BOOLEAN, NEW w \in Works, Finalize(c, w),
         NEW d, d = Push(c, Message("user")), d.cancelled = c.cancelled
  PROVE  Runs(d) /\ work' \in Works /\ work'.phase = "finalize"
<1>1. work' = [w EXCEPT !.phase = "finalize"] /\ RunTurn(d)
  BY DEF Finalize
<1>2. work' \in Works /\ work'.phase = "finalize"
  BY <1>1 DEF Works, Phase
<1>3. Runs(d)
  BY <1>1, RunTurnRuns
<1> QED BY <1>2, <1>3

LEMMA NextIterationGoes ==
  ASSUME NEW c, c.cancelled \in BOOLEAN, NEW w \in Works, emitted \in Nat, NextIteration(c, w)
  PROVE  /\ Runs(c) \/ Ends(c)
         /\ w.iter < MAX_ITERATIONS - 1 => Runs(c)
         /\ work' \in Works /\ (work'.phase = "build" => w.phase = "build")
<1>1. MAX_ITERATIONS \in Nat /\ w.iter \in 0 .. MAX_ITERATIONS - 1
  BY IterationsArePositive, WorkIs
<1>2. CASE w.iter + 1 < MAX_ITERATIONS
  <2>1. work' = [w EXCEPT !.iter = @ + 1] /\ RunTurn(c)
    BY <1>2 DEF NextIteration
  <2>2. work' \in Works /\ work'.phase = w.phase
    BY <1>1, <1>2, <2>1 DEF Works
  <2> QED BY <2>1, <2>2, RunTurnRuns
<1>3. CASE ~(w.iter + 1 < MAX_ITERATIONS)
  <2>1. FinishBuild(c, w)
    BY <1>3 DEF NextIteration
  <2> QED BY <1>1, <1>3, <2>1, FinishBuildEnds
<1> QED BY <1>2, <1>3

LEMMA PushIs ==
  ASSUME NEW c \in Convs, NEW m \in Messages, NEW d, d = Push(c, m)
  PROVE  /\ d \in Convs /\ d.history = Append(c.history, m)
         /\ d.cancelled = c.cancelled /\ d.turnScope = c.turnScope /\ d.refMap = c.refMap
         /\ d.diagramPlan = c.diagramPlan /\ d.pendingRelations = c.pendingRelations
<1>1. PICK h : h = Append(c.history, m)
  OBVIOUS
<1>2. h \in Seq(Messages)
  BY <1>1, ConvIs, AppendProperties
<1>3. d = [history |-> h, cancelled |-> c.cancelled, turnScope |-> c.turnScope, refMap |-> c.refMap,
           diagramPlan |-> c.diagramPlan, pendingRelations |-> c.pendingRelations]
  BY <1>1 DEF Push, Convs
<1> QED BY <1>1, <1>2, <1>3, ConvIs DEF Convs

LEMMA HearsIs ==
  ASSUME NEW c \in Convs, NEW ms \in Seq(Messages), NEW d, d = Hears(c, ms)
  PROVE  /\ d \in Convs /\ d.history = c.history \o ms
         /\ d.cancelled = c.cancelled /\ d.turnScope = c.turnScope /\ d.refMap = c.refMap
         /\ d.diagramPlan = c.diagramPlan /\ d.pendingRelations = c.pendingRelations
<1>1. PICK h : h = c.history \o ms
  OBVIOUS
<1>2. h \in Seq(Messages)
  BY <1>1, ConvIs, ConcatProperties
<1>3. d = [history |-> h, cancelled |-> c.cancelled, turnScope |-> c.turnScope, refMap |-> c.refMap,
           diagramPlan |-> c.diagramPlan, pendingRelations |-> c.pendingRelations]
  BY <1>1 DEF Hears, Convs
<1> QED BY <1>1, <1>2, <1>3, ConvIs DEF Convs

\* A message to the model between answered calls.
LEMMA SaysFits ==
  ASSUME NEW c, Fits(c), NEW d, d = Push(c, Message("user"))
  PROVE  Fits(d) /\ d.turnScope = c.turnScope
<1>1. PICK m : m = Message("user")
  OBVIOUS
<1>2. m \in Messages /\ m.role = "user" /\ m.calls = {} /\ m.ids = {}
  BY <1>1, UserMessageIs
<1>3. c \in Convs
  BY DEF Fits
<1>4. /\ d \in Convs /\ d.history = Append(c.history, m) /\ d.cancelled = c.cancelled
      /\ d.turnScope = c.turnScope /\ d.refMap = c.refMap
  BY <1>1, <1>2, <1>3, PushIs
<1>5. PICK h \in Seq(Messages) : h = c.history
  BY <1>3, ConvIs
<1>6. PICK e : e = d.history
  OBVIOUS
<1>7. e = Append(h, m) /\ e = h \o <<m>> /\ <<m>> \in Seq(Messages) /\ Len(e) = Len(h) + 1
  BY <1>2, <1>4, <1>5, <1>6, AppendProperties, AppendIsConcat
<1>8. AllAnswered(e)
  BY <1>2, <1>5, <1>7, SayingIsAnswered DEF Fits
<1>9. PICK ms \in Seq(Messages) : ms = <<m>> /\ Len(ms) = 1 /\ ms[1] = m
  BY <1>7
<1>10. ToldIsSaved(e, scene', clipboard', saved')
  <2>1. \A i \in 1 .. Len(ms) : (ms[i].ids \cap DOMAIN scene') \ DOMAIN clipboard' \subseteq DOMAIN saved'
    BY <1>2, <1>9
  <2>2. ToldIsSaved(h, scene', clipboard', saved') /\ e = h \o ms
    BY <1>5, <1>7, <1>9 DEF Fits
  <2>3. PICK here : here = scene'
    OBVIOUS
  <2>4. PICK away : away = clipboard'
    OBVIOUS
  <2>5. PICK kept : kept = saved'
    OBVIOUS
  <2> QED BY <2>1, <2>2, <2>3, <2>4, <2>5, ToldMore
<1>11. RefsReported(d, minted')
  <2>1. d.history = c.history \o ms
    BY <1>5, <1>6, <1>7, <1>9
  <2>2. PICK made : made = minted'
    OBVIOUS
  <2>3. RefsReported(c, made)
    BY <2>2 DEF Fits
  <2> QED BY <1>3, <1>4, <2>1, <2>2, <2>3, ReportedMore
<1>12. Len(conv.history) <= Len(d.history)
  <2>1. Len(h) \in Nat /\ Len(e) = Len(h) + 1 /\ Len(conv.history) <= Len(h)
    BY <1>5, <1>7, LenProperties DEF Fits
  <2> QED BY <1>6, <2>1
<1> QED BY <1>4, <1>6, <1>8, <1>10, <1>11, <1>12 DEF Fits

LEMMA CountingOn ==
  ASSUME NEW s \in Nat, NEW n \in Nat, s <= n, NEW f, f = Counting(s)
  PROVE  f \o [i \in 1 .. n - s |-> s + i] = Counting(n)
<1>1. PICK g : g = [i \in 1 .. n - s |-> s + i]
  OBVIOUS
<1>2. n - s \in Nat /\ s \in Nat
  OBVIOUS
<1>3. f \in Seq(Nat) /\ Len(f) = s /\ \A i \in 1 .. s : f[i] = i
  BY DEF Counting
<1>4. g \in Seq(Nat) /\ Len(g) = n - s /\ \A i \in 1 .. n - s : g[i] = s + i
  BY <1>1, <1>2
<1>5. /\ f \o g \in Seq(Nat) /\ Len(f \o g) = n
      /\ \A i \in 1 .. s : (f \o g)[i] = f[i]
      /\ \A i \in s + 1 .. n : (f \o g)[i] = g[i - s]
  BY <1>2, <1>3, <1>4, ConcatProperties
<1>6. ASSUME NEW i \in 1 .. n PROVE (f \o g)[i] = i
  <2>1. CASE i <= s
    BY <1>3, <1>5, <2>1
  <2>2. CASE i > s
    <3>1. i \in s + 1 .. n
      BY <2>2
    <3>2. (f \o g)[i] = g[i - s]
      BY <1>5, <3>1
    <3>3. PICK k : k = i - s
      OBVIOUS
    <3>4. k \in 1 .. n - s /\ s + k = i
      BY <2>2, <3>3
    <3>5. g[k] = s + k
      BY <1>4, <3>4
    <3> QED BY <3>2, <3>3, <3>4, <3>5
  <2>3. i <= s \/ i > s
    OBVIOUS
  <2> QED BY <2>1, <2>2, <2>3
<1>7. PICK e : e = f \o g
  OBVIOUS
<1>8. e = [i \in 1 .. n |-> e[i]]
  <2>1. e \in Seq(Nat) /\ Len(e) = n
    BY <1>5, <1>7
  <2>2. e \in [1 .. n -> Nat]
    BY <2>1, LenProperties
  <2> QED BY <2>2
<1>9. e = [i \in 1 .. n |-> i]
  BY <1>6, <1>7, <1>8
<1> QED BY <1>1, <1>7, <1>9 DEF Counting

LEMMA CursorIs ==
  ASSUME Typed, Delivering, pc # "idle"
  PROVE  /\ Cursor \in Harnesses /\ Settled \in Harnesses
         /\ Cursor.cursorTurn = turn /\ Cursor.sent <= Len(conv.history) /\ delivered = Counting(Cursor.sent)
         /\ Settled.cursorTurn <= turn /\ Settled.cancelled = harness.cancelled
         /\ pc # "context" => Cursor = Settled
<1>1. /\ turn \in Nat /\ harness \in Harnesses /\ Len(conv.history) \in Nat
      /\ pc \in {"context", "asking"} \cup {"inspecting", "early", "earlySave", "late", "lateSave", "rendering"}
  <2>1. conv \in Convs
    BY DEF Typed
  <2>2. Len(conv.history) \in Nat
    BY <2>1, ConvIs, LenProperties
  <2> QED BY <2>2, SendsAreCounted DEF Typed, Parked
<1>2. /\ Settled \in Harnesses /\ Settled.cursorTurn = harness.cursorTurn /\ Settled.cancelled = harness.cancelled
      /\ Settled.sent = IF pc = "asking" THEN Len(conv.history) ELSE harness.sent
  BY <1>1 DEF Settled, Harnesses
<1>3. CASE pc = "context"
  <2>1. harness.cursorTurn # turn /\ conv.history = <<>> /\ delivered = <<>>
    BY <1>1, <1>3 DEF Delivering, Harnesses
  <2>2. Cursor = [cursorTurn |-> turn, sent |-> 0, cancelled |-> FALSE, inspected |-> FALSE]
    BY <2>1 DEF Cursor, FreshHarness
  <2>3. Counting(0) = <<>> /\ Len(<<>>) = 0
    BY DEF Counting
  <2> QED BY <1>1, <1>2, <1>3, <2>1, <2>2, <2>3 DEF Harnesses, Delivering
<1>4. CASE pc # "context"
  <2>1. harness.cursorTurn = turn /\ Cursor = Settled
    BY <1>4 DEF Delivering, Cursor
  <2>2. Settled.sent <= Len(conv.history) /\ delivered = Counting(Settled.sent)
    BY <1>1, <1>2, <1>4 DEF Delivering, Harnesses
  <2> QED BY <1>1, <1>2, <2>1, <2>2
<1> QED BY <1>3, <1>4

LEMMA NoBatchIs == IsBatch(NoBatch)
<1>1. PICK b : b = NoBatch
  OBVIOUS
<1>2. PICK none : none = <<>>
  OBVIOUS
<1>3. none \in Seq(StageCalls) /\ none \in Seq(Results) /\ none \in Seq(DeclareCalls)
  BY <1>2
<1>4. PICK empty : empty = {}
  OBVIOUS
<1>5. NoScope \in Scopes
  BY DEF NoScope, Scopes
<1>6. PICK scope \in Scopes : scope = NoScope
  BY <1>5
<1>7. b = [calls |-> none, base |-> NoScene, scope |-> scope, results |-> none, declares |-> none, deferred |-> none,
           edited |-> empty, laidOut |-> empty, leftover |-> empty, didApply |-> FALSE]
  BY <1>1, <1>2, <1>4, <1>6 DEF NoBatch
<1> QED BY <1>1, <1>3, <1>4, <1>6, <1>7 DEF IsBatch

\* A cancelled request asks for nothing more and begins no batch.
Heeds ==
  conv.cancelled /\ turn' = turn =>
    /\ delivered' = delivered
    /\ pc' \in {"inspecting", "early"} => pc' = pc

\* From such a point every step leads to a sound state, and heeds a cancellation.
LEMMA GoesSound ==
  ASSUME Typed, Delivering, CancelHeard, pc # "idle", turn' = turn, OnCanvas',
         NEW d, Fits(d), Runs(d) \/ (Ends(d) /\ pc # "context"),
         work' \in Works, work'.phase = "build" => FreezeHolds(d.turnScope)
  PROVE  Sound' /\ Heeds
<1>1. conv' = d /\ batch' = NoBatch /\ d \in Convs /\ emitted = 0
  BY DEF Runs, Ends, Fits, Typed
<1>2. pc' \in {"idle", "rendering", "inspecting", "asking"}
  BY DEF Runs, Ends
<1>3. Len(d.history) \in Nat /\ Len(conv.history) \in Nat /\ Len(conv.history) <= Len(d.history)
  <2>1. conv \in Convs
    BY DEF Typed
  <2> QED BY <1>1, <2>1, ConvIs, LenProperties DEF Fits
<1>4. /\ Cursor \in Harnesses /\ Settled \in Harnesses
      /\ Cursor.cursorTurn = turn /\ Cursor.sent <= Len(conv.history) /\ delivered = Counting(Cursor.sent)
      /\ Settled.cursorTurn <= turn /\ Settled.cancelled = harness.cancelled
      /\ pc # "context" => Cursor = Settled
  BY CursorIs
<1>5. harness' \in {Settled, Cursor} /\ harness' \in Harnesses
  BY <1>4 DEF Runs, Ends
<1>6. Typed'
  <2>1. IsBatch(batch)'
    BY <1>1, NoBatchIs
  <2>2. outcome' \in {"none", "completed", "failed", "question"} /\ emitted' \in 0 .. 1 /\ (pc' # "idle" => emitted' = 0)
    BY <1>1 DEF Runs, Ends, Typed
  <2>3. pc' \in Parked \cup {"idle"}
    BY <1>2 DEF Parked
  <2>4. turn' \in 0 .. MaxSends
    BY DEF Typed
  <2> QED BY <1>1, <1>5, <2>1, <2>2, <2>3, <2>4 DEF Typed
<1>7. Staged'
  BY <1>2 DEF Staged, Applies
<1>8. Answering'
  BY <1>1, <1>2 DEF Answering, Fits
<1>9. Delivering'
  <2>1. harness'.cursorTurn <= turn'
    <3>1. turn \in Nat
      BY SendsAreCounted DEF Typed
    <3> QED BY <1>4, <1>5, <3>1
  <2>2. CASE pc' = "idle"
    BY <2>1, <2>2 DEF Delivering
  <2>3. CASE pc' = "rendering"
    <3>1. harness' = Cursor /\ delivered' = delivered
      BY <1>4, <2>3 DEF Runs, Ends
    <3> QED BY <1>1, <1>3, <1>4, <2>1, <2>3, <3>1 DEF Delivering, Harnesses
  <2>4. CASE pc' = "inspecting"
    <3>1. harness' = Cursor /\ delivered' = delivered
      BY <2>4 DEF Runs, Ends
    <3> QED BY <1>1, <1>3, <1>4, <2>1, <2>4, <3>1 DEF Delivering, Harnesses
  <2>5. CASE pc' = "asking"
    <3>1. /\ harness' = Cursor
          /\ delivered' = delivered \o [i \in 1 .. Len(d.history) - Cursor.sent |-> Cursor.sent + i]
      BY <2>5 DEF Runs, Ends
    <3>2. PICK s \in Nat : s = Cursor.sent
      BY <1>4 DEF Harnesses
    <3>3. PICK n \in Nat : n = Len(d.history)
      BY <1>3
    <3>4. s <= n /\ delivered = Counting(s)
      BY <1>3, <1>4, <3>2, <3>3
    <3>5. delivered' = Counting(n)
      BY <3>1, <3>2, <3>3, <3>4, CountingOn
    <3> QED BY <1>1, <1>4, <2>1, <2>5, <3>1, <3>2, <3>3, <3>4, <3>5 DEF Delivering
  <2> QED BY <1>2, <2>2, <2>3, <2>4, <2>5
<1>10. CancelHeard'
  BY <1>1, <1>4 DEF CancelHeard, Runs, Ends, Fits
<1>11. Saving'
  BY <1>1, <1>2 DEF Saving, Fits
<1>12. RefsReported(conv, minted)'
  BY <1>1 DEF Fits
<1>13. Freezing'
  BY <1>1, <1>2 DEF Freezing
<1>14. Reviewing'
  BY <1>2 DEF Reviewing
<1>15. Phases'
  BY <1>2 DEF Phases, Applies, Runs, Ends
<1>16. Heeds
  <2>1. d.cancelled = conv.cancelled
    BY DEF Fits
  <2> QED BY <2>1 DEF Runs, Ends, Heeds
<1> QED BY <1>6, <1>7, <1>8, <1>9, <1>10, <1>11, <1>12, <1>13, <1>14, <1>15, <1>16 DEF Sound

----------------------------------------------------------------------------
(* The steps.                                                              *)

LEMMA EmptyHistory == <<>> \in Seq(Messages) /\ Len(<<>>) = 0 /\ DOMAIN <<>> = {}
OBVIOUS

LEMMA FreshConversationIs ==
  /\ FreshConversation \in Convs /\ FreshConversation.history = <<>> /\ ~FreshConversation.cancelled
  /\ FreezeHolds(FreshConversation.turnScope) /\ RefsReported(FreshConversation, minted)
<1>1. PICK c : c = FreshConversation
  OBVIOUS
<1>2. PICK none \in Seq(Messages) : none = <<>>
  BY EmptyHistory
<1>3. PICK scope \in Scopes : scope = NoScope
  BY DEF NoScope, Scopes
<1>4. PICK refs : refs = NoRefs
  OBVIOUS
<1>5. refs \in RefMaps /\ DOMAIN refs = {}
  <2>1. refs \in [{} -> Ids] /\ DOMAIN refs = {}
    BY <1>4 DEF NoRefs
  <2> QED BY <2>1 DEF RefMaps
<1>6. PICK plan \in SUBSET Refs : plan = NoPlan
  BY DEF NoPlan
<1>7. PICK pending \in SUBSET StructureRelations : pending = {}
  OBVIOUS
<1>8. c = [history |-> none, cancelled |-> FALSE, turnScope |-> scope, refMap |-> refs, diagramPlan |-> plan,
           pendingRelations |-> pending]
  BY <1>1, <1>2, <1>3, <1>4, <1>6, <1>7 DEF FreshConversation
<1>9. c \in Convs
  BY <1>5, <1>8 DEF Convs
<1>10. FreezeHolds(c.turnScope)
  <2>1. c.turnScope = NoScope
    BY <1>3, <1>8
  <2> QED BY <2>1 DEF FreezeHolds, Moves, NoScope
<1>11. RefsReported(c, minted)
  BY <1>5, <1>8 DEF RefsReported
<1> QED BY <1>1, <1>2, <1>8, <1>9, <1>10, <1>11

LEMMA FreshWorkIs == FreshWork \in Works /\ FreshWork.phase = "build"
<1>1. 0 \in 0 .. MAX_ITERATIONS - 1
  BY IterationsArePositive
<1> QED BY <1>1 DEF FreshWork, Works, Phase

LEMMA InitSound == Init => Sound
<1>1. SUFFICES ASSUME Init PROVE Sound
  OBVIOUS
<1>2. /\ pc = "idle" /\ turn = 0 /\ conv = FreshConversation /\ work = FreshWork /\ batch = NoBatch
      /\ harness = FreshHarness /\ outcome = "none" /\ emitted = 0
  BY <1>1 DEF Init
<1>3. harness \in Harnesses /\ harness.cursorTurn = 0
  BY <1>2 DEF FreshHarness, Harnesses
<1>4. Typed
  <2>1. 0 \in 0 .. MaxSends
    BY SendsAreCounted
  <2> QED BY <1>2, <1>3, <2>1, FreshConversationIs, FreshWorkIs, NoBatchIs DEF Typed
<1>5. OnCanvas
  BY <1>1, IdsAreFinite DEF Init, OnCanvas
<1>6. Staged /\ Answering /\ Saving /\ Reviewing /\ Phases
  BY <1>2 DEF Staged, Answering, Saving, Reviewing, Phases, Applies
<1>7. Delivering /\ CancelHeard
  BY <1>2, <1>3, FreshConversationIs DEF Delivering, CancelHeard
<1>8. RefsReported(conv, minted) /\ Freezing
  BY <1>2, FreshConversationIs DEF Freezing
<1> QED BY <1>4, <1>5, <1>6, <1>7, <1>8 DEF Sound

LEMMA SendSound == Sound /\ Send => Sound'
<1>1. SUFFICES ASSUME Sound, Send PROVE Sound'
  OBVIOUS
<1>2. /\ pc' = "context" /\ turn' = turn + 1 /\ conv' = FreshConversation /\ work' = FreshWork /\ batch' = NoBatch
      /\ delivered' = <<>> /\ outcome' = "none" /\ emitted' = 0 /\ harness' = harness
      /\ scene' = scene /\ saved' = saved /\ minted' = minted /\ clipboard' = clipboard
  BY <1>1 DEF Send, canvas
<1>3. turn \in Nat /\ turn < MaxSends /\ MaxSends \in Nat /\ harness \in Harnesses
  BY <1>1, SendsAreCounted DEF Sound, Typed, Send
<1>4. Typed'
  <2>1. turn' \in 0 .. MaxSends
    BY <1>2, <1>3
  <2>2. IsBatch(batch)'
    BY <1>2, NoBatchIs
  <2> QED BY <1>2, <1>3, <2>1, <2>2, FreshConversationIs, FreshWorkIs DEF Typed, Parked
<1>5. OnCanvas'
  BY <1>1, <1>2 DEF Sound, OnCanvas
<1>6. conv'.history = <<>> /\ ~conv'.cancelled /\ FreezeHolds(conv'.turnScope) /\ RefsReported(conv', minted')
  BY <1>2, FreshConversationIs
<1>7. Staged' /\ Reviewing' /\ Phases'
  BY <1>2, FreshWorkIs DEF Staged, Reviewing, Phases, Applies
<1>8. Answering' /\ Saving'
  <2>1. AllAnswered(<<>>) /\ \A s, c, k : ToldIsSaved(<<>>, s, c, k)
    BY EmptyHistory DEF AllAnswered, Numbering, ToldIsSaved
  <2> QED BY <1>2, <1>6, <2>1 DEF Answering, Saving, Applies
<1>9. Delivering'
  <2>1. harness'.cursorTurn < turn'
    BY <1>1, <1>2, <1>3 DEF Sound, Delivering, Harnesses
  <2>2. harness'.cursorTurn <= turn'
    BY <1>2, <1>3, <2>1 DEF Harnesses
  <2> QED BY <1>2, <1>6, <2>1, <2>2 DEF Delivering
<1>10. CancelHeard' /\ RefsReported(conv, minted)' /\ Freezing'
  BY <1>2, <1>6 DEF CancelHeard, Freezing
<1> QED BY <1>4, <1>5, <1>7, <1>8, <1>9, <1>10 DEF Sound

\* Between two answers the conversation itself fits, where the canvas is left alone.
LEMMA ConvFits ==
  ASSUME Sound, pc \notin Applies \cup {"idle"}, UNCHANGED canvas
  PROVE  Fits(conv) /\ OnCanvas'
<1>1. conv \in Convs /\ Len(conv.history) \in Nat
  BY ConvIs, LenProperties DEF Sound, Typed
<1>2. AllAnswered(conv.history) /\ ToldIsSaved(conv.history, scene, clipboard, saved) /\ RefsReported(conv, minted)
  BY DEF Sound, Answering, Saving, Applies
<1>3. scene' = scene /\ clipboard' = clipboard /\ saved' = saved /\ minted' = minted
  BY DEF canvas
<1> QED BY <1>1, <1>2, <1>3 DEF Fits, Sound, OnCanvas

LEMMA ContextReadySound == Sound /\ ContextReady => Sound' /\ Heeds
<1>1. SUFFICES ASSUME Sound, ContextReady PROVE Sound' /\ Heeds
  OBVIOUS
<1>2. pc = "context" /\ work' = work /\ turn' = turn /\ UNCHANGED canvas
  BY <1>1 DEF ContextReady
<1>3. Fits(conv) /\ OnCanvas'
  <2>1. pc \notin Applies \cup {"idle"}
    BY <1>2 DEF Applies
  <2> QED BY <1>1, <1>2, <2>1, ConvFits
<1>4. PICK d : d = Push(conv, Message("user"))
  OBVIOUS
<1>5. Fits(d) /\ d.turnScope = conv.turnScope
  BY <1>3, <1>4, SaysFits
<1>6. Runs(d)
  <2>1. RunTurn(d) /\ d.cancelled \in BOOLEAN
    BY <1>1, <1>4, <1>5, ConvIs DEF ContextReady, Fits
  <2> QED BY <2>1, RunTurnRuns
<1>7. work' \in Works /\ (work'.phase = "build" => FreezeHolds(d.turnScope))
  BY <1>1, <1>2, <1>5 DEF Sound, Typed, Freezing
<1> QED BY <1>1, <1>2, <1>3, <1>5, <1>6, <1>7, GoesSound DEF Sound

LEMMA ReviewRenderedSound == Sound /\ ReviewRendered => Sound' /\ Heeds
<1>1. SUFFICES ASSUME Sound, ReviewRendered PROVE Sound' /\ Heeds
  OBVIOUS
<1>2. pc = "rendering" /\ turn' = turn /\ UNCHANGED canvas
  BY <1>1 DEF ReviewRendered
<1>3. Fits(conv) /\ OnCanvas'
  <2>1. pc \notin Applies \cup {"idle"}
    BY <1>2 DEF Applies
  <2> QED BY <1>1, <1>2, <2>1, ConvFits
<1>4. PICK d : d = Push(conv, Message("user"))
  OBVIOUS
<1>5. Fits(d) /\ d.turnScope = conv.turnScope /\ d.cancelled \in BOOLEAN /\ conv.cancelled \in BOOLEAN
  BY <1>3, <1>4, SaysFits, ConvIs DEF Fits
<1>6. d.cancelled = conv.cancelled
  BY <1>5 DEF Fits
<1>7. work \in Works
  BY <1>1 DEF Sound, Typed
<1>8. Runs(d) /\ work' \in Works /\ (work'.phase = "build" => FreezeHolds(d.turnScope))
  <2>1. CASE work' = work /\ RunTurn(d)
    <3>1. Runs(d)
      BY <1>5, <2>1, RunTurnRuns
    <3> QED BY <1>1, <1>5, <1>7, <2>1, <3>1 DEF Sound, Freezing
  <2>2. CASE Finalize(conv, work)
    BY <1>4, <1>5, <1>6, <1>7, <2>2, FinalizeRuns
  <2> QED BY <1>1, <1>4, <2>1, <2>2 DEF ReviewRendered
<1> QED BY <1>1, <1>2, <1>3, <1>5, <1>8, GoesSound DEF Sound

\* A request that fails leaves nothing but its conversation.
LEMMA FailSound ==
  ASSUME Sound, pc # "idle", Fail(conv), turn' = turn, work' = work, OnCanvas', minted' = minted,
         harness' \in Harnesses, harness'.cursorTurn = harness.cursorTurn, harness'.cancelled = harness.cancelled
  PROVE  Sound'
<1>1. pc' = "idle" /\ outcome' = "failed" /\ batch' = NoBatch /\ conv' = conv /\ delivered' = delivered /\ emitted' = emitted
  BY DEF Fail
<1>2. Typed'
  <2>1. IsBatch(batch)'
    BY <1>1, NoBatchIs
  <2> QED BY <1>1, <2>1 DEF Sound, Typed
<1>3. Staged' /\ Answering' /\ Saving' /\ Reviewing' /\ Phases'
  BY <1>1 DEF Staged, Answering, Saving, Reviewing, Phases, Applies
<1>4. Delivering' /\ CancelHeard' /\ RefsReported(conv, minted)' /\ Freezing'
  BY <1>1 DEF Sound, Delivering, CancelHeard, Freezing
<1> QED BY <1>2, <1>3, <1>4 DEF Sound

LEMMA TurnFailsSound == Sound /\ TurnFails => Sound'
<1>1. SUFFICES ASSUME Sound, TurnFails PROVE Sound'
  OBVIOUS
<1>2. pc # "idle" /\ Fail(conv) /\ turn' = turn /\ work' = work /\ harness' = harness /\ UNCHANGED canvas
  BY <1>1 DEF TurnFails
<1>3. OnCanvas' /\ minted' = minted
  BY <1>1, <1>2 DEF Sound, OnCanvas, canvas
<1> QED BY <1>1, <1>2, <1>3, FailSound DEF Sound, Typed

LEMMA SaveFailsSound == Sound /\ SaveFails => Sound'
<1>1. SUFFICES ASSUME Sound, SaveFails PROVE Sound'
  OBVIOUS
<1>2. pc # "idle" /\ Fail(conv) /\ turn' = turn /\ work' = work /\ harness' = harness
  BY <1>1 DEF SaveFails
<1>3. OnCanvas' /\ minted' = minted
  BY <1>1 DEF Sound, OnCanvas, SaveFails
<1> QED BY <1>1, <1>2, <1>3, FailSound DEF Sound, Typed

LEMMA InspectionEndsSound == Sound /\ InspectionEnds => Sound'
<1>1. SUFFICES ASSUME Sound, InspectionEnds PROVE Sound'
  OBVIOUS
<1>2. PICK h : h = [harness EXCEPT !.inspected = TRUE]
  OBVIOUS
<1>3. h \in Harnesses /\ h.cursorTurn = harness.cursorTurn /\ h.cancelled = harness.cancelled /\ h.sent = harness.sent
  BY <1>1, <1>2 DEF Sound, Typed, Harnesses
<1>4. pc = "inspecting" /\ turn' = turn /\ work' = work /\ scene' = scene /\ saved' = saved /\ minted' = minted
      /\ clipboard' = clipboard
  BY <1>1 DEF InspectionEnds, canvas
<1>5. OnCanvas'
  BY <1>1, <1>4 DEF Sound, OnCanvas
<1>6. CASE h.cancelled
  <2>1. Fail(conv) /\ harness' = h
    BY <1>1, <1>2, <1>6 DEF InspectionEnds
  <2> QED BY <1>1, <1>3, <1>4, <1>5, <2>1, FailSound
<1>7. CASE ~h.cancelled
  <2>1. Submit(conv, h) /\ conv' = conv /\ batch' = batch /\ outcome' = outcome /\ emitted' = emitted
    BY <1>1, <1>2, <1>7 DEF InspectionEnds
  <2>2. /\ pc' = "asking" /\ harness' = h
        /\ delivered' = delivered \o [i \in 1 .. Len(conv.history) - h.sent |-> h.sent + i]
    BY <2>1 DEF Submit
  <2>3. harness.cursorTurn = turn /\ harness.sent <= Len(conv.history) /\ delivered = Counting(harness.sent)
    BY <1>1, <1>4 DEF Sound, Delivering
  <2>4. Typed'
    BY <1>1, <1>3, <1>4, <2>1, <2>2 DEF Sound, Typed, Parked, IsBatch
  <2>5. Staged' /\ Reviewing'
    BY <2>2 DEF Staged, Reviewing, Applies
  <2>6. Answering' /\ Saving' /\ Phases'
    BY <1>1, <1>4, <2>1, <2>2 DEF Sound, Answering, Saving, Phases, Applies
  <2>7. Delivering'
    <3>1. PICK s \in Nat : s = h.sent
      BY <1>3 DEF Harnesses
    <3>2. conv.history \in Seq(Messages)
      BY <1>1, ConvIs DEF Sound, Typed
    <3>3. PICK n \in Nat : n = Len(conv.history)
      BY <3>2, LenProperties
    <3>4. s <= n /\ delivered = Counting(s)
      BY <1>3, <2>3, <3>1, <3>3
    <3>5. delivered' = Counting(n)
      BY <2>2, <3>1, <3>3, <3>4, CountingOn
    <3>6. turn \in Nat
      BY <1>1, SendsAreCounted DEF Sound, Typed
    <3>7. /\ harness'.cursorTurn = turn' /\ harness'.sent <= Len(conv'.history)
          /\ delivered' = Counting(Len(conv'.history))
      BY <1>3, <1>4, <2>1, <2>2, <2>3, <3>1, <3>3, <3>4, <3>5
    <3>8. harness'.cursorTurn <= turn'
      BY <1>4, <3>6, <3>7
    <3> QED BY <2>2, <3>7, <3>8 DEF Delivering
  <2>8. CancelHeard' /\ RefsReported(conv, minted)' /\ Freezing'
    BY <1>1, <1>3, <1>4, <2>1, <2>2 DEF Sound, CancelHeard, Freezing
  <2> QED BY <1>5, <2>4, <2>5, <2>6, <2>7, <2>8 DEF Sound
<1> QED BY <1>6, <1>7

LEMMA CancelSound == Sound /\ Cancel => Sound'
<1>1. SUFFICES ASSUME Sound, Cancel PROVE Sound'
  OBVIOUS
<1>2. PICK c : c = [conv EXCEPT !.cancelled = TRUE]
  OBVIOUS
<1>3. PICK h : h = [harness EXCEPT !.cancelled = TRUE]
  OBVIOUS
<1>4. /\ pc # "idle" /\ conv' = c /\ harness' = h /\ pc' = pc /\ turn' = turn /\ work' = work /\ batch' = batch
      /\ scene' = scene /\ saved' = saved /\ minted' = minted /\ clipboard' = clipboard
      /\ delivered' = delivered /\ outcome' = outcome /\ emitted' = emitted
  BY <1>1, <1>2, <1>3 DEF Cancel, canvas
<1>5. conv \in Convs /\ harness \in Harnesses
  BY <1>1 DEF Sound, Typed
<1>6. c \in Convs /\ c.history = conv.history /\ c.refMap = conv.refMap /\ c.turnScope = conv.turnScope
  BY <1>2, <1>5 DEF Convs
<1>7. h \in Harnesses /\ h.cancelled /\ h.cursorTurn = harness.cursorTurn /\ h.sent = harness.sent
  BY <1>3, <1>5 DEF Harnesses
<1>8. Typed'
  BY <1>1, <1>4, <1>6, <1>7 DEF Sound, Typed, IsBatch
<1>9. OnCanvas' /\ Staged' /\ Reviewing' /\ Phases'
  BY <1>1, <1>4 DEF Sound, OnCanvas, Staged, Reviewing, Phases, Valid, Parsed, DeferredOps, Creating, Reported
<1>10. Answering' /\ Saving'
  BY <1>1, <1>4, <1>6 DEF Sound, Answering, Saving
<1>11. Delivering'
  BY <1>1, <1>4, <1>6, <1>7 DEF Sound, Delivering
<1>12. CancelHeard' /\ RefsReported(conv, minted)' /\ Freezing'
  BY <1>1, <1>4, <1>6, <1>7 DEF Sound, CancelHeard, Freezing, RefsReported
<1> QED BY <1>8, <1>9, <1>10, <1>11, <1>12 DEF Sound

LEMMA UserEditsSound == Sound /\ UserEdits => Sound'
<1>1. SUFFICES ASSUME Sound, UserEdits PROVE Sound'
  OBVIOUS
<1>2. /\ pc' = pc /\ turn' = turn /\ conv' = conv /\ work' = work /\ batch' = batch /\ harness' = harness
      /\ saved' = saved /\ minted' = minted /\ delivered' = delivered /\ outcome' = outcome /\ emitted' = emitted
  BY <1>1 DEF UserEdits
<1>3. Typed' /\ Staged' /\ Answering' /\ Delivering' /\ CancelHeard' /\ RefsReported(conv, minted)' /\ Freezing'
      /\ Reviewing' /\ Phases'
  BY <1>1, <1>2 DEF Sound, Typed, IsBatch, Staged, Answering, Delivering, CancelHeard, Freezing, Reviewing, Phases,
                    Valid, Parsed, DeferredOps, Creating, Reported
<1>4. /\ DOMAIN scene' \ DOMAIN clipboard' \subseteq DOMAIN scene \ DOMAIN clipboard
      /\ DOMAIN scene' \subseteq DOMAIN scene \cup DOMAIN clipboard
      /\ DOMAIN clipboard' \subseteq DOMAIN scene \cup DOMAIN clipboard
  <2>1. ASSUME NEW id \in Edited \cap DOMAIN scene,
               scene' = Restrict(scene, DOMAIN scene \ {id}), clipboard' = Over(Only(id, scene[id]), clipboard)
        PROVE  DOMAIN scene' = DOMAIN scene \ {id} /\ DOMAIN clipboard' = DOMAIN clipboard \cup {id}
    <3>1. DOMAIN scene' = DOMAIN scene \ {id}
      BY <2>1 DEF Restrict
    <3>2. PICK o : o = Only(id, scene[id])
      OBVIOUS
    <3>3. PICK g : g = clipboard
      OBVIOUS
    <3>4. PICK k : k = clipboard'
      OBVIOUS
    <3>5. DOMAIN o = {id} /\ k = Over(o, g)
      BY <2>1, <3>2, <3>3, <3>4 DEF Only
    <3>6. DOMAIN k = DOMAIN o \cup DOMAIN g
      BY <3>5, OverDomain
    <3> QED BY <3>1, <3>3, <3>4, <3>5, <3>6
  <2>2. ASSUME NEW id \in (Edited \cap DOMAIN clipboard) \ DOMAIN scene,
               scene' = Over(scene, Only(id, clipboard[id])), clipboard' = clipboard
        PROVE  DOMAIN scene' = DOMAIN scene \cup {id}
    <3>1. PICK o : o = clipboard[id]
      OBVIOUS
    <3>2. PICK f : f = scene
      OBVIOUS
    <3>3. PICK g : g = scene'
      OBVIOUS
    <3>4. g = Over(f, Only(id, o))
      BY <2>2, <3>1, <3>2, <3>3
    <3>5. DOMAIN g = DOMAIN f \cup {id}
      BY <3>4, OverOnly
    <3> QED BY <3>2, <3>3, <3>5
  <2>3. CASE \E id \in Edited \cap DOMAIN scene :
               /\ scene' = Restrict(scene, DOMAIN scene \ {id})
               /\ clipboard' = Over(Only(id, scene[id]), clipboard)
    BY <2>1, <2>3
  <2>4. CASE \E id \in (Edited \cap DOMAIN clipboard) \ DOMAIN scene :
               /\ scene' = Over(scene, Only(id, clipboard[id]))
               /\ UNCHANGED clipboard
    BY <2>2, <2>4
  <2> QED BY <1>1, <2>3, <2>4 DEF UserEdits
<1>5. OnCanvas'
  BY <1>1, <1>2, <1>4 DEF Sound, OnCanvas
<1>6. Saving'
  BY <1>1, <1>2, <1>4 DEF Sound, Saving, ToldIsSaved
<1> QED BY <1>3, <1>5, <1>6 DEF Sound

----------------------------------------------------------------------------
(* The operations of a stage.                                              *)

LEMMA PlacesAreFinite ==
  ASSUME NEW S, NEW seq \in Seq(S), NEW P, P \subseteq DOMAIN seq
  PROVE  IsFiniteSet(P) /\ Cardinality(P) \in Nat
<1>1. Len(seq) \in Nat /\ DOMAIN seq = 1 .. Len(seq)
  BY LenProperties
<1>2. IsFiniteSet(1 .. Len(seq))
  BY <1>1, FS_Interval
<1>3. P \in SUBSET (1 .. Len(seq))
  BY <1>1
<1> QED BY <1>2, <1>3, FS_Subset, FS_CardinalityType

\* Members that Among takes, no more than there are in the sequence it takes them from.
LEMMA AmongCounts ==
  ASSUME NEW S, NEW seq \in Seq(S), NEW places, NEW P \in SUBSET DOMAIN seq,
         NEW Q \in SUBSET DOMAIN Among(seq, places),
         \A j \in DOMAIN seq : (\E k \in Q : Among(seq, places)[k] = seq[j]
                                             /\ k = Cardinality(Upto(places, j))) => j \in P
  PROVE  Cardinality(Q) <= Cardinality(P)
<1>1. /\ Among(seq, places) \in Seq(S)
      /\ \A k \in 1 .. Len(Among(seq, places)) : \E j \in Upto(places, Len(seq)) :
           Among(seq, places)[k] = seq[j] /\ k = Cardinality(Upto(places, j))
  BY AmongIs
<1>2. DOMAIN Among(seq, places) = 1 .. Len(Among(seq, places)) /\ DOMAIN seq = 1 .. Len(seq) /\ Len(seq) \in Nat
  BY <1>1, LenProperties
<1>3. Upto(places, Len(seq)) \subseteq DOMAIN seq
  BY <1>2 DEF Upto
<1>4. PICK f : f = [k \in Q |-> CHOOSE j \in DOMAIN seq : /\ Among(seq, places)[k] = seq[j]
                                                          /\ k = Cardinality(Upto(places, j))]
  OBVIOUS
<1>5. ASSUME NEW k \in Q PROVE f[k] \in P /\ k = Cardinality(Upto(places, f[k]))
  <2>1. \E j \in DOMAIN seq : Among(seq, places)[k] = seq[j] /\ k = Cardinality(Upto(places, j))
    BY <1>1, <1>2, <1>3
  <2>2. f[k] \in DOMAIN seq /\ Among(seq, places)[k] = seq[f[k]] /\ k = Cardinality(Upto(places, f[k]))
    BY <1>4, <2>1
  <2> QED BY <2>2
<1>6. f \in Injection(Q, P)
  <2>1. f \in [Q -> P]
    BY <1>4, <1>5
  <2>2. \A k, l \in Q : f[k] = f[l] => k = l
    BY <1>5
  <2> QED BY <2>1, <2>2 DEF Injection, IsInjective
<1>7. IsFiniteSet(P)
  BY PlacesAreFinite
<1> QED BY <1>6, <1>7, FS_Injection

LEMMA UptoSplits ==
  ASSUME NEW P, NEW Q, P \cap Q = {}, NEW n \in Nat
  PROVE  Cardinality(Upto(P \cup Q, n)) = Cardinality(Upto(P, n)) + Cardinality(Upto(Q, n))
<1>1. IsFiniteSet(Upto(P, n)) /\ IsFiniteSet(Upto(Q, n))
  BY UptoGrows
<1>2. Cardinality(Upto(P, n)) \in Nat /\ Cardinality(Upto(Q, n)) \in Nat
  BY UptoGrows
<1>3. Upto(P \cup Q, n) = Upto(P, n) \cup Upto(Q, n) /\ Upto(P, n) \cap Upto(Q, n) = {}
  BY DEF Upto
<1>4. Cardinality(Upto(P, n) \cup Upto(Q, n)) = Cardinality(Upto(P, n)) + Cardinality(Upto(Q, n)) - Cardinality({})
  BY <1>1, <1>3, FS_Union
<1>5. Cardinality({}) = 0
  BY FS_EmptySet
<1>6. PICK a \in Nat : a = Cardinality(Upto(P, n))
  BY <1>2
<1>7. PICK b \in Nat : b = Cardinality(Upto(Q, n))
  BY <1>2
<1>8. Cardinality(Upto(P \cup Q, n)) = a + b - 0
  BY <1>3, <1>4, <1>5, <1>6, <1>7
<1> QED BY <1>6, <1>7, <1>8

LEMMA UptoAll == ASSUME NEW n \in Nat, NEW P, 1 .. n \subseteq P PROVE Cardinality(Upto(P, n)) = n
<1>1. Upto(P, n) = 1 .. n
  BY DEF Upto
<1>2. Cardinality(1 .. n) = n
  <2>1. Cardinality(1 .. n) = IF 1 > n THEN 0 ELSE n - 1 + 1
    BY FS_Interval
  <2> QED BY <2>1
<1> QED BY <1>1, <1>2

LEMMA BatchIs ==
  ASSUME NEW b, IsBatch(b)
  PROVE  /\ b.calls \in Seq(StageCalls) /\ b.scope \in Scopes /\ b.results \in Seq(Results)
         /\ b.declares \in Seq(DeclareCalls) /\ b.deferred \in Seq(StageCalls)
         /\ b.edited \in SUBSET Ids /\ b.laidOut \in SUBSET Ids /\ b.leftover \in SUBSET Keys
         /\ b.didApply \in BOOLEAN
BY DEF IsBatch

\* A create or a connect of the same kind, with other ends.
LEMMA ConnectIs ==
  ASSUME NEW op \in CanvasOps, op.op = "connect_shapes", NEW from \in Keys, NEW to \in Keys,
         NEW o, o = [op EXCEPT !.from = from, !.to = to]
  PROVE  o \in CanvasOps /\ o.op = "connect_shapes"
<1>1. op \in [op : {"connect_shapes"}, from : Keys, to : Keys]
  BY DEF CanvasOps
<1>2. o \in [op : {"connect_shapes"}, from : Keys, to : Keys] /\ o.op = "connect_shapes"
  BY <1>1
<1> QED BY <1>2 DEF CanvasOps

LEMMA ConnectEnds ==
  ASSUME NEW op \in CanvasOps, op.op = "connect_shapes"
  PROVE  op.from \in Keys /\ op.to \in Keys
BY DEF CanvasOps

LEMMA RefMapIs ==
  ASSUME NEW m \in RefMaps
  PROVE  DOMAIN m \subseteq Refs /\ \A r \in DOMAIN m : m[r] \in Ids
BY DEF RefMaps

LEMMA CrossBatchRefs ==
  ASSUME NEW c \in Convs, NEW ops \in Seq(CanvasOps), NEW e, e = resolveCrossBatchRefs(c, ops)
  PROVE  /\ e \in Seq(CanvasOps) /\ Len(e) = Len(ops)
         /\ \A i \in 1 .. Len(ops) : e[i].op = ops[i].op /\ Targets(e[i]) = Targets(ops[i])
<1>1. Len(ops) \in Nat /\ DOMAIN ops = 1 .. Len(ops) /\ \A i \in 1 .. Len(ops) : ops[i] \in CanvasOps
  BY LenProperties, ElementOfSeq
<1>2. PICK known : known = DOMAIN c.refMap \ {ops[i].ref : i \in {j \in DOMAIN ops : ops[j].op \in {"create_geo", "create_text"}}}
  OBVIOUS
<1> DEFINE look(k) == IF k \in known THEN c.refMap[k] ELSE k
<1>3. e = [i \in DOMAIN ops |-> IF ops[i].op # "connect_shapes" THEN ops[i]
                                ELSE [ops[i] EXCEPT !.from = look(@), !.to = look(@)]]
  BY <1>2 DEF resolveCrossBatchRefs
<1>4. ASSUME NEW k \in Keys PROVE look(k) \in Keys
  <2>1. c.refMap \in RefMaps
    BY ConvIs
  <2>2. k \in known => c.refMap[k] \in Ids
    BY <1>2, <2>1, RefMapIs
  <2> QED BY <2>2 DEF Keys
<1>5. ASSUME NEW i \in 1 .. Len(ops) PROVE e[i] \in CanvasOps /\ e[i].op = ops[i].op /\ Targets(e[i]) = Targets(ops[i])
  <2>1. PICK op \in CanvasOps : op = ops[i]
    BY <1>1
  <2>2. CASE op.op # "connect_shapes"
    <3>1. e[i] = op
      BY <1>1, <1>3, <2>1, <2>2
    <3> QED BY <2>1, <3>1
  <2>3. CASE op.op = "connect_shapes"
    <3>1. PICK from : from = look(op.from)
      OBVIOUS
    <3>2. PICK to : to = look(op.to)
      OBVIOUS
    <3>3. PICK o : o = [op EXCEPT !.from = from, !.to = to]
      OBVIOUS
    <3>4. op.from \in Keys /\ op.to \in Keys
      BY <2>3, ConnectEnds
    <3>5. from \in Keys /\ to \in Keys
      BY <1>4, <3>1, <3>2, <3>4
    <3>6. o \in CanvasOps /\ o.op = "connect_shapes"
      BY <2>3, <3>3, <3>5, ConnectIs
    <3>7. e[i] = [op EXCEPT !.from = look(@), !.to = look(@)]
      BY <1>1, <1>3, <2>1, <2>3
    <3>8. e[i] = o
      BY <3>1, <3>2, <3>3, <3>7
    <3> QED BY <2>1, <2>3, <3>6, <3>8 DEF Targets
  <2> QED BY <2>2, <2>3
<1>6. DOMAIN e = 1 .. Len(ops)
  BY <1>1, <1>3
<1>7. e \in [1 .. Len(ops) -> CanvasOps]
  <2>1. e = [i \in 1 .. Len(ops) |-> e[i]]
    BY <1>1, <1>3
  <2> QED BY <1>5, <2>1
<1>8. e \in Seq(CanvasOps) /\ Len(e) = Len(ops)
  BY <1>1, <1>7
<1> QED BY <1>5, <1>8

\* Every valid call of the stage is one of its operations, in order.
LEMMA StageOpsAre ==
  ASSUME conv \in Convs, IsBatch(batch), Parsed(batch.calls), NEW ops, ops = StageOps
  PROVE  /\ ops \in Seq(CanvasOps) /\ Len(ops) = Cardinality(Valid(batch.calls))
         /\ Cardinality(Creators(ops)) <= Cardinality(Creating(batch.calls))
         /\ \A k \in 1 .. Len(ops) : \E j \in Valid(batch.calls) :
              ops[k].op = batch.calls[j].op.op /\ Targets(ops[k]) = Targets(batch.calls[j].op)
<1>1. PICK calls \in Seq(StageCalls) : calls = batch.calls
  BY BatchIs
<1>2. PICK places : places = Valid(calls)
  OBVIOUS
<1>3. PICK valid : valid = Among(calls, places)
  OBVIOUS
<1>4. Len(calls) \in Nat /\ DOMAIN calls = 1 .. Len(calls)
  BY LenProperties
<1>5. places \subseteq 1 .. Len(calls) /\ Upto(places, Len(calls)) = places
  BY <1>2, <1>4 DEF Valid, Upto
<1>6. /\ valid \in Seq(StageCalls) /\ Len(valid) = Cardinality(places)
      /\ \A k \in 1 .. Len(valid) : \E j \in places : valid[k] = calls[j] /\ k = Cardinality(Upto(places, j))
  <2>1. /\ Among(calls, places) \in Seq(StageCalls)
        /\ Len(Among(calls, places)) = Cardinality(Upto(places, Len(calls)))
        /\ \A k \in 1 .. Len(Among(calls, places)) : \E j \in Upto(places, Len(calls)) :
             Among(calls, places)[k] = calls[j] /\ k = Cardinality(Upto(places, j))
    BY AmongIs
  <2> QED BY <1>3, <1>5, <2>1
<1>7. Len(valid) \in Nat /\ DOMAIN valid = 1 .. Len(valid)
  BY <1>6, LenProperties
<1>8. PICK raw : raw = [i \in DOMAIN valid |-> valid[i].op]
  OBVIOUS
<1>9. \A k \in 1 .. Len(valid) : valid[k].op \in CanvasOps
  BY <1>1, <1>2, <1>6 DEF Parsed
<1>10. raw \in [1 .. Len(valid) -> CanvasOps]
  BY <1>7, <1>8, <1>9
<1>11. raw \in Seq(CanvasOps) /\ Len(raw) = Len(valid)
  BY <1>7, <1>10
<1>12. ops = resolveCrossBatchRefs(conv, raw)
  <2>1. places = {i \in DOMAIN batch.calls : ~batch.calls[i].error}
    BY <1>1, <1>2 DEF Valid
  <2> QED BY <1>1, <1>3, <1>8, <2>1 DEF StageOps
<1>13. /\ ops \in Seq(CanvasOps) /\ Len(ops) = Len(raw)
       /\ \A i \in 1 .. Len(raw) : ops[i].op = raw[i].op /\ Targets(ops[i]) = Targets(raw[i])
  BY <1>11, <1>12, CrossBatchRefs
<1>14. DOMAIN ops = 1 .. Len(valid)
  BY <1>11, <1>13, LenProperties
<1>15. \A k \in 1 .. Len(valid) : ops[k].op = valid[k].op.op /\ Targets(ops[k]) = Targets(valid[k].op)
  BY <1>7, <1>8, <1>11, <1>13
<1>16. ASSUME NEW k \in 1 .. Len(ops)
       PROVE  \E j \in Valid(batch.calls) : /\ ops[k].op = batch.calls[j].op.op
                                            /\ Targets(ops[k]) = Targets(batch.calls[j].op)
  <2>1. k \in 1 .. Len(valid)
    BY <1>11, <1>13
  <2>2. PICK j \in places : valid[k] = calls[j]
    BY <1>6, <2>1
  <2> QED BY <1>1, <1>2, <1>15, <2>1, <2>2
<1>17. Cardinality(Creators(ops)) <= Cardinality(Creating(calls))
  <2>1. Creators(ops) \in SUBSET DOMAIN Among(calls, places)
    BY <1>3, <1>7, <1>14 DEF Creators
  <2>2. Creating(calls) \in SUBSET DOMAIN calls
    BY DEF Creating, Valid
  <2>3. ASSUME NEW j \in DOMAIN calls, NEW k \in Creators(ops), Among(calls, places)[k] = calls[j]
        PROVE  j \in Creating(calls)
    <3>1. k \in 1 .. Len(valid) /\ valid[k] = calls[j] /\ calls[j].op.op \in CreatingOps
      BY <1>3, <1>14, <1>15, <2>3 DEF Creators
    <3>2. PICK i \in places : valid[k] = calls[i]
      BY <1>6, <3>1
    <3>3. ~calls[i].error
      BY <1>2, <3>2 DEF Valid
    <3> QED BY <3>1, <3>2, <3>3 DEF Creating, Valid
  <2> QED BY <2>1, <2>2, <2>3, AmongCounts
<1> QED BY <1>1, <1>2, <1>6, <1>11, <1>13, <1>16, <1>17

LEMMA DeferredDoNotCreate ==
  ASSUME NEW calls, DeferredOps(calls)
  PROVE  Creating(calls) = {}
BY DEF DeferredOps, Creating, DEFERRED_REFERENCE_OPS, CreatingOps

LEMMA RoomForStage ==
  ASSUME Sound, pc \in {"early", "late"}
  PROVE  Cardinality(minted) + Cardinality(Creating(batch.calls)) <= Cardinality(Ids)
<1>1. CASE pc = "early"
  BY <1>1 DEF Sound, Staged
<1>2. CASE pc = "late"
  <2>1. Creating(batch.calls) = {}
    BY <1>2, DeferredDoNotCreate DEF Sound, Staged
  <2>2. Cardinality({}) = 0
    BY FS_EmptySet
  <2>3. minted \in SUBSET Ids
    BY DEF Sound, OnCanvas
  <2>4. Cardinality(minted) <= Cardinality(Ids) /\ Cardinality(minted) \in Nat
    BY <2>3, IdsAreFinite, FS_Subset, MintedIsFinite
  <2> QED BY <2>1, <2>2, <2>4
<1> QED BY <1>1, <1>2

\* The stage has reached the port and been applied.
LEMMA PortSound ==
  ASSUME Sound, pc \in {"early", "late"}, NEW done, done = Apply(batch.base, minted, StageOps, batch.scope),
         scene' = done.scene, minted' = done.minted,
         batch' = [batch EXCEPT !.results = done.results, !.edited = done.edited, !.laidOut = done.laidOut],
         pc' = IF pc = "early" THEN "earlySave" ELSE "lateSave",
         UNCHANGED <<turn, conv, work, harness, saved, clipboard, edits, delivered, outcome, emitted>>
  PROVE  Sound'
<1>1. conv \in Convs /\ IsBatch(batch) /\ minted \in SUBSET Ids /\ DOMAIN batch.base \subseteq minted /\ Parsed(batch.calls)
  BY DEF Sound, Typed, OnCanvas, Staged, Applies
<1>2. PICK ops : ops = StageOps
  OBVIOUS
<1>3. /\ ops \in Seq(CanvasOps) /\ Len(ops) = Cardinality(Valid(batch.calls))
      /\ Cardinality(Creators(ops)) <= Cardinality(Creating(batch.calls))
      /\ \A k \in 1 .. Len(ops) : \E j \in Valid(batch.calls) :
           ops[k].op = batch.calls[j].op.op /\ Targets(ops[k]) = Targets(batch.calls[j].op)
  BY <1>1, <1>2, StageOpsAre
<1>4. Cardinality(minted) + Cardinality(Creators(ops)) <= Cardinality(Ids)
  <2>1. IsFiniteSet(Creators(ops)) /\ IsFiniteSet(Creating(batch.calls))
    <3>1. ops \in Seq(CanvasOps) /\ batch.calls \in Seq(StageCalls)
      BY <1>1, <1>3, BatchIs
    <3>2. Creators(ops) \subseteq DOMAIN ops /\ Creating(batch.calls) \subseteq DOMAIN batch.calls
      BY DEF Creators, Creating, Valid
    <3> QED BY <3>1, <3>2, PlacesAreFinite
  <2>2. /\ Cardinality(Creators(ops)) \in Nat /\ Cardinality(Creating(batch.calls)) \in Nat
        /\ Cardinality(minted) \in Nat /\ Cardinality(Ids) \in Nat
    BY <1>1, <2>1, FS_CardinalityType, MintedIsFinite
  <2> QED BY <1>3, <2>2, RoomForStage
<1>5. PICK base : base = batch.base
  OBVIOUS
<1>6. PICK scope \in Scopes : scope = batch.scope
  BY <1>1, BatchIs
<1>7. PICK made : made = minted
  OBVIOUS
<1>8. /\ made \subseteq done.minted /\ done.minted \subseteq Ids
      /\ DOMAIN done.scene \subseteq done.minted
      /\ done.results \in Seq(Results) /\ Len(done.results) = Len(ops)
      /\ \A k \in 1 .. Len(ops) : Honest(done.results[k], done.minted)
      /\ done.edited \subseteq Ids /\ \A id \in done.edited : \E k \in 1 .. Len(ops) : id \in Targets(ops[k])
      /\ done.laidOut \subseteq Moves(scope) /\ done.laidOut \subseteq Ids
  <2>1. done = Apply(base, made, ops, scope)
    BY <1>2, <1>5, <1>6, <1>7
  <2>2. made \in SUBSET Ids /\ DOMAIN base \subseteq made /\ Cardinality(made) + Cardinality(Creators(ops)) <= Cardinality(Ids)
    BY <1>1, <1>4, <1>5, <1>7
  <2> QED BY <1>3, <2>1, <2>2, ApplyIs
<1>9. /\ IsBatch(batch)' /\ batch'.calls = batch.calls /\ batch'.base = batch.base /\ batch'.scope = batch.scope
      /\ batch'.declares = batch.declares /\ batch'.deferred = batch.deferred /\ batch'.leftover = batch.leftover
      /\ batch'.results = done.results /\ batch'.edited = done.edited /\ batch'.laidOut = done.laidOut
  <2>1. PICK b : b = batch'
    OBVIOUS
  <2>2. b = [calls |-> batch.calls, base |-> batch.base, scope |-> batch.scope, results |-> done.results,
             declares |-> batch.declares, deferred |-> batch.deferred, edited |-> done.edited,
             laidOut |-> done.laidOut, leftover |-> batch.leftover, didApply |-> batch.didApply]
    BY <1>1, <2>1 DEF IsBatch
  <2>3. IsBatch(b)
    BY <1>1, <1>8, <2>2, BatchIs DEF IsBatch
  <2> QED BY <2>1, <2>2, <2>3
<1>10. (pc' = "earlySave" /\ pc = "early") \/ (pc' = "lateSave" /\ pc = "late")
  OBVIOUS
<1>11. /\ turn' = turn /\ conv' = conv /\ work' = work /\ harness' = harness /\ saved' = saved /\ clipboard' = clipboard
       /\ delivered' = delivered /\ outcome' = outcome /\ emitted' = emitted
  OBVIOUS
<1>12. Typed'
  <2>1. pc' \in Parked \cup {"idle"} /\ pc # "idle"
    BY <1>10 DEF Parked
  <2> QED BY <1>9, <1>11, <2>1 DEF Sound, Typed
<1>13. OnCanvas'
  BY <1>7, <1>8, <1>11 DEF Sound, OnCanvas
<1>14. Staged'
  <2>1. DOMAIN batch'.base \subseteq minted' /\ Parsed(batch'.calls)
    BY <1>1, <1>7, <1>8, <1>9
  <2>2. Reported(batch'.calls, batch'.results, minted')
    <3>1. DOMAIN done.results = 1 .. Len(ops)
      BY <1>8, LenProperties
    <3> QED BY <1>3, <1>8, <1>9, <3>1 DEF Reported, Honest
  <2>3. pc' = "earlySave" =>
          Valid(batch'.deferred) = DOMAIN batch'.deferred /\ Parsed(batch'.deferred) /\ DeferredOps(batch'.deferred)
    BY <1>9, <1>10 DEF Sound, Staged
  <2>4. pc' = "lateSave" => DeferredOps(batch'.calls)
    BY <1>9, <1>10 DEF Sound, Staged
  <2> QED BY <1>10, <2>1, <2>2, <2>3, <2>4 DEF Staged
<1>15. Answering'
  BY <1>9, <1>10, <1>11 DEF Sound, Answering, Applies
<1>16. Delivering'
  BY <1>10, <1>11 DEF Sound, Delivering
<1>17. CancelHeard' /\ Saving' /\ Phases'
  BY <1>10, <1>11 DEF Sound, CancelHeard, Saving, Phases, Applies
<1>18. RefsReported(conv, minted)'
  BY <1>7, <1>8, <1>11 DEF Sound, RefsReported
<1>19. Freezing'
  BY <1>6, <1>8, <1>9, <1>10, <1>11 DEF Sound, Freezing
<1>20. Reviewing'
  <2>1. CASE work.phase # "review"
    BY <1>11, <2>1 DEF Reviewing
  <2>2. CASE work.phase = "review" /\ pc = "early"
    BY <1>9, <1>10, <1>11, <2>2 DEF Sound, Reviewing
  <2>3. CASE work.phase = "review" /\ pc = "late"
    <3>1. \A j \in Valid(batch.calls) : Targets(batch.calls[j].op) \subseteq work.editable
      BY <2>3 DEF Sound, Reviewing
    <3>2. done.edited \subseteq work.editable
      BY <1>3, <1>8, <3>1
    <3>3. Moves(batch.scope) \subseteq work.editable \cup batch.leftover
      BY <2>3 DEF Sound, Reviewing
    <3> QED BY <1>6, <1>8, <1>9, <1>10, <1>11, <2>3, <3>2, <3>3 DEF Reviewing
  <2> QED BY <1>10, <2>1, <2>2, <2>3
<1> QED BY <1>12, <1>13, <1>14, <1>15, <1>16, <1>17, <1>18, <1>19, <1>20 DEF Sound

----------------------------------------------------------------------------
(* What the conversation learns from a stage.                              *)

\* A set of numbers up to n has a greatest one.
LEMMA GreatestIs ==
  ASSUME NEW n \in Nat, NEW P, P \subseteq 1 .. n, P # {}
  PROVE  \E i \in P : \A j \in P : j <= i
<1> DEFINE Has(k) == P \cap (1 .. k) = {} \/ \E i \in P \cap (1 .. k) : \A j \in P \cap (1 .. k) : j <= i
           Good == {k \in 0 .. n : Has(k)}
<1>1. 0 \in Good
  OBVIOUS
<1>2. ASSUME NEW k \in 0 .. n - 1, k \in Good PROVE k + 1 \in Good
  <2>1. CASE k + 1 \in P
    <3>1. \A j \in P \cap (1 .. k + 1) : j <= k + 1
      OBVIOUS
    <3>2. k + 1 \in P \cap (1 .. k + 1) /\ k + 1 \in 0 .. n
      BY <2>1
    <3> QED BY <3>1, <3>2
  <2>2. CASE k + 1 \notin P
    <3>1. P \cap (1 .. k + 1) = P \cap (1 .. k) /\ k + 1 \in 0 .. n
      BY <2>2
    <3> QED BY <1>2, <3>1
  <2> QED BY <2>1, <2>2
<1>3. n \in Good
  <2>1. n \in 0 .. n
    OBVIOUS
  <2> HIDE DEF Good
  <2>2. \A k \in 0 .. n : k \in Good
    BY <1>1, <1>2, UpTo
  <2> QED BY <2>1, <2>2
<1>4. P \cap (1 .. n) = P
  OBVIOUS
<1> QED BY <1>3, <1>4

LEMMA ToolMessageIs ==
  ASSUME NEW id \in CallIds, NEW ok \in BOOLEAN, NEW ids \in SUBSET Ids, NEW m, m = ToolMessage(id, ok, ids)
  PROVE  m \in Messages /\ m.role = "tool" /\ m.calls = {} /\ m.call = id /\ m.ids = ids
<1>1. m = [role |-> "tool", calls |-> {}, call |-> id, ok |-> ok, ids |-> ids]
  BY DEF ToolMessage, Message
<1> QED BY <1>1 DEF Messages

LEMMA StageCallIs ==
  ASSUME NEW calls \in Seq(StageCalls), NEW i \in DOMAIN calls
  PROVE  calls[i].id \in CallIds /\ calls[i].error \in BOOLEAN /\ calls[i].op \in CanvasCalls
<1>1. calls[i] \in StageCalls
  BY LenProperties, ElementOfSeq
<1> QED BY <1>1 DEF StageCalls

LEMMA ResultHas ==
  ASSUME NEW results \in Seq(Results), NEW i \in DOMAIN results
  PROVE  /\ results[i].ok \in BOOLEAN /\ results[i].ids \in SUBSET Ids /\ results[i].ref \in Refs \cup {Nothing}
<1>1. results[i] \in Results
  BY LenProperties, ElementOfSeq
<1> QED BY <1>1 DEF Results

\* The messages that answer the calls of a stage.
Replies(calls, results, ms) ==
  /\ ms \in Seq(Messages) /\ Len(ms) = Len(calls)
  /\ \A i \in 1 .. Len(calls) :
       /\ ms[i].role = "tool" /\ ms[i].calls = {} /\ ms[i].call = calls[i].id
       /\ IF calls[i].error THEN ms[i].ids = {} ELSE ms[i].ids = results[Cardinality(Upto(Valid(calls), i))].ids

LEMMA FeedbackReplies ==
  ASSUME NEW calls \in Seq(StageCalls), calls = batch.calls, NEW results \in Seq(Results),
         Len(results) = Cardinality(Valid(calls)), NEW c, NEW w, NEW f, f = Feedback(c, w, results)
  PROVE  \E ms : Replies(calls, results, ms) /\ f.conv = [Hears(c, ms) EXCEPT !.refMap = Over(Learned(results), @)]
<1> DEFINE position(i) == Cardinality({j \in 1 .. i : ~calls[j].error})
           answer(i) == IF calls[i].error THEN ToolMessage(calls[i].id, FALSE, {})
                        ELSE LET r == results[position(i)] IN ToolMessage(calls[i].id, r.ok, r.ids)
<1>1. PICK ms : ms = [i \in DOMAIN calls |-> answer(i)]
  OBVIOUS
<1>2. Len(calls) \in Nat /\ DOMAIN calls = 1 .. Len(calls)
  BY LenProperties
<1>3. PICK n \in Nat : n = Len(calls)
  BY <1>2
<1>4. \A i \in 1 .. n : {j \in 1 .. i : ~calls[j].error} = Upto(Valid(calls), i)
  BY <1>2, <1>3 DEF Upto, Valid
<1>5. ASSUME NEW i \in 1 .. n
      PROVE  /\ ms[i] \in Messages /\ ms[i].role = "tool" /\ ms[i].calls = {} /\ ms[i].call = calls[i].id
             /\ IF calls[i].error THEN ms[i].ids = {} ELSE ms[i].ids = results[Cardinality(Upto(Valid(calls), i))].ids
  <2>1. PICK id \in CallIds : id = calls[i].id
    BY <1>2, <1>3, StageCallIs
  <2>2. PICK m : m = ms[i]
    OBVIOUS
  <2>3. CASE calls[i].error
    <3>1. PICK none \in SUBSET Ids : none = {}
      OBVIOUS
    <3>2. PICK no \in BOOLEAN : no = FALSE
      OBVIOUS
    <3>3. m = ToolMessage(id, no, none)
      BY <1>1, <1>2, <1>3, <2>1, <2>2, <2>3, <3>1, <3>2
    <3>4. m \in Messages /\ m.role = "tool" /\ m.calls = {} /\ m.call = id /\ m.ids = none
      BY <3>3, ToolMessageIs
    <3> QED BY <2>1, <2>2, <2>3, <3>1, <3>4
  <2>4. CASE ~calls[i].error
    <3>1. PICK k : k = Cardinality(Upto(Valid(calls), i))
      OBVIOUS
    <3>2. k \in DOMAIN results
      <4>1. i \in Upto(Valid(calls), n)
        BY <1>2, <1>3, <2>4 DEF Upto, Valid
      <4>2. PICK places : places = Valid(calls)
        OBVIOUS
      <4>3. Upto(places, n) = places
        BY <1>2, <1>3, <4>2 DEF Upto, Valid
      <4>4. k \in 1 .. Len(Among(calls, places)) /\ Len(Among(calls, places)) = Cardinality(Upto(places, n))
        BY <1>3, <3>1, <4>1, <4>2, AmongIs
      <4>5. k \in 1 .. Len(results)
        BY <4>2, <4>3, <4>4
      <4> QED BY <4>5, LenProperties
    <3>3. PICK r : r = results[k]
      OBVIOUS
    <3>4. PICK ok \in BOOLEAN : ok = r.ok
      BY <3>2, <3>3, ResultHas
    <3>5. PICK ids \in SUBSET Ids : ids = r.ids
      BY <3>2, <3>3, ResultHas
    <3>6. position(i) = k
      BY <1>4, <3>1
    <3>7. m = ToolMessage(id, ok, ids)
      <4> HIDE DEF position
      <4>1. m = answer(i)
        BY <1>1, <1>2, <1>3, <2>2
      <4>2. answer(i) = ToolMessage(calls[i].id, results[position(i)].ok, results[position(i)].ids)
        BY <2>4
      <4> QED BY <2>1, <3>3, <3>4, <3>5, <3>6, <4>1, <4>2
    <3>8. m \in Messages /\ m.role = "tool" /\ m.calls = {} /\ m.call = id /\ m.ids = ids
      BY <3>7, ToolMessageIs
    <3> QED BY <2>1, <2>2, <2>4, <3>1, <3>3, <3>5, <3>8
  <2> QED BY <2>3, <2>4
<1>6. Replies(calls, results, ms)
  <2>1. ms \in [1 .. n -> Messages]
    BY <1>1, <1>2, <1>3, <1>5
  <2>2. ms \in Seq(Messages) /\ Len(ms) = n
    BY <2>1
  <2> QED BY <1>3, <1>5, <2>2 DEF Replies
<1>7. f.conv = [Hears(c, ms) EXCEPT !.refMap = Over(Learned(results), @)]
  BY <1>1 DEF Feedback
<1> QED BY <1>6, <1>7

\* Each ref of the stage is known afterwards, as a shape of a result that announces it.
LEMMA LearnedIs ==
  ASSUME NEW results \in Seq(Results), NEW made \in SUBSET Ids, \A i \in DOMAIN results : Honest(results[i], made),
         NEW known, known = Learned(results)
  PROVE  /\ DOMAIN known \subseteq Refs
         /\ \A r \in DOMAIN known : known[r] \in made /\ \E i \in DOMAIN results : known[r] \in results[i].ids
<1>1. PICK n \in Nat : n = Len(results)
  BY LenProperties
<1>2. DOMAIN results = 1 .. n
  BY <1>1, LenProperties
<1>3. PICK named : named = {i \in DOMAIN results : results[i].ok /\ results[i].ref # Nothing}
  OBVIOUS
<1> DEFINE last(r) == CHOOSE i \in named : results[i].ref = r /\ \A j \in named : results[j].ref = r => j <= i
<1>4. known = [r \in {results[i].ref : i \in named} |-> CHOOSE id \in results[last(r)].ids : TRUE]
  BY <1>3 DEF Learned
<1>5. DOMAIN known = {results[i].ref : i \in named}
  BY <1>4
<1>6. ASSUME NEW r \in DOMAIN known
      PROVE  r \in Refs /\ known[r] \in made /\ \E i \in DOMAIN results : known[r] \in results[i].ids
  <2>1. PICK k \in named : results[k].ref = r
    BY <1>5, <1>6
  <2>2. k \in DOMAIN results /\ r # Nothing
    BY <1>3, <2>1
  <2>3. r \in Refs
    BY <2>1, <2>2, ResultHas
  <2>4. PICK P : P = {i \in named : results[i].ref = r}
    OBVIOUS
  <2>5. P \subseteq 1 .. n /\ P # {}
    BY <1>2, <1>3, <2>1, <2>4
  <2>6. PICK g \in P : \A j \in P : j <= g
    BY <2>5, GreatestIs
  <2>7. g \in named /\ results[g].ref = r /\ \A j \in named : results[j].ref = r => j <= g
    BY <2>4, <2>6
  <2>8. PICK i : i = last(r)
    OBVIOUS
  <2>9. i \in named /\ results[i].ref = r
    BY <2>7, <2>8
  <2>10. i \in DOMAIN results /\ results[i].ok /\ results[i].ref # Nothing
    BY <1>3, <2>9
  <2>11. results[i].ids \subseteq made /\ results[i].ids # {}
    BY <2>10 DEF Honest
  <2>12. known[r] = CHOOSE id \in results[i].ids : TRUE
    BY <1>4, <1>5, <1>6, <2>8
  <2>13. known[r] \in results[i].ids
    BY <2>11, <2>12
  <2> QED BY <2>3, <2>10, <2>11, <2>13
<1> QED BY <1>6

LEMMA RefMapSet ==
  ASSUME NEW c \in Convs, NEW m \in RefMaps, NEW d, d = [c EXCEPT !.refMap = m]
  PROVE  /\ d \in Convs /\ d.history = c.history /\ d.refMap = m
         /\ d.cancelled = c.cancelled /\ d.turnScope = c.turnScope
         /\ d.diagramPlan = c.diagramPlan /\ d.pendingRelations = c.pendingRelations
BY DEF Convs

LEMMA RefMapsAre ==
  ASSUME NEW m, NEW D \in SUBSET Refs, m = [r \in D |-> m[r]], \A r \in D : m[r] \in Ids
  PROVE  m \in RefMaps
<1>1. m \in [D -> Ids]
  BY Zenon
<1> QED BY <1>1 DEF RefMaps

\* All a stage tells the conversation and the request.
Informs(f, w, results) ==
  /\ f.conv \in Convs /\ f.conv.cancelled = conv.cancelled /\ f.conv.turnScope = conv.turnScope
  /\ f.conv.diagramPlan = conv.diagramPlan /\ f.conv.pendingRelations = conv.pendingRelations
  /\ f.work \in Works /\ f.work.phase = w.phase /\ f.work.iter = w.iter /\ f.work.editable = w.editable
  /\ RefsReported(f.conv, minted)
  /\ \E ms : Replies(batch.calls, results, ms) /\ f.conv.history = conv.history \o ms

LEMMA FeedbackInforms ==
  ASSUME conv \in Convs, IsBatch(batch), NEW w \in Works, minted \in SUBSET Ids, RefsReported(conv, minted),
         NEW results \in Seq(Results), Reported(batch.calls, results, minted),
         NEW f, f = Feedback(conv, w, results)
  PROVE  Informs(f, w, results)
<1>1. PICK calls \in Seq(StageCalls) : calls = batch.calls
  BY BatchIs
<1>2. Len(results) = Cardinality(Valid(calls)) /\ \A i \in DOMAIN results : Honest(results[i], minted)
  BY <1>1 DEF Reported, Honest
<1>3. PICK ms : Replies(calls, results, ms) /\ f.conv = [Hears(conv, ms) EXCEPT !.refMap = Over(Learned(results), @)]
  <2>1. PICK c : c = conv
    OBVIOUS
  <2> QED BY <1>1, <1>2, <2>1, FeedbackReplies
<1>4. ms \in Seq(Messages) /\ Len(ms) = Len(calls)
  BY <1>3 DEF Replies
<1>5. PICK c : c = Hears(conv, ms)
  OBVIOUS
<1>6. /\ c \in Convs /\ c.history = conv.history \o ms
      /\ c.cancelled = conv.cancelled /\ c.turnScope = conv.turnScope /\ c.refMap = conv.refMap
      /\ c.diagramPlan = conv.diagramPlan /\ c.pendingRelations = conv.pendingRelations
  <2>1. PICK c0 \in Convs : c0 = conv
    OBVIOUS
  <2> QED BY <1>4, <1>5, <2>1, HearsIs
<1>7. PICK known : known = Learned(results)
  OBVIOUS
<1>8. /\ DOMAIN known \subseteq Refs
      /\ \A r \in DOMAIN known : known[r] \in minted /\ \E i \in DOMAIN results : known[r] \in results[i].ids
  BY <1>2, <1>7, LearnedIs
<1>9. PICK old \in RefMaps : old = c.refMap
  BY <1>6, ConvIs
<1>10. PICK m : m = Over(known, old)
  OBVIOUS
<1>11. /\ DOMAIN m = DOMAIN known \cup DOMAIN old
       /\ \A r \in DOMAIN known : m[r] = known[r]
       /\ \A r \in DOMAIN old \ DOMAIN known : m[r] = old[r]
  BY <1>10 DEF Over
<1>12. m \in RefMaps
  <2>1. PICK D : D = DOMAIN known \cup DOMAIN old
    OBVIOUS
  <2>2. DOMAIN old \subseteq Refs /\ \A r \in DOMAIN old : old[r] \in Ids
    BY RefMapIs
  <2>3. D \in SUBSET Refs
    BY <1>8, <2>1, <2>2
  <2>4. \A r \in D : m[r] \in Ids
    BY <1>8, <1>11, <2>1, <2>2
  <2>5. m = [r \in D |-> m[r]]
    BY <1>10, <2>1 DEF Over
  <2> QED BY <2>3, <2>4, <2>5, RefMapsAre
<1>13. PICK d : d = [c EXCEPT !.refMap = m]
  OBVIOUS
<1>14. f.conv = d
  BY <1>3, <1>5, <1>7, <1>9, <1>10, <1>13
<1>15. /\ d \in Convs /\ d.history = c.history /\ d.refMap = m
       /\ d.cancelled = c.cancelled /\ d.turnScope = c.turnScope
       /\ d.diagramPlan = c.diagramPlan /\ d.pendingRelations = c.pendingRelations
  BY <1>6, <1>12, <1>13, RefMapSet
<1>16. RefsReported(d, minted)
  <2>1. PICK h \in Seq(Messages) : h = conv.history
    BY ConvIs
  <2>2. PICK e : e = d.history
    OBVIOUS
  <2>3. e = h \o ms
    BY <1>6, <1>15, <2>1, <2>2
  <2>4. PICK nh \in Nat : nh = Len(h)
    BY LenProperties
  <2>5. PICK nm \in Nat : nm = Len(ms)
    BY <1>4, LenProperties
  <2>6. /\ DOMAIN h = 1 .. nh /\ DOMAIN e = 1 .. nh + nm
        /\ \A i \in 1 .. nh : e[i] = h[i]
        /\ \A i \in nh + 1 .. nh + nm : e[i] = ms[i - nh]
    <3>1. /\ e \in Seq(Messages) /\ Len(e) = nh + nm
          /\ \A i \in 1 .. nh : e[i] = h[i]
          /\ \A i \in nh + 1 .. nh + nm : e[i] = ms[i - nh]
      <4>1. /\ e \in Seq(Messages) /\ Len(e) = Len(h) + Len(ms)
            /\ \A i \in 1 .. Len(h) : e[i] = h[i]
            /\ \A i \in Len(h) + 1 .. Len(e) : e[i] = ms[i - Len(h)]
        <5>1. PICK given \in Seq(Messages) : given = ms
          BY <1>4
        <5>2. e = h \o given
          BY <2>3, <5>1
        <5>3. /\ e \in Seq(Messages) /\ Len(e) = Len(h) + Len(given)
              /\ \A i \in 1 .. Len(h) : e[i] = h[i]
              /\ \A i \in Len(h) + 1 .. Len(e) : e[i] = given[i - Len(h)]
          BY <5>2, ConcatIs
        <5> QED BY <5>1, <5>3
      <4> QED BY <2>4, <2>5, <4>1
    <3>2. DOMAIN h = 1 .. nh
      BY <2>4, LenProperties
    <3>3. DOMAIN e = 1 .. nh + nm
      BY <3>1, LenProperties
    <3> QED BY <3>1, <3>2, <3>3
  <2>7. ASSUME NEW r \in DOMAIN known PROVE m[r] \in minted /\ \E i \in DOMAIN e : m[r] \in e[i].ids
    <3>1. PICK k \in DOMAIN results : known[r] \in results[k].ids
      BY <1>8, <2>7
    <3>2. PICK places : places = Valid(calls)
      OBVIOUS
    <3>3. Upto(places, Len(calls)) = places /\ DOMAIN calls = 1 .. Len(calls)
      BY <3>2, LenProperties DEF Valid, Upto
    <3>4. k \in 1 .. Len(Among(calls, places))
      <4>1. Len(Among(calls, places)) = Cardinality(Upto(places, Len(calls)))
        BY AmongIs
      <4>2. k \in 1 .. Len(results)
        BY LenProperties
      <4> QED BY <1>2, <3>2, <3>3, <4>1, <4>2
    <3>5. PICK j \in places : k = Cardinality(Upto(places, j))
      BY <3>3, <3>4, AmongIs
    <3>6. j \in 1 .. Len(calls) /\ ~calls[j].error
      BY <3>2, <3>3, <3>5 DEF Valid
    <3>7. ms[j].ids = results[k].ids
      BY <1>3, <3>2, <3>5, <3>6 DEF Replies
    <3>8. PICK i : i = nh + j
      OBVIOUS
    <3>9. i \in nh + 1 .. nh + nm /\ i - nh = j /\ i \in 1 .. nh + nm
      BY <1>4, <2>5, <3>6, <3>8
    <3>10. e[i] = ms[j]
      BY <2>6, <3>9
    <3> QED BY <1>8, <1>11, <2>6, <2>7, <3>1, <3>7, <3>9, <3>10
  <2>8. ASSUME NEW r \in DOMAIN old \ DOMAIN known PROVE m[r] \in minted /\ \E i \in DOMAIN e : m[r] \in e[i].ids
    <3>1. old = conv.refMap
      BY <1>6, <1>9
    <3>2. PICK i \in DOMAIN h : old[r] \in h[i].ids
      BY <2>1, <2>8, <3>1 DEF RefsReported
    <3>3. i \in DOMAIN e /\ e[i] = h[i] /\ old[r] \in minted
      BY <2>6, <2>8, <3>1 DEF RefsReported
    <3> QED BY <1>11, <2>8, <3>2, <3>3
  <2> QED BY <1>11, <1>15, <2>2, <2>7, <2>8 DEF RefsReported
<1>17. f.work \in Works /\ f.work.phase = w.phase /\ f.work.iter = w.iter /\ f.work.editable = w.editable
  <2>1. PICK seen : seen = UNION {results[i].ids : i \in {j \in DOMAIN results : results[j].ok /\ results[j].op \in REVIEWABLE_OPS}}
    OBVIOUS
  <2>2. seen \subseteq Ids
    BY <2>1, ResultHas
  <2>3. f.work = IF w.phase = "build" THEN [w EXCEPT !.changed = @ \cup seen] ELSE w
    BY <2>1 DEF Feedback
  <2>4. PICK changed \in SUBSET Ids : changed = w.changed \cup seen
    BY <2>2, WorkIs
  <2>5. f.work = IF w.phase = "build" THEN [w EXCEPT !.changed = changed] ELSE w
    BY <2>3, <2>4 DEF Works
  <2> QED BY <2>4, <2>5 DEF Works
<1> QED BY <1>1, <1>3, <1>6, <1>14, <1>15, <1>16, <1>17 DEF Informs

----------------------------------------------------------------------------
(* The end of a batch.                                                     *)

LEMMA AfterBatchSound ==
  ASSUME Typed, Delivering, CancelHeard, pc \notin {"idle", "context"}, turn' = turn, OnCanvas',
         NEW c, Fits(c), NEW w \in Works, w.phase \in {"build", "review"},
         w.phase = "build" => FreezeHolds(c.turnScope), AfterBatch(c, w)
  PROVE  Sound' /\ Heeds /\ (w.phase = "build" /\ w.iter < MAX_ITERATIONS - 1 => Runs(c))
<1>1. c.cancelled \in BOOLEAN /\ emitted \in Nat
  BY ConvIs DEF Fits, Typed
<1>2. CASE w.phase = "build"
  <2>1. NextIteration(c, w)
    BY <1>2 DEF AfterBatch
  <2>2. /\ Runs(c) \/ Ends(c)
        /\ w.iter < MAX_ITERATIONS - 1 => Runs(c)
        /\ work' \in Works
    BY <1>1, <2>1, NextIterationGoes
  <2>3. Sound' /\ Heeds
    BY <1>2, <2>2, GoesSound
  <2> QED BY <2>2, <2>3
<1>3. CASE w.phase = "review"
  <2>1. Finalize(c, w)
    BY <1>3 DEF AfterBatch
  <2>2. PICK d : d = Push(c, Message("user"))
    OBVIOUS
  <2>3. Fits(d)
    BY <2>2, SaysFits
  <2>4. d.cancelled = c.cancelled
    BY <2>3 DEF Fits
  <2>5. Runs(d) /\ work' \in Works /\ work'.phase = "finalize"
    BY <1>1, <2>1, <2>2, <2>4, FinalizeRuns
  <2>6. Sound' /\ Heeds
    BY <2>3, <2>5, GoesSound
  <2> QED BY <1>3, <2>6
<1> QED BY <1>2, <1>3

----------------------------------------------------------------------------
(* The second stage: references, declarations and the scope.               *)

LEMMA LookupIs ==
  ASSUME NEW c \in Convs, DOMAIN scene \subseteq Ids, NEW look, look = Lookup(c)
  PROVE  look \in [Keys -> Ids \cup {Nothing}]
<1>1. PICK m \in RefMaps : m = c.refMap
  BY ConvIs
<1>2. \A r \in DOMAIN m : m[r] \in Ids
  BY RefMapIs
<1>3. look = [k \in Keys |-> IF k \in DOMAIN m THEN m[k] ELSE IF k \in DOMAIN scene THEN k ELSE Nothing]
  BY <1>1 DEF Lookup
<1> QED BY <1>2, <1>3

\* What all keys of a set are found as.
LEMMA FoundIs ==
  ASSUME NEW look \in [Keys -> Ids \cup {Nothing}], NEW keys \in SUBSET Keys, Unresolved(keys, look) = {}
  PROVE  /\ \A k \in keys : look[k] \in Ids /\ look[k] \in Keys /\ look[k] # Nothing
         /\ {look[k] : k \in keys} \subseteq Ids /\ {look[k] : k \in keys} \subseteq Keys
<1>1. Ids \subseteq Keys
  BY DEF Keys
<1>2. \A k \in keys : look[k] # Nothing
  BY DEF Unresolved
<1> QED BY <1>1, <1>2

LEMMA RelationIs ==
  ASSUME NEW look \in [Keys -> Ids \cup {Nothing}], NEW r \in StructureRelations, Unresolved(r.nodes, look) = {}
  PROVE  resolveStructureRelationReferences(r, look) \in StructureRelations
<1>1. PICK keys \in SUBSET Keys : keys = r.nodes
  BY DEF StructureRelations
<1>2. PICK found : found = {look[k] : k \in keys}
  OBVIOUS
<1>3. found \in SUBSET Keys
  BY <1>1, <1>2, FoundIs
<1>4. resolveStructureRelationReferences(r, look) = [r EXCEPT !.nodes = found]
  BY <1>1, <1>2 DEF resolveStructureRelationReferences, StructureRelations
<1> QED BY <1>3, <1>4 DEF StructureRelations

LEMMA DeclareIs ==
  ASSUME NEW look \in [Keys -> Ids \cup {Nothing}], NEW w, NEW call \in DeclareCalls,
         NEW d, d = DeclareStructure(look, w, call)
  PROVE  /\ d.waiting \subseteq StructureRelations /\ d.relations \subseteq StructureRelations /\ d.ok \in BOOLEAN
         /\ w.phase = "review" => \A r \in d.relations : r.nodes \subseteq w.editable
<1>1. PICK given \in SUBSET StructureRelations : given = call.op.relations
  BY DEF DeclareCalls
<1>2. PICK waiting : waiting = {r \in given : Unresolved(r.nodes, look) # {}}
  OBVIOUS
<1>3. PICK resolved : resolved = {resolveStructureRelationReferences(r, look) : r \in given \ waiting}
  OBVIOUS
<1>4. PICK denied : denied = {r \in resolved : w.phase = "review" /\ ~ r.nodes \subseteq w.editable}
  OBVIOUS
<1>5. d = [waiting |-> waiting, relations |-> resolved \ denied, ok |-> denied = {}]
  BY <1>1, <1>2, <1>3, <1>4 DEF DeclareStructure
<1>6. resolved \subseteq StructureRelations
  BY <1>2, <1>3, RelationIs
<1> QED BY <1>2, <1>4, <1>5, <1>6

LEMMA ScopeIs ==
  ASSUME NEW relations \in SUBSET StructureRelations, NEW s, s = resolveScope(relations)
  PROVE  /\ s \in Scopes /\ FreezeHolds(s) /\ s.relations = relations
         /\ Moves(s) \subseteq UNION {r.nodes : r \in relations}
<1>1. PICK frozen : frozen = NodesOf(relations, {"freeze"})
  OBVIOUS
<1>2. PICK spacing : spacing = NodesOf(relations, {"flow"}) \ frozen
  OBVIOUS
<1>3. PICK overlap : overlap = NodesOf(relations, {"flow", "nonOverlap"}) \ frozen
  OBVIOUS
<1>4. s = [spacing |-> spacing, overlap |-> overlap, relations |-> relations]
  BY <1>1, <1>2, <1>3 DEF resolveScope
<1>5. \A r \in relations : r.nodes \subseteq Keys
  BY DEF StructureRelations
<1>6. spacing \subseteq UNION {r.nodes : r \in relations} /\ overlap \subseteq UNION {r.nodes : r \in relations}
  BY <1>2, <1>3 DEF NodesOf
<1>7. spacing \in SUBSET Keys /\ overlap \in SUBSET Keys
  BY <1>5, <1>6
<1> QED BY <1>1, <1>2, <1>3, <1>4, <1>6, <1>7 DEF Scopes, FreezeHolds, Moves

LEMMA CanvasOpIs ==
  ASSUME NEW op \in CanvasOps
  PROVE  /\ op.op \in {"move_shape", "update_text", "delete_shape"} =>
              op.id \in Keys /\ op = [op |-> op.op, id |-> op.id]
         /\ op.op = "place_region" =>
              /\ op.ids \in SUBSET Keys /\ op.anchorId \in Keys \cup {Nothing}
              /\ op = [op |-> op.op, ids |-> op.ids, anchorId |-> op.anchorId]
BY DEF CanvasOps

LEMMA ResolvedOpIs ==
  ASSUME NEW look \in [Keys -> Ids \cup {Nothing}], NEW op \in CanvasOps, op.op \in DEFERRED_REFERENCE_OPS,
         Unresolved(CarriedKeys(op), look) = {}, NEW o, o = resolveCanvasOpReferences(op, look)
  PROVE  o \in CanvasOps /\ o.op = op.op
<1>1. CASE op.op \in {"move_shape", "update_text", "delete_shape"}
  <2>1. op.id \in Keys /\ op = [op |-> op.op, id |-> op.id] /\ CarriedKeys(op) = {op.id}
    BY <1>1, CanvasOpIs DEF CarriedKeys
  <2>2. PICK key \in Keys : key = op.id
    BY <2>1
  <2>3. PICK id : id = look[key]
    OBVIOUS
  <2>4. id \in Keys
    <3>1. {key} \in SUBSET Keys /\ Unresolved({key}, look) = {}
      BY <2>1, <2>2
    <3> QED BY <2>3, <3>1, FoundIs
  <2>5. o = [op EXCEPT !.id = id]
    BY <1>1, <2>1, <2>2, <2>3 DEF resolveCanvasOpReferences
  <2>6. o = [op |-> op.op, id |-> id]
    BY <2>1, <2>5
  <2> QED BY <1>1, <2>4, <2>6 DEF CanvasOps
<1>2. CASE op.op = "place_region"
  <2>1. /\ op.ids \in SUBSET Keys /\ op.anchorId \in Keys \cup {Nothing}
        /\ op = [op |-> op.op, ids |-> op.ids, anchorId |-> op.anchorId]
        /\ CarriedKeys(op) = op.ids \cup ({op.anchorId} \ {Nothing})
    BY <1>2, CanvasOpIs DEF CarriedKeys
  <2>2. PICK keys \in SUBSET Keys : keys = op.ids
    BY <2>1
  <2>3. PICK found : found = {look[k] : k \in keys}
    OBVIOUS
  <2>4. PICK at \in Keys \cup {Nothing} : at = op.anchorId
    BY <2>1
  <2>5. PICK anchor : anchor = IF at = Nothing THEN at ELSE look[at]
    OBVIOUS
  <2>6. found \in SUBSET Keys
    <3>1. Unresolved(keys, look) = {}
      BY <2>1, <2>2 DEF Unresolved
    <3> QED BY <2>3, <3>1, FoundIs
  <2>7. anchor \in Keys \cup {Nothing}
    <3>1. CASE at = Nothing
      BY <2>5, <3>1
    <3>2. CASE at # Nothing
      <4>1. look[at] \in Ids \cup {Nothing} /\ Ids \subseteq Keys
        BY <2>4, <3>2 DEF Keys
      <4> QED BY <2>5, <3>2, <4>1
    <3> QED BY <3>1, <3>2
  <2>8. o = [op EXCEPT !.ids = found, !.anchorId = anchor]
    BY <1>2, <2>1, <2>2, <2>3, <2>4, <2>5 DEF resolveCanvasOpReferences
  <2>9. o = [op |-> op.op, ids |-> found, anchorId |-> anchor]
    BY <2>1, <2>8
  <2> QED BY <1>2, <2>6, <2>7, <2>9 DEF CanvasOps
<1> QED BY <1>1, <1>2 DEF DEFERRED_REFERENCE_OPS

LEMMA OpCallIs ==
  ASSUME NEW call, call.id \in CallIds, call.op \in CanvasCalls, NEW error \in BOOLEAN,
         NEW d, d = OpCall(call, error)
  PROVE  d \in StageCalls /\ d.id = call.id /\ d.op = call.op /\ d.error = error
BY DEF OpCall, StageCalls

LEMMA ResolveDeferredIs ==
  ASSUME NEW look \in [Keys -> Ids \cup {Nothing}], NEW w, NEW call \in StageCalls, call.op \in CanvasOps,
         call.op.op \in DEFERRED_REFERENCE_OPS, NEW d, d = ResolveDeferred(call, look, w)
  PROVE  /\ d \in StageCalls /\ d.id = call.id
         /\ ~d.error => /\ d.op \in CanvasOps /\ d.op.op = call.op.op
                        /\ w.phase = "review" /\ call.op.op \in REVIEW_TOOL_NAMES => Targets(d.op) \subseteq w.editable
<1>1. call.id \in CallIds /\ call.op \in CanvasCalls
  BY DEF StageCalls
<1>2. CASE Unresolved(CarriedKeys(call.op), look) # {}
  <2>1. PICK error \in BOOLEAN : error = TRUE
    OBVIOUS
  <2>2. d = OpCall(call, error)
    BY <1>2, <2>1 DEF ResolveDeferred
  <2> QED BY <1>1, <2>1, <2>2, OpCallIs
<1>3. CASE Unresolved(CarriedKeys(call.op), look) = {}
  <2>1. PICK asked \in CanvasOps : asked = call.op
    OBVIOUS
  <2>2. PICK op : op = resolveCanvasOpReferences(asked, look)
    OBVIOUS
  <2>3. op \in CanvasOps /\ op.op = call.op.op
    BY <1>3, <2>1, <2>2, ResolvedOpIs
  <2>4. PICK e : e = [call EXCEPT !.op = op]
    OBVIOUS
  <2>5. e.id = call.id /\ e.op = op
    BY <2>4 DEF StageCalls
  <2>6. PICK error \in BOOLEAN : error = operationAccessError(op, w)
    BY DEF operationAccessError
  <2>7. d = OpCall(e, error)
    BY <1>3, <2>1, <2>2, <2>4, <2>6 DEF ResolveDeferred
  <2>8. e.id \in CallIds /\ e.op \in CanvasCalls
    BY <1>1, <2>3, <2>5 DEF CanvasCalls
  <2>9. d \in StageCalls /\ d.id = e.id /\ d.op = e.op /\ d.error = error
    BY <2>7, <2>8, OpCallIs
  <2>10. ASSUME ~error, w.phase = "review", call.op.op \in REVIEW_TOOL_NAMES
         PROVE  Targets(op) \subseteq w.editable
    <3>1. op.op \in {"move_shape", "place_region"}
      BY <2>3, <2>10 DEF REVIEW_TOOL_NAMES, DEFERRED_REFERENCE_OPS
    <3>2. CASE op.op = "move_shape"
      BY <2>6, <2>10, <3>2 DEF operationAccessError, Targets
    <3>3. CASE op.op = "place_region"
      BY <2>6, <2>10, <3>3 DEF operationAccessError, Targets
    <3> QED BY <3>1, <3>2, <3>3
  <2> QED BY <2>3, <2>5, <2>9, <2>10
<1> QED BY <1>2, <1>3

\* What the deferred calls become.
Resolved(calls, look, w) == [i \in DOMAIN calls |-> ResolveDeferred(calls[i], look, w)]

LEMMA DeferredCalls ==
  ASSUME NEW look \in [Keys -> Ids \cup {Nothing}], NEW w, NEW calls \in Seq(StageCalls),
         Valid(calls) = DOMAIN calls, Parsed(calls), DeferredOps(calls),
         NEW next, next = Resolved(calls, look, w)
  PROVE  /\ next \in Seq(StageCalls) /\ Len(next) = Len(calls) /\ IdsOf(next) = IdsOf(calls)
         /\ Parsed(next) /\ DeferredOps(next)
         /\ w.phase = "review" /\ (\A i \in DOMAIN calls : calls[i].op.op \in REVIEW_TOOL_NAMES) =>
              \A i \in Valid(next) : Targets(next[i].op) \subseteq w.editable
<1>1. PICK n \in Nat : n = Len(calls) /\ DOMAIN calls = 1 .. n
  BY LenProperties
<1>2. ASSUME NEW i \in 1 .. n
      PROVE  /\ next[i] \in StageCalls /\ next[i].id = calls[i].id
             /\ ~next[i].error =>
                  /\ next[i].op \in CanvasOps /\ next[i].op.op = calls[i].op.op
                  /\ next[i].op.op \in DEFERRED_REFERENCE_OPS
                  /\ w.phase = "review" /\ calls[i].op.op \in REVIEW_TOOL_NAMES => Targets(next[i].op) \subseteq w.editable
  <2>1. PICK call \in StageCalls : call = calls[i]
    BY <1>1
  <2>2. i \in Valid(calls)
    BY <1>1
  <2>3. call.op \in CanvasOps /\ call.op.op \in DEFERRED_REFERENCE_OPS
    BY <2>1, <2>2 DEF Parsed, DeferredOps
  <2>4. next[i] = ResolveDeferred(call, look, w)
    BY <1>1, <2>1 DEF Resolved
  <2> QED BY <2>1, <2>3, <2>4, ResolveDeferredIs
<1>3. next \in Seq(StageCalls) /\ Len(next) = n /\ DOMAIN next = 1 .. n
  <2>1. DOMAIN next = 1 .. n /\ next = [i \in 1 .. n |-> next[i]]
    BY <1>1 DEF Resolved
  <2>2. next \in [1 .. n -> StageCalls]
    BY <1>2, <2>1
  <2> QED BY <1>1, <2>1, <2>2, SeqDef, LenProperties
<1>4. IdsOf(next) = IdsOf(calls)
  BY <1>1, <1>2, <1>3 DEF IdsOf
<1>5. Parsed(next) /\ DeferredOps(next)
  BY <1>2, <1>3 DEF Parsed, DeferredOps, Valid
<1>6. ASSUME w.phase = "review", \A i \in DOMAIN calls : calls[i].op.op \in REVIEW_TOOL_NAMES, NEW i \in Valid(next)
      PROVE  Targets(next[i].op) \subseteq w.editable
  <2>1. i \in 1 .. n /\ ~next[i].error
    BY <1>3 DEF Valid
  <2> QED BY <1>1, <1>2, <1>6, <2>1
<1> QED BY <1>1, <1>3, <1>4, <1>5, <1>6

\* The declarations taken, their answers, the relations they bring and the ones that wait.
Taken(declares, look, w) == [i \in DOMAIN declares |-> DeclareStructure(look, w, declares[i])]
Told(declares, taken)    == [i \in DOMAIN taken |-> ToolMessage(declares[i].id, taken[i].ok, {})]
Brought(taken)           == UNION {taken[i].relations : i \in DOMAIN taken}
Waiting(taken)           == UNION {taken[i].waiting : i \in DOMAIN taken}
CallsOf(ms)              == {ms[i].call : i \in 1 .. Len(ms)}

LEMMA DeclaresAre ==
  ASSUME NEW look \in [Keys -> Ids \cup {Nothing}], NEW w, NEW declares \in Seq(DeclareCalls),
         NEW taken, taken = Taken(declares, look, w), NEW ms, ms = Told(declares, taken),
         NEW brought, brought = Brought(taken), NEW waiting, waiting = Waiting(taken)
  PROVE  /\ brought \subseteq StructureRelations /\ waiting \subseteq StructureRelations
         /\ w.phase = "review" => \A r \in brought : r.nodes \subseteq w.editable
         /\ ms \in Seq(Messages) /\ Len(ms) = Len(declares)
         /\ \A i \in 1 .. Len(ms) : ms[i].role = "tool" /\ ms[i].calls = {} /\ ms[i].ids = {}
         /\ IdsOf(declares) = CallsOf(ms)
<1>1. PICK n \in Nat : n = Len(declares) /\ DOMAIN declares = 1 .. n
  BY LenProperties
<1>2. DOMAIN taken = 1 .. n /\ DOMAIN ms = 1 .. n
  BY <1>1 DEF Taken, Told
<1>3. ASSUME NEW i \in 1 .. n
      PROVE  /\ taken[i].waiting \subseteq StructureRelations /\ taken[i].relations \subseteq StructureRelations
             /\ w.phase = "review" => \A r \in taken[i].relations : r.nodes \subseteq w.editable
             /\ ms[i] \in Messages /\ ms[i].role = "tool" /\ ms[i].calls = {} /\ ms[i].ids = {}
             /\ ms[i].call = declares[i].id
  <2>1. PICK call \in DeclareCalls : call = declares[i]
    BY <1>1
  <2>2. PICK d : d = taken[i]
    OBVIOUS
  <2>3. d = DeclareStructure(look, w, call)
    BY <1>1, <2>1, <2>2 DEF Taken
  <2>4. /\ d.waiting \subseteq StructureRelations /\ d.relations \subseteq StructureRelations /\ d.ok \in BOOLEAN
        /\ w.phase = "review" => \A r \in d.relations : r.nodes \subseteq w.editable
    BY <2>3, DeclareIs
  <2>5. PICK id \in CallIds : id = declares[i].id
    BY <2>1 DEF DeclareCalls
  <2>6. PICK ok \in BOOLEAN : ok = d.ok
    BY <2>4
  <2>7. PICK none \in SUBSET Ids : none = {}
    OBVIOUS
  <2>8. PICK m : m = ToolMessage(id, ok, none)
    OBVIOUS
  <2>9. m \in Messages /\ m.role = "tool" /\ m.calls = {} /\ m.call = id /\ m.ids = none
    BY <2>8, ToolMessageIs
  <2>10. ms[i] = m
    BY <1>2, <2>2, <2>5, <2>6, <2>7, <2>8 DEF Told
  <2> QED BY <2>2, <2>4, <2>5, <2>7, <2>9, <2>10
<1>4. ms \in Seq(Messages) /\ Len(ms) = n
  <2>1. ms = [i \in 1 .. n |-> ms[i]]
    BY <1>2 DEF Told
  <2>2. ms \in [1 .. n -> Messages]
    BY <1>3, <2>1
  <2> QED BY <1>1, <1>2, <2>2, SeqDef, LenProperties
<1>5. IdsOf(declares) = CallsOf(ms)
  <2>1. \A i \in 1 .. n : ms[i].call = declares[i].id
    BY <1>3
  <2>2. PICK calls : calls = declares
    OBVIOUS
  <2>3. DOMAIN calls = 1 .. n /\ Len(ms) = n /\ \A i \in 1 .. n : ms[i].call = calls[i].id
    BY <1>1, <1>4, <2>1, <2>2
  <2>4. PICK A : A = IdsOf(calls)
    OBVIOUS
  <2>5. PICK B : B = CallsOf(ms)
    OBVIOUS
  <2>6. ASSUME NEW x \in A PROVE x \in B
    <3>1. PICK i \in 1 .. n : x = calls[i].id
      BY <2>3, <2>4, <2>6 DEF IdsOf
    <3>2. i \in 1 .. Len(ms) /\ x = ms[i].call
      BY <2>3, <3>1
    <3> QED BY <2>5, <3>2 DEF CallsOf
  <2>7. ASSUME NEW x \in B PROVE x \in A
    <3>1. PICK i \in 1 .. n : x = ms[i].call
      BY <2>3, <2>5, <2>7 DEF CallsOf
    <3>2. i \in DOMAIN calls /\ x = calls[i].id
      BY <2>3, <3>1
    <3> QED BY <2>4, <3>2 DEF IdsOf
  <2>8. A = B
    BY <2>6, <2>7
  <2> QED BY <2>2, <2>4, <2>5, <2>8
<1>6. brought \subseteq StructureRelations
  BY <1>2, <1>3 DEF Brought
<1>7. waiting \subseteq StructureRelations
  BY <1>2, <1>3 DEF Waiting
<1>8. ASSUME w.phase = "review" PROVE \A r \in brought : r.nodes \subseteq w.editable
  BY <1>2, <1>3, <1>8 DEF Brought
<1>9. \A i \in 1 .. Len(ms) : ms[i].role = "tool" /\ ms[i].calls = {} /\ ms[i].ids = {}
  BY <1>3, <1>4
<1> QED BY <1>1, <1>4, <1>5, <1>6, <1>7, <1>8, <1>9

ScopeOf(c, w, relations) ==
  IF w.phase = "review" THEN resolveScope(relations)
  ELSE IF relations = {} THEN c.turnScope ELSE mergeScope(c.turnScope, resolveScope(relations))

LEMMA ScopeChosen ==
  ASSUME NEW c \in Convs, NEW w, NEW relations \in SUBSET StructureRelations,
         NEW s, s = ScopeOf(c, w, relations)
  PROVE  /\ s \in Scopes
         /\ w.phase = "review" => Moves(s) \subseteq UNION {r.nodes : r \in relations}
         /\ w.phase # "review" /\ FreezeHolds(c.turnScope) => FreezeHolds(s)
<1>1. c.turnScope \in Scopes
  BY ConvIs
<1>2. CASE w.phase = "review"
  BY <1>2, ScopeIs DEF ScopeOf
<1>3. CASE w.phase # "review" /\ relations = {}
  BY <1>1, <1>3 DEF ScopeOf
<1>4. CASE w.phase # "review" /\ relations # {}
  <2>1. PICK add : add = resolveScope(relations)
    OBVIOUS
  <2>2. add.relations = relations
    BY <2>1, ScopeIs
  <2>3. PICK all : all = c.turnScope.relations \cup relations
    OBVIOUS
  <2>4. all \in SUBSET StructureRelations
    BY <1>1, <2>3 DEF Scopes
  <2>5. s = resolveScope(all)
    BY <1>4, <2>1, <2>2, <2>3 DEF mergeScope, ScopeOf
  <2> QED BY <1>4, <2>4, <2>5, ScopeIs
<1> QED BY <1>2, <1>3, <1>4

Structured(c, pending, scope) == [c EXCEPT !.pendingRelations = pending, !.turnScope = scope]

LEMMA StructureSet ==
  ASSUME NEW c \in Convs, NEW pending \in SUBSET StructureRelations, NEW scope \in Scopes,
         NEW d, d = Structured(c, pending, scope)
  PROVE  /\ d \in Convs /\ d.history = c.history /\ d.refMap = c.refMap /\ d.cancelled = c.cancelled
         /\ d.turnScope = scope /\ d.pendingRelations = pending
<1>1. d = [history |-> c.history, cancelled |-> c.cancelled, turnScope |-> scope, refMap |-> c.refMap,
           diagramPlan |-> c.diagramPlan, pendingRelations |-> pending]
  BY DEF Convs, Structured
<1> QED BY <1>1, ConvIs DEF Convs

Restaged(b, calls, base, scope, results, leftover, did) ==
  [b EXCEPT !.calls = calls, !.base = base, !.scope = scope, !.results = results,
            !.leftover = leftover, !.didApply = did]

LEMMA BatchNext ==
  ASSUME NEW b, IsBatch(b), NEW calls \in Seq(StageCalls), NEW base, NEW scope \in Scopes,
         NEW leftover \in SUBSET Keys, NEW did \in BOOLEAN, NEW results \in Seq(Results),
         NEW e, e = Restaged(b, calls, base, scope, results, leftover, did)
  PROVE  /\ IsBatch(e) /\ e.calls = calls /\ e.base = base /\ e.scope = scope /\ e.leftover = leftover
<1>1. e = [calls |-> calls, base |-> base, scope |-> scope, results |-> results,
           declares |-> b.declares, deferred |-> b.deferred, edited |-> b.edited,
           laidOut |-> b.laidOut, leftover |-> leftover, didApply |-> did]
  BY DEF IsBatch, Restaged
<1> QED BY <1>1, BatchIs DEF IsBatch

\* The history once the declarations are answered: only the deferred calls are open.
LEMMA DeclaresClose ==
  ASSUME NEW c \in Convs, NEW ms \in Seq(Messages), NEW declares, NEW deferred \in Seq(StageCalls), Len(ms) = Len(declares),
         Open(c.history, IdsOf(declares) \cup IdsOf(deferred), Len(declares) + Len(deferred)),
         \A i \in 1 .. Len(ms) : ms[i].role = "tool" /\ ms[i].calls = {},
         IdsOf(declares) = CallsOf(ms),
         NEW e, e = c.history \o ms
  PROVE  Open(e, IdsOf(deferred), Len(deferred))
<1>1. PICK h \in Seq(Messages) : h = c.history
  BY ConvIs
<1>2. PICK left : left = IdsOf(deferred)
  OBVIOUS
<1>3. PICK given : given = CallsOf(ms) /\ given = {ms[i].call : i \in 1 .. Len(ms)}
  BY DEF CallsOf
<1>4. PICK count \in Nat : count = Len(deferred)
  BY LenProperties
<1>5. PICK n \in Nat : n = Len(ms)
  BY LenProperties
<1>6. Open(h, left \cup given, count + n)
  <2>1. IdsOf(declares) \cup IdsOf(deferred) = left \cup given
    BY <1>2, <1>3
  <2>2. Len(declares) + Len(deferred) = count + n
    BY <1>4, <1>5
  <2> QED BY <1>1, <2>1, <2>2
<1>7. e = h \o ms
  BY <1>1
<1> QED BY <1>2, <1>3, <1>4, <1>5, <1>6, <1>7, ResultsClose

\* The second stage, its values named.
Stages(c, w, look, ready, old, taken, scope) ==
  /\ pc' = "late" /\ work' = w
  /\ conv' = [Hears(c, Told(batch.declares, taken))
               EXCEPT !.pendingRelations = (@ \ ready) \cup Waiting(taken),
                      !.turnScope = IF w.phase = "review" THEN @ ELSE scope]
  /\ batch' = Restaged(batch, Resolved(batch.deferred, look, w), scene, scope, <<>>, UNION {r.nodes : r \in old},
                       \E i \in DOMAIN batch.calls : ~batch.calls[i].error)
  /\ UNCHANGED <<harness, delivered, outcome, emitted>>

LEMMA SecondStageIs ==
  ASSUME NEW c, NEW w, SecondStage(c, w)
  PROVE  \E look, ready, old, taken, relations, scope :
           /\ look = Lookup(c)
           /\ ready = {r \in c.pendingRelations : Unresolved(r.nodes, look) = {}}
           /\ old = {resolveStructureRelationReferences(r, look) : r \in ready}
           /\ taken = Taken(batch.declares, look, w)
           /\ relations = old \cup Brought(taken)
           /\ scope = ScopeOf(c, w, relations)
           /\ Stages(c, w, look, ready, old, taken, scope)
<1>1. \E look \in {Lookup(c)} :
      \E ready \in {{r \in c.pendingRelations : Unresolved(r.nodes, look) = {}}} :
      \E old \in {{resolveStructureRelationReferences(r, look) : r \in ready}} :
      \E taken \in {Taken(batch.declares, look, w)} :
      \E relations \in {old \cup Brought(taken)} :
      \E scope \in {ScopeOf(c, w, relations)} : Stages(c, w, look, ready, old, taken, scope)
  BY DEF SecondStage, Taken, Brought, ScopeOf, Stages, Told, Waiting, Restaged, Resolved
<1>2. PICK look : look = Lookup(c)
  OBVIOUS
<1>3. PICK ready : ready = {r \in c.pendingRelations : Unresolved(r.nodes, look) = {}}
  OBVIOUS
<1>4. PICK old : old = {resolveStructureRelationReferences(r, look) : r \in ready}
  OBVIOUS
<1>5. PICK taken : taken = Taken(batch.declares, look, w)
  OBVIOUS
<1>6. PICK relations : relations = old \cup Brought(taken)
  OBVIOUS
<1>7. Stages(c, w, look, ready, old, taken, ScopeOf(c, w, relations))
  BY <1>1, <1>2, <1>3, <1>4, <1>5, <1>6
<1> QED BY <1>2, <1>3, <1>4, <1>5, <1>6, <1>7

LEMMA SecondStageSound ==
  ASSUME Sound, pc \in {"early", "earlySave"}, turn' = turn, OnCanvas', scene' = scene, minted' = minted,
         NEW c \in Convs, c.cancelled = conv.cancelled, c.turnScope = conv.turnScope,
         Len(conv.history) <= Len(c.history),
         Open(c.history, IdsOf(batch.declares) \cup IdsOf(batch.deferred), Len(batch.declares) + Len(batch.deferred)),
         ToldIsSaved(c.history, scene', clipboard', saved'), RefsReported(c, minted),
         NEW w \in Works, w.phase = work.phase, w.editable = work.editable, SecondStage(c, w)
  PROVE  Sound' /\ Heeds
<1>1. PICK look, ready, old, taken, relations, scope :
        /\ look = Lookup(c)
        /\ ready = {r \in c.pendingRelations : Unresolved(r.nodes, look) = {}}
        /\ old = {resolveStructureRelationReferences(r, look) : r \in ready}
        /\ taken = Taken(batch.declares, look, w)
        /\ relations = old \cup Brought(taken)
        /\ scope = ScopeOf(c, w, relations)
        /\ Stages(c, w, look, ready, old, taken, scope)
  BY SecondStageIs
<1>2. look \in [Keys -> Ids \cup {Nothing}]
  <2>1. DOMAIN scene \subseteq Ids
    BY DEF Sound, OnCanvas
  <2> QED BY <1>1, <2>1, LookupIs
<1>3. old \in SUBSET StructureRelations
  <2>1. c.pendingRelations \in SUBSET StructureRelations
    BY ConvIs
  <2> QED BY <1>1, <1>2, <2>1, RelationIs
<1>4. /\ batch.declares \in Seq(DeclareCalls) /\ batch.deferred \in Seq(StageCalls) /\ batch.calls \in Seq(StageCalls)
      /\ IsBatch(batch)
  BY BatchIs DEF Sound, Typed
<1>5. PICK declares \in Seq(DeclareCalls) : declares = batch.declares
  BY <1>4
<1>6. PICK ms : ms = Told(declares, taken)
  OBVIOUS
<1>43. PICK brought : brought = Brought(taken)
  OBVIOUS
<1>44. PICK waiting : waiting = Waiting(taken)
  OBVIOUS
<1>7. /\ brought \subseteq StructureRelations /\ waiting \subseteq StructureRelations
      /\ w.phase = "review" => \A r \in brought : r.nodes \subseteq w.editable
      /\ ms \in Seq(Messages) /\ Len(ms) = Len(declares)
      /\ \A i \in 1 .. Len(ms) : ms[i].role = "tool" /\ ms[i].calls = {} /\ ms[i].ids = {}
      /\ IdsOf(declares) = CallsOf(ms)
  <2>1. taken = Taken(declares, look, w)
    BY <1>1, <1>5
  <2> QED BY <1>2, <1>6, <1>43, <1>44, <2>1, DeclaresAre
<1>8. relations = old \cup brought /\ relations \in SUBSET StructureRelations
  BY <1>1, <1>3, <1>7, <1>43
<1>9. /\ scope \in Scopes
      /\ w.phase = "review" => Moves(scope) \subseteq UNION {r.nodes : r \in relations}
      /\ w.phase # "review" /\ FreezeHolds(c.turnScope) => FreezeHolds(scope)
  BY <1>1, <1>8, ScopeChosen
<1>10. PICK h : h = Hears(c, ms)
  OBVIOUS
<1>11. /\ h \in Convs /\ h.history = c.history \o ms /\ h.cancelled = c.cancelled /\ h.turnScope = c.turnScope
       /\ h.refMap = c.refMap /\ h.diagramPlan = c.diagramPlan /\ h.pendingRelations = c.pendingRelations
  BY <1>7, <1>10, HearsIs
<1>12. PICK pending : pending = (h.pendingRelations \ ready) \cup waiting
  OBVIOUS
<1>13. PICK kept : kept = IF w.phase = "review" THEN h.turnScope ELSE scope
  OBVIOUS
<1>14. pending \in SUBSET StructureRelations /\ kept \in Scopes
  BY <1>7, <1>9, <1>11, <1>12, <1>13, ConvIs
<1>15. PICK d : d = conv'
  OBVIOUS
<1>16. d = Structured(h, pending, kept)
  BY <1>1, <1>5, <1>6, <1>10, <1>12, <1>13, <1>15, <1>44 DEF Stages, Structured
<1>17. /\ d \in Convs /\ d.history = c.history \o ms /\ d.refMap = c.refMap /\ d.cancelled = c.cancelled
       /\ d.turnScope = kept
  BY <1>11, <1>14, <1>16, StructureSet
<1>18. PICK calls \in Seq(StageCalls) : calls = batch.deferred
  BY <1>4
<1>19. PICK next : next = Resolved(calls, look, w)
  OBVIOUS
<1>20. /\ next \in Seq(StageCalls) /\ Len(next) = Len(calls) /\ IdsOf(next) = IdsOf(calls)
       /\ Parsed(next) /\ DeferredOps(next)
       /\ w.phase = "review" /\ (\A i \in DOMAIN calls : calls[i].op.op \in REVIEW_TOOL_NAMES) =>
              \A i \in Valid(next) : Targets(next[i].op) \subseteq w.editable
  <2>1. Valid(calls) = DOMAIN calls /\ Parsed(calls) /\ DeferredOps(calls)
    BY <1>18 DEF Sound, Staged
  <2> QED BY <1>2, <1>19, <2>1, DeferredCalls
<1>21. PICK leftover : leftover = UNION {r.nodes : r \in old}
  OBVIOUS
<1>22. leftover \in SUBSET Keys
  BY <1>3, <1>21 DEF StructureRelations
<1>23. PICK did \in BOOLEAN : did = \E i \in DOMAIN batch.calls : ~batch.calls[i].error
  OBVIOUS
<1>24. PICK none \in Seq(Results) : none = <<>>
  BY EmptySeq
<1>25. PICK b : b = batch'
  OBVIOUS
<1>26. IsBatch(b) /\ b.calls = next /\ b.base = scene /\ b.scope = scope /\ b.leftover = leftover
  <2>1. PICK b0 : b0 = batch
    OBVIOUS
  <2>2. PICK here : here = scene
    OBVIOUS
  <2>3. b = Restaged(b0, next, here, scope, none, leftover, did)
    BY <1>1, <1>18, <1>19, <1>21, <1>23, <1>24, <1>25, <2>1, <2>2 DEF Stages
  <2>4. IsBatch(b0)
    BY <1>4, <2>1
  <2> QED BY <1>9, <1>20, <1>22, <2>2, <2>3, <2>4, BatchNext
<1>27. pc' = "late" /\ work' = w /\ harness' = harness /\ delivered' = delivered /\ outcome' = outcome /\ emitted' = emitted
  BY <1>1 DEF Stages
<1>28. Typed'
  <2>1. IsBatch(batch)' /\ conv' \in Convs /\ pc' \in Parked
    BY <1>15, <1>17, <1>25, <1>26, <1>27 DEF Parked
  <2>2. emitted' = 0 /\ outcome' \in {"none", "completed", "failed", "question"} /\ turn' \in 0 .. MaxSends /\ harness' \in Harnesses
    BY <1>27 DEF Sound, Typed
  <2> QED BY <1>27, <2>1, <2>2 DEF Typed
<1>29. Staged'
  <2>1. DOMAIN scene \subseteq minted
    BY DEF Sound, OnCanvas
  <2> QED BY <1>20, <1>25, <1>26, <1>27, <2>1 DEF Staged, Applies
<1>30. Answering'
  <2>1. Open(d.history, IdsOf(next), Len(next))
    <3>1. PICK e : e = c.history \o ms
      OBVIOUS
    <3>2. Open(e, IdsOf(calls), Len(calls))
      <4>1. Open(c.history, IdsOf(declares) \cup IdsOf(calls), Len(declares) + Len(calls))
        BY <1>5, <1>18
      <4> QED BY <1>7, <3>1, <4>1, DeclaresClose
    <3> QED BY <1>17, <1>20, <3>1, <3>2
  <2>2. conv'.history = d.history /\ batch'.calls = next
    BY <1>15, <1>25, <1>26
  <2> QED BY <1>27, <2>1, <2>2 DEF Answering, Applies
<1>31. PICK hist \in Seq(Messages) : hist = c.history
  BY ConvIs
<1>32. PICK given \in Seq(Messages) : given = ms
  BY <1>7
<1>33. PICK e : e = d.history
  OBVIOUS
<1>34. e = hist \o given
  BY <1>17, <1>31, <1>32, <1>33
<1>35. Delivering'
  <2>1. harness.cursorTurn <= turn /\ harness.cursorTurn = turn /\ harness.sent <= Len(conv.history)
        /\ delivered = Counting(harness.sent)
    BY DEF Sound, Delivering
  <2>2. Len(e) = Len(hist) + Len(given) /\ Len(hist) \in Nat /\ Len(given) \in Nat
    BY <1>34, ConcatIs
  <2>3. harness.sent \in Nat /\ Len(conv.history) \in Nat
    BY ConvIs, LenProperties DEF Sound, Typed, Harnesses
  <2>4. harness.sent <= Len(e)
    BY <1>31, <2>1, <2>2, <2>3
  <2> QED BY <1>15, <1>27, <1>33, <2>1, <2>4 DEF Delivering
<1>36. CancelHeard'
  BY <1>15, <1>17, <1>27 DEF Sound, CancelHeard
<1>37. Saving'
  <2>1. PICK here, away, there : here = scene' /\ away = clipboard' /\ there = saved'
    OBVIOUS
  <2>2. ToldIsSaved(hist, here, away, there)
    BY <1>31, <2>1
  <2>3. \A i \in 1 .. Len(given) : (given[i].ids \cap DOMAIN here) \ DOMAIN away \subseteq DOMAIN there
    BY <1>7, <1>32
  <2>4. ToldIsSaved(e, here, away, there)
    BY <1>34, <2>2, <2>3, ToldMore
  <2> QED BY <1>15, <1>33, <2>1, <2>4 DEF Saving
<1>38. RefsReported(conv, minted)'
  <2>1. PICK made : made = minted
    OBVIOUS
  <2>2. RefsReported(d, made)
    <3>1. RefsReported(c, made) /\ d.history = c.history \o given
      BY <1>17, <1>32, <2>1
    <3> QED BY <1>17, <3>1, ReportedMore
  <2> QED BY <1>15, <2>1, <2>2
<1>39. Freezing'
  <2>1. ASSUME w.phase = "build" PROVE FreezeHolds(d.turnScope) /\ b.scope = d.turnScope
    BY <1>9, <1>11, <1>13, <1>17, <1>26, <2>1 DEF Sound, Freezing
  <2> QED BY <1>15, <1>25, <1>27, <2>1 DEF Freezing
<1>40. Reviewing'
  <2>1. ASSUME w.phase = "review"
        PROVE  /\ Moves(b.scope) \subseteq w.editable \cup b.leftover
               /\ \A i \in Valid(b.calls) : Targets(b.calls[i].op) \subseteq w.editable
    <3>1. UNION {r.nodes : r \in relations} \subseteq w.editable \cup leftover
      BY <1>7, <1>8, <1>21, <2>1
    <3>2. \A i \in DOMAIN calls : calls[i].op.op \in REVIEW_TOOL_NAMES
      <4>1. Valid(calls) = DOMAIN calls
        BY <1>18 DEF Sound, Staged
      <4> QED BY <1>18, <2>1, <4>1 DEF Sound, Reviewing
    <3> QED BY <1>9, <1>20, <1>26, <2>1, <3>1, <3>2
  <2> QED BY <1>25, <1>27, <2>1 DEF Reviewing
<1>41. Phases'
  BY <1>27 DEF Sound, Phases, Applies
<1>42. Heeds
  BY <1>27 DEF Heeds
<1> QED BY <1>28, <1>29, <1>30, <1>35, <1>36, <1>37, <1>38, <1>39, <1>40, <1>41, <1>42 DEF Sound

----------------------------------------------------------------------------
(* The end of a stage.                                                     *)

\* Each call has its result.
Tells(calls, ms) ==
  /\ ms \in Seq(Messages) /\ Len(ms) = Len(calls)
  /\ \A i \in 1 .. Len(calls) : ms[i].role = "tool" /\ ms[i].calls = {} /\ ms[i].call = calls[i].id

LEMMA TellsClose ==
  ASSUME NEW h \in Seq(Messages), NEW S, NEW calls \in Seq(S), NEW ms, Tells(calls, ms),
         NEW left, NEW count \in Nat, NEW all, all = left \cup IdsOf(calls), NEW n, n = count + Len(calls),
         Open(h, all, n), NEW e, e = h \o ms
  PROVE  Open(e, left, count) /\ Len(h) <= Len(e)
<1>1. PICK given \in Seq(Messages) : given = ms
  BY DEF Tells
<1>2. PICK m \in Nat : m = Len(calls) /\ DOMAIN calls = 1 .. m
  BY LenProperties
<1>3. Len(given) = m
  BY <1>1, <1>2 DEF Tells
<1>4. \A i \in 1 .. m : given[i].role = "tool" /\ given[i].calls = {} /\ given[i].call = calls[i].id
  BY <1>1, <1>2 DEF Tells
<1>5. PICK answered : answered = {given[i].call : i \in 1 .. Len(given)}
  OBVIOUS
<1>6. IdsOf(calls) = answered
  <2>1. PICK A : A = IdsOf(calls)
    OBVIOUS
  <2>2. ASSUME NEW x \in A PROVE x \in answered
    <3>1. PICK i \in 1 .. m : x = calls[i].id
      BY <1>2, <2>1, <2>2 DEF IdsOf
    <3>2. i \in 1 .. Len(given) /\ x = given[i].call
      BY <1>3, <1>4, <3>1
    <3> QED BY <1>5, <3>2
  <2>3. ASSUME NEW x \in answered PROVE x \in A
    <3>1. PICK i \in 1 .. m : x = given[i].call
      BY <1>3, <1>5, <2>3
    <3>2. i \in DOMAIN calls /\ x = calls[i].id
      BY <1>2, <1>4, <3>1
    <3> QED BY <2>1, <3>2 DEF IdsOf
  <2> QED BY <2>1, <2>2, <2>3
<1>7. Open(h, left \cup answered, count + m)
  BY <1>2, <1>6
<1>8. \A i \in 1 .. Len(given) : given[i].role = "tool" /\ given[i].calls = {}
  BY <1>3, <1>4
<1>9. e = h \o given
  BY <1>1
<1>10. Open(e, left, count)
  BY <1>3, <1>5, <1>7, <1>8, <1>9, ResultsClose
<1>11. Len(h) <= Len(e)
  BY <1>9, ConcatIs
<1> QED BY <1>10, <1>11

\* The results of a stage answer its calls.
LEMMA RepliesTell ==
  ASSUME NEW calls \in Seq(StageCalls), NEW results, NEW ms, Replies(calls, results, ms)
  PROVE  Tells(calls, ms)
BY DEF Replies, Tells

LEMMA StageDone ==
  ASSUME Sound, pc \in Applies, NEW results \in Seq(Results), Reported(batch.calls, results, minted),
         NEW f, f = Feedback(conv, work, results), NEW diagnostics \in BOOLEAN,
         AfterStage(f.conv, f.work, diagnostics), turn' = turn, scene' = scene, minted' = minted, OnCanvas',
         ToldIsSaved(f.conv.history, scene', clipboard', saved')
  PROVE  Sound' /\ Heeds
<1>1. /\ conv \in Convs /\ IsBatch(batch) /\ work \in Works /\ minted \in SUBSET Ids /\ RefsReported(conv, minted)
      /\ work.phase \in {"build", "review"}
      /\ work.phase = "build" => FreezeHolds(conv.turnScope)
  BY DEF Sound, Typed, OnCanvas, Phases, Works, Phase, Freezing
<1>2. PICK c : c = f.conv
  OBVIOUS
<1>3. PICK w : w = f.work
  OBVIOUS
<1>4. /\ c \in Convs /\ c.cancelled = conv.cancelled /\ c.turnScope = conv.turnScope
      /\ w \in Works /\ w.phase = work.phase /\ w.editable = work.editable
      /\ RefsReported(c, minted)
      /\ \E ms : Replies(batch.calls, results, ms) /\ c.history = conv.history \o ms
  <2>1. PICK w0 \in Works : w0 = work
    BY <1>1
  <2>2. f = Feedback(conv, w0, results)
    BY <2>1
  <2>3. Informs(f, w0, results)
    BY <1>1, <2>2, FeedbackInforms
  <2> QED BY <1>2, <1>3, <2>1, <2>3 DEF Informs
<1>5. PICK ms : Replies(batch.calls, results, ms) /\ c.history = conv.history \o ms
  BY <1>4
<1>6. PICK calls \in Seq(StageCalls) : calls = batch.calls
  BY <1>1, BatchIs
<1>7. PICK h \in Seq(Messages) : h = conv.history
  BY <1>1, ConvIs
<1>8. PICK e : e = c.history
  OBVIOUS
<1>9. Replies(calls, results, ms) /\ e = h \o ms
  BY <1>5, <1>6, <1>7, <1>8
<1>10. CASE pc \in {"early", "earlySave"}
  <2>1. PICK left : left = IdsOf(batch.declares) \cup IdsOf(batch.deferred)
    OBVIOUS
  <2>11. PICK declares \in Seq(DeclareCalls) : declares = batch.declares
    BY <1>1, BatchIs
  <2>12. PICK deferred \in Seq(StageCalls) : deferred = batch.deferred
    BY <1>1, BatchIs
  <2>13. Len(calls) \in Nat /\ Len(declares) \in Nat /\ Len(deferred) \in Nat
    BY LenProperties
  <2>2. PICK count \in Nat : count = Len(declares) + Len(deferred)
    BY <2>13
  <2>3. PICK all : all = left \cup IdsOf(calls)
    OBVIOUS
  <2>4. PICK n : n = count + Len(calls)
    OBVIOUS
  <2>5. Open(h, all, n)
    <3>1. Open(conv.history, IdsOf(batch.calls) \cup IdsOf(batch.declares) \cup IdsOf(batch.deferred),
               Len(batch.calls) + Len(batch.declares) + Len(batch.deferred))
      BY <1>10 DEF Sound, Answering
    <3>2. all = IdsOf(batch.calls) \cup IdsOf(batch.declares) \cup IdsOf(batch.deferred)
      BY <1>6, <2>1, <2>3
    <3>3. n = Len(batch.calls) + Len(batch.declares) + Len(batch.deferred)
      <4>1. PICK a \in Nat, b \in Nat, d \in Nat : a = Len(calls) /\ b = Len(declares) /\ d = Len(deferred)
        BY <2>13
      <4>2. a = Len(batch.calls) /\ b = Len(batch.declares) /\ d = Len(batch.deferred)
        BY <1>6, <2>11, <2>12, <4>1
      <4>3. n = (b + d) + a
        BY <2>2, <2>4, <4>1
      <4>4. n = a + b + d
        BY <4>3
      <4> QED BY <4>2, <4>4, Zenon
    <3> QED BY <1>7, <3>1, <3>2, <3>3
  <2>6. Open(e, left, count) /\ Len(h) <= Len(e)
    BY <1>9, <2>3, <2>4, <2>5, RepliesTell, TellsClose
  <2>7. SecondStage(c, w)
    BY <1>2, <1>3, <1>10 DEF AfterStage
  <2>8. Open(c.history, IdsOf(batch.declares) \cup IdsOf(batch.deferred), Len(batch.declares) + Len(batch.deferred))
    BY <1>8, <2>1, <2>2, <2>6, <2>11, <2>12
  <2>9. Len(conv.history) <= Len(c.history)
    BY <1>7, <1>8, <2>6
  <2>10. ToldIsSaved(c.history, scene', clipboard', saved')
    BY <1>2
  <2> QED BY <1>4, <1>10, <2>7, <2>8, <2>9, <2>10, SecondStageSound
<1>11. CASE pc \in {"late", "lateSave"}
  <2>1. PICK left : left = {}
    OBVIOUS
  <2>2. PICK count \in Nat : count = 0
    OBVIOUS
  <2>3. PICK all : all = left \cup IdsOf(calls)
    OBVIOUS
  <2>4. PICK n : n = count + Len(calls)
    OBVIOUS
  <2>5. Open(h, all, n)
    <3>1. Open(conv.history, IdsOf(batch.calls), Len(batch.calls))
      BY <1>11 DEF Sound, Answering
    <3>2. all = IdsOf(batch.calls) /\ n = Len(batch.calls)
      BY <1>6, <2>1, <2>2, <2>3, <2>4, LenProperties
    <3> QED BY <1>7, <3>1, <3>2
  <2>6. Open(e, left, count) /\ Len(h) <= Len(e)
    BY <1>9, <2>3, <2>4, <2>5, RepliesTell, TellsClose
  <2>7. AllAnswered(e)
    <3>1. Open(e, {}, 0)
      BY <2>1, <2>2, <2>6
    <3>2. e \in Seq(Messages)
      BY <1>4, <1>8, ConvIs
    <3> QED BY <3>1, <3>2, ClosedIsAnswered
  <2>8. Fits(c)
    BY <1>2, <1>4, <1>7, <1>8, <2>6, <2>7 DEF Fits
  <2>9. PICK d : d = IF diagnostics THEN Push(c, Message("user")) ELSE c
    OBVIOUS
  <2>10. AfterBatch(d, w)
    <3>1. pc \notin {"early", "earlySave"}
      BY <1>11
    <3> QED BY <1>2, <1>3, <2>9, <3>1 DEF AfterStage
  <2>11. Fits(d) /\ d.turnScope = c.turnScope
    BY <2>8, <2>9, SaysFits
  <2>12. Typed /\ Delivering /\ CancelHeard /\ pc \notin {"idle", "context"}
    BY <1>11 DEF Sound
  <2>13. w.phase \in {"build", "review"} /\ (w.phase = "build" => FreezeHolds(d.turnScope))
    BY <1>1, <1>4, <2>11
  <2> QED BY <1>4, <2>10, <2>11, <2>12, <2>13, AfterBatchSound
<1> QED BY <1>10, <1>11 DEF Applies

LEMMA StageSavedSound == Sound /\ StageSaved => Sound' /\ Heeds
<1>1. SUFFICES ASSUME Sound, StageSaved PROVE Sound' /\ Heeds
  OBVIOUS
<1>2. /\ pc \in {"earlySave", "lateSave"} /\ saved' = scene /\ turn' = turn /\ scene' = scene /\ minted' = minted
      /\ clipboard' = clipboard
  BY <1>1 DEF StageSaved
<1>9. PICK f : f = Feedback(conv, work, batch.results)
  OBVIOUS
<1>3. PICK diagnostics \in BOOLEAN : AfterStage(f.conv, f.work, diagnostics)
  BY <1>1, <1>9 DEF StageSaved
<1>4. PICK results \in Seq(Results) : results = batch.results
  BY <1>1, BatchIs DEF Sound, Typed
<1>5. Reported(batch.calls, results, minted)
  BY <1>1, <1>2, <1>4 DEF Sound, Staged
<1>6. OnCanvas'
  BY <1>1, <1>2 DEF Sound, OnCanvas
<1>7. ToldIsSaved(f.conv.history, scene', clipboard', saved')
  BY <1>2 DEF ToldIsSaved
<1>8. pc \in Applies
  BY <1>2 DEF Applies
<1> QED BY <1>1, <1>2, <1>3, <1>4, <1>5, <1>6, <1>7, <1>8, <1>9, StageDone

\* A stage with nothing to apply tells nothing of shapes.
LEMMA NothingTold ==
  ASSUME NEW h \in Seq(Messages), NEW calls \in Seq(StageCalls), Valid(calls) = {}, NEW results, NEW ms,
         Replies(calls, results, ms), NEW e, e = h \o ms,
         NEW here, NEW away, NEW kept, ToldIsSaved(h, here, away, kept)
  PROVE  ToldIsSaved(e, here, away, kept)
<1>1. PICK given \in Seq(Messages) : given = ms
  BY DEF Replies
<1>2. Len(given) = Len(calls) /\ DOMAIN calls = 1 .. Len(calls)
  BY <1>1, LenProperties DEF Replies
<1>3. \A i \in 1 .. Len(given) : given[i].ids = {}
  BY <1>1, <1>2 DEF Replies, Valid
<1>4. e = h \o given
  BY <1>1
<1>5. \A i \in 1 .. Len(given) : (given[i].ids \cap DOMAIN here) \ DOMAIN away \subseteq DOMAIN kept
  BY <1>3
<1> QED BY <1>4, <1>5, ToldMore

LEMMA StageAppliesSound == Sound /\ StageApplies => Sound' /\ Heeds
<1>1. SUFFICES ASSUME Sound, StageApplies PROVE Sound' /\ Heeds
  OBVIOUS
<1>2. pc \in {"early", "late"} /\ pc \in Applies
  BY <1>1 DEF StageApplies, Applies
<1>3. CASE StageOps = <<>> /\ batch.scope = NoScope
  <2>1. turn' = turn /\ scene' = scene /\ minted' = minted /\ saved' = saved /\ clipboard' = clipboard
    BY <1>1, <1>3 DEF StageApplies, canvas
  <2>2. PICK results \in Seq(Results) : results = <<>> /\ Len(results) = 0
    BY EmptySeq
  <2>3. \E f \in {Feedback(conv, work, <<>>)}, diagnostics \in {FALSE, batch.didApply} :
          AfterStage(f.conv, f.work, diagnostics)
    BY <1>1, <1>3 DEF StageApplies
  <2>4. batch.didApply \in BOOLEAN
    BY <1>1, BatchIs DEF Sound, Typed
  <2>12. PICK f : f = Feedback(conv, work, results)
    OBVIOUS
  <2>5. PICK diagnostics \in BOOLEAN : AfterStage(f.conv, f.work, diagnostics)
    BY <2>2, <2>3, <2>4, <2>12
  <2>6. conv \in Convs /\ IsBatch(batch) /\ Parsed(batch.calls) /\ minted \in SUBSET Ids /\ RefsReported(conv, minted)
        /\ work \in Works
    BY <1>1, <1>2 DEF Sound, Typed, Staged, OnCanvas
  <2>7. PICK calls \in Seq(StageCalls) : calls = batch.calls
    BY <2>6, BatchIs
  <2>8. Cardinality(Valid(calls)) = 0 /\ Valid(calls) = {}
    <3>1. PICK ops : ops = StageOps
      OBVIOUS
    <3>2. ops \in Seq(CanvasOps) /\ Len(ops) = Cardinality(Valid(batch.calls))
      BY <2>6, <3>1, StageOpsAre
    <3>3. Len(ops) = 0
      BY <1>3, <3>1
    <3>4. Valid(calls) \subseteq DOMAIN calls
      BY DEF Valid
    <3>5. IsFiniteSet(Valid(calls))
      BY <3>4, PlacesAreFinite
    <3> QED BY <2>7, <3>2, <3>3, <3>5, FS_EmptySet
  <2>9. Reported(batch.calls, results, minted)
    <3>1. DOMAIN results = {}
      BY <2>2
    <3> QED BY <2>2, <2>7, <2>8, <3>1 DEF Reported
  <2>10. OnCanvas'
    BY <1>1, <2>1 DEF Sound, OnCanvas
  <2>11. ToldIsSaved(f.conv.history, scene', clipboard', saved')
    <3>1. PICK w \in Works : w = work
      BY <2>6
    <3>2. Informs(f, w, results)
      <4>1. f = Feedback(conv, w, results)
        BY <2>12, <3>1
      <4> QED BY <2>6, <2>9, <4>1, FeedbackInforms
    <3>3. PICK ms : Replies(calls, results, ms) /\ f.conv.history = conv.history \o ms
      BY <2>7, <3>2 DEF Informs
    <3>4. PICK h \in Seq(Messages) : h = conv.history
      BY <2>6, ConvIs
    <3>5. PICK e : e = f.conv.history
      OBVIOUS
    <3>6. PICK here, away, kept : here = scene' /\ away = clipboard' /\ kept = saved'
      OBVIOUS
    <3>7. ToldIsSaved(h, here, away, kept)
      <4>1. pc \notin {"idle", "earlySave", "lateSave"}
        BY <1>2
      <4> QED BY <1>1, <2>1, <3>4, <3>6, <4>1 DEF Sound, Saving
    <3>8. e = h \o ms
      BY <3>3, <3>4, <3>5
    <3>9. ToldIsSaved(e, here, away, kept)
      BY <2>8, <3>3, <3>7, <3>8, NothingTold
    <3> QED BY <3>5, <3>6, <3>9
  <2> QED BY <1>1, <1>2, <2>1, <2>5, <2>9, <2>10, <2>11, <2>12, StageDone
<1>4. CASE ~(StageOps = <<>> /\ batch.scope = NoScope)
  <2>1. PICK done : /\ done = Apply(batch.base, minted, StageOps, batch.scope)
                    /\ scene' = done.scene /\ minted' = done.minted
                    /\ batch' = [batch EXCEPT !.results = done.results, !.edited = done.edited,
                                              !.laidOut = done.laidOut]
                    /\ pc' = IF pc = "early" THEN "earlySave" ELSE "lateSave"
                    /\ UNCHANGED <<turn, conv, work, harness, saved, clipboard, edits, delivered, outcome, emitted>>
    BY <1>1, <1>4 DEF StageApplies
  <2>2. Sound'
    BY <1>1, <1>2, <2>1, PortSound
  <2>3. Heeds
    BY <2>1 DEF Heeds
  <2> QED BY <2>2, <2>3
<1> QED BY <1>3, <1>4

----------------------------------------------------------------------------
(* An answer being taken.                                                  *)

\* The conversation while an answer is taken: these calls are left, and the scene stays.
Hearing(d, left, count) ==
  /\ d \in Convs /\ d.cancelled = conv.cancelled /\ d.turnScope = conv.turnScope /\ d.refMap = conv.refMap
  /\ Len(conv.history) <= Len(d.history)
  /\ ToldIsSaved(d.history, scene, clipboard, saved) /\ RefsReported(d, minted)
  /\ Open(d.history, left, count)

\* After d these calls have a result that tells of no shape.
Declined(d, calls, e) ==
  /\ e \in Convs /\ e.cancelled = d.cancelled /\ e.turnScope = d.turnScope /\ e.refMap = d.refMap
  /\ \E ms : /\ Tells(calls, ms) /\ \A i \in 1 .. Len(calls) : ms[i].ids = {}
             /\ e.history = d.history \o ms

LEMMA HearsMore ==
  ASSUME NEW d, NEW all, NEW n, Hearing(d, all, n), conv \in Convs, NEW S, NEW calls \in Seq(S), NEW e, Declined(d, calls, e),
         NEW left, NEW count \in Nat, all = left \cup IdsOf(calls), n = count + Len(calls)
  PROVE  Hearing(e, left, count)
<1>1. PICK ms : /\ e \in Convs /\ e.cancelled = d.cancelled /\ e.turnScope = d.turnScope /\ e.refMap = d.refMap
                /\ Tells(calls, ms) /\ \A i \in 1 .. Len(calls) : ms[i].ids = {}
                /\ e.history = d.history \o ms
  BY DEF Declined
<1>2. PICK h \in Seq(Messages) : h = d.history
  BY ConvIs DEF Hearing
<1>3. PICK k : k = e.history
  OBVIOUS
<1>4. k = h \o ms
  BY <1>1, <1>2, <1>3
<1>5. Open(h, all, n)
  BY <1>2 DEF Hearing
<1>6. Open(k, left, count) /\ Len(h) <= Len(k)
  BY <1>1, <1>4, <1>5, TellsClose
<1>7. PICK given \in Seq(Messages) : given = ms /\ Len(given) = Len(calls)
  BY <1>1 DEF Tells
<1>8. k = h \o given
  BY <1>4, <1>7
<1>9. ToldIsSaved(k, scene, clipboard, saved)
  <2>1. PICK here, away, kept : here = scene /\ away = clipboard /\ kept = saved
    OBVIOUS
  <2>2. ToldIsSaved(h, here, away, kept)
    BY <1>2, <2>1 DEF Hearing
  <2>3. \A i \in 1 .. Len(given) : (given[i].ids \cap DOMAIN here) \ DOMAIN away \subseteq DOMAIN kept
    BY <1>1, <1>7
  <2>4. ToldIsSaved(k, here, away, kept)
    BY <1>8, <2>2, <2>3, ToldMore
  <2> QED BY <2>1, <2>4
<1>10. RefsReported(e, minted)
  <2>1. PICK made : made = minted
    OBVIOUS
  <2>2. d \in Convs /\ RefsReported(d, made) /\ e.history = d.history \o given
    BY <1>1, <1>7, <2>1 DEF Hearing
  <2>3. RefsReported(e, made)
    BY <1>1, <2>2, ReportedMore
  <2> QED BY <2>1, <2>3
<1>11. Len(conv.history) <= Len(e.history)
  <2>1. PICK g \in Seq(Messages) : g = conv.history
    BY ConvIs
  <2>2. Len(g) <= Len(h)
    BY <1>2, <2>1 DEF Hearing
  <2>3. Len(g) \in Nat /\ Len(h) \in Nat /\ Len(k) \in Nat
    <3>1. k \in Seq(Messages)
      BY <1>1, <1>3, ConvIs
    <3> QED BY <3>1, LenProperties
  <2> QED BY <1>3, <1>6, <2>1, <2>2, <2>3
<1> QED BY <1>1, <1>3, <1>6, <1>9, <1>10, <1>11 DEF Hearing

LEMMA HearingFits ==
  ASSUME NEW d, Hearing(d, {}, 0), UNCHANGED canvas
  PROVE  Fits(d)
<1>1. scene' = scene /\ clipboard' = clipboard /\ saved' = saved /\ minted' = minted
  BY DEF canvas
<1>2. AllAnswered(d.history)
  <2>1. PICK h \in Seq(Messages) : h = d.history
    BY ConvIs DEF Hearing
  <2> QED BY <2>1, ClosedIsAnswered DEF Hearing
<1> QED BY <1>1, <1>2 DEF Hearing, Fits

\* The calls of an answer.
AnswerCalls == [id : CallIds, op : CanvasCalls]

LEMMA NumberedIs ==
  ASSUME NEW given \in Seq(CanvasCalls), NEW at \in Nat, NEW calls, calls = Numbered(given, at),
         NEW ids, ids = IdsOf(calls)
  PROVE  /\ calls \in Seq(AnswerCalls) /\ Len(calls) = Len(given) /\ DOMAIN calls = DOMAIN given
         /\ \A i \in DOMAIN calls : calls[i].op = given[i]
         /\ ids = IdsOf(calls) /\ ids \in SUBSET CallIds /\ IsFiniteSet(ids) /\ Cardinality(ids) = Len(calls)
         /\ \A id \in ids : id[1] = at
<1>1. PICK n \in Nat : n = Len(given) /\ DOMAIN given = 1 .. n
  BY LenProperties
<1>2. calls = [i \in 1 .. n |-> [id |-> <<at, i>>, op |-> given[i]]]
  BY <1>1 DEF Numbered
<1>3. \A i \in 1 .. n : calls[i] \in AnswerCalls /\ calls[i].id = <<at, i>> /\ calls[i].op = given[i]
  <2>1. ASSUME NEW i \in 1 .. n PROVE given[i] \in CanvasCalls /\ <<at, i>> \in CallIds
    BY <1>1 DEF CallIds
  <2> QED BY <1>2, <2>1 DEF AnswerCalls
<1>4. calls \in Seq(AnswerCalls) /\ Len(calls) = n /\ DOMAIN calls = 1 .. n
  <2>1. calls \in [1 .. n -> AnswerCalls]
    BY <1>2, <1>3
  <2> QED BY <1>2, <2>1, SeqDef, LenProperties
<1>5. ids = {calls[i].id : i \in DOMAIN calls}
  BY DEF IdsOf
<1>6. ids \subseteq CallIds /\ \A id \in ids : id[1] = at
  <2>1. ASSUME NEW id \in ids PROVE id \in CallIds /\ id[1] = at
    <3>1. PICK i \in 1 .. n : id = <<at, i>>
      BY <1>3, <1>4, <1>5, <2>1
    <3> QED BY <3>1 DEF CallIds
  <2> QED BY <2>1
<1>7. IsFiniteSet(ids) /\ Cardinality(ids) = n
  <2>1. PICK f : f = [i \in 1 .. n |-> calls[i].id]
    OBVIOUS
  <2>2. f \in Bijection(1 .. n, ids)
    <3>1. f \in [1 .. n -> ids]
      BY <1>4, <1>5, <2>1
    <3>2. \A i, j \in 1 .. n : f[i] = f[j] => i = j
      BY <1>3, <2>1
    <3>3. \A id \in ids : \E i \in 1 .. n : f[i] = id
      BY <1>4, <1>5, <2>1
    <3> QED BY <3>1, <3>2, <3>3 DEF Bijection, Injection, Surjection, IsInjective
  <2>3. IsFiniteSet(1 .. n) /\ Cardinality(1 .. n) = n
    <3>1. IsFiniteSet(1 .. n) /\ Cardinality(1 .. n) = IF 1 > n THEN 0 ELSE n - 1 + 1
      BY FS_Interval
    <3> QED BY <3>1
  <2>4. ExistsBijection(1 .. n, ids)
    BY <2>2 DEF ExistsBijection
  <2> QED BY <2>3, <2>4, FS_Bijection
<1> QED BY <1>1, <1>3, <1>4, <1>5, <1>6, <1>7

\* The ids at these places.
IdsAt(calls, places) == {calls[i].id : i \in Upto(places, Len(calls))}

\* Each of these calls is one of those at the places.
TakenFrom(taken, calls, places) == \A k \in DOMAIN taken : \E i \in DOMAIN calls : i \in places /\ taken[k] = calls[i]

LEMMA AmongIds ==
  ASSUME NEW S, NEW calls \in Seq(S), NEW places, NEW taken, taken = Among(calls, places)
  PROVE  /\ taken \in Seq(S) /\ IdsOf(taken) = IdsAt(calls, places)
         /\ Len(taken) = Cardinality(Upto(places, Len(calls)))
         /\ TakenFrom(taken, calls, places)
<1>1. /\ taken \in Seq(S) /\ Len(taken) = Cardinality(Upto(places, Len(calls)))
      /\ \A k \in 1 .. Len(taken) : \E j \in Upto(places, Len(calls)) : taken[k] = calls[j] /\ k = Cardinality(Upto(places, j))
      /\ \A j \in Upto(places, Len(calls)) :
           Cardinality(Upto(places, j)) \in 1 .. Len(taken) /\ taken[Cardinality(Upto(places, j))] = calls[j]
  BY AmongIs
<1>2. DOMAIN taken = 1 .. Len(taken) /\ DOMAIN calls = 1 .. Len(calls)
  BY <1>1, LenProperties
<1>3. PICK A : A = IdsOf(taken)
  OBVIOUS
<1>4. PICK B : B = IdsAt(calls, places)
  OBVIOUS
<1>5. ASSUME NEW x \in A PROVE x \in B
  <2>1. PICK k \in 1 .. Len(taken) : x = taken[k].id
    BY <1>2, <1>3, <1>5 DEF IdsOf
  <2>2. PICK j \in Upto(places, Len(calls)) : taken[k] = calls[j]
    BY <1>1, <2>1
  <2> QED BY <1>4, <2>1, <2>2 DEF IdsAt
<1>6. ASSUME NEW x \in B PROVE x \in A
  <2>1. PICK j \in Upto(places, Len(calls)) : x = calls[j].id
    BY <1>4, <1>6 DEF IdsAt
  <2>2. PICK k : k = Cardinality(Upto(places, j))
    OBVIOUS
  <2>3. k \in DOMAIN taken /\ taken[k] = calls[j]
    BY <1>1, <1>2, <2>2
  <2> QED BY <1>3, <2>1, <2>3 DEF IdsOf
<1>7. A = B
  BY <1>5, <1>6
<1>8. \A i \in Upto(places, Len(calls)) : i \in places /\ i \in DOMAIN calls
  BY <1>2 DEF Upto
<1>9. TakenFrom(taken, calls, places)
  BY <1>1, <1>2, <1>8 DEF TakenFrom
<1> QED BY <1>1, <1>3, <1>4, <1>7, <1>9

\* Two sets of places that share nothing and leave nothing out.
LEMMA AmongHalves ==
  ASSUME NEW S, NEW calls \in Seq(S), NEW P, NEW Q, P \cap Q = {}, DOMAIN calls \subseteq P \cup Q,
         NEW a, a = Among(calls, P), NEW b, b = Among(calls, Q)
  PROVE  IdsOf(calls) = IdsOf(a) \cup IdsOf(b) /\ Len(calls) = Len(a) + Len(b)
<1>1. PICK n \in Nat : n = Len(calls) /\ DOMAIN calls = 1 .. n
  BY LenProperties
<1>2. /\ IdsOf(a) = IdsAt(calls, P) /\ Len(a) = Cardinality(Upto(P, n))
      /\ IdsOf(b) = IdsAt(calls, Q) /\ Len(b) = Cardinality(Upto(Q, n))
  BY <1>1, AmongIds
<1>3. IdsOf(calls) = IdsAt(calls, P) \cup IdsAt(calls, Q)
  BY <1>1 DEF IdsOf, IdsAt, Upto
<1>4. Cardinality(Upto(P \cup Q, n)) = Cardinality(Upto(P, n)) + Cardinality(Upto(Q, n))
  BY UptoSplits
<1>5. Cardinality(Upto(P \cup Q, n)) = n
  <2>1. PICK R : R = P \cup Q
    OBVIOUS
  <2>2. 1 .. n \subseteq R
    BY <1>1, <2>1
  <2>3. Cardinality(Upto(R, n)) = n
    BY <2>2, UptoAll
  <2> QED BY <2>1, <2>3
<1> QED BY <1>1, <1>2, <1>3, <1>4, <1>5

LEMMA CanvasCallIs ==
  ASSUME NEW x \in CanvasCalls
  PROVE  /\ x.op = "declare_diagram" => x.plan \in SUBSET Refs
         /\ x.op = "declare_structure" => x \in [op : {"declare_structure"}, relations : SUBSET StructureRelations]
         /\ x.op \notin {"malformed", "declare_diagram", "declare_structure"} => x \in CanvasOps
BY DEF CanvasCalls, CanvasOps

\* Results without ids, whatever they say of the calls.
LEMMA VerdictsTell ==
  ASSUME NEW calls \in Seq(AnswerCalls), NEW ms, ms = [i \in DOMAIN calls |-> ms[i]],
         \A i \in DOMAIN calls : \E ok \in BOOLEAN : ms[i] = ToolMessage(calls[i].id, ok, {})
  PROVE  ms \in Seq(Messages) /\ Tells(calls, ms) /\ \A i \in 1 .. Len(calls) : ms[i].ids = {}
<1>1. PICK n \in Nat : n = Len(calls) /\ DOMAIN calls = 1 .. n
  BY LenProperties
<1>2. ASSUME NEW i \in 1 .. n
      PROVE  /\ ms[i] \in Messages /\ ms[i].role = "tool" /\ ms[i].calls = {} /\ ms[i].call = calls[i].id
             /\ ms[i].ids = {}
  <2>1. PICK ok \in BOOLEAN : ms[i] = ToolMessage(calls[i].id, ok, {})
    BY <1>1
  <2>7. PICK call \in AnswerCalls : call = calls[i]
    BY <1>1
  <2>2. PICK id \in CallIds : id = calls[i].id
    BY <2>7 DEF AnswerCalls
  <2>3. PICK none \in SUBSET Ids : none = {}
    OBVIOUS
  <2>4. PICK m : m = ms[i]
    OBVIOUS
  <2>5. m = ToolMessage(id, ok, none)
    BY <2>1, <2>2, <2>3, <2>4
  <2>6. m \in Messages /\ m.role = "tool" /\ m.calls = {} /\ m.call = id /\ m.ids = none
    BY <2>5, ToolMessageIs
  <2> QED BY <2>2, <2>3, <2>4, <2>6
<1>3. ms \in Seq(Messages) /\ Len(ms) = n
  <2>1. ms = [i \in 1 .. n |-> ms[i]]
    BY <1>1
  <2>2. ms \in [1 .. n -> Messages]
    BY <1>2, <2>1
  <2>3. DOMAIN ms = 1 .. n
    BY <2>1
  <2> QED BY <1>1, <2>2, <2>3, SeqDef, LenProperties
<1> QED BY <1>1, <1>2, <1>3 DEF Tells

LEMMA RejectedHears ==
  ASSUME NEW c \in Convs, NEW calls \in Seq(AnswerCalls), NEW d, d = Rejected(c, calls)
  PROVE  Declined(c, calls, d)
<1>1. PICK ms : ms = [i \in DOMAIN calls |-> ToolMessage(calls[i].id, FALSE, {})]
  OBVIOUS
<1>2. ms \in Seq(Messages) /\ Tells(calls, ms) /\ \A i \in 1 .. Len(calls) : ms[i].ids = {}
  <2>1. ms = [i \in DOMAIN calls |-> ms[i]]
    BY <1>1
  <2>2. ASSUME NEW i \in DOMAIN calls PROVE \E ok \in BOOLEAN : ms[i] = ToolMessage(calls[i].id, ok, {})
    <3>1. PICK ok \in BOOLEAN : ok = FALSE
      OBVIOUS
    <3>2. ms[i] = ToolMessage(calls[i].id, ok, {})
      BY <1>1, <3>1
    <3> QED BY <3>2
  <2> QED BY <2>1, <2>2, VerdictsTell
<1>3. d = Hears(c, ms)
  BY <1>1 DEF Rejected
<1>4. /\ d \in Convs /\ d.history = c.history \o ms /\ d.cancelled = c.cancelled /\ d.turnScope = c.turnScope
      /\ d.refMap = c.refMap
  BY <1>2, <1>3, HearsIs
<1> QED BY <1>2, <1>4 DEF Declined

LEMMA PlanSet ==
  ASSUME NEW c \in Convs, NEW plan \in SUBSET Refs, NEW d, d = [c EXCEPT !.diagramPlan = plan]
  PROVE  /\ d \in Convs /\ d.history = c.history /\ d.refMap = c.refMap
         /\ d.cancelled = c.cancelled /\ d.turnScope = c.turnScope
BY DEF Convs

LEMMA PlanHears ==
  ASSUME NEW c \in Convs, NEW calls \in Seq(AnswerCalls), \A i \in DOMAIN calls : calls[i].op.op = "declare_diagram",
         NEW review, NEW d, d = compileDiagramPlan(c, calls, review).conv
  PROVE  Declined(c, calls, d)
<1>1. PICK sound : sound = {i \in DOMAIN calls : ~Refused(calls[i].op, review) /\ calls[i].op.plan # NoPlan}
  OBVIOUS
<1>2. PICK taken : taken = {i \in sound : c.diagramPlan = NoPlan /\ \A j \in sound : i <= j}
  OBVIOUS
<1>3. PICK ms : ms = [i \in DOMAIN calls |-> ToolMessage(calls[i].id, i \in taken, {})]
  OBVIOUS
<1>4. PICK h : h = Hears(c, ms)
  OBVIOUS
<1>5. PICK plan : plan = h.diagramPlan \cup UNION {calls[i].op.plan : i \in taken}
  OBVIOUS
<1>6. d = [h EXCEPT !.diagramPlan = plan]
  BY <1>1, <1>2, <1>3, <1>4, <1>5 DEF compileDiagramPlan
<1>7. ms \in Seq(Messages) /\ Tells(calls, ms) /\ \A i \in 1 .. Len(calls) : ms[i].ids = {}
  <2>1. ms = [i \in DOMAIN calls |-> ms[i]]
    BY <1>3
  <2>2. ASSUME NEW i \in DOMAIN calls PROVE \E ok \in BOOLEAN : ms[i] = ToolMessage(calls[i].id, ok, {})
    <3>1. ms[i] = ToolMessage(calls[i].id, i \in taken, {})
      BY <1>3, Zenon
    <3>2. CASE i \in taken
      <4>1. ms[i] = ToolMessage(calls[i].id, TRUE, {})
        BY <3>1, <3>2
      <4> QED BY <4>1, Zenon
    <3>3. CASE i \notin taken
      <4>1. (i \in taken) = FALSE
        BY <3>3
      <4>2. ms[i] = ToolMessage(calls[i].id, FALSE, {})
        BY <3>1, <4>1, Zenon
      <4> QED BY <4>2, Zenon
    <3> QED BY <3>2, <3>3
  <2> QED BY <2>1, <2>2, VerdictsTell
<1>8. /\ h \in Convs /\ h.history = c.history \o ms /\ h.cancelled = c.cancelled /\ h.turnScope = c.turnScope
      /\ h.refMap = c.refMap
  BY <1>4, <1>7, HearsIs
<1>9. plan \in SUBSET Refs
  <2>2. ASSUME NEW i \in DOMAIN calls PROVE calls[i].op.plan \in SUBSET Refs
    <3>1. PICK call \in AnswerCalls : call = calls[i]
      BY <2>2
    <3>2. PICK x \in CanvasCalls : x = call.op
      BY DEF AnswerCalls
    <3> QED BY <2>2, <3>1, <3>2, CanvasCallIs
  <2>3. h.diagramPlan \in SUBSET Refs
    BY <1>8, ConvIs
  <2> QED BY <1>1, <1>2, <1>5, <2>2, <2>3
<1>10. d \in Convs /\ d.history = h.history /\ d.refMap = h.refMap /\ d.cancelled = h.cancelled /\ d.turnScope = h.turnScope
  BY <1>6, <1>8, <1>9, PlanSet
<1> QED BY <1>7, <1>8, <1>10 DEF Declined

\* The operations of an answer, checked.
Checked(ops, review) == [i \in DOMAIN ops |-> OpCall(ops[i], Refused(ops[i].op, review))]
Late(checked) == {i \in DOMAIN checked : ~checked[i].error /\ checked[i].op.op \in DEFERRED_REFERENCE_OPS}
IsDeclaring(op) == op.op \in {"declare_diagram", "declare_structure"}

LEMMA CheckedIs ==
  ASSUME NEW ops \in Seq(AnswerCalls), \A i \in DOMAIN ops : ~IsDeclaring(ops[i].op), NEW review \in BOOLEAN,
         NEW checked, checked = Checked(ops, review)
  PROVE  /\ checked \in Seq(StageCalls) /\ Len(checked) = Len(ops) /\ DOMAIN checked = DOMAIN ops
         /\ IdsOf(checked) = IdsOf(ops)
         /\ \A i \in DOMAIN ops : /\ checked[i].op = ops[i].op
                                  /\ ~checked[i].error => /\ checked[i].op \in CanvasOps
                                                          /\ review => checked[i].op.op \in REVIEW_TOOL_NAMES
<1>1. PICK n \in Nat : n = Len(ops) /\ DOMAIN ops = 1 .. n
  BY LenProperties
<1>2. ASSUME NEW i \in 1 .. n
      PROVE  /\ checked[i] \in StageCalls /\ checked[i].id = ops[i].id /\ checked[i].op = ops[i].op
             /\ ~checked[i].error => /\ checked[i].op \in CanvasOps
                                     /\ review => checked[i].op.op \in REVIEW_TOOL_NAMES
  <2>1. PICK call \in AnswerCalls : call = ops[i]
    BY <1>1
  <2>2. call.id \in CallIds /\ call.op \in CanvasCalls
    BY DEF AnswerCalls
  <2>3. PICK error \in BOOLEAN : error = Refused(call.op, review)
    BY DEF Refused
  <2>4. PICK d : d = checked[i]
    OBVIOUS
  <2>5. d = OpCall(call, error)
    BY <1>1, <2>1, <2>3, <2>4 DEF Checked
  <2>6. d \in StageCalls /\ d.id = call.id /\ d.op = call.op /\ d.error = error
    BY <2>2, <2>5, OpCallIs
  <2>7. ASSUME ~error PROVE call.op \in CanvasOps /\ (review => call.op.op \in REVIEW_TOOL_NAMES)
    <3>1. call.op.op # "malformed" /\ (review => call.op.op \in REVIEW_TOOL_NAMES)
      BY <2>3, <2>7 DEF Refused
    <3>2. call.op.op \notin {"declare_diagram", "declare_structure"}
      BY <1>1, <2>1 DEF IsDeclaring
    <3> QED BY <2>2, <3>1, <3>2, CanvasCallIs
  <2> QED BY <2>1, <2>4, <2>6, <2>7
<1>3. checked \in Seq(StageCalls) /\ Len(checked) = n /\ DOMAIN checked = 1 .. n
  <2>1. DOMAIN checked = 1 .. n /\ checked = [i \in 1 .. n |-> checked[i]]
    BY <1>1 DEF Checked
  <2>2. checked \in [1 .. n -> StageCalls]
    BY <1>2, <2>1
  <2> QED BY <1>1, <2>1, <2>2, SeqDef, LenProperties
<1>4. IdsOf(checked) = IdsOf(ops)
  BY <1>1, <1>2, <1>3 DEF IdsOf
<1> QED BY <1>1, <1>2, <1>3, <1>4

\* The three kinds of calls of an answer.
LEMMA PartsAre ==
  ASSUME NEW calls \in Seq(AnswerCalls), NEW dd, dd = Declares(calls, "declare_diagram"),
         NEW ds, ds = Declares(calls, "declare_structure"), NEW ops, ops = OpCalls(calls)
  PROVE  /\ dd \in Seq(AnswerCalls) /\ \A i \in DOMAIN dd : dd[i].op.op = "declare_diagram"
         /\ ds \in Seq(AnswerCalls) /\ ds \in Seq(DeclareCalls)
         /\ ops \in Seq(AnswerCalls) /\ \A i \in DOMAIN ops : ~IsDeclaring(ops[i].op)
         /\ IdsOf(calls) = (IdsOf(ops) \cup IdsOf(ds)) \cup IdsOf(dd)
         /\ Len(calls) = (Len(ops) + Len(ds)) + Len(dd)
<1>1. PICK n \in Nat : n = Len(calls) /\ DOMAIN calls = 1 .. n
  BY LenProperties
<1>2. PICK D : D = {i \in DOMAIN calls : calls[i].op.op = "declare_diagram"}
  OBVIOUS
<1>3. PICK S : S = {i \in DOMAIN calls : calls[i].op.op = "declare_structure"}
  OBVIOUS
<1>4. PICK O : O = {i \in DOMAIN calls : calls[i].op.op \notin {"declare_diagram", "declare_structure"}}
  OBVIOUS
<1>5. dd = Among(calls, D) /\ ds = Among(calls, S) /\ ops = Among(calls, O)
  BY <1>2, <1>3, <1>4 DEF Declares, OpCalls
<1>6. /\ dd \in Seq(AnswerCalls) /\ IdsOf(dd) = IdsAt(calls, D) /\ Len(dd) = Cardinality(Upto(D, n))
      /\ \A k \in DOMAIN dd : \E i \in DOMAIN calls : i \in D /\ dd[k] = calls[i]
  <2>1. dd = Among(calls, D)
    BY <1>5
  <2>2. dd \in Seq(AnswerCalls) /\ IdsOf(dd) = IdsAt(calls, D) /\ Len(dd) = Cardinality(Upto(D, Len(calls)))
    BY <2>1, AmongIds
  <2>3. TakenFrom(dd, calls, D)
    BY <2>1, AmongIds
  <2> QED BY <1>1, <2>2, <2>3 DEF TakenFrom
<1>7. /\ ds \in Seq(AnswerCalls) /\ IdsOf(ds) = IdsAt(calls, S) /\ Len(ds) = Cardinality(Upto(S, n))
      /\ \A k \in DOMAIN ds : \E i \in DOMAIN calls : i \in S /\ ds[k] = calls[i]
  <2>1. ds = Among(calls, S)
    BY <1>5
  <2>2. ds \in Seq(AnswerCalls) /\ IdsOf(ds) = IdsAt(calls, S) /\ Len(ds) = Cardinality(Upto(S, Len(calls)))
    BY <2>1, AmongIds
  <2>3. TakenFrom(ds, calls, S)
    BY <2>1, AmongIds
  <2> QED BY <1>1, <2>2, <2>3 DEF TakenFrom
<1>8. /\ ops \in Seq(AnswerCalls) /\ IdsOf(ops) = IdsAt(calls, O) /\ Len(ops) = Cardinality(Upto(O, n))
      /\ \A k \in DOMAIN ops : \E i \in DOMAIN calls : i \in O /\ ops[k] = calls[i]
  <2>1. ops = Among(calls, O)
    BY <1>5
  <2>2. ops \in Seq(AnswerCalls) /\ IdsOf(ops) = IdsAt(calls, O) /\ Len(ops) = Cardinality(Upto(O, Len(calls)))
    BY <2>1, AmongIds
  <2>3. TakenFrom(ops, calls, O)
    BY <2>1, AmongIds
  <2> QED BY <1>1, <2>2, <2>3 DEF TakenFrom
<1>9. ds \in Seq(DeclareCalls)
  <2>1. ASSUME NEW k \in 1 .. Len(ds) PROVE ds[k] \in DeclareCalls
    <3>1. PICK call \in AnswerCalls : call = ds[k]
      BY <1>7, ElementOfSeq
    <3>2. call.op.op = "declare_structure"
      BY <1>3, <1>7, <3>1, LenProperties
    <3>3. PICK x \in CanvasCalls : x = call.op
      BY DEF AnswerCalls
    <3>4. x \in [op : {"declare_structure"}, relations : SUBSET StructureRelations]
      BY <3>2, <3>3, CanvasCallIs
    <3>5. call = [id |-> call.id, op |-> x] /\ call.id \in CallIds
      BY <3>3 DEF AnswerCalls
    <3> QED BY <3>1, <3>4, <3>5 DEF DeclareCalls
  <2>2. PICK m \in Nat : m = Len(ds) /\ ds = [k \in 1 .. m |-> ds[k]]
    BY <1>7, LenProperties
  <2>3. ds \in [1 .. m -> DeclareCalls]
    BY <2>1, <2>2
  <2> QED BY <2>2, <2>3, SeqDef
<1>10. IdsOf(calls) = (IdsAt(calls, O) \cup IdsAt(calls, S)) \cup IdsAt(calls, D)
  BY <1>1, <1>2, <1>3, <1>4 DEF IdsOf, IdsAt, Upto
<1>11. n = (Cardinality(Upto(O, n)) + Cardinality(Upto(S, n))) + Cardinality(Upto(D, n))
  <2>1. PICK OS : OS = O \cup S
    OBVIOUS
  <2>2. PICK all : all = OS \cup D
    OBVIOUS
  <2>3. O \cap S = {} /\ OS \cap D = {}
    BY <1>2, <1>3, <1>4, <2>1
  <2>4. 1 .. n \subseteq all
    BY <1>1, <1>2, <1>3, <1>4, <2>1, <2>2
  <2>5. Cardinality(Upto(all, n)) = n
    BY <2>4, UptoAll
  <2>6. Cardinality(Upto(all, n)) = Cardinality(Upto(OS, n)) + Cardinality(Upto(D, n))
    BY <2>2, <2>3, UptoSplits
  <2>7. Cardinality(Upto(OS, n)) = Cardinality(Upto(O, n)) + Cardinality(Upto(S, n))
    BY <2>1, <2>3, UptoSplits
  <2> QED BY <2>5, <2>6, <2>7
<1>12. \A i \in DOMAIN dd : dd[i].op.op = "declare_diagram"
  BY <1>2, <1>6
<1>13. \A i \in DOMAIN ops : ~IsDeclaring(ops[i].op)
  BY <1>4, <1>8 DEF IsDeclaring
<1> QED BY <1>1, <1>6, <1>7, <1>8, <1>9, <1>10, <1>11, <1>12, <1>13

\* The calls of a sequence that create.
Makers(calls) == {i \in DOMAIN calls : calls[i].op.op \in CreatingOps}

LEMMA MakersOfOps ==
  ASSUME NEW S, NEW calls \in Seq(S), NEW places, NEW taken, taken = Among(calls, places)
  PROVE  Cardinality(Makers(taken)) <= Cardinality(Makers(calls))
<1>1. PICK P : P = Makers(calls)
  OBVIOUS
<1>2. PICK Q : Q = Makers(Among(calls, places))
  OBVIOUS
<1>3. P \in SUBSET DOMAIN calls /\ Q \in SUBSET DOMAIN Among(calls, places)
  BY <1>1, <1>2 DEF Makers
<1>4. \A j \in DOMAIN calls : (\E k \in Q : Among(calls, places)[k] = calls[j]
                                            /\ k = Cardinality(Upto(places, j))) => j \in P
  BY <1>1, <1>2 DEF Makers
<1>5. Cardinality(Q) <= Cardinality(P)
  BY <1>3, <1>4, AmongCounts
<1> QED BY <1>1, <1>2, <1>5

\* A batch begins with the calls that need nothing of it.
Begun(calls, base, declares, deferred) ==
  [NoBatch EXCEPT !.calls = calls, !.base = base, !.declares = declares, !.deferred = deferred]

LEMMA BegunIs ==
  ASSUME NEW calls \in Seq(StageCalls), NEW base, NEW declares \in Seq(DeclareCalls), NEW deferred \in Seq(StageCalls),
         NEW b, b = Begun(calls, base, declares, deferred)
  PROVE  /\ IsBatch(b) /\ b.calls = calls /\ b.base = base /\ b.declares = declares /\ b.deferred = deferred
<1>1. IsBatch(NoBatch)
  BY NoBatchIs
<1>2. b = [calls |-> calls, base |-> base, scope |-> NoBatch.scope, results |-> NoBatch.results,
           declares |-> declares, deferred |-> deferred, edited |-> NoBatch.edited,
           laidOut |-> NoBatch.laidOut, leftover |-> NoBatch.leftover, didApply |-> NoBatch.didApply]
  BY DEF Begun, NoBatch
<1>3. PICK none : none = NoBatch
  OBVIOUS
<1>4. /\ none.scope \in Scopes /\ none.results \in Seq(Results) /\ none.edited \in SUBSET Ids /\ none.laidOut \in SUBSET Ids
      /\ none.leftover \in SUBSET Keys /\ none.didApply \in BOOLEAN
  BY <1>1, <1>3, BatchIs
<1>5. b = [calls |-> calls, base |-> base, scope |-> none.scope, results |-> none.results,
           declares |-> declares, deferred |-> deferred, edited |-> none.edited,
           laidOut |-> none.laidOut, leftover |-> none.leftover, didApply |-> none.didApply]
  BY <1>2, <1>3
<1> QED BY <1>4, <1>5 DEF IsBatch

\* The first stage begins, its values named.
Begins(c, w, ops, declares) ==
  LET checked == Checked(ops, w.phase = "review")
  IN  /\ pc' = "early" /\ conv' = c /\ work' = w
      /\ batch' = Begun(Among(checked, DOMAIN checked \ Late(checked)), scene, declares, Among(checked, Late(checked)))
      /\ harness' = Settled /\ UNCHANGED <<delivered, outcome, emitted>>

LEMMA ProcessIs ==
  ASSUME NEW c, NEW w, NEW calls, processToolCalls(c, w, calls), NEW declares, declares = Declares(calls, "declare_structure"),
         NEW ops, ops = OpCalls(calls),
         NEW d, d = compileDiagramPlan(c, Declares(calls, "declare_diagram"), w.phase = "review").conv
  PROVE  AfterBatch(Rejected(Rejected(d, ops), declares), w) \/ Begins(d, w, ops, declares)
<1>1. PICK plan : plan = compileDiagramPlan(c, Declares(calls, "declare_diagram"), w.phase = "review")
  OBVIOUS
<1>2. PICK review \in BOOLEAN : review = (w.phase = "review")
  OBVIOUS
<1>3. IF plan.failed \/ BreaksPlan(plan.conv.diagramPlan, ops, review, declares # <<>>)
      THEN AfterBatch(Rejected(Rejected(plan.conv, ops), declares), w)
      ELSE Begins(plan.conv, w, ops, declares)
  BY <1>1, <1>2 DEF processToolCalls, Begins, Begun, Checked, Late
<1> QED BY <1>1, <1>3

\* The first stage begins with the calls of the answer that are not declarations.
LEMMA BeginsSound ==
  ASSUME Sound, pc = "asking", ~conv.cancelled, turn' = turn, UNCHANGED canvas,
         NEW ops \in Seq(AnswerCalls), \A i \in DOMAIN ops : ~IsDeclaring(ops[i].op), NEW declares \in Seq(DeclareCalls),
         Cardinality(minted) + Cardinality(Makers(ops)) <= Cardinality(Ids),
         NEW d, Hearing(d, IdsOf(ops) \cup IdsOf(declares), Len(ops) + Len(declares)),
         NEW w \in Works, w.phase = work.phase, w.phase # "finalize", Begins(d, w, ops, declares)
  PROVE  Sound' /\ Heeds
<1>1. PICK review \in BOOLEAN : review = (w.phase = "review")
  OBVIOUS
<1>2. PICK checked : checked = Checked(ops, review)
  OBVIOUS
<1>3. /\ checked \in Seq(StageCalls) /\ Len(checked) = Len(ops) /\ DOMAIN checked = DOMAIN ops
      /\ IdsOf(checked) = IdsOf(ops)
      /\ \A i \in DOMAIN ops : /\ checked[i].op = ops[i].op
                               /\ ~checked[i].error => /\ checked[i].op \in CanvasOps
                                                       /\ review => checked[i].op.op \in REVIEW_TOOL_NAMES
  BY <1>2, CheckedIs
<1>4. PICK L : L = Late(checked)
  OBVIOUS
<1>5. PICK E : E = DOMAIN checked \ L
  OBVIOUS
<1>6. PICK early : early = Among(checked, E)
  OBVIOUS
<1>7. PICK late : late = Among(checked, L)
  OBVIOUS
<1>8. early \in Seq(StageCalls) /\ TakenFrom(early, checked, E)
  BY <1>3, <1>6, AmongIds
<1>9. late \in Seq(StageCalls) /\ TakenFrom(late, checked, L)
  BY <1>3, <1>7, AmongIds
<1>10. IdsOf(checked) = IdsOf(early) \cup IdsOf(late) /\ Len(checked) = Len(early) + Len(late)
  <2>1. E \cap L = {} /\ DOMAIN checked \subseteq E \cup L
    BY <1>5
  <2>2. checked \in Seq(StageCalls)
    BY <1>3
  <2> QED BY <1>6, <1>7, <2>1, <2>2, AmongHalves
<1>11. PICK b : b = batch'
  OBVIOUS
<1>12. PICK here : here = scene
  OBVIOUS
<1>13. /\ pc' = "early" /\ conv' = d /\ work' = w /\ b = Begun(early, here, declares, late)
       /\ harness' = Settled /\ delivered' = delivered /\ outcome' = outcome /\ emitted' = emitted
  BY <1>1, <1>2, <1>4, <1>5, <1>6, <1>7, <1>11, <1>12 DEF Begins
<1>14. IsBatch(b) /\ b.calls = early /\ b.base = here /\ b.declares = declares /\ b.deferred = late
  BY <1>8, <1>9, <1>13, BegunIs
<1>15. /\ scene' = scene /\ saved' = saved /\ minted' = minted /\ clipboard' = clipboard
  BY DEF canvas
<1>16. /\ d \in Convs /\ d.cancelled = conv.cancelled /\ d.turnScope = conv.turnScope
       /\ Len(conv.history) <= Len(d.history)
       /\ ToldIsSaved(d.history, scene, clipboard, saved) /\ RefsReported(d, minted)
       /\ Open(d.history, IdsOf(ops) \cup IdsOf(declares), Len(ops) + Len(declares))
  BY DEF Hearing
<1>17. Typed'
  <2>1. IsBatch(batch)' /\ conv' \in Convs /\ pc' \in Parked
    BY <1>11, <1>13, <1>14, <1>16 DEF Parked
  <2>2. Settled \in Harnesses
    BY CursorIs DEF Sound
  <2>3. emitted' = 0 /\ outcome' \in {"none", "completed", "failed", "question"} /\ turn' \in 0 .. MaxSends
    BY <1>13 DEF Sound, Typed
  <2> QED BY <1>13, <2>1, <2>2, <2>3 DEF Typed
<1>18. OnCanvas'
  BY <1>15 DEF Sound, OnCanvas
<1>19. \A k \in DOMAIN early : ~early[k].error => early[k].op \in CanvasOps
  BY <1>3, <1>8 DEF TakenFrom
<1>20. \A k \in DOMAIN late : /\ ~late[k].error /\ late[k].op \in CanvasOps /\ late[k].op.op \in DEFERRED_REFERENCE_OPS
                              /\ review => late[k].op.op \in REVIEW_TOOL_NAMES
  <2>1. ASSUME NEW k \in DOMAIN late
        PROVE  /\ ~late[k].error /\ late[k].op \in CanvasOps /\ late[k].op.op \in DEFERRED_REFERENCE_OPS
               /\ review => late[k].op.op \in REVIEW_TOOL_NAMES
    <3>1. PICK i \in DOMAIN checked : i \in L /\ late[k] = checked[i]
      BY <1>9, <2>1 DEF TakenFrom
    <3>2. ~checked[i].error /\ checked[i].op.op \in DEFERRED_REFERENCE_OPS
      BY <1>4, <3>1 DEF Late
    <3> QED BY <1>3, <3>1, <3>2
  <2> QED BY <2>1
<1>21. Cardinality(minted) + Cardinality(Creating(early)) <= Cardinality(Ids)
  <2>1. PICK P : P = Makers(ops)
    OBVIOUS
  <2>2. PICK Q : Q = Creating(Among(checked, E))
    OBVIOUS
  <2>3. P \in SUBSET DOMAIN checked /\ Q \in SUBSET DOMAIN Among(checked, E)
    BY <1>3, <2>1, <2>2 DEF Makers, Creating, Valid
  <2>4. \A j \in DOMAIN checked : (\E k \in Q : Among(checked, E)[k] = checked[j]
                                                /\ k = Cardinality(Upto(E, j))) => j \in P
    BY <1>3, <2>1, <2>2 DEF Makers, Creating, Valid
  <2>5. Cardinality(Q) <= Cardinality(P)
    BY <1>3, <2>3, <2>4, AmongCounts
  <2>6. Cardinality(P) \in Nat
    <3>1. P \subseteq DOMAIN ops
      BY <2>1 DEF Makers
    <3> QED BY <3>1, PlacesAreFinite
  <2>7. Cardinality(Q) \in Nat
    <3>1. Q \subseteq DOMAIN early /\ Q = Creating(early)
      BY <1>6, <2>2 DEF Creating, Valid
    <3> QED BY <1>8, <3>1, PlacesAreFinite
  <2>8. Cardinality(minted) \in Nat /\ Cardinality(Ids) \in Nat
    <3>1. PICK made \in SUBSET Ids : made = minted
      BY DEF Sound, OnCanvas
    <3> QED BY <3>1, MintedIsFinite
  <2> QED BY <1>6, <2>1, <2>2, <2>5, <2>6, <2>7, <2>8
<1>22. Staged'
  <2>1. DOMAIN here \subseteq minted /\ Parsed(early)
    BY <1>12, <1>19 DEF Sound, OnCanvas, Parsed, Valid
  <2>2. Valid(late) = DOMAIN late /\ Parsed(late) /\ DeferredOps(late)
    BY <1>20 DEF Parsed, DeferredOps, Valid
  <2>3. batch'.calls = early /\ batch'.base = here /\ batch'.deferred = late
    BY <1>11, <1>14
  <2> QED BY <1>13, <1>15, <1>21, <2>1, <2>2, <2>3 DEF Staged
<1>23. Answering'
  <2>1. PICK hist : hist = d.history
    OBVIOUS
  <2>2. Open(hist, IdsOf(early) \cup IdsOf(declares) \cup IdsOf(late), Len(early) + Len(declares) + Len(late))
    <3>1. PICK all : all = IdsOf(ops) \cup IdsOf(declares)
      OBVIOUS
    <3>2. PICK n : n = Len(ops) + Len(declares)
      OBVIOUS
    <3>3. Open(hist, all, n)
      BY <1>16, <2>1, <3>1, <3>2
    <3>4. all = IdsOf(early) \cup IdsOf(declares) \cup IdsOf(late)
      BY <1>3, <1>10, <3>1
    <3>5. n = Len(early) + Len(declares) + Len(late)
      <4>1. PICK x, y, z \in Nat : x = Len(early) /\ y = Len(declares) /\ z = Len(late)
        BY <1>8, <1>9, LenProperties
      <4>2. PICK o : o = Len(ops)
        OBVIOUS
      <4>3. o = x + z
        BY <1>3, <1>10, <4>1, <4>2
      <4>4. n = o + y
        BY <3>2, <4>1, <4>2
      <4>5. n = x + y + z
        BY <4>3, <4>4
      <4> QED BY <4>1, <4>5
    <3> QED BY <3>3, <3>4, <3>5
  <2>3. conv'.history = hist /\ batch'.calls = early /\ batch'.declares = declares /\ batch'.deferred = late
    BY <1>11, <1>13, <1>14, <2>1
  <2> QED BY <1>13, <2>2, <2>3 DEF Answering, Applies
<1>24. Delivering'
  <2>1. PICK hist \in Seq(Messages) : hist = conv.history
    BY ConvIs DEF Sound, Typed
  <2>2. harness.cursorTurn = turn /\ delivered = Counting(Len(hist)) /\ Len(hist) \in Nat
    BY <2>1, LenProperties DEF Sound, Delivering
  <2>3. Settled = [harness EXCEPT !.sent = Len(hist)] /\ harness \in Harnesses
    BY <2>1 DEF Sound, Typed, Settled
  <2>4. Settled.cursorTurn = turn /\ Settled.sent = Len(hist)
    BY <2>2, <2>3 DEF Harnesses
  <2>5. harness'.cursorTurn = turn /\ harness'.sent = Len(hist) /\ delivered' = Counting(Len(hist))
        /\ Len(hist) <= Len(conv'.history)
    BY <1>13, <1>16, <2>1, <2>2, <2>4
  <2>6. turn' = turn /\ turn \in Nat
    BY SendsAreCounted DEF Sound, Typed
  <2> QED BY <1>13, <2>5, <2>6 DEF Delivering
<1>25. CancelHeard'
  BY <1>13, <1>16 DEF CancelHeard
<1>26. Saving'
  BY <1>13, <1>15, <1>16 DEF Saving
<1>27. RefsReported(conv, minted)'
  BY <1>13, <1>15, <1>16
<1>28. Freezing'
  BY <1>13, <1>16 DEF Sound, Freezing
<1>29. Reviewing'
  <2>1. w.phase = "review" => \A i \in Valid(late) : late[i].op.op \in REVIEW_TOOL_NAMES
    BY <1>1, <1>20 DEF Valid
  <2> QED BY <1>11, <1>13, <1>14, <2>1 DEF Reviewing
<1>30. Phases'
  BY <1>13 DEF Phases, Applies
<1>31. Heeds
  BY DEF Heeds
<1> QED BY <1>17, <1>18, <1>22, <1>23, <1>24, <1>25, <1>26, <1>27, <1>28, <1>29, <1>30, <1>31 DEF Sound

\* The build is not over.
Unfinished == pc' # "rendering" /\ ~(pc' = "idle" /\ outcome' = "completed")
CanGoOn(w) == w.phase = "build" /\ w.iter < MAX_ITERATIONS - 1

LEMMA ProcessSound ==
  ASSUME Sound, pc = "asking", ~conv.cancelled, turn' = turn, UNCHANGED canvas,
         NEW calls \in Seq(AnswerCalls), NEW c, Hearing(c, IdsOf(calls), Len(calls)),
         Cardinality(minted) + Cardinality(Makers(calls)) <= Cardinality(Ids),
         NEW w \in Works, w.phase = work.phase, w.phase # "finalize", processToolCalls(c, w, calls)
  PROVE  Sound' /\ Heeds /\ (CanGoOn(w) => Unfinished)
<1>1. PICK dd : dd = Declares(calls, "declare_diagram")
  OBVIOUS
<1>2. PICK ds : ds = Declares(calls, "declare_structure")
  OBVIOUS
<1>3. PICK ops : ops = OpCalls(calls)
  OBVIOUS
<1>4. /\ dd \in Seq(AnswerCalls) /\ \A i \in DOMAIN dd : dd[i].op.op = "declare_diagram"
      /\ ds \in Seq(AnswerCalls) /\ ds \in Seq(DeclareCalls)
      /\ ops \in Seq(AnswerCalls) /\ \A i \in DOMAIN ops : ~IsDeclaring(ops[i].op)
      /\ IdsOf(calls) = (IdsOf(ops) \cup IdsOf(ds)) \cup IdsOf(dd)
      /\ Len(calls) = (Len(ops) + Len(ds)) + Len(dd)
  BY <1>1, <1>2, <1>3, PartsAre
<1>5. PICK review : review = (w.phase = "review")
  OBVIOUS
<1>6. PICK d : d = compileDiagramPlan(c, dd, review).conv
  OBVIOUS
<1>7. c \in Convs /\ conv \in Convs
  BY DEF Hearing, Sound, Typed
<1>8. Declined(c, dd, d)
  BY <1>4, <1>6, <1>7, PlanHears
<1>9. PICK lops, lds \in Nat : lops = Len(ops) /\ lds = Len(ds)
  BY <1>4, LenProperties
<1>10. PICK both : both = IdsOf(ops) \cup IdsOf(ds)
  OBVIOUS
<1>11. PICK count \in Nat : count = lops + lds
  OBVIOUS
<1>12. PICK all : all = IdsOf(calls)
  OBVIOUS
<1>13. PICK n : n = Len(calls)
  OBVIOUS
<1>14. Hearing(d, both, count)
  <2>1. Hearing(c, all, n) /\ all = both \cup IdsOf(dd) /\ n = count + Len(dd)
    BY <1>4, <1>9, <1>10, <1>11, <1>12, <1>13
  <2>2. dd \in Seq(AnswerCalls)
    BY <1>4
  <2> QED BY <1>7, <1>8, <2>1, <2>2, HearsMore
<1>15. AfterBatch(Rejected(Rejected(d, ops), ds), w) \/ Begins(d, w, ops, ds)
  <2>1. d = compileDiagramPlan(c, Declares(calls, "declare_diagram"), w.phase = "review").conv
    BY <1>1, <1>5, <1>6
  <2> QED BY <1>2, <1>3, <2>1, ProcessIs
<1>16. CASE AfterBatch(Rejected(Rejected(d, ops), ds), w)
  <2>1. PICK e : e = Rejected(d, ops)
    OBVIOUS
  <2>2. PICK f : f = Rejected(e, ds)
    OBVIOUS
  <2>3. Declined(d, ops, e) /\ e \in Convs
    <3>1. ops \in Seq(AnswerCalls) /\ d \in Convs
      BY <1>4, <1>8 DEF Declined
    <3>2. Declined(d, ops, e)
      BY <2>1, <3>1, RejectedHears
    <3> QED BY <3>2 DEF Declined
  <2>4. Declined(e, ds, f) /\ f \in Convs
    <3>1. ds \in Seq(AnswerCalls)
      BY <1>4
    <3>2. Declined(e, ds, f)
      BY <2>2, <2>3, <3>1, RejectedHears
    <3> QED BY <3>2 DEF Declined
  <2>5. PICK rest : rest = IdsOf(ds)
    OBVIOUS
  <2>6. Hearing(e, rest, lds)
    <3>1. both = rest \cup IdsOf(ops) /\ count = lds + Len(ops)
      BY <1>9, <1>10, <1>11, <2>5
    <3>2. ops \in Seq(AnswerCalls)
      BY <1>4
    <3> QED BY <1>7, <1>14, <2>3, <3>1, <3>2, HearsMore
  <2>7. PICK none : none = {}
    OBVIOUS
  <2>8. PICK zero \in Nat : zero = 0
    OBVIOUS
  <2>9. Hearing(f, none, zero)
    <3>1. rest = none \cup IdsOf(ds) /\ lds = zero + Len(ds)
      BY <1>9, <2>5, <2>7, <2>8
    <3>2. ds \in Seq(AnswerCalls)
      BY <1>4
    <3> QED BY <1>7, <2>4, <2>6, <3>1, <3>2, HearsMore
  <2>10. Fits(f)
    BY <2>7, <2>8, <2>9, HearingFits
  <2>11. AfterBatch(f, w)
    BY <1>16, <2>1, <2>2
  <2>12. OnCanvas'
    BY DEF Sound, OnCanvas, canvas
  <2>13. w.phase \in {"build", "review"} /\ (w.phase = "build" => FreezeHolds(f.turnScope))
    <3>1. f.turnScope = conv.turnScope
      BY <2>9 DEF Hearing
    <3> QED BY <3>1, WorkIs DEF Phase, Sound, Freezing
  <2>14. Sound' /\ Heeds /\ (w.phase = "build" /\ w.iter < MAX_ITERATIONS - 1 => Runs(f))
    BY <2>10, <2>11, <2>12, <2>13, AfterBatchSound DEF Sound
  <2>15. Runs(f) => Unfinished
    BY DEF Runs, Unfinished
  <2> QED BY <2>14, <2>15 DEF CanGoOn
<1>17. CASE Begins(d, w, ops, ds)
  <2>1. Hearing(d, IdsOf(ops) \cup IdsOf(ds), Len(ops) + Len(ds))
    BY <1>9, <1>10, <1>11, <1>14
  <2>2. Cardinality(minted) + Cardinality(Makers(ops)) <= Cardinality(Ids)
    <3>1. PICK places : places = {i \in DOMAIN calls : calls[i].op.op \notin {"declare_diagram", "declare_structure"}}
      OBVIOUS
    <3>2. ops = Among(calls, places)
      BY <1>3, <3>1 DEF OpCalls
    <3>3. Cardinality(Makers(ops)) <= Cardinality(Makers(calls))
      BY <3>2, MakersOfOps
    <3>4. Cardinality(Makers(ops)) \in Nat
      <4>1. Makers(ops) \subseteq DOMAIN ops
        BY DEF Makers
      <4> QED BY <1>4, <4>1, PlacesAreFinite
    <3>5. Cardinality(Makers(calls)) \in Nat
      <4>1. Makers(calls) \subseteq DOMAIN calls
        BY DEF Makers
      <4> QED BY <4>1, PlacesAreFinite
    <3>6. Cardinality(minted) \in Nat /\ Cardinality(Ids) \in Nat
      <4>1. PICK made \in SUBSET Ids : made = minted
        BY DEF Sound, OnCanvas
      <4> QED BY <4>1, MintedIsFinite
    <3> QED BY <3>3, <3>4, <3>5, <3>6
  <2>3. Sound' /\ Heeds
    BY <1>4, <1>17, <2>1, <2>2, BeginsSound
  <2>4. Unfinished
    BY <1>17 DEF Begins, Unfinished
  <2> QED BY <2>3, <2>4
<1> QED BY <1>15, <1>16, <1>17

LEMMA NoCallsSound ==
  ASSUME Sound, pc = "asking", turn' = turn, UNCHANGED canvas, NEW c, Hearing(c, {}, 0),
         NEW w \in Works, w.phase = work.phase, NEW m, NoCalls(c, w, m)
  PROVE  Sound' /\ Heeds /\ (CanGoOn(w) => Unfinished \/ missingDiagramRefs(c) = {})
<1>1. Fits(c) /\ c.turnScope = conv.turnScope
  BY HearingFits DEF Hearing
<1>2. OnCanvas'
  BY DEF Sound, OnCanvas, canvas
<1>3. c.cancelled \in BOOLEAN /\ emitted \in Nat
  BY <1>1, ConvIs DEF Fits, Sound, Typed
<1>4. w.phase \in Phase /\ w.text \in BOOLEAN
  BY WorkIs
<1>5. Typed /\ Delivering /\ CancelHeard /\ pc # "idle" /\ pc # "context"
  BY DEF Sound
<1>6. PICK d : d = Push(c, Message("user"))
  OBVIOUS
<1>7. Fits(d) /\ d.turnScope = conv.turnScope /\ d.cancelled \in BOOLEAN
  BY <1>1, <1>6, SaysFits, ConvIs DEF Fits
<1>8. d.cancelled = c.cancelled
  BY <1>1, <1>7 DEF Fits
<1>9. work.phase = "build" => FreezeHolds(conv.turnScope)
  BY DEF Sound, Freezing
<1>10. CASE w.phase = "finalize"
  <2>1. Finish(c, "completed", w.text) /\ work' = w
    BY <1>10 DEF NoCalls
  <2>2. Ends(c)
    BY <1>3, <1>4, <2>1 DEF Finish, Ends
  <2>3. Sound' /\ Heeds
    BY <1>1, <1>2, <1>5, <1>10, <2>1, <2>2, GoesSound
  <2> QED BY <1>10, <2>3 DEF CanGoOn
<1>11. CASE w.phase = "review"
  <2>1. Finalize(c, w)
    BY <1>11 DEF NoCalls
  <2>2. Runs(d) /\ work' \in Works /\ work'.phase = "finalize"
    BY <1>3, <1>6, <1>8, <2>1, FinalizeRuns
  <2>3. Sound' /\ Heeds
    BY <1>2, <1>5, <1>7, <2>2, GoesSound
  <2> QED BY <1>11, <2>3 DEF CanGoOn
<1>12. CASE w.phase = "build"
  <2>1. IF missingDiagramRefs(c) # {} /\ w.iter < MAX_ITERATIONS - 1
        THEN NextIteration(d, w) ELSE FinishBuild(c, w)
    BY <1>6, <1>12 DEF NoCalls
  <2>2. CASE NextIteration(d, w) /\ w.iter < MAX_ITERATIONS - 1
    <3>1. /\ Runs(d) \/ Ends(d)
          /\ w.iter < MAX_ITERATIONS - 1 => Runs(d)
          /\ work' \in Works
      BY <1>3, <1>7, <2>2, NextIterationGoes
    <3>2. Sound' /\ Heeds
      BY <1>2, <1>5, <1>7, <1>9, <1>12, <3>1, GoesSound
    <3>3. Unfinished
      BY <2>2, <3>1 DEF Runs, Unfinished
    <3> QED BY <3>2, <3>3
  <2>3. CASE FinishBuild(c, w) /\ ~(missingDiagramRefs(c) # {} /\ w.iter < MAX_ITERATIONS - 1)
    <3>1. Ends(c) /\ work' \in Works
      BY <1>3, <2>3, FinishBuildEnds
    <3>2. Sound' /\ Heeds
      BY <1>1, <1>2, <1>5, <1>9, <1>12, <3>1, GoesSound
    <3> QED BY <2>3, <3>2 DEF CanGoOn
  <2> QED BY <2>1, <2>2, <2>3
<1> QED BY <1>4, <1>10, <1>11, <1>12 DEF Phase

\* The answer opens its calls.
LEMMA AnswerHears ==
  ASSUME Sound, pc = "asking", NEW ids \in SUBSET CallIds, IsFiniteSet(ids),
         \A id \in ids : id[1] = Len(conv.history) + 1, NEW count, count = Cardinality(ids),
         NEW c, c = Push(conv, AssistantMessage(ids))
  PROVE  Hearing(c, ids, count) /\ c.diagramPlan = conv.diagramPlan
<1>1. PICK m : m = AssistantMessage(ids)
  OBVIOUS
<1>2. m \in Messages /\ m.role = "assistant" /\ m.calls = ids /\ m.ids = {}
  BY <1>1 DEF AssistantMessage, Message, Messages
<1>3. conv \in Convs
  BY DEF Sound, Typed
<1>4. /\ c \in Convs /\ c.history = Append(conv.history, m) /\ c.cancelled = conv.cancelled
      /\ c.turnScope = conv.turnScope /\ c.refMap = conv.refMap /\ c.diagramPlan = conv.diagramPlan
  BY <1>1, <1>2, <1>3, PushIs
<1>5. PICK h \in Seq(Messages) : h = conv.history
  BY <1>3, ConvIs
<1>6. PICK e : e = c.history
  OBVIOUS
<1>7. e = Append(h, m) /\ e = h \o <<m>> /\ <<m>> \in Seq(Messages) /\ Len(e) = Len(h) + 1 /\ Len(h) \in Nat
  BY <1>2, <1>4, <1>5, <1>6, AppendProperties, AppendIsConcat, LenProperties
<1>8. Open(e, ids, count)
  <2>1. AllAnswered(h)
    BY <1>5 DEF Sound, Answering, Applies
  <2>2. \A id \in m.calls : id[1] = Len(h) + 1
    BY <1>2, <1>5
  <2>3. Open(e, m.calls, Cardinality(m.calls))
    BY <1>2, <1>7, <2>1, <2>2, AnswerOpens
  <2> QED BY <1>2, <2>3
<1>9. PICK ms \in Seq(Messages) : ms = <<m>> /\ Len(ms) = 1 /\ ms[1] = m
  BY <1>7
<1>10. ToldIsSaved(e, scene, clipboard, saved)
  <2>1. \A i \in 1 .. Len(ms) : (ms[i].ids \cap DOMAIN scene) \ DOMAIN clipboard \subseteq DOMAIN saved
    BY <1>2, <1>9
  <2>2. ToldIsSaved(h, scene, clipboard, saved) /\ e = h \o ms
    BY <1>5, <1>7, <1>9 DEF Sound, Saving
  <2>3. PICK here : here = scene
    OBVIOUS
  <2>4. PICK away : away = clipboard
    OBVIOUS
  <2>5. PICK kept : kept = saved
    OBVIOUS
  <2> QED BY <2>1, <2>2, <2>3, <2>4, <2>5, ToldMore
<1>11. RefsReported(c, minted)
  <2>1. c.history = conv.history \o ms
    BY <1>5, <1>6, <1>7, <1>9
  <2>2. PICK made : made = minted
    OBVIOUS
  <2>3. PICK before \in Convs : before = conv
    BY <1>3
  <2>4. RefsReported(before, made) /\ c.history = before.history \o ms /\ c.refMap = before.refMap
    BY <1>4, <2>1, <2>2, <2>3 DEF Sound
  <2>5. RefsReported(c, made)
    BY <1>4, <2>4, ReportedMore
  <2> QED BY <2>2, <2>5
<1>12. Len(conv.history) <= Len(c.history)
  BY <1>5, <1>6, <1>7
<1> QED BY <1>4, <1>6, <1>8, <1>10, <1>11, <1>12 DEF Hearing

\* The step PlanIsMaterialized speaks of.
Materialized ==
  pc = "asking" /\ CanGoOn(work) /\ ~Unfinished =>
    \A r \in conv.diagramPlan :
      /\ r \in DOMAIN conv.refMap
      /\ \E i \in DOMAIN conv.history : conv.refMap[r] \in conv.history[i].ids

\* The types of an answer.
LEMMA AnswerIs ==
  ASSUME NEW phase \in Phase, NEW m \in Answers(phase), NEW sawTool, Acceptable(m, phase, sawTool)
  PROVE  /\ m.calls \in Seq(CanvasCalls) /\ m.text \in BOOLEAN /\ m.question \in BOOLEAN
         /\ phase = "finalize" => m.calls = <<>>
<1>1. phase = "finalize" => m.calls = <<>>
  BY DEF Acceptable
<1>2. CASE phase = "build"
  <2>1. m \in BuildTurns
    BY <1>2 DEF Answers
  <2> QED BY <1>1, <2>1, AnswersAreTyped
<1>3. CASE phase = "review"
  <2>1. m \in ReviewTurns
    BY <1>3 DEF Answers
  <2> QED BY <1>1, <2>1, AnswersAreTyped
<1>4. CASE phase = "finalize"
  <2>1. m \in [calls: {<<>>}, text: BOOLEAN, question: BOOLEAN]
    BY <1>4 DEF Answers
  <2>2. <<>> \in Seq(CanvasCalls)
    BY EmptySeq
  <2> QED BY <1>1, <2>1, <2>2
<1> QED BY <1>2, <1>3, <1>4 DEF Phase

\* What is missing of the plan are refs that name nothing.
LEMMA NothingMissing ==
  ASSUME Sound, NEW c, c.diagramPlan = conv.diagramPlan, c.refMap = conv.refMap, missingDiagramRefs(c) = {},
         NEW r \in conv.diagramPlan
  PROVE  r \in DOMAIN conv.refMap /\ \E i \in DOMAIN conv.history : conv.refMap[r] \in conv.history[i].ids
<1>1. r \in Refs
  BY ConvIs DEF Sound, Typed
<1>2. r \in DOMAIN conv.refMap \cup DOMAIN scene
  BY DEF missingDiagramRefs
<1>3. DOMAIN scene \subseteq Ids
  BY DEF Sound, OnCanvas
<1>4. r \in DOMAIN conv.refMap
  BY <1>1, <1>2, <1>3, NothingIsNoKey
<1> QED BY <1>4 DEF Sound, RefsReported

LEMMA ModelAnswersSound == Sound /\ ModelAnswers => Sound' /\ Heeds /\ Materialized
<1>1. SUFFICES ASSUME Sound, ModelAnswers PROVE Sound' /\ Heeds /\ Materialized
  OBVIOUS
<1>2. pc = "asking" /\ turn' = turn /\ UNCHANGED canvas
  BY <1>1 DEF ModelAnswers
<1>3. work \in Works /\ conv \in Convs /\ emitted \in Nat
  BY <1>1 DEF Sound, Typed
<1>4. work.phase \in Phase
  BY <1>3, WorkIs
<1>5. PICK m, calls, c, w :
        /\ m \in Answers(work.phase) /\ Acceptable(m, work.phase, SawTool)
        /\ Cardinality(minted) + Cardinality({i \in DOMAIN m.calls : m.calls[i].op \in CreatingOps}) <= Cardinality(Ids)
        /\ calls = Numbered(m.calls, Len(conv.history) + 1)
        /\ c = Push(conv, AssistantMessage({calls[i].id : i \in DOMAIN calls}))
        /\ w = [work EXCEPT !.text = m.text \/ @]
        /\ TakeAnswer(c, w, m, calls)
  BY <1>1 DEF ModelAnswers
<1>6. /\ m.calls \in Seq(CanvasCalls) /\ m.text \in BOOLEAN /\ m.question \in BOOLEAN
      /\ work.phase = "finalize" => m.calls = <<>>
  <2>1. PICK phase \in Phase : phase = work.phase
    BY <1>4
  <2>2. PICK saw : saw = SawTool
    OBVIOUS
  <2> QED BY <1>5, <2>1, <2>2, AnswerIs
<1>7. PICK given \in Seq(CanvasCalls) : given = m.calls
  BY <1>6
<1>8. PICK at \in Nat : at = Len(conv.history) + 1
  BY <1>3, ConvIs, LenProperties
<1>9. PICK ids : ids = IdsOf(calls)
  OBVIOUS
<1>10. /\ calls \in Seq(AnswerCalls) /\ Len(calls) = Len(given) /\ DOMAIN calls = DOMAIN given
       /\ \A i \in DOMAIN calls : calls[i].op = given[i]
       /\ ids = IdsOf(calls) /\ ids \in SUBSET CallIds /\ IsFiniteSet(ids) /\ Cardinality(ids) = Len(calls)
       /\ \A id \in ids : id[1] = at
  <2>1. calls = Numbered(given, at)
    BY <1>5, <1>7, <1>8
  <2> QED BY <1>9, <2>1, NumberedIs
<1>11. Hearing(c, IdsOf(calls), Len(calls)) /\ c.diagramPlan = conv.diagramPlan
  <2>1. PICK count : count = Cardinality(ids)
    OBVIOUS
  <2>2. Hearing(c, ids, count) /\ c.diagramPlan = conv.diagramPlan
    <3>1. c = Push(conv, AssistantMessage(ids)) /\ \A id \in ids : id[1] = Len(conv.history) + 1
      BY <1>5, <1>8, <1>9, <1>10 DEF IdsOf
    <3>2. ids \in SUBSET CallIds /\ IsFiniteSet(ids)
      BY <1>10
    <3> QED BY <1>1, <1>2, <2>1, <3>1, <3>2, AnswerHears
  <2> QED BY <1>10, <2>1, <2>2
<1>12. w \in Works /\ w.phase = work.phase /\ w.iter = work.iter
  BY <1>3, <1>5, <1>6 DEF Works
<1>13. OnCanvas' /\ minted' = minted
  BY <1>1, <1>2 DEF Sound, OnCanvas, canvas
<1>14. CASE conv.cancelled
  <2>1. Fail(conv) /\ work' = work /\ harness' = Settled
    BY <1>5, <1>14 DEF TakeAnswer
  <2>2. Settled \in Harnesses /\ Settled.cursorTurn = harness.cursorTurn /\ Settled.cancelled = harness.cancelled
    <3>1. harness \in Harnesses /\ Len(conv.history) \in Nat
      BY <1>1, <1>3, ConvIs, LenProperties DEF Sound, Typed
    <3>2. Settled = [harness EXCEPT !.sent = Len(conv.history)]
      BY <1>2 DEF Settled
    <3> QED BY <3>1, <3>2 DEF Harnesses
  <2>3. Sound'
    BY <1>1, <1>2, <1>13, <2>1, <2>2, FailSound
  <2>4. Heeds /\ Materialized
    BY <2>1 DEF Fail, Heeds, Materialized, Unfinished
  <2> QED BY <2>3, <2>4
<1>15. CASE ~conv.cancelled /\ m.question
  <2>1. Finish(c, "question", FALSE) /\ work' = w
    BY <1>5, <1>15 DEF TakeAnswer
  <2>2. calls = <<>>
    <3>1. m.calls = <<>>
      BY <1>5, <1>15 DEF Acceptable
    <3>2. Len(calls) = 0
      BY <1>7, <1>10, <3>1
    <3> QED BY <1>10, <3>2, EmptySeq
  <2>3. Hearing(c, {}, 0)
    <3>1. IdsOf(calls) = {} /\ Len(calls) = 0
      BY <2>2, EmptyHistory DEF IdsOf
    <3> QED BY <1>11, <3>1, Zenon
  <2>4. Fits(c) /\ c.turnScope = conv.turnScope
    BY <1>2, <2>3, HearingFits DEF Hearing
  <2>5. Ends(c)
    BY <1>3, <2>1 DEF Finish, Ends
  <2>6. Sound' /\ Heeds
    <3>1. work' \in Works /\ (work'.phase = "build" => FreezeHolds(c.turnScope))
      BY <1>1, <1>12, <2>1, <2>4 DEF Sound, Freezing
    <3> QED BY <1>1, <1>2, <1>13, <2>4, <2>5, <3>1, GoesSound DEF Sound
  <2>7. Materialized
    BY <2>1 DEF Finish, Materialized, Unfinished
  <2> QED BY <2>6, <2>7
<1>16. CASE ~conv.cancelled /\ ~m.question /\ calls = <<>>
  <2>1. NoCalls(c, w, m)
    BY <1>5, <1>16 DEF TakeAnswer
  <2>2. Hearing(c, {}, 0)
    <3>1. IdsOf(calls) = {} /\ Len(calls) = 0
      BY <1>16, EmptyHistory DEF IdsOf
    <3> QED BY <1>11, <3>1, Zenon
  <2>3. Sound' /\ Heeds /\ (CanGoOn(w) => Unfinished \/ missingDiagramRefs(c) = {})
    BY <1>1, <1>2, <1>12, <2>1, <2>2, NoCallsSound
  <2>4. c.refMap = conv.refMap
    BY <2>2 DEF Hearing
  <2>5. missingDiagramRefs(c) = {} => Materialized
    BY <1>1, <1>11, <2>4, NothingMissing DEF Materialized
  <2>6. CanGoOn(work) => CanGoOn(w)
    BY <1>12 DEF CanGoOn
  <2>7. Unfinished \/ ~CanGoOn(work) => Materialized
    BY DEF Materialized
  <2> QED BY <2>3, <2>5, <2>6, <2>7
<1>17. CASE ~conv.cancelled /\ ~m.question /\ calls # <<>>
  <2>1. processToolCalls(c, w, calls)
    BY <1>5, <1>17 DEF TakeAnswer
  <2>2. w.phase # "finalize"
    <3>1. ASSUME w.phase = "finalize" PROVE FALSE
      <4>1. Len(calls) = 0
        BY <1>6, <1>7, <1>10, <1>12, <3>1
      <4> QED BY <1>10, <1>17, <4>1, EmptySeq
    <3> QED BY <3>1
  <2>3. Cardinality(minted) + Cardinality(Makers(calls)) <= Cardinality(Ids)
    <3>1. Makers(calls) = {i \in DOMAIN m.calls : m.calls[i].op \in CreatingOps}
      BY <1>7, <1>10 DEF Makers
    <3> QED BY <1>5, <3>1
  <2>4. Sound' /\ Heeds /\ (CanGoOn(w) => Unfinished)
    BY <1>1, <1>2, <1>10, <1>11, <1>12, <1>17, <2>1, <2>2, <2>3, ProcessSound
  <2>5. CanGoOn(work) => CanGoOn(w)
    BY <1>12 DEF CanGoOn
  <2>6. Unfinished \/ ~CanGoOn(work) => Materialized
    BY DEF Materialized
  <2> QED BY <2>4, <2>5, <2>6
<1> QED BY <1>6, <1>14, <1>15, <1>16, <1>17

-----------------------------------------------------------------------------
(* Every step.                                                             *)

LEMMA NextSound == Sound /\ [Next]_vars => Sound'
<1>1. SUFFICES ASSUME Sound, [Next]_vars PROVE Sound'
  OBVIOUS
<1>2. CASE Send
  BY <1>1, <1>2, SendSound
<1>3. CASE ContextReady
  BY <1>1, <1>3, ContextReadySound
<1>4. CASE InspectionEnds
  BY <1>1, <1>4, InspectionEndsSound
<1>5. CASE TurnFails
  BY <1>1, <1>5, TurnFailsSound
<1>6. CASE ModelAnswers
  BY <1>1, <1>6, ModelAnswersSound
<1>7. CASE StageApplies
  BY <1>1, <1>7, StageAppliesSound
<1>8. CASE StageSaved
  BY <1>1, <1>8, StageSavedSound
<1>9. CASE SaveFails
  BY <1>1, <1>9, SaveFailsSound
<1>10. CASE ReviewRendered
  BY <1>1, <1>10, ReviewRenderedSound
<1>11. CASE Cancel
  BY <1>1, <1>11, CancelSound
<1>12. CASE UserEdits
  BY <1>1, <1>12, UserEditsSound
<1>13. CASE UNCHANGED vars
  <2>1. /\ pc' = pc /\ turn' = turn /\ conv' = conv /\ work' = work /\ batch' = batch /\ harness' = harness
        /\ scene' = scene /\ saved' = saved /\ minted' = minted /\ clipboard' = clipboard
        /\ delivered' = delivered /\ outcome' = outcome /\ emitted' = emitted
    BY <1>13 DEF vars, canvas
  <2>2. Typed' /\ OnCanvas' /\ Staged' /\ Answering' /\ Delivering'
    BY <1>1, <2>1 DEF Sound, Typed, OnCanvas, Staged, Answering, Delivering
  <2>3. CancelHeard' /\ Saving' /\ RefsReported(conv, minted)' /\ Freezing' /\ Reviewing' /\ Phases'
    BY <1>1, <2>1 DEF Sound, CancelHeard, Saving, Freezing, Reviewing, Phases
  <2> QED BY <2>2, <2>3 DEF Sound
<1> QED BY <1>1, <1>2, <1>3, <1>4, <1>5, <1>6, <1>7, <1>8, <1>9, <1>10, <1>11, <1>12, <1>13 DEF Next, Workflow

LEMMA NextHeeds == Sound /\ [Next]_vars => Heeds
<1>1. SUFFICES ASSUME Sound, [Next]_vars PROVE Heeds
  OBVIOUS
<1>2. CASE Send
  <2>1. turn' # turn
    BY <1>1, <1>2, SendsAreCounted DEF Send, Sound, Typed
  <2> QED BY <2>1 DEF Heeds
<1>3. CASE InspectionEnds
  <2>1. ASSUME conv.cancelled PROVE Fail(conv)
    <3>1. PICK h : h = [harness EXCEPT !.inspected = TRUE]
      OBVIOUS
    <3>2. h.cancelled
      BY <1>1, <2>1, <3>1 DEF Sound, CancelHeard, Typed, Harnesses
    <3> QED BY <1>3, <3>1, <3>2 DEF InspectionEnds
  <2> QED BY <2>1 DEF Heeds, Fail
<1>4. CASE TurnFails \/ SaveFails
  BY <1>4 DEF TurnFails, SaveFails, Fail, Heeds
<1>5. CASE Cancel
  BY <1>5 DEF Cancel, Heeds
<1>6. CASE UserEdits
  BY <1>6 DEF UserEdits, Heeds
<1>7. CASE UNCHANGED vars
  BY <1>7 DEF vars, Heeds
<1>8. CASE ContextReady \/ ModelAnswers \/ StageApplies \/ StageSaved \/ ReviewRendered
  BY <1>1, <1>8, ContextReadySound, ModelAnswersSound, StageAppliesSound, StageSavedSound, ReviewRenderedSound
<1> QED BY <1>1, <1>2, <1>3, <1>4, <1>5, <1>6, <1>7, <1>8 DEF Next, Workflow

LEMMA NextMaterializes == Sound /\ [Next]_vars => Materialized
<1>1. SUFFICES ASSUME Sound, [Next]_vars PROVE Materialized
  OBVIOUS
<1>2. CASE pc # "asking"
  BY <1>2 DEF Materialized
<1>3. CASE pc = "asking" /\ ModelAnswers
  BY <1>1, <1>3, ModelAnswersSound
<1>4. CASE pc = "asking" /\ TurnFails
  BY <1>4 DEF TurnFails, Fail, Materialized, Unfinished
<1>5. CASE pc = "asking" /\ (Cancel \/ UserEdits \/ UNCHANGED vars)
  <2>1. pc' = pc
    BY <1>5 DEF Cancel, UserEdits, vars
  <2> QED BY <1>5, <2>1 DEF Materialized, Unfinished
<1>6. CASE Send \/ ContextReady \/ InspectionEnds \/ StageApplies \/ StageSaved \/ SaveFails \/ ReviewRendered
  <2>1. pc # "asking"
    BY <1>6 DEF Send, ContextReady, InspectionEnds, StageApplies, StageSaved, SaveFails, ReviewRendered
  <2> QED BY <2>1 DEF Materialized
<1> QED BY <1>1, <1>2, <1>3, <1>4, <1>5, <1>6 DEF Next, Workflow

\* In every reachable state the request is sound: its stages, its open answer, the delivery
\* cursor and what was told, saved and frozen agree with where it is parked.
THEOREM SoundHolds == Spec => []Sound
BY InitSound, NextSound, PTL DEF Spec

-----------------------------------------------------------------------------
(* What follows.                                                           *)

\* Every variable keeps its type; no ref names a shape that was not minted, and no iteration
\* count passes the limit.
THEOREM TypeOKHolds == Spec => []TypeOK
<1>1. Sound => TypeOK
  <2>1. SUFFICES ASSUME Sound PROVE TypeOK
    OBVIOUS
  <2>2. /\ work.phase \in Phase /\ work.iter \in 0 .. MAX_ITERATIONS - 1
        /\ work.changed \subseteq Ids /\ work.editable \subseteq Ids
    <3>1. work \in Works
      BY <2>1 DEF Sound, Typed
    <3> QED BY <3>1, WorkIs
  <2>3. PICK c \in Convs : c = conv
    BY <2>1 DEF Sound, Typed
  <2>4. c.refMap \in RefMaps /\ c.diagramPlan \subseteq Refs /\ c.pendingRelations \subseteq StructureRelations
    BY ConvIs
  <2>5. DOMAIN c.refMap \subseteq Refs
    BY <2>4, RefMapIs
  <2>6. Range(c.refMap) \subseteq minted
    BY <2>1, <2>3 DEF Sound, RefsReported, Range
  <2>7. \A r \in c.pendingRelations : r.nodes \subseteq Keys
    BY <2>4 DEF StructureRelations
  <2>8. OnCanvas /\ Typed
    BY <2>1 DEF Sound
  <2> QED BY <2>2, <2>3, <2>4, <2>5, <2>6, <2>7, <2>8 DEF TypeOK, OnCanvas, Typed
<1> QED BY <1>1, SoundHolds, PTL

\* Each tool call has one result, right behind the answer that made it, whenever the model
\* is asked again.
THEOREM CallsAreAnsweredOnce == Spec => []CallsAnsweredOnce
<1>1. Sound => CallsAnsweredOnce
  <2>1. SUFFICES ASSUME Sound, pc = "asking" PROVE CallsAnsweredOnce
    BY DEF CallsAnsweredOnce
  <2>2. PICK h \in Seq(Messages) : h = conv.history
    BY <2>1, ConvIs DEF Sound, Typed
  <2>3. AllAnswered(h)
    BY <2>1, <2>2 DEF Sound, Answering, Applies
  <2>4. DOMAIN h \subseteq Nat
    BY LenProperties
  <2>5. ASSUME NEW i \in DOMAIN h, h[i].role = "assistant"
        PROVE  /\ ResultsOf(h, i) = i + 1 .. i + Cardinality(h[i].calls)
               /\ {h[j].call : j \in ResultsOf(h, i)} = h[i].calls
    BY <2>3, <2>5 DEF AllAnswered, Complete
  <2>6. ASSUME NEW i \in DOMAIN h, h[i].role = "tool" PROVE \E j \in 1 .. i : h[i].call \in h[j].calls
    <3>1. PICK a \in 1 .. i - 1 : h[i].call \in h[a].calls
      BY <2>3, <2>6 DEF AllAnswered, Numbering
    <3> QED BY <2>4, <3>1
  <2> QED BY <2>2, <2>5, <2>6 DEF CallsAnsweredOnce, ResultsOf
<1> QED BY <1>1, SoundHolds, PTL

\* The review touches only what the build made and what declarations of the build left over.
THEOREM ReviewsStayInScope == Spec => []ReviewStaysInScope
<1>1. Sound => ReviewStaysInScope
  BY DEF Sound, Reviewing, ReviewStaysInScope
<1> QED BY <1>1, SoundHolds, PTL

\* What the model was told of is saved, or gone by the user's hand.
THEOREM ReportsAreSaved == Spec => []ReportedIsSaved
<1>1. Sound => ReportedIsSaved
  BY DEF Sound, Saving, ToldIsSaved, ReportedIsSaved
<1> QED BY <1>1, SoundHolds, PTL

\* A frozen node keeps its place in every later build batch.
THEOREM FrozenAlwaysStayPut == Spec => []FrozenStayPut
<1>1. Sound => FrozenStayPut
  BY DEF Sound, Freezing, FreezeHolds, FrozenStayPut
<1> QED BY <1>1, SoundHolds, PTL

\* Every message of the request reaches the model once and in order.
THEOREM MessagesAreDeliveredOnce == Spec => []MessagesDeliveredOnce
<1>1. Sound => MessagesDeliveredOnce
  BY DEF Sound, Delivering, Counting, MessagesDeliveredOnce
<1> QED BY <1>1, SoundHolds, PTL

\* After a cancellation no turn is submitted and no batch begun.
THEOREM CancellationHolds == Spec => NothingAfterCancel
<1>1. Sound /\ [Next]_vars =>
        [conv.cancelled /\ turn' = turn =>
           /\ delivered' = delivered
           /\ pc' \in {"inspecting", "early"} => pc' = pc]_vars
  BY NextHeeds DEF Heeds
<1> QED BY <1>1, SoundHolds, PTL DEF Spec, NothingAfterCancel

\* A build that ends before its last iteration has made and reported every planned shape.
THEOREM PlansAreMaterialized == Spec => PlanIsMaterialized
<1>1. Sound /\ [Next]_vars =>
        [pc = "asking" /\ work.phase = "build" /\ work.iter < MAX_ITERATIONS - 1
           /\ (pc' = "rendering" \/ (pc' = "idle" /\ outcome' = "completed")) =>
           \A r \in conv.diagramPlan :
             /\ r \in DOMAIN conv.refMap
             /\ \E i \in DOMAIN conv.history : conv.refMap[r] \in conv.history[i].ids]_vars
  BY NextMaterializes DEF Materialized, CanGoOn, Unfinished
<1> QED BY <1>1, SoundHolds, PTL DEF Spec, PlanIsMaterialized
=============================================================================
