------------------------- MODULE RecordChain_proofs -------------------------
(***************************************************************************)
(* The record chain and its publication, for every number of rows,         *)
(* workers, handlers, updates and faults.                                  *)
(*                                                                         *)
(* The chain is the sequence of the updates: each links to the one stored  *)
(* before it, and the last is the only LATEST.  A transaction commits only *)
(* when the head it has read is still the last update, which keeps that.   *)
(* The metadata form a second chain, which only the holder of the          *)
(* publisher's lock extends and moves /latest along.                       *)
(***************************************************************************)
EXTENDS RecordChain, TLAPS, WellFoundedInduction, FiniteSetTheorems, SequenceTheorems

UpdateRecords == [list : SUBSET Rows, previous : Nat]
MetaRecords   == [payload : Nat, previous : Nat]

ChainInv ==
  /\ \A u \in Stored : update[u].previous = u - 1
  /\ \A u \in Stored : status[u] = IF u = Len(update) THEN "latest" ELSE "previous"

(* Whatever is attached or about to be is listed, and what is listed has a *)
(* row.                                                                    *)
Listed(c, L) == \E y \in L : row[y] # NULL /\ row[y].cid = c
RowInv ==
  /\ \A u \in Stored : \A y \in update[u].list : row[y] # NULL
  /\ \A x \in Rows : row[x] # NULL /\ row[x].attached =>
       row[x].cid \in Excluded \/ \E u \in Stored : Listed(row[x].cid, update[u].list)
  /\ \A h \in Handlers :
       /\ \A y \in request[h].list : row[y] # NULL
       /\ \A x \in request[h].take :
            /\ row[x] # NULL
            /\ row[x].cid \in Excluded \/ Listed(row[x].cid, request[h].list)

(* What a handler that publishes has stored so far.                        *)
PublishInv == \A h \in Handlers :
  /\ request[h].pc \in {"publish", "set", "announce"} => request[h].update \in Stored
  /\ request[h].pc \in {"set", "announce"} =>
       request[h].meta \in Metas /\ meta[request[h].meta].payload = request[h].update
  /\ request[h].pc = "set" => meta[request[h].meta].previous = latest
  /\ request[h].pc = "announce" => request[h].meta = latest

Covered(u, m) == \E k \in Linked(m) : meta[k].payload = u
PublishedInv == \A u \in published :
  Covered(u, latest) /\ (process = "up" => Covered(u, root))

DownInv == process = "down" => lock = NULL /\ \A h \in Handlers : request[h].pc = "idle"

Inv == TypeOK /\ ChainInv /\ RowInv /\ PublishInv /\ Traversable /\ PublishedInv /\ DownInv

-----------------------------------------------------------------------------
(* The least-number principle.                                             *)
LEMMA LeastElement ==
  ASSUME NEW T \in SUBSET Nat, T # {}
  PROVE  \E n \in T : \A m \in T : n <= m
<1>. DEFINE R == OpToRel(<, Nat)
<1>1. IsWellFoundedOn(R, Nat)
  BY NatLessThanWellFounded
<1>. HIDE DEF R
<1>2. PICK x \in T : \A y \in T : ~(<<y, x>> \in R)
  BY <1>1, WFMin
<1>3. ASSUME NEW y \in T PROVE x <= y
  <2>1. <<y, x>> \notin {s \in Nat \X Nat : s[1] < s[2]}
    BY <1>2, Zenon DEF R, OpToRel
  <2>2. x \in Nat /\ y \in Nat
    OBVIOUS
  <2>3. ~(y < x)
    BY <2>1, <2>2
  <2>. QED
    BY <2>2, <2>3
<1>. QED
  BY <1>3

(* An update leads to all those stored before it.                          *)
LEMMA BackIsAll ==
  ASSUME TypeOK, ChainInv, NEW u \in Stored
  PROVE  Back(u) = 1..u
<1>1. u \in Nat /\ 1 <= u /\ Stored = 1..Len(update) /\ Len(update) \in Nat
  BY DEF TypeOK, Stored
<1>2. ASSUME NEW v \in Back(u) PROVE v \in 1..u
  <2>. DEFINE I == 1..u
  <2>1. I \in SUBSET Stored /\ u \in I
    BY <1>1
  <2>2. \A x \in I : update[x].previous \in I \union {0}
    BY <1>1, <2>1 DEF ChainInv
  <2>3. v \in I
    <3>. HIDE DEF I
    <3>. QED
      BY <2>1, <2>2 DEF Back
  <2>. QED
    BY <2>3
<1>3. ASSUME NEW v \in 1..u PROVE v \in Back(u)
  <2>1. SUFFICES ASSUME NEW S \in SUBSET Stored, u \in S, v \notin S,
                        \A x \in S : update[x].previous \in S \union {0}
                 PROVE  FALSE
    BY <1>1 DEF Back
  <2>. DEFINE T == {n \in Nat : n >= v /\ n \in S}
  <2>2. PICK n \in T : \A m \in T : n <= m
    <3>1. u \in T
      BY <1>1, <2>1
    <3>. HIDE DEF T
    <3>2. T \in SUBSET Nat
      BY DEF T
    <3>. QED
      BY <3>1, <3>2, LeastElement
  <2>3. n \in Nat /\ n > v /\ n - 1 >= v /\ n \in Stored
    BY <2>1, <1>1
  <2>4. n - 1 \in S
    BY <2>1, <2>3, <1>1 DEF ChainInv
  <2>. QED
    BY <2>2, <2>3, <2>4, <1>1
<1>. QED
  BY <1>2, <1>3

(* The head leads to all of them.                                          *)
LEMMA HeadIsLast ==
  ASSUME TypeOK, ChainInv
  PROVE  /\ LatestHead = Len(update) /\ Len(update) \in Nat
         /\ Stored = 1..Len(update)
<1>1. Len(update) \in Nat /\ Stored = 1..Len(update)
  BY DEF TypeOK, Stored
<1>2. CASE Len(update) = 0
  BY <1>1, <1>2 DEF LatestHead
<1>3. CASE Len(update) # 0
  <2>1. Len(update) \in Stored /\ status[Len(update)] = "latest"
    BY <1>1, <1>3 DEF ChainInv
  <2>2. \A u \in Stored : status[u] = "latest" => u = Len(update)
    BY DEF ChainInv
  <2>. QED
    BY <1>1, <2>1, <2>2 DEF LatestHead
<1>. QED
  BY <1>1, <1>2, <1>3

-----------------------------------------------------------------------------
(* The metadata's chain.                                                   *)

LEMMA LinkedGrows ==
  ASSUME Traversable, meta \in Seq(MetaRecords), NEW r \in MetaRecords,
         meta' = Append(meta, r), NEW m
  PROVE  /\ Linked(m) \subseteq Linked(m)'
         /\ Metas \subseteq Metas'
         /\ \A k \in Metas : meta'[k] = meta[k]
<1>1. /\ Metas = 1..Len(meta) /\ Metas' = 1..(Len(meta) + 1) /\ Len(meta) \in Nat
      /\ \A k \in Metas : meta'[k] = meta[k]
  BY DEF Metas
<1>2. Metas \subseteq Metas'
  BY <1>1
<1>3. ASSUME NEW k \in Linked(m) PROVE k \in Linked(m)'
  <2>1. k \in Metas /\ m \in Metas
    BY DEF Linked
  <2>2. ASSUME NEW S \in SUBSET Metas', m \in S,
               \A x \in S : meta'[x].previous \in S \union {0}
        PROVE  k \in S
    <3>1. \A x \in S \intersect Metas :
            meta[x].previous \in (S \intersect Metas) \union {0}
      BY <1>1, <2>2 DEF Traversable
    <3>2. S \intersect Metas \in SUBSET Metas /\ m \in S \intersect Metas
      BY <2>1, <2>2
    <3>3. k \in S \intersect Metas
      BY <3>1, <3>2 DEF Linked
    <3>. QED
      BY <3>3
  <2>. QED
    BY <1>2, <2>1, <2>2 DEF Linked
<1>. QED
  BY <1>1, <1>2, <1>3

LEMMA LinkedBehind ==
  ASSUME NEW m \in Metas, NEW p, meta[m].previous = p, 0 \notin Metas
  PROVE  Linked(p) \subseteq Linked(m)
<1>1. SUFFICES ASSUME NEW k \in Linked(p), NEW S \in SUBSET Metas, m \in S,
                      \A x \in S : meta[x].previous \in S \union {0}
               PROVE  k \in S
  BY DEF Linked
<1>2. p \in Metas
  BY DEF Linked
<1>3. p \in S
  BY <1>1, <1>2
<1>. QED
  BY <1>1, <1>3 DEF Linked

LEMMA LinkedSelf == ASSUME NEW m \in Metas PROVE m \in Linked(m)
BY DEF Linked

-----------------------------------------------------------------------------
LEMMA InvInit == Init => Inv
<1>. SUFFICES ASSUME Init PROVE Inv
  OBVIOUS
<1>1. Stored = {} /\ Metas = {}
  BY DEF Init, Stored, Metas
<1>2. TypeOK
  BY <1>1, ConstantsAssumption DEF Init, TypeOK, Idle
<1>3. ChainInv /\ PublishInv /\ Traversable /\ PublishedInv /\ DownInv
  BY <1>1 DEF Init, ChainInv, PublishInv, Traversable, PublishedInv, DownInv, Idle
<1>4. RowInv
  BY <1>1 DEF Init, RowInv, Idle
<1>. QED
  BY <1>2, <1>3, <1>4 DEF Inv

-----------------------------------------------------------------------------
(* The type invariant.                                                     *)

RequestRecords(S, M) ==
  [pc : {"idle", "commit", "retry", "publish", "set", "announce"},
   worker : Workers \union {NULL}, head : S \union {0},
   take : SUBSET Rows, list : SUBSET Rows,
   update : S \union {0}, meta : M \union {0}]

(* A step in which one handler moves and neither takes nor leaves the lock *)
(* nor stores metadata.                                                    *)
LEMMA MoveType ==
  ASSUME TypeOK, UNCHANGED <<lock, meta, latest, root, process, published>>,
         NEW h \in Handlers, NEW q \in RequestRecords(Stored', Metas),
         request' = [request EXCEPT ![h] = q],
         request[h].pc \notin {"set", "announce"}, q.pc \notin {"set", "announce"},
         row' \in [Rows -> {NULL} \union RowRecords],
         update' \in Seq(UpdateRecords), Stored \subseteq Stored',
         status' \in [Stored' -> {"latest", "previous"}], faults' \in Nat
  PROVE  TypeOK'
<1>1. Metas' = Metas
  BY DEF Metas
<1>2. \A g \in Handlers : request[g] \in RequestRecords(Stored', Metas)
  BY DEF TypeOK, RequestRecords
<1>3. request' \in [Handlers -> RequestRecords(Stored', Metas')]
  BY <1>1, <1>2 DEF TypeOK
<1>4. \A g \in Handlers : lock' = g <=> request'[g].pc \in {"set", "announce"}
  BY DEF TypeOK
<1>5. published' \subseteq Stored'
  BY DEF TypeOK
<1>. QED
  BY <1>3, <1>4, <1>5 DEF TypeOK, RequestRecords, UpdateRecords

LEMMA SnapshotType ==
  ASSUME TypeOK, ChainInv, NEW w \in Workers \union {NULL}
  PROVE  Snapshot(w) \in RequestRecords(Stored, Metas) /\ Snapshot(w).pc = "commit"
<1>1. LatestHead \in Stored \union {0}
  BY HeadIsLast
<1>. QED
  BY <1>1 DEF Snapshot, RequestRecords, Idle, SameCid, Unattached

(* The writes of a transaction that may commit.                            *)
LEMMA WriteType ==
  ASSUME Inv, NEW h \in Handlers, WriteUpdate(h), Serializable(h)
  PROVE  /\ row' \in [Rows -> {NULL} \union RowRecords]
         /\ update' \in Seq(UpdateRecords)
         /\ update' = Append(update, [list |-> request[h].list, previous |-> Len(update)])
         /\ Len(update') = Len(update) + 1
         /\ Stored' = 1..Len(update)+1 /\ Stored \subseteq Stored'
         /\ \A u \in Stored : update'[u] = update[u]
         /\ update'[Len(update)+1] = [list |-> request[h].list, previous |-> Len(update)]
         /\ status' \in [Stored' -> {"latest", "previous"}]
         /\ \A u \in Stored' : status'[u] = IF u = Len(update') THEN "latest" ELSE "previous"
<1>1. /\ LatestHead = Len(update) /\ Len(update) \in Nat /\ Stored = 1..Len(update)
      /\ update \in Seq(UpdateRecords)
  BY HeadIsLast DEF Inv, TypeOK, UpdateRecords
<1>2. request[h].head = Len(update) /\ request[h].list \in SUBSET Rows
      /\ request[h].take \in SUBSET Rows
  BY <1>1 DEF Inv, TypeOK, Serializable
<1>3. [list |-> request[h].list, previous |-> Len(update)] \in UpdateRecords
  BY <1>1, <1>2 DEF UpdateRecords
<1>4. update' = Append(update, [list |-> request[h].list, previous |-> Len(update)])
  BY <1>2 DEF WriteUpdate
<1>5. /\ update' \in Seq(UpdateRecords) /\ Len(update') = Len(update) + 1
      /\ \A u \in 1..Len(update) : update'[u] = update[u]
      /\ update'[Len(update)+1] = [list |-> request[h].list, previous |-> Len(update)]
  BY <1>1, <1>3, <1>4, AppendProperties
<1>6. Stored' = 1..Len(update)+1
  BY <1>5 DEF Stored
<1>7. \A u \in Stored' :
        status'[u] = IF u = Len(update') THEN "latest" ELSE "previous"
  <2>1. TAKE u \in Stored'
  <2>2. CASE u = Len(update) + 1
    BY <1>5, <1>6, <2>2 DEF WriteUpdate, NewUpdate
  <2>3. CASE u = Len(update)
    BY <1>1, <1>2, <1>5, <1>6, <2>3 DEF WriteUpdate, NewUpdate
  <2>4. CASE u < Len(update)
    <3>1. status[u] = "previous" /\ u \in Stored
      BY <1>1, <1>6, <2>4 DEF Inv, ChainInv
    <3>. QED
      BY <1>1, <1>2, <1>5, <1>6, <2>4, <3>1 DEF WriteUpdate, NewUpdate
  <2>. QED
    BY <1>1, <1>6, <2>2, <2>3, <2>4
<1>8. status' \in [Stored' -> {"latest", "previous"}]
  BY <1>6, <1>7 DEF WriteUpdate, NewUpdate
<1>9. row' \in [Rows -> {NULL} \union RowRecords]
  <2>1. SUFFICES ASSUME NEW x \in Rows
                 PROVE  row'[x] \in {NULL} \union RowRecords
    BY DEF WriteUpdate
  <2>2. CASE x \in request[h].take
    <3>1. row[x] \in RowRecords
      BY <2>2 DEF Inv, RowInv, TypeOK
    <3>2. row'[x] = [row[x] EXCEPT !.attached = TRUE]
      BY <2>2 DEF WriteUpdate
    <3>. QED
      BY <3>1, <3>2 DEF RowRecords
  <2>3. CASE x \notin request[h].take
    BY <2>3 DEF WriteUpdate, Inv, TypeOK
  <2>. QED
    BY <2>2, <2>3
<1>. QED
  BY <1>1, <1>4, <1>5, <1>6, <1>7, <1>8, <1>9

-----------------------------------------------------------------------------
(* The invariant's other parts, step by step.                              *)

(* What is listed stays listed while rows only appear and become attached. *)
LEMMA ListedStays ==
  ASSUME NEW c, NEW L \in SUBSET Rows, Listed(c, L),
         \A x \in Rows : row[x] # NULL => row'[x] # NULL /\ row'[x].cid = row[x].cid
  PROVE  Listed(c, L)'
BY DEF Listed

LEMMA UpdateAt ==
  ASSUME TypeOK, NEW u \in Stored
  PROVE  update[u] \in UpdateRecords /\ update[u].list \in SUBSET Rows
<1>1. update \in Seq(UpdateRecords) /\ u \in 1..Len(update)
  BY DEF TypeOK, UpdateRecords, Stored
<1>2. update[u] \in UpdateRecords
  BY <1>1, ElementOfSeq
<1>. QED
  BY <1>2 DEF UpdateRecords

LEMMA FinishStep ==
  ASSUME Inv, NEW x \in Rows, NEW c \in Records, NEW w \in Workers, FinishTask(x, c, w)
  PROVE  Inv'
<1>. DEFINE r == [cid |-> c, worker |-> w, attached |-> FALSE]
<1>1. r \in RowRecords /\ r # NULL
  <2>1. r \in RowRecords
    BY DEF RowRecords
  <2>. HIDE DEF r
  <2>. QED
    BY <2>1, ConstantsAssumption
<1>2. /\ row \in [Rows -> {NULL} \union RowRecords] /\ row[x] = NULL
      /\ row' = [row EXCEPT ![x] = r] /\ process # "down"
      /\ UNCHANGED <<update, status, request, publisher, process, published, faults>>
  BY DEF Inv, TypeOK, FinishTask
<1>3. /\ Stored' = Stored /\ Metas' = Metas /\ \A m : Linked(m)' = Linked(m)
  BY <1>2 DEF Stored, Metas, Linked, publisher
<1>. HIDE DEF r
<1>4. /\ row' \in [Rows -> {NULL} \union RowRecords] /\ row'[x] = r
      /\ \A y \in Rows : row[y] # NULL => row'[y] = row[y]
      /\ \A y \in Rows \ {x} : row'[y] = row[y]
  BY <1>1, <1>2
<1>5. TypeOK'
  BY <1>2, <1>3, <1>4 DEF Inv, TypeOK, publisher
<1>6. RowInv'
  <2>1. \A u \in Stored : update[u].list \in SUBSET Rows
    BY UpdateAt DEF Inv
  <2>2. \A h \in Handlers : request[h].list \in SUBSET Rows /\ request[h].take \in SUBSET Rows
    BY DEF Inv, TypeOK
  <2>3. ~row'[x].attached
    BY <1>4 DEF r
  <2>4. \A d : \A L \in SUBSET Rows : Listed(d, L) => Listed(d, L)'
    BY <1>4 DEF Listed
  <2>. QED
    BY <1>2, <1>3, <1>4, <2>1, <2>2, <2>3, <2>4 DEF Inv, RowInv
<1>7. ChainInv' /\ PublishInv' /\ Traversable' /\ PublishedInv' /\ DownInv'
  BY <1>2, <1>3 DEF Inv, ChainInv, PublishInv, Traversable, PublishedInv,
                    Covered, DownInv, publisher
<1>. QED
  BY <1>5, <1>6, <1>7 DEF Inv

(* A transaction begins or begins again.                                   *)
LEMMA SnapshotStep ==
  ASSUME Inv, NEW h \in Handlers, NEW w \in Workers \union {NULL},
         request[h].pc \notin {"set", "announce"}, process # "down",
         request' = [request EXCEPT ![h] = Snapshot(w)],
         UNCHANGED <<database, publisher, process, published, faults>>
  PROVE  Inv'
<1>. DEFINE q == Snapshot(w)
<1>1. q \in RequestRecords(Stored, Metas) /\ q.pc = "commit"
  BY SnapshotType DEF Inv
<1>2. /\ q.list \in SUBSET Rows /\ q.take \in SUBSET Rows
      /\ \A y \in q.list : row[y] # NULL
      /\ \A x \in q.take :
           /\ row[x] # NULL
           /\ row[x].cid \in Excluded \/ Listed(row[x].cid, q.list)
  BY DEF Snapshot, Idle, Unattached, SameCid, Listed
<1>3. request \in [Handlers -> RequestRecords(Stored, Metas)]
  BY DEF Inv, TypeOK, RequestRecords
<1>4. /\ Stored' = Stored /\ Metas' = Metas /\ \A m : Linked(m)' = Linked(m)
  BY DEF Stored, Metas, Linked, publisher, database
<1>5. TypeOK'
  <2>. HIDE DEF q
  <2>1. q \in RequestRecords(Stored', Metas)
    BY <1>1, <1>4
  <2>. QED
    BY <1>1, <1>4, <2>1, MoveType DEF q, Inv, TypeOK, database, publisher, UpdateRecords
<1>. HIDE DEF q
<1>6. request'[h] = q /\ \A g \in Handlers \ {h} : request'[g] = request[g]
  BY <1>3 DEF q
<1>7. RowInv'
  <2>1. /\ \A u \in Stored' : \A y \in update'[u].list : row'[y] # NULL
        /\ \A x \in Rows : row'[x] # NULL /\ row'[x].attached =>
             row'[x].cid \in Excluded \/ \E u \in Stored' : Listed(row[x].cid, update[u].list)'
    BY <1>4 DEF Inv, RowInv, Listed, database
  <2>3. /\ \A y \in request'[h].list : row'[y] # NULL
        /\ \A x \in request'[h].take :
             /\ row'[x] # NULL
             /\ row'[x].cid \in Excluded \/ Listed(row[x].cid, request[h].list)'
    <3>1. row' = row /\ request'[h].list = q.list /\ request'[h].take = q.take
      BY <1>6 DEF database
    <3>2. ASSUME NEW x \in q.take, Listed(row[x].cid, q.list)
          PROVE  \E y \in request'[h].list : row'[y] # NULL /\ row'[y].cid = row'[x].cid
      BY <3>1, <3>2 DEF Listed
    <3>3. \A y \in request'[h].list : row'[y] # NULL
      BY <1>2, <3>1
    <3>4. ASSUME NEW x \in request'[h].take
          PROVE  /\ row'[x] # NULL
                 /\ row'[x].cid \in Excluded \/ Listed(row[x].cid, request[h].list)'
      <4>1. row[x] # NULL /\ (row[x].cid \in Excluded \/ Listed(row[x].cid, q.list))
        BY <1>2, <3>1
      <4>2. CASE Listed(row[x].cid, q.list)
        <5>1. \E y \in request'[h].list : row'[y] # NULL /\ row'[y].cid = row'[x].cid
          BY <3>1, <3>2, <4>2
        <5>. QED
          BY <3>1, <4>1, <5>1 DEF Listed
      <4>3. CASE row[x].cid \in Excluded
        BY <3>1, <4>1, <4>3
      <4>. QED
        BY <4>1, <4>2, <4>3
    <3>. QED
      BY <3>3, <3>4
  <2>4. ASSUME NEW g \in Handlers \ {h}
        PROVE  /\ \A y \in request'[g].list : row'[y] # NULL
               /\ \A x \in request'[g].take :
                    /\ row'[x] # NULL
                    /\ row'[x].cid \in Excluded \/ Listed(row[x].cid, request[g].list)'
    BY <1>6 DEF database, Listed, Inv, RowInv
  <2>. QED
    BY <2>1, <2>3, <2>4 DEF RowInv
<1>8. PublishInv' /\ DownInv'
  BY <1>1, <1>4, <1>6 DEF Inv, PublishInv, DownInv, publisher
<1>9. ChainInv' /\ Traversable' /\ PublishedInv'
  BY <1>4 DEF Inv, ChainInv, Traversable, PublishedInv, Covered, publisher, database
<1>. QED
  BY <1>5, <1>7, <1>8, <1>9 DEF Inv

(* A request ends without having done anything.                            *)
LEMMA FailUpdateStep ==
  ASSUME Inv, NEW h \in Handlers, FailUpdate(h)
  PROVE  Inv'
<1>1. /\ request' = [request EXCEPT ![h] = Idle] /\ faults' \in Nat
      /\ request[h].pc \in {"commit", "retry"}
      /\ UNCHANGED <<database, publisher, process, published>>
  BY DEF FailUpdate, Fault, Inv, TypeOK
<1>2. request \in [Handlers -> RequestRecords(Stored, Metas)]
  BY DEF Inv, TypeOK, RequestRecords
<1>3. /\ Stored' = Stored /\ Metas' = Metas /\ \A m : Linked(m)' = Linked(m)
  BY <1>1 DEF Stored, Metas, Linked, publisher, database
<1>4. request'[h] = Idle /\ \A g \in Handlers \ {h} : request'[g] = request[g]
  BY <1>1, <1>2
<1>5. Idle \in RequestRecords(Stored', Metas) /\ Idle.pc = "idle"
      /\ Idle.list = {} /\ Idle.take = {}
  BY DEF RequestRecords, Idle
<1>6. TypeOK'
  BY <1>1, <1>3, <1>5, MoveType DEF Inv, TypeOK, database, publisher, UpdateRecords
<1>7. RowInv'
  BY <1>1, <1>3, <1>4, <1>5 DEF Inv, RowInv, Listed, database
<1>8. PublishInv' /\ DownInv'
  BY <1>1, <1>3, <1>4, <1>5 DEF Inv, PublishInv, DownInv, publisher
<1>9. ChainInv' /\ Traversable' /\ PublishedInv'
  BY <1>1, <1>3 DEF Inv, ChainInv, Traversable, PublishedInv, Covered, publisher, database
<1>. QED
  BY <1>6, <1>7, <1>8, <1>9 DEF Inv

(* A transaction commits, acknowledged or not.                             *)
LEMMA CommitStep ==
  ASSUME Inv, NEW h \in Handlers, NEW q \in RequestRecords(Stored', Metas),
         request[h].pc = "commit", Serializable(h), WriteUpdate(h),
         request' = [request EXCEPT ![h] = q],
         q.pc \in {"publish", "retry"}, q.list = {}, q.take = {},
         q.pc = "publish" => q.update = NewUpdate,
         UNCHANGED <<publisher, process, published>>, faults' \in Nat
  PROVE  Inv'
<1>1. /\ row' \in [Rows -> {NULL} \union RowRecords]
      /\ update' \in Seq(UpdateRecords)
      /\ Len(update') = Len(update) + 1
      /\ Stored' = 1..Len(update)+1 /\ Stored \subseteq Stored'
      /\ \A u \in Stored : update'[u] = update[u]
      /\ update'[Len(update)+1] = [list |-> request[h].list, previous |-> Len(update)]
      /\ status' \in [Stored' -> {"latest", "previous"}]
      /\ \A u \in Stored' : status'[u] = IF u = Len(update') THEN "latest" ELSE "previous"
  BY WriteType
<1>2. Len(update) \in Nat /\ Stored = 1..Len(update)
  BY HeadIsLast DEF Inv
<1>3. Metas' = Metas /\ \A m : Linked(m)' = Linked(m)
  BY DEF Metas, Linked, publisher
<1>4. request'[h] = q /\ \A g \in Handlers \ {h} : request'[g] = request[g]
  BY DEF Inv, TypeOK
<1>5. TypeOK'
  BY <1>1, MoveType DEF Inv, publisher
<1>6. ChainInv'
  <2>1. \A u \in Stored' : update'[u].previous = u - 1
    BY <1>1, <1>2 DEF Inv, ChainInv
  <2>. QED
    BY <1>1, <2>1 DEF ChainInv
<1>7. RowInv'
  <2>1. \A x \in Rows : row[x] # NULL => row'[x] # NULL /\ row'[x].cid = row[x].cid
    <3>1. SUFFICES ASSUME NEW x \in Rows, row[x] # NULL
                   PROVE  row'[x] # NULL /\ row'[x].cid = row[x].cid
      OBVIOUS
    <3>2. row[x] \in RowRecords
      BY <3>1 DEF Inv, TypeOK
    <3>3. row'[x] = row[x] \/ row'[x] = [row[x] EXCEPT !.attached = TRUE]
      BY DEF WriteUpdate
    <3>4. row'[x] \in RowRecords /\ row'[x].cid = row[x].cid
      BY <3>2, <3>3 DEF RowRecords
    <3>. QED
      BY <3>4, ConstantsAssumption
  <2>2. /\ \A u \in Stored : update[u].list \in SUBSET Rows
        /\ \A g \in Handlers : request[g].list \in SUBSET Rows /\ request[g].take \in SUBSET Rows
    BY UpdateAt DEF Inv, TypeOK
  <2>3. \A d : \A L \in SUBSET Rows : Listed(d, L) => Listed(d, L)'
    BY <2>1 DEF Listed
  <2>4. \A u \in Stored' : \A y \in update'[u].list : row'[y] # NULL
    <3>1. TAKE u \in Stored'
    <3>2. CASE u \in Stored
      BY <1>1, <2>1, <2>2, <3>2 DEF Inv, RowInv
    <3>3. CASE u = Len(update) + 1
      BY <1>1, <2>1, <2>2, <3>3 DEF Inv, RowInv
    <3>. QED
      BY <1>1, <1>2, <3>2, <3>3
  <2>5. ASSUME NEW x \in Rows, row'[x] # NULL, row'[x].attached
        PROVE  row'[x].cid \in Excluded \/ \E u \in Stored' : Listed(row[x].cid, update[u].list)'
    <3>1. CASE x \in request[h].take
      <4>1. row[x] # NULL /\ (row[x].cid \in Excluded \/ Listed(row[x].cid, request[h].list))
        BY <3>1 DEF Inv, RowInv
      <4>2. row'[x].cid = row[x].cid
        BY <4>1, <2>1
      <4>3. CASE Listed(row[x].cid, request[h].list)
        <5>1. PICK y \in request[h].list : row[y] # NULL /\ row[y].cid = row[x].cid
          BY <4>3 DEF Listed
        <5>2. y \in Rows /\ row'[y] # NULL /\ row'[y].cid = row'[x].cid
          BY <5>1, <2>1, <2>2, <4>2
        <5>3. Len(update)+1 \in Stored' /\ y \in update'[Len(update)+1].list
          BY <1>1, <1>2, <5>1
        <5>. QED
          BY <5>2, <5>3 DEF Listed
      <4>. QED
        BY <4>1, <4>2, <4>3
    <3>2. CASE x \notin request[h].take
      <4>1. row'[x] = row[x]
        BY <3>2 DEF WriteUpdate
      <4>2. row[x].cid \in Excluded \/ \E u \in Stored : Listed(row[x].cid, update[u].list)
        BY <2>5, <4>1 DEF Inv, RowInv
      <4>3. CASE \E u \in Stored : Listed(row[x].cid, update[u].list)
        <5>1. PICK u \in Stored : Listed(row[x].cid, update[u].list)
          BY <4>3
        <5>2. PICK y \in update[u].list : row[y] # NULL /\ row[y].cid = row[x].cid
          BY <5>1 DEF Listed
        <5>3. y \in update'[u].list /\ u \in Stored' /\ row'[y] # NULL /\ row'[y].cid = row'[x].cid
          BY <1>1, <2>1, <2>2, <4>1, <5>2
        <5>. QED
          BY <5>3 DEF Listed
      <4>. QED
        BY <4>1, <4>2, <4>3
    <3>. QED
      BY <3>1, <3>2
  <2>6. ASSUME NEW g \in Handlers
        PROVE  /\ \A y \in request'[g].list : row'[y] # NULL
               /\ \A x \in request'[g].take :
                    /\ row'[x] # NULL
                    /\ row'[x].cid \in Excluded \/ Listed(row[x].cid, request[g].list)'
    <3>1. CASE g = h
      BY <1>4, <3>1
    <3>2. CASE g # h
      <4>1. request'[g] = request[g]
        BY <1>4, <3>2
      <4>2. \A y \in request[g].list : row'[y] # NULL
        BY <2>1, <2>2 DEF Inv, RowInv
      <4>3. ASSUME NEW x \in request[g].take
            PROVE  /\ row'[x] # NULL
                   /\ row'[x].cid \in Excluded \/ \E y \in request[g].list :
                        row'[y] # NULL /\ row'[y].cid = row'[x].cid
        <5>1. row[x] # NULL /\ (row[x].cid \in Excluded \/ Listed(row[x].cid, request[g].list))
          BY DEF Inv, RowInv
        <5>. QED
          BY <2>1, <2>2, <5>1 DEF Listed
      <4>. QED
        BY <4>1, <4>2, <4>3 DEF Listed
    <3>. QED
      BY <3>1, <3>2
  <2>. QED
    BY <2>4, <2>5, <2>6 DEF RowInv
<1>8. PublishInv'
  BY <1>1, <1>2, <1>3, <1>4 DEF Inv, PublishInv, publisher, NewUpdate
<1>9. Traversable' /\ PublishedInv'
  BY <1>1, <1>3 DEF Inv, Traversable, PublishedInv, Covered, publisher
<1>10. DownInv'
  BY <1>4 DEF Inv, DownInv
<1>. QED
  BY <1>5, <1>6, <1>7, <1>8, <1>9, <1>10 DEF Inv

-----------------------------------------------------------------------------
(* The publisher's steps.                                                  *)

(* They leave the tables alone.                                            *)
LEMMA TablesAlone ==
  ASSUME Inv, UNCHANGED database,
         \A h \in Handlers :
           \/ /\ request'[h].list = request[h].list
              /\ request'[h].take = request[h].take
           \/ request'[h].list = {} /\ request'[h].take = {}
  PROVE  ChainInv' /\ RowInv'
<1>1. Stored' = Stored
  BY DEF Stored, database
<1>2. \A h \in Handlers :
        /\ \A y \in request'[h].list : row'[y] # NULL
        /\ \A x \in request'[h].take :
             /\ row'[x] # NULL
             /\ row'[x].cid \in Excluded \/ \E y \in request'[h].list :
                  row'[y] # NULL /\ row'[y].cid = row'[x].cid
  BY DEF Inv, RowInv, Listed, database
<1>. QED
  BY <1>1, <1>2 DEF Inv, ChainInv, RowInv, Listed, database

LEMMA MetaAt ==
  ASSUME TypeOK, NEW m \in Metas
  PROVE  meta[m] \in MetaRecords /\ Metas = 1..Len(meta) /\ Len(meta) \in Nat /\ m # 0
<1>1. meta \in Seq(MetaRecords) /\ m \in 1..Len(meta)
  BY DEF TypeOK, MetaRecords, Metas
<1>. QED
  BY <1>1, ElementOfSeq DEF Metas

LEMMA StoreStep ==
  ASSUME Inv, NEW h \in Handlers, StoreMetadata(h)
  PROVE  Inv'
<1>. DEFINE m == Len(meta) + 1
            r == [payload |-> request[h].update, previous |-> latest]
            q == [request[h] EXCEPT !.pc = "set", !.meta = m]
<1>1. /\ request[h].pc = "publish" /\ lock = NULL /\ lock' = h
      /\ meta' = Append(meta, r)
      /\ request' = [request EXCEPT ![h] = q]
      /\ UNCHANGED <<database, latest, root, process, published, faults>>
  BY DEF StoreMetadata
<1>2. /\ meta \in Seq(MetaRecords) /\ Metas = 1..Len(meta) /\ Len(meta) \in Nat
      /\ Stored \in SUBSET Nat
  BY DEF Inv, TypeOK, MetaRecords, Metas, Stored
<1>3. request[h] \in RequestRecords(Stored, Metas) /\ request[h].update \in Stored
  BY <1>1 DEF Inv, TypeOK, RequestRecords, PublishInv
<1>4. r \in MetaRecords
  BY <1>2, <1>3 DEF Inv, TypeOK, MetaRecords
<1>5. /\ meta' \in Seq(MetaRecords) /\ Len(meta') = m /\ meta'[m] = r
      /\ \A k \in Metas : meta'[k] = meta[k]
      /\ Metas' = 1..m /\ Metas \subseteq Metas' /\ m \in Metas'
  <2>. HIDE DEF r
  <2>1. /\ meta' \in Seq(MetaRecords) /\ Len(meta') = m /\ meta'[m] = r
        /\ \A k \in 1..Len(meta) : meta'[k] = meta[k]
    BY <1>1, <1>2, <1>4, AppendProperties
  <2>. QED
    BY <1>2, <2>1 DEF Metas
<1>6. /\ q \in RequestRecords(Stored, Metas') /\ q.pc = "set" /\ q.meta = m
      /\ q.list = request[h].list /\ q.take = request[h].take /\ q.update = request[h].update
  BY <1>3, <1>5 DEF RequestRecords
<1>7. Stored' = Stored
  BY <1>1 DEF Stored, database
<1>8. Linked(latest) \subseteq Linked(latest)' /\ Linked(root) \subseteq Linked(root)'
  <2>1. \A p : Linked(p) \subseteq Linked(p)'
    BY <1>1, <1>2, <1>4, LinkedGrows DEF Inv
  <2>. QED
    BY <1>1, <2>1 DEF Linked
<1>. HIDE DEF m, r, q
<1>9. request'[h] = q /\ \A g \in Handlers \ {h} : request'[g] = request[g]
  BY <1>1 DEF Inv, TypeOK
<1>10. TypeOK'
  <2>1. \A g \in Handlers : request[g] \in RequestRecords(Stored, Metas')
    BY <1>5 DEF Inv, TypeOK, RequestRecords
  <2>2. request' \in [Handlers -> RequestRecords(Stored', Metas')]
    BY <1>1, <1>6, <1>7, <2>1 DEF Inv, TypeOK
  <2>3. \A g \in Handlers : lock' = g <=> request'[g].pc \in {"set", "announce"}
    BY <1>1, <1>6, <1>9, ConstantsAssumption DEF Inv, TypeOK
  <2>. QED
    BY <1>1, <1>5, <1>7, <2>2, <2>3 DEF Inv, TypeOK, RequestRecords, MetaRecords, database
<1>11. ChainInv' /\ RowInv'
  BY <1>1, <1>6, <1>9, TablesAlone
<1>12. PublishInv'
  <2>1. ASSUME NEW g \in Handlers \ {h} PROVE request'[g].pc \notin {"set", "announce"}
    BY <1>1, <1>9, ConstantsAssumption DEF Inv, TypeOK
  <2>2. meta'[m].payload = q.update /\ meta'[m].previous = latest
    BY <1>5, <1>6 DEF r
  <2>. QED
    BY <1>1, <1>3, <1>5, <1>6, <1>7, <1>9, <2>1, <2>2 DEF Inv, PublishInv
<1>13. Traversable'
  <2>1. meta'[m].payload \in Stored' /\ meta'[m].previous \in Metas' \union {0}
    <3>1. r.payload = request[h].update /\ r.previous = latest
      BY DEF r
    <3>2. latest \in Metas' \union {0}
      BY <1>5 DEF Inv, Traversable
    <3>. QED
      BY <1>3, <1>5, <1>7, <3>1, <3>2
  <2>. QED
    BY <1>1, <1>2, <1>5, <1>7, <2>1 DEF m, Inv, Traversable
<1>14. PublishedInv'
  <2>1. \A k \in Linked(latest) \union Linked(root) : meta'[k] = meta[k]
    BY <1>5 DEF Linked
  <2>2. ASSUME NEW u, Covered(u, latest) PROVE \E l \in Linked(latest)' : meta'[l].payload = u
    BY <1>8, <2>1, <2>2 DEF Covered
  <2>3. ASSUME NEW u, Covered(u, root) PROVE \E l \in Linked(root)' : meta'[l].payload = u
    BY <1>8, <2>1, <2>3 DEF Covered
  <2>4. \A u \in published : /\ \E l \in Linked(latest)' : meta'[l].payload = u
                             /\ process = "up" => \E l \in Linked(root)' : meta'[l].payload = u
    BY <2>2, <2>3 DEF Inv, PublishedInv
  <2>. QED
    BY <1>1, <2>4 DEF PublishedInv, Covered
<1>15. DownInv'
  BY <1>1 DEF Inv, DownInv
<1>. QED
  BY <1>10, <1>11, <1>12, <1>13, <1>14, <1>15 DEF Inv

LEMMA SetLatestStep ==
  ASSUME Inv, NEW h \in Handlers, SetLatest(h)
  PROVE  Inv' /\ Linked(latest) \subseteq Linked(latest')
<1>. DEFINE q == [request[h] EXCEPT !.pc = "announce"]
<1>1. /\ request[h].pc = "set" /\ latest' = request[h].meta
      /\ request' = [request EXCEPT ![h] = q]
      /\ UNCHANGED <<database, lock, meta, root, process, published, faults>>
  BY DEF SetLatest
<1>2. /\ request[h].meta \in Metas /\ meta[request[h].meta].payload = request[h].update
      /\ meta[request[h].meta].previous = latest /\ request[h].update \in Stored
      /\ lock = h
  BY <1>1 DEF Inv, PublishInv, TypeOK
<1>3. /\ q \in RequestRecords(Stored, Metas) /\ q.pc = "announce" /\ q.meta = request[h].meta
      /\ q.list = request[h].list /\ q.take = request[h].take /\ q.update = request[h].update
  BY <1>1, <1>2 DEF Inv, TypeOK, RequestRecords
<1>4. Stored' = Stored /\ Metas' = Metas /\ \A m : Linked(m)' = Linked(m)
  BY <1>1 DEF Stored, Metas, Linked, database
<1>. HIDE DEF q
<1>5. request'[h] = q /\ \A g \in Handlers \ {h} : request'[g] = request[g]
  BY <1>1 DEF Inv, TypeOK
<1>6. \A g \in Handlers \ {h} : request[g].pc \notin {"set", "announce"}
  BY <1>2 DEF Inv, TypeOK
<1>7. Linked(latest) \subseteq Linked(latest')
  <2>1. 0 \notin Metas
    BY MetaAt DEF Inv
  <2>. QED
    BY <1>1, <1>2, <2>1, LinkedBehind
<1>8. TypeOK'
  <2>1. request' \in [Handlers -> RequestRecords(Stored', Metas')]
    BY <1>1, <1>3, <1>4 DEF Inv, TypeOK, RequestRecords
  <2>2. \A g \in Handlers : lock' = g <=> request'[g].pc \in {"set", "announce"}
    BY <1>1, <1>2, <1>3, <1>5, <1>6 DEF Inv, TypeOK
  <2>3. latest' \in Nat
    BY <1>1, <1>2, MetaAt DEF Inv
  <2>. QED
    BY <1>1, <1>4, <2>1, <2>2, <2>3 DEF Inv, TypeOK, RequestRecords, database
<1>9. ChainInv' /\ RowInv'
  BY <1>1, <1>3, <1>5, TablesAlone
<1>10. PublishInv'
  BY <1>1, <1>2, <1>3, <1>4, <1>5, <1>6 DEF Inv, PublishInv
<1>11. Traversable' /\ DownInv'
  BY <1>1, <1>2, <1>4, ConstantsAssumption DEF Inv, Traversable, DownInv
<1>12. PublishedInv'
  BY <1>1, <1>4, <1>7 DEF Inv, PublishedInv, Covered
<1>. QED
  BY <1>7, <1>8, <1>9, <1>10, <1>11, <1>12 DEF Inv

(* A handler leaves Publish, with the root it leaves behind.               *)
LEMMA LeaveStep ==
  ASSUME Inv, NEW h \in Handlers, process # "down",
         request[h].pc \in {"publish", "set", "announce"},
         request' = [request EXCEPT ![h] = Idle],
         lock' = IF lock = h THEN NULL ELSE lock, faults' \in Nat,
         UNCHANGED <<database, meta, latest, process>>,
         \/ root' = root
         \/ request[h].pc = "announce" /\ root' = request[h].meta,
         \/ published' = published
         \/ /\ request[h].pc = "announce" /\ root' = request[h].meta
            /\ published' = published \union {request[h].update}
  PROVE  Inv'
<1>1. /\ Idle.pc = "idle" /\ Idle.list = {} /\ Idle.take = {}
      /\ Idle \in RequestRecords(Stored, Metas)
  BY DEF Idle, RequestRecords
<1>2. Stored' = Stored /\ Metas' = Metas /\ \A m : Linked(m)' = Linked(m)
  BY DEF Stored, Metas, Linked, database
<1>3. request'[h] = Idle /\ \A g \in Handlers \ {h} : request'[g] = request[g]
  BY DEF Inv, TypeOK
<1>4. request[h].pc = "announce" =>
        /\ request[h].meta = latest /\ latest \in Metas
        /\ meta[latest].payload = request[h].update /\ request[h].update \in Stored
  BY DEF Inv, PublishInv
<1>5. TypeOK'
  <2>1. request' \in [Handlers -> RequestRecords(Stored', Metas')]
    BY <1>1, <1>2 DEF Inv, TypeOK, RequestRecords
  <2>2. \A g \in Handlers : lock' = g <=> request'[g].pc \in {"set", "announce"}
    BY <1>1, <1>3, ConstantsAssumption DEF Inv, TypeOK
  <2>3. root' \in Nat /\ published' \subseteq Stored /\ lock' \in Handlers \union {NULL}
    BY <1>4 DEF Inv, TypeOK
  <2>. QED
    BY <1>2, <2>1, <2>2, <2>3 DEF Inv, TypeOK, RequestRecords, database
<1>6. ChainInv' /\ RowInv'
  BY <1>1, <1>3, TablesAlone
<1>7. PublishInv'
  BY <1>1, <1>2, <1>3 DEF Inv, PublishInv
<1>8. Traversable' /\ DownInv'
  BY <1>2, <1>4 DEF Inv, Traversable, DownInv
<1>9. PublishedInv'
  <2>1. \A u \in published' : Covered(u, latest)
    BY <1>4, LinkedSelf DEF Inv, PublishedInv, Covered
  <2>2. \A u \in published' : process = "up" => Covered(u, root')
    BY <1>4, <2>1 DEF Inv, PublishedInv
  <2>. QED
    BY <1>2, <2>1, <2>2 DEF PublishedInv, Covered
<1>. QED
  BY <1>5, <1>6, <1>7, <1>8, <1>9 DEF Inv

LEMMA ProcessStep ==
  ASSUME Inv, Shutdown \/ Exit \/ Crash \/ Start
  PROVE  Inv'
<1>1. /\ UNCHANGED <<database, meta, latest, published>> /\ faults' \in Nat
      /\ root' \in {0, root, latest} /\ process' \in {"up", "closed", "down"}
      /\ process' = "up" => root' = latest
      /\ lock' \in {lock, NULL}
  BY DEF Shutdown, Exit, Crash, Start, publisher, Fault, Inv, TypeOK
<1>2. \/ request' = request /\ lock' = lock
      \/ request' = [h \in Handlers |-> Idle] /\ lock' = NULL
  BY DEF Shutdown, Exit, Crash, Start, publisher
<1>3. /\ Idle.pc = "idle" /\ Idle.list = {} /\ Idle.take = {}
      /\ Idle \in RequestRecords(Stored, Metas)
  BY DEF Idle, RequestRecords
<1>4. Stored' = Stored /\ Metas' = Metas /\ \A m : Linked(m)' = Linked(m)
  BY <1>1 DEF Stored, Metas, Linked, database
<1>5. TypeOK'
  <2>1. request' \in [Handlers -> RequestRecords(Stored', Metas')]
    BY <1>2, <1>3, <1>4 DEF Inv, TypeOK, RequestRecords
  <2>2. \A g \in Handlers : lock' = g <=> request'[g].pc \in {"set", "announce"}
    BY <1>2, <1>3, ConstantsAssumption DEF Inv, TypeOK
  <2>. QED
    BY <1>1, <1>4, <2>1, <2>2 DEF Inv, TypeOK, RequestRecords, database
<1>6. ChainInv' /\ RowInv'
  <2>1. \A h \in Handlers :
          \/ /\ request'[h].list = request[h].list
             /\ request'[h].take = request[h].take
          \/ request'[h].list = {} /\ request'[h].take = {}
    BY <1>2, <1>3
  <2>. QED
    BY <1>1, <2>1, TablesAlone
<1>7. PublishInv'
  BY <1>1, <1>2, <1>3, <1>4 DEF Inv, PublishInv
<1>8. Traversable'
  BY <1>1, <1>4 DEF Inv, Traversable
<1>9. PublishedInv'
  BY <1>1, <1>4 DEF Inv, PublishedInv, Covered
<1>10. DownInv'
  <2>1. SUFFICES ASSUME process' = "down"
                 PROVE  lock' = NULL /\ \A h \in Handlers : request'[h].pc = "idle"
    BY DEF DownInv
  <2>2. CASE Crash
    BY <1>3, <2>2 DEF Crash
  <2>3. CASE Exit
    <3>1. \A h \in Handlers : request[h].pc = "idle"
      BY <2>3 DEF Exit
    <3>2. lock = NULL
      BY <3>1 DEF Inv, TypeOK
    <3>. QED
      BY <2>3, <3>1, <3>2 DEF Exit, publisher
  <2>4. CASE Shutdown \/ Start
    BY <2>1, <2>4 DEF Shutdown, Start
  <2>. QED
    BY <2>2, <2>3, <2>4
<1>. QED
  BY <1>5, <1>6, <1>7, <1>8, <1>9, <1>10 DEF Inv

-----------------------------------------------------------------------------
LEMMA InvStep == Inv /\ [Next]_vars => Inv'
<1>. SUFFICES ASSUME Inv, [Next]_vars PROVE Inv'
  OBVIOUS
<1>1. CASE \E x \in Rows, c \in Records, w \in Workers : FinishTask(x, c, w)
  BY <1>1, FinishStep
<1>2. ASSUME NEW h \in Handlers, NEW w \in Workers, Complete(h, w) PROVE Inv'
  <2>1. /\ request[h].pc = "idle" /\ process # "down"
        /\ request' = [request EXCEPT ![h] = Snapshot(w)]
        /\ UNCHANGED <<database, publisher, process, published, faults>>
    BY <1>2 DEF Complete
  <2>. QED
    BY <2>1, SnapshotStep
<1>3. ASSUME NEW h \in Handlers, CommitUpdate(h) PROVE Inv'
  <2>. DEFINE q == [Idle EXCEPT !.pc = "publish", !.update = NewUpdate]
  <2>1. Len(update) \in Nat /\ NewUpdate \in Stored'
    <3>1. WriteUpdate(h) /\ Serializable(h)
      BY <1>3 DEF CommitUpdate
    <3>2. Stored' = 1..Len(update)+1
      BY <3>1, WriteType
    <3>3. Len(update) \in Nat
      BY HeadIsLast DEF Inv
    <3>. QED
      BY <3>2, <3>3 DEF NewUpdate
  <2>2. /\ q \in RequestRecords(Stored', Metas) /\ q.pc = "publish"
        /\ q.list = {} /\ q.take = {} /\ q.update = NewUpdate
    BY <2>1 DEF Idle, RequestRecords
  <2>3. /\ request[h].pc = "commit" /\ Serializable(h) /\ WriteUpdate(h)
        /\ request' = [request EXCEPT ![h] = q] /\ faults' \in Nat
        /\ UNCHANGED <<publisher, process, published>>
    BY <1>3 DEF CommitUpdate, Inv, TypeOK
  <2>. HIDE DEF q
  <2>. QED
    BY <2>2, <2>3, CommitStep
<1>4. ASSUME NEW h \in Handlers, CommitUnacknowledged(h) PROVE Inv'
  <2>. DEFINE q == [Idle EXCEPT !.pc = "retry", !.worker = request[h].worker]
  <2>1. request[h].worker \in Workers \union {NULL}
    BY DEF Inv, TypeOK
  <2>2. /\ q \in RequestRecords(Stored', Metas) /\ q.pc = "retry"
        /\ q.list = {} /\ q.take = {}
    BY <2>1 DEF Idle, RequestRecords
  <2>3. /\ request[h].pc = "commit" /\ Serializable(h) /\ WriteUpdate(h)
        /\ request' = [request EXCEPT ![h] = q] /\ faults' \in Nat
        /\ UNCHANGED <<publisher, process, published>>
    BY <1>4 DEF CommitUnacknowledged, Fault, Inv, TypeOK
  <2>. HIDE DEF q
  <2>. QED
    BY <2>2, <2>3, CommitStep
<1>5. ASSUME NEW h \in Handlers, RetryUpdate(h) PROVE Inv'
  <2>1. /\ request[h].pc \in {"commit", "retry"}
        /\ request' = [request EXCEPT ![h] = Snapshot(request[h].worker)]
        /\ UNCHANGED <<database, publisher, process, published, faults>>
    BY <1>5 DEF RetryUpdate
  <2>2. request[h].worker \in Workers \union {NULL} /\ process # "down"
    BY <2>1 DEF Inv, TypeOK, DownInv
  <2>. QED
    BY <2>1, <2>2, SnapshotStep
<1>6. ASSUME NEW h \in Handlers, FailUpdate(h) PROVE Inv'
  BY <1>6, FailUpdateStep
<1>7. ASSUME NEW h \in Handlers, StoreMetadata(h) PROVE Inv'
  BY <1>7, StoreStep
<1>8. ASSUME NEW h \in Handlers, SetLatest(h) PROVE Inv'
  BY <1>8, SetLatestStep
<1>9. ASSUME NEW h \in Handlers, Announce(h) PROVE Inv'
  <2>1. lock = h
    BY <1>9 DEF Announce, Inv, TypeOK
  <2>. QED
    BY <1>9, <2>1, LeaveStep DEF Announce, Inv, TypeOK
<1>10. ASSUME NEW h \in Handlers, FailPublish(h) PROVE Inv'
  <2>1. /\ request[h].pc \in {"publish", "set", "announce"}
        /\ request' = [request EXCEPT ![h] = Idle]
        /\ lock' = IF lock = h THEN NULL ELSE lock
        /\ UNCHANGED <<database, meta, latest, process, published>>
        /\ root' = root \/ (request[h].pc = "announce" /\ root' = request[h].meta)
    BY <1>10 DEF FailPublish
  <2>2. process # "down" /\ faults' \in Nat
    BY <1>10, <2>1 DEF FailPublish, Fault, Inv, TypeOK, DownInv
  <2>. QED
    BY <2>1, <2>2, LeaveStep
<1>11. CASE Shutdown \/ Exit \/ Crash \/ Start
  BY <1>11, ProcessStep
<1>12. CASE Finished \/ UNCHANGED vars
  <2>1. UNCHANGED vars
    BY <1>12 DEF Finished
  <2>2. /\ UNCHANGED database /\ Stored' = Stored /\ Metas' = Metas
        /\ \A m : Linked(m)' = Linked(m)
    BY <2>1 DEF vars, database, Stored, Metas, Linked
  <2>3. ChainInv' /\ RowInv'
    BY <2>1, <2>2, TablesAlone DEF vars
  <2>4. TypeOK'
    BY <2>1, <2>2 DEF vars, Inv, TypeOK
  <2>. QED
    BY <2>1, <2>2, <2>3, <2>4 DEF vars, Inv, PublishInv, Traversable, PublishedInv,
                                  Covered, DownInv
<1>. QED
  BY <1>1, <1>2, <1>3, <1>4, <1>5, <1>6, <1>7, <1>8, <1>9, <1>10, <1>11, <1>12 DEF Next

(* The invariant holds in every reachable state.                           *)
THEOREM InvHolds == Spec => []Inv
<1>1. Init => Inv
  BY InvInit
<1>2. Inv /\ [Next]_vars => Inv'
  BY InvStep
<1>. QED
  BY <1>1, <1>2, PTL DEF Spec

(* The state has its type, and the publisher's lock is held by the handler *)
(* that publishes and by no other.                                         *)
THEOREM TypeCorrect == Spec => []TypeOK
<1>1. Inv => TypeOK
  BY DEF Inv
<1>. QED
  BY <1>1, InvHolds, PTL

(* Whatever completes at once, is retried or fails, the updates are one    *)
(* chain with one head.                                                    *)
THEOREM ChainNeverForks == Spec => []NoFork
<1>1. Inv => NoFork
  <2>. SUFFICES ASSUME Inv PROVE NoFork
    OBVIOUS
  <2>1. Stored = 1..Len(update) /\ Len(update) \in Nat
    BY HeadIsLast DEF Inv
  <2>. QED
    BY <2>1 DEF Inv, ChainInv, NoFork
<1>. QED
  BY <1>1, InvHolds, PTL

(* No attached record is missing from the updates the head leads to.       *)
THEOREM RecordsReachable == Spec => []NothingLost
<1>1. Inv => NothingLost
  <2>. SUFFICES ASSUME Inv, NEW x \in Rows, row[x] # NULL, row[x].attached,
                       row[x].cid \notin Excluded
                PROVE  \E u \in Back(LatestHead) : \E y \in update[u].list : row[y].cid = row[x].cid
    BY DEF NothingLost
  <2>1. PICK u \in Stored : Listed(row[x].cid, update[u].list)
    BY DEF Inv, RowInv
  <2>2. /\ LatestHead = Len(update) /\ Len(update) \in Nat /\ Stored = 1..Len(update)
    BY HeadIsLast DEF Inv
  <2>3. LatestHead \in Stored
    BY <2>1, <2>2
  <2>4. u \in Back(LatestHead)
    BY <2>2, <2>3, BackIsAll DEF Inv
  <2>. QED
    BY <2>1, <2>4 DEF Listed
<1>. QED
  BY <1>1, InvHolds, PTL

(* What the publisher's roots link to is stored, whatever fails between    *)
(* its steps.                                                              *)
THEOREM RootsTraversable == Spec => []Traversable
<1>1. Inv => Traversable
  BY DEF Inv
<1>. QED
  BY <1>1, InvHolds, PTL

(* One publication that succeeds makes up for all that failed before it.   *)
THEOREM PublicationHeals == Spec => []SelfHealing
<1>1. Inv => SelfHealing
  <2>. SUFFICES ASSUME Inv, process = "up", NEW u \in published
                PROVE  1..u \subseteq Reach(root)
    BY DEF SelfHealing
  <2>1. PICK k \in Linked(root) : meta[k].payload = u
    BY DEF Inv, PublishedInv, Covered
  <2>2. Back(u) = 1..u
    BY BackIsAll DEF Inv, TypeOK
  <2>. QED
    BY <2>1, <2>2 DEF Reach
<1>. QED
  BY <1>1, InvHolds, PTL

-----------------------------------------------------------------------------
(* What can be reached only grows.                                         *)

(* What a stored metadata block leads to, and the updates behind it, do    *)
(* not change.                                                             *)
LEMMA StepGrows ==
  ASSUME Inv, [Next]_vars
  PROVE  /\ Stored \subseteq Stored' /\ \A u \in Stored : update'[u] = update[u]
         /\ Linked(latest) \subseteq Linked(latest)'
         /\ \A k \in Linked(latest) : meta'[k] = meta[k]
<1>1. CASE UNCHANGED <<meta, latest>>
  <2>1. Linked(latest) \subseteq Linked(latest)' /\ \A k \in Linked(latest) : meta'[k] = meta[k]
    BY <1>1 DEF Linked, Metas
  <2>2. CASE UNCHANGED update
    BY <2>1, <2>2 DEF Stored
  <2>3. CASE \E h \in Handlers : CommitUpdate(h) \/ CommitUnacknowledged(h)
    BY <2>1, <2>3, WriteType DEF CommitUpdate, CommitUnacknowledged
  <2>4. UNCHANGED update \/ \E h \in Handlers : CommitUpdate(h) \/ CommitUnacknowledged(h)
    BY DEF Next, vars, database, FinishTask, Complete, RetryUpdate, FailUpdate, StoreMetadata,
           SetLatest, Announce, FailPublish, Shutdown, Exit, Crash, Start, Finished
  <2>. QED
    BY <2>2, <2>3, <2>4
<1>2. ASSUME NEW h \in Handlers, SetLatest(h)
      PROVE  /\ Linked(latest) \subseteq Linked(latest)' /\ UNCHANGED <<update, meta>>
  <2>1. Linked(latest) \subseteq Linked(latest') /\ UNCHANGED <<update, meta>>
    BY <1>2, SetLatestStep DEF SetLatest, database
  <2>. QED
    BY <2>1 DEF Linked, Metas
<1>3. ASSUME NEW h \in Handlers, StoreMetadata(h)
      PROVE  /\ Linked(latest) \subseteq Linked(latest)' /\ UNCHANGED update
             /\ \A k \in Linked(latest) : meta'[k] = meta[k]
  <2>. DEFINE r == [payload |-> request[h].update, previous |-> latest]
  <2>1. r \in MetaRecords /\ meta \in Seq(MetaRecords)
    <3>1. request[h].update \in Stored /\ Stored \in SUBSET Nat /\ latest \in Nat
      BY <1>3 DEF Inv, TypeOK, Stored, PublishInv, StoreMetadata
    <3>. QED
      BY <3>1 DEF Inv, TypeOK, MetaRecords
  <2>2. meta' = Append(meta, r) /\ latest' = latest /\ update' = update
    BY <1>3 DEF StoreMetadata, database
  <2>. HIDE DEF r
  <2>3. \A m : Linked(m) \subseteq Linked(m)'
    BY <2>1, <2>2, LinkedGrows DEF Inv
  <2>4. \A k \in Metas : meta'[k] = meta[k]
    BY <2>1, <2>2, LinkedGrows DEF Inv
  <2>. QED
    BY <2>2, <2>3, <2>4 DEF Linked
<1>4. UNCHANGED <<meta, latest>> \/ \E h \in Handlers : SetLatest(h) \/ StoreMetadata(h)
  BY DEF Next, vars, publisher, FinishTask, Complete, CommitUpdate, CommitUnacknowledged,
         RetryUpdate, FailUpdate, Announce, FailPublish, Shutdown, Exit, Crash, Start, Finished
<1>. QED
  BY <1>1, <1>2, <1>3, <1>4 DEF Stored

LEMMA ReachIntervals ==
  Inv => Reach(latest) = UNION {1..meta[k].payload : k \in Linked(latest)}
<1>. SUFFICES ASSUME Inv
              PROVE  Reach(latest) = UNION {1..meta[k].payload : k \in Linked(latest)}
  OBVIOUS
<1>1. \A k \in Linked(latest) : Back(meta[k].payload) = 1..meta[k].payload
  <2>1. \A k \in Linked(latest) : meta[k].payload \in Stored
    BY DEF Linked, Inv, Traversable
  <2>. QED
    BY <2>1, BackIsAll DEF Inv
<1>. QED
  BY <1>1 DEF Reach

(* What has been reachable from the stored root stays so, across failures  *)
(* and restarts.                                                           *)
THEOREM ReachOnlyGrows == Spec => NeverWithdrawn
<1>1. Inv /\ Inv' /\ [Next]_vars => [Reach(latest) \subseteq Reach(latest)']_vars
  <2>. SUFFICES ASSUME Inv, Inv', [Next]_vars PROVE Reach(latest) \subseteq Reach(latest)'
    OBVIOUS
  <2>1. Reach(latest) = UNION {1..meta[k].payload : k \in Linked(latest)}
    BY ReachIntervals
  <2>2. (Reach(latest) = UNION {1..meta[k].payload : k \in Linked(latest)})'
    BY ReachIntervals, PTL
  <2>3. /\ Linked(latest) \subseteq Linked(latest)'
        /\ \A k \in Linked(latest) : meta'[k] = meta[k]
    BY StepGrows
  <2>. QED
    BY <2>1, <2>2, <2>3
<1>2. Inv /\ [Next]_vars => Inv'
  BY InvStep
<1>3. Init => Inv
  BY InvInit
<1>. QED
  BY <1>1, <1>2, <1>3, PTL DEF Spec, NeverWithdrawn

-----------------------------------------------------------------------------
(* The chain implements the log.                                           *)

(* A snapshot with the current head is still true.                         *)
SnapshotInv == \A h \in Handlers :
  request[h].pc = "commit" /\ request[h].head = Len(update) =>
    \A y \in request[h].list :
      y \in request[h].take /\ row[y] # NULL /\ ~row[y].attached

LEMMA SnapshotInvStep == Inv /\ SnapshotInv /\ [Next]_vars => SnapshotInv'
<1>. SUFFICES ASSUME Inv, SnapshotInv, [Next]_vars PROVE SnapshotInv'
  OBVIOUS
<1>1. Len(update) \in Nat /\ Stored = 1..Len(update) /\ LatestHead = Len(update)
  BY HeadIsLast DEF Inv
<1>2. ASSUME NEW x \in Rows, NEW c \in Records, NEW w \in Workers, FinishTask(x, c, w)
      PROVE  SnapshotInv'
  <2>1. /\ row[x] = NULL /\ UNCHANGED <<update, request>>
        /\ \A y \in Rows \ {x} : row'[y] = row[y]
    BY <1>2 DEF FinishTask, Inv, TypeOK
  <2>2. \A h \in Handlers : request[h].list \in SUBSET Rows
    BY DEF Inv, TypeOK
  <2>. QED
    BY <2>1, <2>2 DEF SnapshotInv
<1>3. ASSUME NEW h \in Handlers, NEW w, UNCHANGED database,
             request' = [request EXCEPT ![h] = Snapshot(w)]
      PROVE  SnapshotInv'
  <2>1. \A y \in Snapshot(w).list : y \in Snapshot(w).take /\ row[y] # NULL /\ ~row[y].attached
    BY DEF Snapshot, Idle, Unattached, SameCid
  <2>2. request'[h] = Snapshot(w) /\ \A g \in Handlers \ {h} : request'[g] = request[g]
    BY <1>3 DEF Inv, TypeOK
  <2>. QED
    BY <1>3, <2>1, <2>2 DEF SnapshotInv, database
<1>4. ASSUME NEW h \in Handlers, WriteUpdate(h), Serializable(h), NEW q, q.pc # "commit",
             request' = [request EXCEPT ![h] = q]
      PROVE  SnapshotInv'
  <2>1. Len(update') = Len(update) + 1
    BY <1>4, WriteType
  <2>2. \A g \in Handlers : request[g].head # Len(update) + 1
    <3>. SUFFICES ASSUME NEW g \in Handlers PROVE request[g].head # Len(update) + 1
      OBVIOUS
    <3>1. request[g].head \in Stored \union {0}
      BY DEF Inv, TypeOK
    <3>. QED
      BY <3>1, <1>1
  <2>3. request'[h] = q /\ \A g \in Handlers \ {h} : request'[g] = request[g]
    BY <1>4 DEF Inv, TypeOK
  <2>. QED
    BY <1>4, <2>1, <2>2, <2>3 DEF SnapshotInv
<1>5. ASSUME UNCHANGED database,
             \A g \in Handlers : request'[g] = request[g] \/ request'[g].pc # "commit"
      PROVE  SnapshotInv'
  BY <1>5 DEF SnapshotInv, database
<1>6. ASSUME NEW h \in Handlers, NEW w \in Workers, Complete(h, w) PROVE SnapshotInv'
  BY <1>3, <1>6 DEF Complete
<1>7. ASSUME NEW h \in Handlers, RetryUpdate(h) PROVE SnapshotInv'
  BY <1>3, <1>7 DEF RetryUpdate
<1>8. ASSUME NEW h \in Handlers, CommitUpdate(h) \/ CommitUnacknowledged(h) PROVE SnapshotInv'
  <2>1. /\ [Idle EXCEPT !.pc = "publish", !.update = NewUpdate].pc # "commit"
        /\ [Idle EXCEPT !.pc = "retry", !.worker = request[h].worker].pc # "commit"
    BY DEF Idle
  <2>. QED
    BY <1>4, <1>8, <2>1 DEF CommitUpdate, CommitUnacknowledged
<1>9. ASSUME NEW h \in Handlers, FailUpdate(h) \/ Announce(h) \/ FailPublish(h)
      PROVE  SnapshotInv'
  <2>1. UNCHANGED database /\ request' = [request EXCEPT ![h] = Idle] /\ Idle.pc = "idle"
    BY <1>9 DEF FailUpdate, Announce, FailPublish, Idle
  <2>. QED
    BY <1>5, <2>1 DEF Inv, TypeOK
<1>10. ASSUME NEW h \in Handlers, StoreMetadata(h) \/ SetLatest(h)
       PROVE  SnapshotInv'
  <2>1. UNCHANGED database /\ \A g \in Handlers \ {h} : request'[g] = request[g]
    BY <1>10 DEF StoreMetadata, SetLatest, Inv, TypeOK
  <2>2. request'[h].pc \in {"set", "announce"}
    BY <1>10 DEF StoreMetadata, SetLatest, Inv, TypeOK
  <2>. QED
    BY <1>5, <2>1, <2>2
<1>11. CASE Shutdown \/ Exit \/ Crash \/ Start \/ Finished \/ UNCHANGED vars
  <2>1. UNCHANGED database /\ (request' = request \/ request' = [h \in Handlers |-> Idle])
    BY <1>11 DEF Shutdown, Exit, Crash, Start, Finished, vars, database
  <2>2. Idle.pc # "commit"
    BY DEF Idle
  <2>. QED
    BY <1>5, <2>1, <2>2
<1>. QED
  BY <1>2, <1>6, <1>7, <1>8, <1>9, <1>10, <1>11 DEF Next

(* The log that the chain stands for.                                      *)
Lists == [i \in 1..Len(update) |-> update[i].list]

LEMMA IntervalCardinality == ASSUME NEW n \in Nat PROVE Cardinality(1..n) = n
BY FS_Interval

LEMMA ChainIsLists == Inv => Chain = Lists
<1>. SUFFICES ASSUME Inv PROVE Chain = Lists
  OBVIOUS
<1>1. Len(update) \in Nat /\ Stored = 1..Len(update) /\ LatestHead = Len(update)
  BY HeadIsLast DEF Inv
<1>2. Back(LatestHead) = 1..Len(update)
  <2>1. CASE Len(update) = 0
    BY <1>1, <2>1 DEF Back
  <2>2. CASE Len(update) # 0
    BY <1>1, <2>2, BackIsAll DEF Inv
  <2>. QED
    BY <2>1, <2>2
<1>3. Cardinality(1..Len(update)) = Len(update)
  BY <1>1, IntervalCardinality
<1>4. ASSUME NEW i \in 1..Len(update)
      PROVE  (CHOOSE u \in 1..Len(update) : Cardinality(Back(u)) = i) = i
  <2>1. \A u \in 1..Len(update) : Cardinality(Back(u)) = u
    <3>1. TAKE u \in 1..Len(update)
    <3>2. Back(u) = 1..u /\ u \in Int /\ u >= 1
      BY <1>1, BackIsAll DEF Inv
    <3>. QED
      BY <3>2, FS_Interval
  <2>. QED
    BY <2>1
<1>5. Chain = [i \in 1..Len(update) |->
                 update[CHOOSE u \in 1..Len(update) : Cardinality(Back(u)) = i].list]
  BY <1>2, <1>3 DEF Chain
<1>. QED
  BY <1>4, <1>5 DEF Lists

LEMMA ReachIsPrefix ==
  Inv => \E n \in 0..Len(update) : Reach(latest) = 1..n /\ Shown = n
<1>. SUFFICES ASSUME Inv
              PROVE  \E n \in 0..Len(update) : Reach(latest) = 1..n /\ Shown = n
  OBVIOUS
<1>. DEFINE P == {meta[k].payload : k \in Linked(latest)}
            T == {n \in Nat : \A p \in P : p <= n}
<1>1. Len(update) \in Nat /\ Stored = 1..Len(update)
  BY HeadIsLast DEF Inv
<1>2. P \subseteq 1..Len(update)
  BY <1>1 DEF Linked, Inv, Traversable
<1>3. Reach(latest) = UNION {1..p : p \in P}
  BY ReachIntervals
<1>. HIDE DEF P
<1>4. PICK n \in T : \A m \in T : n <= m
  <2>1. Len(update) \in T
    BY <1>1, <1>2
  <2>2. T \in SUBSET Nat /\ T # {}
    BY <2>1
  <2>. HIDE DEF T
  <2>. QED
    BY <2>2, LeastElement
<1>5. n \in 0..Len(update)
  BY <1>1, <1>2, <1>4
<1>6. n = 0 \/ n \in P
  <2>1. SUFFICES ASSUME n # 0, n \notin P PROVE FALSE
    OBVIOUS
  <2>2. n - 1 \in T
    BY <1>2, <1>4, <2>1
  <2>. QED
    BY <1>4, <2>2
<1>7. Reach(latest) = 1..n
  <2>1. \A p \in P : p \in Nat /\ p <= n
    BY <1>2, <1>4
  <2>2. n \in Nat
    BY <1>5
  <2>. QED
    BY <1>3, <1>6, <2>1, <2>2
<1>8. Shown = n
  <2>1. Cardinality(1..n) = n
    BY <1>5, FS_Interval
  <2>. QED
    BY <1>7, <2>1 DEF Shown
<1>. QED
  BY <1>5, <1>7, <1>8

(* Every step of the chain is a step of the log or leaves it alone.        *)
LEMMA LogStep ==
  ASSUME Inv, SnapshotInv, Inv', [Next]_vars
  PROVE  [Log!Next]_<<Waiting, Chain, Shown>>
<1>1. /\ Chain = Lists /\ Len(update) \in Nat /\ Stored = 1..Len(update)
      /\ LatestHead = Len(update)
  BY ChainIsLists, HeadIsLast DEF Inv
<1>2. Chain' = Lists'
  <2>1. (Inv => Chain = Lists)'
    BY ChainIsLists, PTL
  <2>. QED
    BY <2>1
<1>4. PICK m \in 0..Len(update') : Reach(latest)' = 1..m /\ Shown' = m
  <2>1. (Inv => \E n \in 0..Len(update) : Reach(latest) = 1..n /\ Shown = n)'
    BY ReachIsPrefix, PTL
  <2>. QED
    BY <2>1
<1>3. PICK n \in 0..Len(update) : Reach(latest) = 1..n /\ Shown = n
  BY ReachIsPrefix
<1>5. Len(Chain) = Len(update) /\ DOMAIN Chain = 1..Len(update)
  BY <1>1 DEF Lists
<1>6. ASSUME UNCHANGED <<update, meta, latest>>
      PROVE  Chain' = Chain /\ Shown' = Shown
  <2>1. Chain' = Chain
    BY <1>1, <1>2, <1>6 DEF Lists
  <2>2. Reach(latest)' = Reach(latest)
    BY <1>6 DEF Reach, Linked, Metas, Back, Stored
  <2>. QED
    BY <2>1, <2>2 DEF Shown
<1>7. ASSUME NEW x \in Rows, NEW c \in Records, NEW w \in Workers, FinishTask(x, c, w)
      PROVE  Log!Record
  <2>. DEFINE r == [cid |-> c, worker |-> w, attached |-> FALSE]
  <2>1. /\ row[x] = NULL /\ row' = [row EXCEPT ![x] = r]
        /\ UNCHANGED <<update, meta, latest>>
    BY <1>7 DEF FinishTask, publisher
  <2>2. r \in RowRecords /\ ~r.attached
    BY DEF RowRecords
  <2>. HIDE DEF r
  <2>3. row'[x] # NULL /\ ~row'[x].attached /\ \A y \in Rows \ {x} : row'[y] = row[y]
    BY <2>1, <2>2, ConstantsAssumption DEF Inv, TypeOK
  <2>4. x \in Rows \ Waiting /\ Waiting' = Waiting \union {x}
    BY <2>1, <2>3 DEF Waiting
  <2>5. \A i \in DOMAIN Chain : x \notin Chain[i]
    BY <1>1, <1>5, <2>1 DEF Lists, Inv, RowInv
  <2>. QED
    BY <1>6, <2>1, <2>4, <2>5 DEF Log!Record
<1>8. ASSUME NEW h \in Handlers, CommitUpdate(h) \/ CommitUnacknowledged(h)
      PROVE  Log!TakeUp
  <2>. DEFINE L == request[h].list
              S == Waiting \intersect request[h].take
  <2>1. /\ WriteUpdate(h) /\ Serializable(h) /\ request[h].pc = "commit"
        /\ UNCHANGED <<meta, latest>>
    BY <1>8 DEF CommitUpdate, CommitUnacknowledged, publisher
  <2>2. /\ Len(update') = Len(update) + 1
        /\ \A u \in Stored : update'[u] = update[u]
        /\ update'[Len(update)+1] = [list |-> L, previous |-> Len(update)]
    BY <2>1, WriteType
  <2>3. L \subseteq S
    <3>1. request[h].head = Len(update) /\ L \in SUBSET Rows
      BY <1>1, <2>1 DEF Serializable, Inv, TypeOK
    <3>. QED
      BY <2>1, <3>1 DEF SnapshotInv, Waiting
  <2>4. Waiting' = Waiting \ S
    <3>1. ASSUME NEW x \in Rows
          PROVE  (row'[x] # NULL /\ ~row'[x].attached) <=>
                 (row[x] # NULL /\ ~row[x].attached /\ x \notin request[h].take)
      <4>1. CASE x \notin request[h].take
        BY <2>1, <4>1 DEF WriteUpdate
      <4>2. CASE x \in request[h].take
        <5>1. row[x] \in RowRecords
          BY <4>2 DEF Inv, RowInv, TypeOK
        <5>2. row'[x] = [row[x] EXCEPT !.attached = TRUE]
          BY <2>1, <4>2 DEF WriteUpdate
        <5>3. row'[x].attached
          BY <5>1, <5>2 DEF RowRecords
        <5>. QED
          BY <4>2, <5>3
      <4>. QED
        BY <4>1, <4>2
    <3>. QED
      BY <3>1 DEF Waiting
  <2>5. Chain' = Append(Chain, L)
    <3>1. Lists' = [i \in 1..Len(update)+1 |-> IF i = Len(update)+1 THEN L ELSE update[i].list]
      BY <1>1, <2>2 DEF Lists
    <3>2. Append(Lists, L) = [i \in 1..Len(update)+1 |-> IF i = Len(update)+1 THEN L ELSE update[i].list]
      <4>1. Lists \in Seq(SUBSET Rows) /\ Len(Lists) = Len(update)
        BY <1>1, UpdateAt DEF Inv, Lists
      <4>2. L \in SUBSET Rows
        BY <2>3 DEF Waiting
      <4>3. /\ Append(Lists, L) \in Seq(SUBSET Rows) /\ Len(Append(Lists, L)) = Len(update) + 1
            /\ \A i \in 1..Len(update) : Append(Lists, L)[i] = Lists[i]
            /\ Append(Lists, L)[Len(update)+1] = L
        <5>. HIDE DEF L
        <5>. QED
          BY <4>1, <4>2, AppendProperties
      <4>. QED
        BY <1>1, <4>1, <4>3 DEF Lists
    <3>. QED
      BY <1>1, <1>2, <3>1, <3>2
  <2>6. Shown' = Shown
    <3>1. Linked(latest)' = Linked(latest)
      BY <2>1 DEF Linked, Metas
    <3>2. Reach(latest)' = Reach(latest)
      <4>1. Reach(latest) = UNION {1..meta[k].payload : k \in Linked(latest)}
        BY ReachIntervals
      <4>2. (Inv => Reach(latest) = UNION {1..meta[k].payload : k \in Linked(latest)})'
        BY ReachIntervals, PTL
      <4>. QED
        BY <2>1, <3>1, <4>1, <4>2
    <3>. QED
      BY <3>2 DEF Shown
  <2>. HIDE DEF L, S
  <2>7. S \in SUBSET Waiting /\ L \in SUBSET S
    BY <2>3 DEF S
  <2>. QED
    BY <2>4, <2>5, <2>6, <2>7 DEF Log!TakeUp
<1>9. ASSUME NEW h \in Handlers, StoreMetadata(h) \/ SetLatest(h)
      PROVE  Log!Show \/ UNCHANGED <<Waiting, Chain, Shown>>
  <2>1. UNCHANGED <<row, update>>
    BY <1>9 DEF StoreMetadata, SetLatest, database
  <2>2. Waiting' = Waiting /\ Chain' = Chain
    BY <1>1, <1>2, <2>1 DEF Waiting, Lists
  <2>3. 1..n \subseteq 1..m
    <3>1. Reach(latest) = UNION {1..meta[k].payload : k \in Linked(latest)}
      BY ReachIntervals
    <3>2. (Inv => Reach(latest) = UNION {1..meta[k].payload : k \in Linked(latest)})'
      BY ReachIntervals, PTL
    <3>. QED
      BY <1>3, <1>4, <3>1, <3>2, StepGrows
  <2>4. n <= m /\ n \in Nat /\ m \in Nat /\ m <= Len(update)
    <3>1. n \in Nat /\ m \in Nat /\ m <= Len(update)
      BY <1>1, <1>3, <1>4, <2>1
    <3>2. n = 0 \/ n \in 1..n
      BY <3>1
    <3>. QED
      BY <2>3, <3>1, <3>2
  <2>5. CASE n = m
    BY <1>3, <1>4, <2>2, <2>5
  <2>6. CASE n < m
    <3>1. m \in Shown + 1..Len(Chain) /\ Shown' = m
      BY <1>3, <1>4, <1>5, <2>4, <2>6
    <3>. QED
      BY <2>2, <3>1 DEF Log!Show
  <2>. QED
    BY <2>4, <2>5, <2>6
<1>10. ASSUME UNCHANGED <<row, update, meta, latest>>
       PROVE  UNCHANGED <<Waiting, Chain, Shown>>
  BY <1>6, <1>10 DEF Waiting
<1>11. \/ \E x \in Rows, c \in Records, w \in Workers : FinishTask(x, c, w)
       \/ \E h \in Handlers : CommitUpdate(h) \/ CommitUnacknowledged(h)
       \/ \E h \in Handlers : StoreMetadata(h) \/ SetLatest(h)
       \/ UNCHANGED <<row, update, meta, latest>>
  BY DEF Next, vars, database, publisher, Complete, RetryUpdate, FailUpdate, Announce,
         FailPublish, Shutdown, Exit, Crash, Start, Finished
<1>. QED
  BY <1>7, <1>8, <1>9, <1>10, <1>11 DEF Log!Next

(* The record chain is an append-only log of updates, each row in at most  *)
(* one of them, of which the outside sees a prefix that only grows.        *)
THEOREM ChainImplementsLog == Spec => ImplementsLog
<1>1. Init => Inv /\ SnapshotInv
  BY InvInit DEF Init, SnapshotInv, Idle
<1>2. Inv /\ SnapshotInv /\ [Next]_vars => Inv' /\ SnapshotInv'
  BY InvStep, SnapshotInvStep
<1>3. Init => Log!Init
  <2>. SUFFICES ASSUME Init PROVE Log!Init
    OBVIOUS
  <2>1. Inv /\ Stored = {} /\ Len(update) = 0 /\ Metas = {}
    BY InvInit DEF Init, Stored, Metas
  <2>2. Chain = <<>>
    BY <2>1, ChainIsLists DEF Lists
  <2>3. Shown = 0
    BY <2>1, ReachIsPrefix
  <2>. QED
    BY <2>2, <2>3 DEF Init, Log!Init, Waiting
<1>4. Inv /\ SnapshotInv /\ Inv' /\ [Next]_vars => [Log!Next]_<<Waiting, Chain, Shown>>
  BY LogStep
<1>. QED
  BY <1>1, <1>2, <1>3, <1>4, PTL DEF Spec, ImplementsLog, Log!Spec
=============================================================================
