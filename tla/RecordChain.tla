---------------------------- MODULE RecordChain ----------------------------
(***************************************************************************)
(* How the controller makes a worker's finished records public: the rows   *)
(* of record_updates, the chain of RecordUpdate blocks that                *)
(* PublishRecordsFrom builds out of them (controller/state/statedb.go),    *)
(* the requests that call it (completeHandler in controller/tasks.go) and  *)
(* the publisher that announces the chain to Pando                         *)
(* (controller/publisher/pando_publisher.go).                              *)
(*                                                                         *)
(* Updates and metadata are named by the order in which they are stored;   *)
(* the code names them by hashes of their contents, which differ because   *)
(* each contains the one before.  Signatures and the order of the records  *)
(* inside an update are left out.                                          *)
(***************************************************************************)
EXTENDS Naturals, Sequences, FiniteSets

CONSTANTS
  Rows,        \* numbers of the rows finished tasks may leave in record_updates
  Records,     \* the cids of their records
  Excluded,    \* those whose error message keeps them out of every update
  Workers,
  Handlers,    \* slots for the goroutines of completeHandler
  MaxUpdates,  \* bound: updates
  MaxFaults,   \* bound: crashes, failed calls and lost acknowledgements
  NULL

(* The rows and what they contain.                                         *)
RowRecords == [cid : Records, worker : Workers, attached : BOOLEAN]

ASSUME ConstantsAssumption ==
  /\ Rows \subseteq Nat /\ Excluded \subseteq Records
  /\ MaxUpdates \in Nat /\ MaxFaults \in Nat
  /\ NULL \notin Handlers /\ NULL \notin RowRecords

VARIABLES
  row,      \* the rows of finished tasks, or NULL
  update,   \* the blocks of the updates: the rows each lists, the one before
  status,   \* the status of each update's row: "latest" or "previous"
  request,  \* what each handler is doing
  lock,     \* PandoPublisher.lock: the handler that holds it, or NULL
  meta,     \* the Pando metadata stored: the payload, the one before
  latest,   \* the datastore's /latest
  root,     \* the head the legs publisher serves, 0 for none
  process,  \* the controller: "up", "closed" (its publisher) or "down"
  published,\* history: the updates whose Publish returned without an error
  faults    \* crashes and failures so far

database  == <<row, update, status>>
publisher == <<lock, meta, latest, root>>
vars == <<row, update, status, request, lock, meta, latest, root, process,
          published, faults>>

Stored == DOMAIN update     \* 0 stands for cid.Undef
Metas  == DOMAIN meta

(* pc: "commit"    has read, will write and commit or be rolled back       *)
(*     "retry"     has committed and does not know it                      *)
(*     "publish"   waits for the publisher's lock                          *)
(*     "set"       holds it and moves /latest                              *)
(*     "announce"  announces the new root                                  *)
Idle == [pc |-> "idle", worker |-> NULL, head |-> 0, take |-> {},
         list |-> {}, update |-> 0, meta |-> 0]

Init ==
  /\ row       = [x \in Rows |-> NULL]
  /\ update    = <<>>
  /\ status    = <<>>
  /\ request   = [h \in Handlers |-> Idle]
  /\ lock      = NULL
  /\ meta      = <<>>
  /\ latest    = 0
  /\ root      = 0
  /\ process   = "up"
  /\ published = {}
  /\ faults    = 0

Fault == faults < MaxFaults /\ faults' = faults + 1

-----------------------------------------------------------------------------
(* The table.                                                              *)

(* Update's transaction for a task that has ended.  The same record may    *)
(* come again: an update of a finished task is not refused, and a retried  *)
(* one is repeated.                                                        *)
FinishTask(x, c, w) ==
  /\ process # "down" /\ row[x] = NULL
  /\ \A y \in Rows : y < x => row[y] # NULL
  /\ row' = [row EXCEPT ![x] = [cid |-> c, worker |-> w, attached |-> FALSE]]
  /\ UNCHANGED <<update, status, request, publisher, process, published, faults>>

(* queryHeadSQL: the row it returns for LATEST, cid.Undef without one.     *)
LatestHead == IF \E u \in Stored : status[u] = "latest"
        THEN CHOOSE u \in Stored : status[u] = "latest"
        ELSE 0

Unattached(w) ==
  {x \in Rows : row[x] # NULL /\ row[x].worker = w /\ ~row[x].attached}

SameCid(X) == {x \in Rows : row[x] # NULL /\ \E y \in X : row[y].cid = row[x].cid}

-----------------------------------------------------------------------------
(* completeHandler and PublishRecordsFrom.                                 *)

Pending == {h \in Handlers : request[h].pc \in {"commit", "retry"}}
Room    == Len(update) + Cardinality(Pending) < MaxUpdates

(* A transaction's snapshot: the head, the worker's unattached rows, and   *)
(* the rows that UPDATE ... WHERE cid will reach.                          *)
Snapshot(w) ==
  LET rows == Unattached(w)
  IN [Idle EXCEPT !.pc     = "commit",
                  !.worker = w,
                  !.head   = LatestHead,
                  !.take   = SameCid(rows),
                  !.list   = {x \in rows : row[x].cid \notin Excluded}]

Complete(h, w) ==
  /\ process # "down" /\ request[h].pc = "idle" /\ Room
  /\ request' = [request EXCEPT ![h] = Snapshot(w)]
  /\ UNCHANGED <<database, publisher, process, published, faults>>

NewUpdate == Len(update) + 1

(* Mutant: a head that stays LATEST when it is replaced.                   *)
WriteAndKeepHead(h) ==
  LET q == request[h] IN
  /\ row'    = [x \in Rows |-> IF x \in q.take
                               THEN [row[x] EXCEPT !.attached = TRUE]
                               ELSE row[x]]
  /\ update' = Append(update, [list |-> q.list, previous |-> q.head])
  /\ status' = Append(status, "latest")

(* The writes: the rows are ATTACHED, the update is stored and LATEST, the *)
(* head it replaces PREVIOUS.                                              *)
WriteUpdate(h) ==
  LET q == request[h] IN
  /\ row'    = [x \in Rows |-> IF x \in q.take
                               THEN [row[x] EXCEPT !.attached = TRUE]
                               ELSE row[x]]
  /\ update' = Append(update, [list |-> q.list, previous |-> q.head])
  /\ status' = [u \in 1..NewUpdate |-> IF u = NewUpdate THEN "latest"
                                   ELSE IF u = q.head THEN "previous"
                                   ELSE status[u]]

(* Mutant: a lower isolation level, which lets both commit.                *)
ReadCommitted(h) == TRUE

(* Two serializable transactions that append both write the head they      *)
(* have read: the second fails.                                            *)
Serializable(h) == request[h].head = LatestHead

CommitUpdate(h) ==
  /\ request[h].pc = "commit" /\ Serializable(h)
  /\ WriteUpdate(h)
  /\ request' = [request EXCEPT
       ![h] = [Idle EXCEPT !.pc = "publish", !.update = NewUpdate]]
  /\ UNCHANGED <<publisher, process, published, faults>>

(* The commit's acknowledgement is lost with the connection.               *)
CommitUnacknowledged(h) ==
  /\ request[h].pc = "commit" /\ Serializable(h) /\ Room /\ Fault
  /\ WriteUpdate(h)
  /\ request' = [request EXCEPT
       ![h] = [Idle EXCEPT !.pc = "retry", !.worker = request[h].worker]]
  /\ UNCHANGED <<publisher, process, published>>

(* transact runs the transaction again, after that and after a             *)
(* serialization failure.                                                  *)
RetryUpdate(h) ==
  /\ \/ request[h].pc = "retry"
     \/ request[h].pc = "commit" /\ ~Serializable(h)
  /\ request' = [request EXCEPT ![h] = Snapshot(request[h].worker)]
  /\ UNCHANGED <<database, publisher, process, published, faults>>

(* Another error: the answer is 400.                                       *)
FailUpdate(h) ==
  /\ request[h].pc \in {"commit", "retry"} /\ Fault
  /\ request' = [request EXCEPT ![h] = Idle]
  /\ UNCHANGED <<database, publisher, process, published>>

-----------------------------------------------------------------------------
(* PandoPublisher.Publish; whatever it returns, the answer is 200.         *)

(* Mutant: the metadata carries no link to the one before.                 *)
StoreUnlinked(h) ==
  LET m == Len(meta) + 1 IN
  /\ request[h].pc = "publish" /\ lock = NULL
  /\ lock' = h
  /\ meta' = Append(meta, [payload |-> request[h].update, previous |-> 0])
  /\ request' = [request EXCEPT ![h].pc = "set", ![h].meta = m]
  /\ UNCHANGED <<database, latest, root, process, published, faults>>

(* Mutant: /latest is moved and the metadata not stored yet.               *)
SetBeforeStore(h) ==
  LET m == Len(meta) + 1 IN
  /\ request[h].pc = "publish" /\ lock = NULL
  /\ lock' = h /\ latest' = m
  /\ request' = [request EXCEPT ![h].pc = "set", ![h].meta = m]
  /\ UNCHANGED <<database, meta, root, process, published, faults>>

(* The lock is taken, /latest read and the metadata stored.                *)
StoreMetadata(h) ==
  LET m == Len(meta) + 1 IN
  /\ request[h].pc = "publish" /\ lock = NULL
  /\ lock' = h
  /\ meta' = Append(meta, [payload  |-> request[h].update,
                           previous |-> latest])
  /\ request' = [request EXCEPT ![h].pc = "set", ![h].meta = m]
  /\ UNCHANGED <<database, latest, root, process, published, faults>>

(* Mutant: the new root is announced and /latest left as it was.           *)
SetNothing(h) ==
  /\ request[h].pc = "set"
  /\ request' = [request EXCEPT ![h].pc = "announce"]
  /\ UNCHANGED <<database, publisher, process, published, faults>>

SetLatest(h) ==
  /\ request[h].pc = "set"
  /\ latest' = request[h].meta
  /\ request' = [request EXCEPT ![h].pc = "announce"]
  /\ UNCHANGED <<database, lock, meta, root, process, published, faults>>

Announce(h) ==
  /\ request[h].pc = "announce" /\ process = "up"
  /\ root'      = request[h].meta
  /\ published' = published \union {request[h].update}
  /\ lock'      = NULL
  /\ request'   = [request EXCEPT ![h] = Idle]
  /\ UNCHANGED <<database, meta, latest, process, faults>>

(* Mutant: an error path that leaves the lock taken.                       *)
FailAndKeepLock(h) ==
  /\ request[h].pc \in {"set", "announce"} /\ Fault
  /\ request' = [request EXCEPT ![h] = Idle]
  /\ UNCHANGED <<database, publisher, process, published>>

(* A failed call or a cancelled context, in the middle or before anything  *)
(* was stored, or an announcement on a publisher that is closed.  The      *)
(* announcement may fail with the root set.                                *)
FailPublish(h) ==
  /\ request[h].pc \in {"publish", "set", "announce"}
  /\ IF process = "closed" /\ request[h].pc = "announce"
     THEN UNCHANGED faults
     ELSE Fault
  /\ \/ UNCHANGED root
     \/ request[h].pc = "announce" /\ process = "up" /\ root' = request[h].meta
  /\ lock'    = IF lock = h THEN NULL ELSE lock
  /\ request' = [request EXCEPT ![h] = Idle]
  /\ UNCHANGED <<database, meta, latest, process, published>>

-----------------------------------------------------------------------------
(* The controller's life.                                                  *)

(* Controller.Shutdown closes the publisher first; requests go on, and     *)
(* isStarted holds for them.                                               *)
Shutdown ==
  /\ process = "up" /\ lock = NULL /\ Fault
  /\ process' = "closed" /\ root' = 0
  /\ UNCHANGED <<database, request, lock, meta, latest, published>>

(* http.Server.Shutdown returns when no request is active.                 *)
Exit ==
  /\ process = "closed" /\ \A h \in Handlers : request[h].pc = "idle"
  /\ process' = "down"
  /\ UNCHANGED <<database, request, publisher, published, faults>>

Crash ==
  /\ process # "down" /\ Fault
  /\ process' = "down" /\ root' = 0 /\ lock' = NULL
  /\ request' = [h \in Handlers |-> Idle]
  /\ UNCHANGED <<database, meta, latest, published>>

(* PandoPublisher.Start; when it fails Serve returns and the process ends. *)
Start ==
  /\ process = "down"
  /\ process' = "up" /\ root' = latest
  /\ UNCHANGED <<database, request, lock, meta, latest, published, faults>>

(* Nothing left to do within the bounds.                                   *)
Finished ==
  /\ process = "up" /\ \A x \in Rows : row[x] # NULL
  /\ \A h \in Handlers : request[h].pc = "idle"
  /\ ~Room /\ faults = MaxFaults
  /\ UNCHANGED vars

Next ==
  \/ \E x \in Rows, c \in Records, w \in Workers : FinishTask(x, c, w)
  \/ \E h \in Handlers : \/ \E w \in Workers : Complete(h, w)
                         \/ CommitUpdate(h) \/ CommitUnacknowledged(h)
                         \/ RetryUpdate(h) \/ FailUpdate(h)
                         \/ StoreMetadata(h) \/ SetLatest(h) \/ Announce(h)
                         \/ FailPublish(h)
  \/ Shutdown \/ Exit \/ Crash \/ Start
  \/ Finished

Spec == Init /\ [][Next]_vars

(* A handler is a goroutine that waits for the database, for the mutex,    *)
(* which Go hands on in turn, and for nothing else.                        *)
FairSpec == Spec /\ \A h \in Handlers :
  /\ WF_vars(CommitUpdate(h) \/ RetryUpdate(h))
  /\ SF_vars(StoreMetadata(h))
  /\ WF_vars(SetLatest(h) \/ Announce(h) \/ FailPublish(h))

-----------------------------------------------------------------------------
(* What a block leads to: all that is in every set of blocks that contains *)
(* it and, with a block, the one before.                                   *)

Back(u) ==
  {v \in Stored : u \in Stored /\ \A S \in SUBSET Stored :
     u \in S /\ (\A x \in S : update[x].previous \in S \union {0}) => v \in S}

Linked(m) ==
  {k \in Metas : m \in Metas /\ \A S \in SUBSET Metas :
     m \in S /\ (\A x \in S : meta[x].previous \in S \union {0}) => k \in S}

Reach(m) == UNION {Back(meta[k].payload) : k \in Linked(m)}

(* The type of the state, with the mutex: who publishes holds it, and     *)
(* nobody else does, on every path out of Publish.                         *)
TypeOK ==
  /\ row \in [Rows -> {NULL} \union RowRecords]
  /\ update \in Seq([list : SUBSET Rows, previous : Nat])
  /\ status \in [Stored -> {"latest", "previous"}]
  /\ request \in [Handlers ->
        [pc : {"idle", "commit", "retry", "publish", "set", "announce"},
         worker : Workers \union {NULL}, head : Stored \union {0},
         take : SUBSET Rows, list : SUBSET Rows,
         update : Stored \union {0}, meta : Metas \union {0}]]
  /\ lock \in Handlers \union {NULL}
  /\ meta \in Seq([payload : Nat, previous : Nat])
  /\ latest \in Nat /\ root \in Nat
  /\ process \in {"up", "closed", "down"}
  /\ published \subseteq Stored
  /\ faults \in Nat
  /\ \A h \in Handlers : lock = h <=> request[h].pc \in {"set", "announce"}

(* The updates are one chain: only one of them is LATEST, no two have the  *)
(* same predecessor, and none but the first is without one.  Requests of   *)
(* two workers that complete at once would fork it (PublishRecordsFrom).   *)
NoFork ==
  /\ \A u, v \in Stored : status[u] = "latest" /\ status[v] = "latest" => u = v
  /\ \A u, v \in Stored : update[u].previous = update[v].previous => u = v
  /\ \A u \in Stored : update[u].previous \in Stored \union {0}

(* A row that is ATTACHED has its record in an update that the head leads  *)
(* to, unless its message excludes it: no failure between the parts of a   *)
(* completion loses a record (PublishRecordsFrom, transact).               *)
NothingLost ==
  \A x \in Rows : row[x] # NULL /\ row[x].attached =>
    \/ row[x].cid \in Excluded
    \/ \E u \in Back(LatestHead) : \E y \in update[u].list : row[y].cid = row[x].cid

(* Whatever the publisher's roots link to can be loaded: those of the root *)
(* it serves and of the one it will serve after a restart, and what is     *)
(* behind them (Publish, Start).                                           *)
Traversable ==
  /\ {root, latest} \subseteq Metas \union {0}
  /\ \A m \in Metas : /\ meta[m].payload \in Stored
                      /\ meta[m].previous \in Metas \union {0}

(* "It is a non-critical and self-healing operation as long as one such    *)
(* publication succeeds eventually" (completeHandler): once a publication  *)
(* has succeeded, the update it was about and all those stored before it   *)
(* can be reached from the root, whichever publications failed, whatever   *)
(* order they came in, and after a restart.                                *)
SelfHealing ==
  process = "up" => \A u \in published : 1..u \subseteq Reach(root)

(* What can be reached from a root is never withdrawn: neither by a        *)
(* publication that comes late nor by one that fails (Publish, Start).     *)
NeverWithdrawn == [][Reach(latest) \subseteq Reach(latest)']_vars

(* The chain implements the log: RecordLog's updates are those the head    *)
(* leads to, shown is the part of them the stored root leads to.           *)
Chain == [i \in 1..Cardinality(Back(LatestHead)) |->
            update[CHOOSE u \in Back(LatestHead) : Cardinality(Back(u)) = i].list]
Shown == Cardinality(Reach(latest))
Waiting == {x \in Rows : row[x] # NULL /\ ~row[x].attached}
Log == INSTANCE RecordLog WITH waiting <- Waiting, log <- Chain, shown <- Shown
ImplementsLog == Log!Spec

(* Every request to complete a worker is answered, unless the controller   *)
(* ends first: neither a retry nor the publisher's lock holds it forever   *)
(* (transact, Publish).                                                    *)
RequestsEnd ==
  \A h \in Handlers : request[h].pc # "idle" ~> request[h].pc = "idle"
=============================================================================
