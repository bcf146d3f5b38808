------------------------ MODULE RetrievalDeal_proofs ------------------------
(***************************************************************************)
(* Proofs about RetrievalDeal: for any number of deals for one payload,    *)
(* any retrievals left under way before, and any bounds, each outcome is   *)
(* the deal's own, nothing is left of the payload, and the archive of each *)
(* deal is its history.                                                    *)
(***************************************************************************)
EXTENDS RetrievalDeal, TLAPS, SequenceTheorems, Channels

Before  == {"MinerOnline", "QueryAsk", "ProposeDeal", "list", "cancel", "retrieve"}
Waiting == {"retrieving", "sent", "monitor"}
After   == {"export", "stat", "cleanup", "remove", "complete", "finish"}
Ends    == Final \ {"cancelled"}

(* A retrieval is there once its deal has asked for it, its events say     *)
(* what it was and is, and only one that completed leaves the loop without *)
(* an error.                                                               *)
OwnInv(d) ==
  /\ pc[d] \in Before => retrieval[d].status = "none"
  /\ \A i \in DOMAIN queue[d] :
       queue[d][i].id = d /\ queue[d][i].status = "completed" =>
         retrieval[d].status = "completed"
  /\ pc[d] \in Waiting /\ retrieval[d].status \in Ends =>
       \E i \in DOMAIN queue[d] :
         queue[d][i].id = d /\ queue[d][i].status = retrieval[d].status
  /\ pc[d] \in After /\ ~failed[d] => retrieval[d].status = "completed"
  /\ row[d].status = "Successful" =>
       pc[d] = "ended" /\ retrieval[d].status = "completed"
  /\ pc[d] \notin {"MinerOnline", "finish", "ended"} => row[d].current # NULL

(* Whatever there is of the payload has a deal that will remove it.        *)
LeftInv ==
  faults = 0 /\ ~cancelled =>
    /\ "import" \in data =>
         \E d \in Deals : pc[d] \in Waiting \union {"export", "stat", "cleanup"}
    /\ "file" \in data =>
         \E d \in Deals : pc[d] \in {"stat", "cleanup", "remove"}

Inv == TypeOK /\ (\A d \in Deals : OwnInv(d)) /\ LeftInv

-----------------------------------------------------------------------------
(* The stages of a deal are stages.                                        *)
LEMMA StagesNamed ==
  {"MinerOnline", "QueryAsk", "ProposeDeal", "DealAccepted", "FirstByteReceived",
   "AllBytesReceived", "DealComplete"} \subseteq StageNames
<1>1. /\ DOMAIN Stages = 1..7
      /\ Stages[1] = "MinerOnline" /\ Stages[2] = "QueryAsk" /\ Stages[3] = "ProposeDeal"
      /\ Stages[4] = "DealAccepted" /\ Stages[5] = "FirstByteReceived"
      /\ Stages[6] = "AllBytesReceived" /\ Stages[7] = "DealComplete"
  BY DEF Stages
<1>2. \A i \in 1..7 : Stages[i] \in StageNames
  BY <1>1 DEF StageNames
<1>3. {Stages[1], Stages[2], Stages[3], Stages[4], Stages[5], Stages[6], Stages[7]}
        \subseteq StageNames
  BY <1>2
<1>. QED
  BY <1>1, <1>3

(* A report is a row of a task under way, in the stage reported.           *)
LEMMA ReportIsRow ==
  ASSUME RetrievalAssumption,
         NEW r \in RowSet, NEW stage \in StageNames, NEW at \in 0..MaxBytes
  PROVE  /\ Report(r, stage, {}, at) \in RowSet
         /\ Report(r, stage, {}, at).status = "InProgress"
         /\ Report(r, stage, {}, at).current # NULL
<1>. DEFINE d == Details(stage, {}, at)
<1>1. d \in DetailsSet
  BY DEF Details, DetailsSet
<1>2. d # NULL
  BY <1>1 DEF RetrievalAssumption
<1>. HIDE DEF d
<1>3. UpdateTask(r, "InProgress", stage, d).past \in Seq(DetailsSet)
  <2>1. CASE stage # r.stage /\ r.current # NULL
    <3>1. r.current \in DetailsSet /\ r.past \in Seq(DetailsSet)
      BY <2>1 DEF RowSet
    <3>2. Append(r.past, r.current) \in Seq(DetailsSet)
      BY <3>1
    <3>. QED
      BY <2>1, <3>2 DEF UpdateTask
  <2>2. CASE ~(stage # r.stage /\ r.current # NULL)
    BY <2>2 DEF UpdateTask, RowSet
  <2>. QED
    BY <2>1, <2>2
<1>. QED
  BY <1>1, <1>2, <1>3 DEF Report, UpdateTask, RowSet, d

(* The last update changes the outcome only.                               *)
LEMMA FinalIsRow ==
  ASSUME RetrievalAssumption, NEW r \in RowSet, NEW s \in {"Successful", "Failed"}
  PROVE  FinalUpdate(r, s) \in RowSet /\ FinalUpdate(r, s).status = s
<1>1. Details(NoStage, {}, 0) \in DetailsSet
  <2>1. NoStage \in StageNames /\ 0 \in 0..MaxBytes
    BY DEF StageNames, RetrievalAssumption
  <2>. QED
    BY <2>1 DEF Details, DetailsSet
<1>. QED
  BY <1>1 DEF FinalUpdate, UpdateTask, RowSet

(* What a step of the deal may do to its row before the last update.       *)
Later(d, r) ==
  r \in RowSet /\ (r = row[d] \/ (r.status = "InProgress" /\ r.current # NULL))

(* The reports an event calls for are rows of a task under way.            *)
LEMMA EventIsLater ==
  ASSUME RetrievalAssumption, TypeOK, NEW d \in Deals, NEW e \in EventSet
  PROVE  Later(d, Accepted(d, e)) /\ Later(d, FirstByte(d, e)) /\ Later(d, AllBytes(d, e))
<1>1. row[d] \in RowSet /\ e.bytes \in 0..MaxBytes
  BY DEF TypeOK, EventSet
<1>2. Later(d, Accepted(d, e))
  BY <1>1, ReportIsRow, StagesNamed DEF Accepted, Later
<1>3. Later(d, FirstByte(d, e))
  BY <1>1, <1>2, ReportIsRow, StagesNamed DEF FirstByte, Later
<1>4. Later(d, AllBytes(d, e))
  BY <1>1, <1>3, ReportIsRow, StagesNamed DEF AllBytes, Later
<1>. QED
  BY <1>2, <1>3, <1>4

-----------------------------------------------------------------------------
(* What Publish does to the queue of each deal.                            *)
LEMMA PublishTypes ==
  ASSUME TypeOK, NEW r \in Retrievals, NEW a \in BOOLEAN, Publish(r, a),
         retrieval' \in [Retrievals -> [status : Statuses, bytes : 0..MaxBytes]]
  PROVE  /\ queue' \in [Deals -> Seq(EventSet)]
         /\ \E e \in EventSet :
              /\ e.id = r /\ e.status = retrieval'[r].status /\ e.accepted = a
              /\ \A d \in Deals :
                   queue'[d] = IF Subscribed(d) THEN Append(queue[d], e) ELSE queue[d]
<1>. DEFINE e == [id |-> r, accepted |-> a, bytes |-> retrieval'[r].bytes,
                  status |-> retrieval'[r].status]
<1>1. /\ e \in EventSet
      /\ e.id = r /\ e.status = retrieval'[r].status /\ e.accepted = a
  BY DEF EventSet
<1>2. queue' = [d \in Deals |-> IF Subscribed(d) THEN Append(queue[d], e) ELSE queue[d]]
  BY DEF Publish
<1>. HIDE DEF e
<1>3. \A d \in Deals : queue[d] \in Seq(EventSet)
  BY DEF TypeOK
<1>4. \A d \in Deals : Append(queue[d], e) \in Seq(EventSet)
  BY <1>1, <1>3
<1>. QED
  BY <1>1, <1>2, <1>3, <1>4

(* The steps in which the node tells of a retrieval under way.             *)
Told(r) ==
  /\ retrieval' \in [Retrievals -> [status : Statuses, bytes : 0..MaxBytes]]
  /\ retrieval[r].status \in {"new", "accepted"}
  /\ \A q \in Retrievals \ {r} : retrieval'[q] = retrieval[q]
  /\ retrieval'[r].status \in Statuses \ {"none", "new"}

(* A retrieval that gets on or ends; its acceptance is told of once.       *)
LEMMA NodeTells ==
  ASSUME RetrievalAssumption, TypeOK, NEW r \in Retrievals,
         Accept(r) \/ Receive(r) \/ End(r)
  PROVE  Told(r) /\ \E a \in BOOLEAN : Publish(r, a) /\ (a => retrieval[r].status = "new")
<1>1. retrieval \in [Retrievals -> [status : Statuses, bytes : 0..MaxBytes]]
  BY DEF TypeOK
<1>2. CASE Accept(r)
  <2>1. Told(r)
    BY <1>1, <1>2 DEF Accept, Told, Statuses
  <2>2. retrieval[r].status = "new" /\ Publish(r, TRUE)
    BY <1>2 DEF Accept
  <2>. QED
    BY <2>1, <2>2
<1>3. CASE Receive(r)
  <2>1. retrieval[r].bytes + 1 \in 0..MaxBytes
    BY <1>1, <1>3 DEF Receive, RetrievalAssumption
  <2>2. retrieval' = [retrieval EXCEPT ![r].bytes = retrieval[r].bytes + 1]
    BY <1>3 DEF Receive
  <2>3. Told(r)
    BY <1>1, <1>3, <2>1, <2>2 DEF Receive, Told, Statuses
  <2>4. Publish(r, FALSE)
    BY <1>3 DEF Receive
  <2>. QED
    BY <2>3, <2>4
<1>4. CASE End(r)
  <2>1. PICK s \in Final \ {"cancelled"} :
          /\ retrieval[r].status = (IF s = "rejected" THEN "new" ELSE "accepted")
          /\ retrieval' = [retrieval EXCEPT ![r].status = s]
    BY <1>4 DEF End
  <2>2. s \in Statuses \ {"none", "new"}
    BY DEF Statuses, Final
  <2>3. Told(r)
    BY <1>1, <1>4, <2>1, <2>2 DEF Told
  <2>4. Publish(r, FALSE)
    BY <1>4 DEF End
  <2>. QED
    BY <2>3, <2>4
<1>. QED
  BY <1>2, <1>3, <1>4

(* cancelOldDeals cancels a retrieval under way, or finds it ended.        *)
LEMMA CancelTells ==
  ASSUME TypeOK, NEW d \in Deals, CancelOld(d)
  PROVE  \/ UNCHANGED <<retrieval, queue>>
         \/ \E r \in Retrievals : Told(r) /\ Publish(r, FALSE)
<1>1. /\ retrieval \in [Retrievals -> [status : Statuses, bytes : 0..MaxBytes]]
      /\ found[d] \subseteq Retrievals
  BY DEF TypeOK
<1>2. PICK r \in found[d] :
         IF UnderWay(r)
         THEN /\ retrieval' = [retrieval EXCEPT ![r].status = "cancelled"]
              /\ Publish(r, FALSE)
         ELSE UNCHANGED <<retrieval, queue>>
  BY DEF CancelOld
<1>3. CASE UnderWay(r)
  <2>1. Told(r)
    BY <1>1, <1>2, <1>3 DEF Told, UnderWay, Statuses, Final
  <2>. QED
    BY <1>1, <1>2, <1>3, <2>1
<1>. QED
  BY <1>2, <1>3

(* The row of one deal is replaced.                                        *)
LEMMA RowReplaced ==
  ASSUME TypeOK, NEW d \in Deals, NEW r \in RowSet, row' = [row EXCEPT ![d] = r]
  PROVE  /\ row' \in [Deals -> RowSet] /\ row'[d] = r
         /\ \A c \in Deals \ {d} : row'[c] = row[c]
  BY DEF TypeOK

(* The first element of a deal's queue is read, or the queue given up.     *)
LEMMA QueueTypes ==
  ASSUME TypeOK, NEW d \in Deals
  PROVE  /\ queue[d] # <<>> => /\ Head(queue[d]) \in EventSet
                               /\ Tail(queue[d]) \in Seq(EventSet)
         /\ [queue EXCEPT ![d] = <<>>] \in [Deals -> Seq(EventSet)]
<1>1. queue[d] \in Seq(EventSet) /\ <<>> \in Seq(EventSet)
  BY DEF TypeOK
<1>2. queue[d] # <<>> => Head(queue[d]) \in EventSet /\ Tail(queue[d]) \in Seq(EventSet)
  BY <1>1, HeadTailProperties
<1>. QED
  BY <1>1, <1>2 DEF TypeOK

(* Where a step of the deal may leave it, failed or not.                   *)
GoesOn(d) ==
  \E x \in {pc[d], "QueryAsk", "ProposeDeal", "list", "cancel", "retrieve",
            "retrieving", "sent", "monitor", "export", "stat", "cleanup", "remove",
            "complete", "finish", "ended"} : pc' = [pc EXCEPT ![d] = x]

(* What is common to the steps of a deal that leave the node's retrievals  *)
(* alone: it changes its own part of the state only, and its row as a      *)
(* report does.                                                            *)
Acts(d) ==
  /\ \E r \in RowSet : Later(d, r) /\ row' = [row EXCEPT ![d] = r]
  /\ GoesOn(d)
  /\ \E f \in BOOLEAN : failed' = [failed EXCEPT ![d] = f]
  /\ \E q \in Seq(EventSet) : queue' = [queue EXCEPT ![d] = q]
  /\ \E t \in {"armed", "fired"} : timer' = [timer EXCEPT ![d] = t]
  /\ cancelled' = cancelled /\ faults' \in {faults, faults + 1} /\ faults' \in 0..MaxFaults

(* A report, or none, is what a step of the deal may do to its row.        *)
LEMMA Reporting ==
  ASSUME RetrievalAssumption, TypeOK, NEW d \in Deals, NEW stage \in StageNames,
         NEW at \in 0..MaxBytes
  PROVE  Later(d, Report(row[d], stage, {}, at)) /\ Later(d, row[d])
  BY ReportIsRow DEF TypeOK, Later

(* Steps of the deal before the loop.                                      *)
LEMMA ActsBefore ==
  ASSUME RetrievalAssumption, TypeOK, NEW d \in Deals,
         ExecuteStage(d) \/ StageFails(d) \/ ProposeDeal(d) \/ ListRetrievals(d)
           \/ Subscribe(d) \/ Retrieve(d) \/ RetrieveReturns(d) \/ Sent(d)
  PROVE  Acts(d)
<1>1. /\ row[d] \in RowSet /\ queue[d] \in Seq(EventSet) /\ timer[d] \in {"armed", "fired"}
      /\ failed[d] \in BOOLEAN
      /\ row = [row EXCEPT ![d] = row[d]] /\ queue = [queue EXCEPT ![d] = queue[d]]
      /\ timer = [timer EXCEPT ![d] = timer[d]] /\ failed = [failed EXCEPT ![d] = failed[d]]
      /\ 0 \in 0..MaxBytes /\ faults \in 0..MaxFaults
  BY DEF TypeOK, RetrievalAssumption
<1>2. pc[d] \in {"MinerOnline", "QueryAsk"} => Later(d, Report(row[d], pc[d], {}, 0))
  BY <1>1, Reporting, StagesNamed
<1>3. Later(d, Report(row[d], "ProposeDeal", {}, 0)) /\ Later(d, row[d])
  BY <1>1, Reporting, StagesNamed
<1>4. CASE ExecuteStage(d) \/ StageFails(d)
  BY <1>1, <1>2, <1>4
     DEF ExecuteStage, StageFails, Reports, Breaks, Go, loop, node, Acts, GoesOn, Later
<1>5. CASE ProposeDeal(d) \/ Subscribe(d) \/ Sent(d)
  BY <1>1, <1>3, <1>5 DEF ProposeDeal, Subscribe, Sent, Reports, Go, loop, node, Acts, GoesOn, Later
<1>6. CASE ListRetrievals(d) \/ Retrieve(d) \/ RetrieveReturns(d)
  BY <1>1, <1>3, <1>6 DEF ListRetrievals, Retrieve, RetrieveReturns, Go, loop, node, Acts, GoesOn
<1>. QED
  BY <1>4, <1>5, <1>6

(* In the loop.                                                            *)
LEMMA ActsInLoop ==
  ASSUME RetrievalAssumption, TypeOK, NEW d \in Deals,
         IgnoreEvent(d) \/ HandleEvent(d) \/ EventFails(d) \/ Fire(d) \/ Timeout(d)
  PROVE  Acts(d)
<1>1. /\ row[d] \in RowSet /\ queue[d] \in Seq(EventSet) /\ timer[d] \in {"armed", "fired"}
      /\ failed[d] \in BOOLEAN /\ pc = [pc EXCEPT ![d] = pc[d]]
      /\ row = [row EXCEPT ![d] = row[d]] /\ queue = [queue EXCEPT ![d] = queue[d]]
      /\ timer = [timer EXCEPT ![d] = timer[d]] /\ failed = [failed EXCEPT ![d] = failed[d]]
      /\ faults \in 0..MaxFaults /\ <<>> \in Seq(EventSet)
      /\ queue[d] # <<>> => Tail(queue[d]) \in Seq(EventSet)
  BY QueueTypes DEF TypeOK
<1>2. Later(d, row[d])
  BY <1>1 DEF Later
<1>3. CASE IgnoreEvent(d) \/ Fire(d)
  BY <1>1, <1>2, <1>3 DEF IgnoreEvent, Fire, node, Acts, GoesOn
<1>4. CASE Timeout(d)
  BY <1>1, <1>2, <1>4 DEF Timeout, Breaks, Go, LeaveLoop, node, Acts, GoesOn
<1>5. ASSUME NEW e \in EventSet, e = Head(queue[d]), HandleEvent(d) PROVE Acts(d)
  <2>1. Later(d, AllBytes(d, e)) /\ row' = [row EXCEPT ![d] = AllBytes(d, e)]
    BY <1>5, EventIsLater DEF HandleEvent
  <2>2. /\ \E x \in {"monitor", "export", "cleanup"} : pc' = [pc EXCEPT ![d] = x]
        /\ \E f \in BOOLEAN : failed' = [failed EXCEPT ![d] = f]
    <3>1. pc = [pc EXCEPT ![d] = "monitor"]
      BY <1>5 DEF HandleEvent, TypeOK
    <3>. QED
      BY <1>1, <1>5, <3>1 DEF HandleEvent, Breaks, Go
  <2>3. \E q \in Seq(EventSet) : queue' = [queue EXCEPT ![d] = q]
    BY <1>1, <1>5 DEF HandleEvent, LeaveLoop
  <2>4. \E t \in {"armed", "fired"} : timer' = [timer EXCEPT ![d] = t]
    BY <1>1, <1>5 DEF HandleEvent, LeaveLoop, ResetTimer
  <2>5. UNCHANGED <<cancelled, faults>>
    BY <1>5 DEF HandleEvent
  <2>. QED
    BY <1>1, <2>1, <2>2, <2>3, <2>4, <2>5 DEF Acts, GoesOn, Later
<1>6. ASSUME NEW e \in EventSet, e = Head(queue[d]), EventFails(d) PROVE Acts(d)
  <2>1. \E r \in RowSet : Later(d, r) /\ row' = [row EXCEPT ![d] = r]
    BY <1>2, <1>6, EventIsLater DEF EventFails, CallFails, Later
  <2>2. faults + 1 \in 0..MaxFaults /\ faults' = faults + 1
    BY <1>1, <1>6 DEF EventFails, CallFails, Fault, RetrievalAssumption
  <2>. QED
    BY <1>1, <1>6, <2>1, <2>2 DEF EventFails, CallFails, Fault, Breaks, Go, LeaveLoop, Acts, GoesOn
<1>7. queue[d] # <<>> => Head(queue[d]) \in EventSet
  BY QueueTypes
<1>. QED
  BY <1>3, <1>4, <1>5, <1>6, <1>7 DEF HandleEvent, EventFails

(* After the loop.                                                         *)
LEMMA ActsAfter ==
  ASSUME RetrievalAssumption, TypeOK, NEW d \in Deals, OwnInv(d),
         Export(d) \/ ExportFails(d) \/ ReadFile(d) \/ ReportFails(d) \/ RemoveImports(d)
           \/ CleanupFails(d) \/ RemoveFile(d) \/ Complete(d) \/ CompleteFails(d)
           \/ Abandon(d)
  PROVE  Acts(d)
<1>1. /\ row[d] \in RowSet /\ queue[d] \in Seq(EventSet) /\ timer[d] \in {"armed", "fired"}
      /\ failed[d] \in BOOLEAN
      /\ row = [row EXCEPT ![d] = row[d]] /\ queue = [queue EXCEPT ![d] = queue[d]]
      /\ timer = [timer EXCEPT ![d] = timer[d]] /\ failed = [failed EXCEPT ![d] = failed[d]]
      /\ faults \in 0..MaxFaults /\ <<>> \in Seq(EventSet) /\ 0 \in 0..MaxBytes
      /\ faults < MaxFaults => faults + 1 \in 0..MaxFaults
  BY DEF TypeOK, RetrievalAssumption
<1>2. Later(d, row[d])
  BY <1>1 DEF Later
<1>3. pc[d] \in {"stat", "complete"} => row[d].current.at \in 0..MaxBytes
  BY <1>1 DEF OwnInv, RowSet, DetailsSet
<1>4. CASE Export(d) \/ ExportFails(d) \/ RemoveImports(d) \/ CleanupFails(d)
             \/ RemoveFile(d) \/ Abandon(d)
  BY <1>1, <1>2, <1>4 DEF Export, ExportFails, RemoveImports, CleanupFails, RemoveFile,
                          Abandon, Fault, Breaks, Go, LeaveLoop, loop, node, Acts, GoesOn
<1>5. CASE ReadFile(d)
  <2>1. Later(d, Report(row[d], "AllBytesReceived", {}, row[d].current.at))
    BY <1>3, <1>5, Reporting, StagesNamed DEF ReadFile
  <2>. QED
    BY <1>1, <1>2, <1>5, <2>1 DEF ReadFile, Reports, Breaks, Go, loop, node, Acts, GoesOn, Later
<1>6. CASE Complete(d) \/ CompleteFails(d)
  <2>1. Later(d, Report(row[d], "DealComplete", {}, row[d].current.at))
    BY <1>3, <1>6, Reporting, StagesNamed DEF Complete, CompleteFails
  <2>. QED
    BY <1>1, <1>2, <1>6, <2>1
       DEF Complete, CompleteFails, Reports, Fault, Breaks, Go, loop, node, Acts, GoesOn, Later
<1>7. CASE ReportFails(d)
  <2>1. \E r \in RowSet : Later(d, r) /\ row' = [row EXCEPT ![d] = r]
    <3>1. pc[d] \in {"MinerOnline", "QueryAsk", "ProposeDeal"} =>
            Later(d, Report(row[d], pc[d], {}, 0))
      BY <1>1, Reporting, StagesNamed
    <3>2. pc[d] = "stat" => Later(d, Report(row[d], "AllBytesReceived", {}, row[d].current.at))
      BY <1>3, Reporting, StagesNamed
    <3>. QED
      BY <1>2, <1>7, <3>1, <3>2 DEF ReportFails, CallFails, Later
  <2>2. CallFails(d, {}) \/ Fault
    BY <1>7 DEF ReportFails, CallFails
  <2>3. /\ \E x \in {"finish", "cleanup"} : pc' = [pc EXCEPT ![d] = x]
        /\ failed' = [failed EXCEPT ![d] = TRUE]
    BY <1>7 DEF ReportFails, CallFails, Breaks, Go
  <2>. QED
    BY <1>1, <1>7, <2>1, <2>2, <2>3 DEF ReportFails, CallFails, Fault, LeaveLoop, Acts, GoesOn
<1>. QED
  BY <1>4, <1>5, <1>6, <1>7

(* The rest of the state keeps its type.                                   *)
LEMMA ActsTypes ==
  ASSUME TypeOK, NEW d \in Deals, Acts(d),
         found' \in [Deals -> SUBSET Retrievals],
         retrieval' \in [Retrievals -> [status : Statuses, bytes : 0..MaxBytes]],
         data' \subseteq {"import", "file"}
  PROVE  TypeOK'
<1>1. row' \in [Deals -> RowSet]
  BY DEF Acts, TypeOK
<1>2. queue' \in [Deals -> Seq(EventSet)]
  BY DEF Acts, TypeOK
<1>. DEFINE Places == {"MinerOnline", "QueryAsk", "ProposeDeal", "list", "cancel",
                       "retrieve", "retrieving", "sent", "monitor", "export", "stat",
                       "cleanup", "remove", "complete", "finish", "ended"}
<1>3. pc' \in [Deals -> Places]
  <2>1. pc \in [Deals -> Places]
    BY DEF TypeOK
  <2>2. PICK x \in {pc[d]} \union Places : pc' = [pc EXCEPT ![d] = x]
    BY DEF Acts, GoesOn
  <2>. HIDE DEF Places
  <2>. QED
    BY <2>1, <2>2
<1>4. failed' \in [Deals -> BOOLEAN]
  BY DEF Acts, TypeOK
<1>5. timer' \in [Deals -> {"armed", "fired"}]
  BY DEF Acts, TypeOK
<1>6. cancelled' \in BOOLEAN /\ faults' \in 0..MaxFaults
  BY DEF Acts, TypeOK
<1>. QED
  BY <1>1, <1>2, <1>3, <1>4, <1>5, <1>6 DEF TypeOK

(* Every step keeps the types.                                             *)
LEMMA TypeStep ==
  ASSUME RetrievalAssumption, TypeOK, \A d \in Deals : OwnInv(d), [Next]_vars
  PROVE  TypeOK'
<1>1. CASE UNCHANGED vars
  BY <1>1 DEF TypeOK, vars
<1>2. ASSUME NEW d \in Deals, Step(d) \/ Fails(d) \/ Fire(d), ~CancelOld(d), ~Finish(d)
      PROVE  TypeOK'
  <2>1. Acts(d)
    BY <1>2, ActsBefore, ActsInLoop, ActsAfter DEF Step, Fails
  <2>2. /\ found' \in [Deals -> SUBSET Retrievals]
        /\ retrieval' \in [Retrievals -> [status : Statuses, bytes : 0..MaxBytes]]
        /\ data' \subseteq {"import", "file"}
    <3>0. /\ found \in [Deals -> SUBSET Retrievals]
          /\ retrieval \in [Retrievals -> [status : Statuses, bytes : 0..MaxBytes]]
          /\ data \subseteq {"import", "file"} /\ "new" \in Statuses /\ d \in Retrievals
      BY DEF TypeOK, Statuses, Retrievals
    <3>1. CASE ExecuteStage(d) \/ StageFails(d) \/ ProposeDeal(d) \/ ListRetrievals(d)
                 \/ Subscribe(d) \/ Retrieve(d) \/ RetrieveReturns(d) \/ Sent(d)
      BY <3>0, <3>1 DEF ExecuteStage, StageFails, ProposeDeal, ListRetrievals, Subscribe,
                        Retrieve, RetrieveReturns, Sent, loop, node
    <3>2. CASE IgnoreEvent(d) \/ HandleEvent(d) \/ EventFails(d) \/ Fire(d) \/ Timeout(d)
      BY <3>0, <3>2 DEF IgnoreEvent, HandleEvent, EventFails, Fire, Timeout, node
    <3>3. CASE Export(d) \/ ExportFails(d) \/ ReadFile(d) \/ ReportFails(d)
                 \/ RemoveImports(d) \/ CleanupFails(d) \/ RemoveFile(d) \/ Complete(d)
                 \/ CompleteFails(d) \/ Abandon(d)
      BY <3>0, <3>3 DEF Export, ExportFails, ReadFile, ReportFails, RemoveImports,
                        CleanupFails, RemoveFile, Complete, CompleteFails, Abandon,
                        loop, node
    <3>. QED
      BY <1>2, <3>1, <3>2, <3>3 DEF Step, Fails
  <2>. QED
    BY <2>1, <2>2, ActsTypes
<1>3. ASSUME NEW d \in Deals, Finish(d) PROVE TypeOK'
  <2>1. row' \in [Deals -> RowSet]
    <3>1. /\ row[d] \in RowSet /\ row \in [Deals -> RowSet]
          /\ FinalUpdate(row[d], IF failed[d] THEN "Failed" ELSE "Successful") \in RowSet
      BY FinalIsRow DEF TypeOK
    <3>. QED
      BY <1>3, <3>1 DEF Finish
  <2>2. faults' \in 0..MaxFaults /\ cancelled' \in BOOLEAN
    BY <1>3 DEF Finish, Fault, TypeOK, RetrievalAssumption
  <2>. QED
    BY <1>3, <2>1, <2>2 DEF Finish, Go, loop, node, TypeOK
<1>4. ASSUME NEW d \in Deals, CancelOld(d) PROVE TypeOK'
  <2>1. /\ queue' \in [Deals -> Seq(EventSet)]
        /\ retrieval' \in [Retrievals -> [status : Statuses, bytes : 0..MaxBytes]]
    BY <1>4, CancelTells, PublishTypes DEF Told, TypeOK
  <2>2. found' \in [Deals -> SUBSET Retrievals]
    BY <1>4 DEF CancelOld, TypeOK
  <2>. QED
    BY <1>4, <2>1, <2>2 DEF CancelOld, TypeOK
<1>5. ASSUME NEW r \in Retrievals, Accept(r) \/ Receive(r) \/ End(r) PROVE TypeOK'
  <2>1. /\ queue' \in [Deals -> Seq(EventSet)]
        /\ retrieval' \in [Retrievals -> [status : Statuses, bytes : 0..MaxBytes]]
    BY <1>5, NodeTells, PublishTypes DEF Told
  <2>. QED
    BY <1>5, <2>1 DEF Accept, Receive, End, TypeOK
<1>6. CASE Shutdown
  BY <1>6 DEF Shutdown, loop, node, TypeOK
<1>. QED
  BY <1>1, <1>2, <1>3, <1>4, <1>5, <1>6 DEF Next, Ended

-----------------------------------------------------------------------------
(* A deal that another's step leaves alone.                                *)
LEMMA OthersKeep ==
  ASSUME NEW c \in Deals, OwnInv(c),
         pc'[c] = pc[c], failed'[c] = failed[c], row'[c] = row[c],
         queue'[c] = queue[c], retrieval'[c] = retrieval[c]
  PROVE  OwnInv(c)'
  BY DEF OwnInv

(* A deal that is told of a retrieval.                                     *)
LEMMA HearingKeeps ==
  ASSUME TypeOK, NEW c \in Deals, OwnInv(c), NEW r \in Retrievals, Told(r),
         NEW a \in BOOLEAN, Publish(r, a),
         pc'[c] = pc[c], failed'[c] = failed[c], row'[c] = row[c]
  PROVE  OwnInv(c)'
<1>1. PICK e \in EventSet :
         /\ e.id = r /\ e.status = retrieval'[r].status
         /\ queue'[c] = IF Subscribed(c) THEN Append(queue[c], e) ELSE queue[c]
  BY PublishTypes DEF Told
<1>2. /\ \A i \in DOMAIN queue[c] : i \in DOMAIN queue'[c] /\ queue'[c][i] = queue[c][i]
      /\ \A i \in DOMAIN queue'[c] :
           (i \in DOMAIN queue[c] /\ queue'[c][i] = queue[c][i]) \/ queue'[c][i] = e
      /\ Subscribed(c) => \E i \in DOMAIN queue'[c] : queue'[c][i] = e
  <2>1. queue[c] \in Seq(EventSet)
    BY DEF TypeOK
  <2>2. CASE Subscribed(c)
    BY <1>1, <2>1, <2>2, Sending
  <2>. QED
    BY <1>1, <2>2
<1>3. c \in Retrievals
  BY DEF Retrievals
<1>4. retrieval[c].status \notin {"new", "accepted"} => retrieval'[c] = retrieval[c]
  BY <1>3 DEF Told
<1>5. pc'[c] \in Before => retrieval'[c].status = "none"
  BY <1>4 DEF OwnInv
<1>6. \A i \in DOMAIN queue'[c] :
         queue'[c][i].id = c /\ queue'[c][i].status = "completed" =>
           retrieval'[c].status = "completed"
  BY <1>1, <1>2, <1>4 DEF OwnInv
<1>7. ASSUME pc'[c] \in Waiting, retrieval'[c].status \in Ends
      PROVE  \E i \in DOMAIN queue'[c] :
               queue'[c][i].id = c /\ queue'[c][i].status = retrieval'[c].status
  <2>1. CASE r = c
    BY <1>1, <1>2, <1>7, <2>1 DEF Waiting, Subscribed
  <2>2. CASE r # c
    <3>1. retrieval'[c] = retrieval[c]
      BY <1>3, <2>2 DEF Told
    <3>2. PICK i \in DOMAIN queue[c] :
            queue[c][i].id = c /\ queue[c][i].status = retrieval[c].status
      BY <1>7, <3>1 DEF OwnInv
    <3>. QED
      BY <1>2, <3>1, <3>2
  <2>. QED
    BY <2>1, <2>2
<1>8. /\ pc'[c] \in After /\ ~failed'[c] => retrieval'[c].status = "completed"
      /\ row'[c].status = "Successful" =>
           pc'[c] = "ended" /\ retrieval'[c].status = "completed"
      /\ pc'[c] \notin {"MinerOnline", "finish", "ended"} => row'[c].current # NULL
  BY <1>4 DEF OwnInv
<1>. QED
  BY <1>5, <1>6, <1>7, <1>8 DEF OwnInv

(* What Acts says of the other deals, and of the deal.                     *)
LEMMA ActsAlone ==
  ASSUME TypeOK, NEW d \in Deals, Acts(d)
  PROVE  \A c \in Deals \ {d} : /\ pc'[c] = pc[c] /\ failed'[c] = failed[c]
                                /\ row'[c] = row[c] /\ queue'[c] = queue[c]
<1>. SUFFICES ASSUME NEW c \in Deals \ {d}
              PROVE  /\ pc'[c] = pc[c] /\ failed'[c] = failed[c]
                     /\ row'[c] = row[c] /\ queue'[c] = queue[c]
  OBVIOUS
<1>1. pc'[c] = pc[c]
  <2>1. PICK x : pc' = [pc EXCEPT ![d] = x]
    BY DEF Acts, GoesOn
  <2>. QED
    BY <2>1 DEF TypeOK
<1>2. failed'[c] = failed[c] /\ row'[c] = row[c] /\ queue'[c] = queue[c]
  BY DEF Acts, TypeOK
<1>. QED
  BY <1>1, <1>2

(* A deal is not Successful while it acts.                                 *)
LEMMA ActsOwn ==
  ASSUME TypeOK, NEW d \in Deals, OwnInv(d), Acts(d), pc[d] # "ended"
  PROVE  /\ row'[d].status # "Successful"
         /\ row'[d] = row[d] \/ row'[d].current # NULL
         /\ \A c \in Deals \ {d} : /\ pc'[c] = pc[c] /\ failed'[c] = failed[c]
                                   /\ row'[c] = row[c] /\ queue'[c] = queue[c]
<1>1. PICK r \in RowSet : Later(d, r) /\ row' = [row EXCEPT ![d] = r]
  BY DEF Acts
<1>2. row'[d] = r
  BY <1>1 DEF TypeOK
<1>3. row[d].status # "Successful"
  BY DEF OwnInv
<1>. QED
  BY <1>1, <1>2, <1>3, ActsAlone DEF Later

(* A step of a deal that goes on in its order, or breaks off.              *)
LEMMA OwnGoesOn ==
  ASSUME TypeOK, NEW d \in Deals, OwnInv(d), Acts(d), pc[d] # "ended",
         retrieval'[d] = retrieval[d],
         pc'[d] \in Before => pc[d] \in Before,
         pc'[d] \in Waiting => pc[d] \in Waiting /\ queue'[d] = queue[d],
         queue'[d] = queue[d] \/ queue'[d] = <<>>,
         pc'[d] \in After /\ ~failed'[d] => pc[d] \in After /\ ~failed[d],
         pc[d] = "MinerOnline" => pc'[d] \in {"finish", "ended"} \/ row'[d].current # NULL,
         pc[d] = "finish" => pc'[d] = "ended"
  PROVE  OwnInv(d)'
<1>1. row'[d].status # "Successful" /\ (row'[d] = row[d] \/ row'[d].current # NULL)
  BY ActsOwn
<1>2. \A i \in DOMAIN queue'[d] : i \in DOMAIN queue[d] /\ queue'[d] = queue[d]
  OBVIOUS
<1>3. pc'[d] \in Before => retrieval'[d].status = "none"
  BY DEF OwnInv
<1>4. \A i \in DOMAIN queue'[d] :
         queue'[d][i].id = d /\ queue'[d][i].status = "completed" =>
           retrieval'[d].status = "completed"
  BY <1>2 DEF OwnInv
<1>5. pc'[d] \in Waiting /\ retrieval'[d].status \in Ends =>
        \E i \in DOMAIN queue'[d] :
          queue'[d][i].id = d /\ queue'[d][i].status = retrieval'[d].status
  BY DEF OwnInv
<1>6. pc'[d] \in After /\ ~failed'[d] => retrieval'[d].status = "completed"
  BY DEF OwnInv
<1>7. pc'[d] \notin {"MinerOnline", "finish", "ended"} => row'[d].current # NULL
  BY <1>1 DEF OwnInv
<1>. QED
  BY <1>1, <1>3, <1>4, <1>5, <1>6, <1>7 DEF OwnInv

(* Before the loop the retrieval is not there yet, or begins.              *)
LEMMA OwnBefore ==
  ASSUME RetrievalAssumption, TypeOK, NEW d \in Deals, OwnInv(d),
         ExecuteStage(d) \/ StageFails(d) \/ ProposeDeal(d) \/ ListRetrievals(d)
           \/ Subscribe(d) \/ RetrieveReturns(d) \/ Sent(d)
  PROVE  OwnInv(d)'
<1>. USE DEF Before, Waiting, After
<1>0. /\ Acts(d) /\ d \in DOMAIN pc /\ d \in DOMAIN failed /\ row \in [Deals -> RowSet]
      /\ 0 \in 0..MaxBytes
  BY ActsBefore DEF TypeOK, RetrievalAssumption
<1>1. CASE ExecuteStage(d)
  <2>1. row'[d].current # NULL
    <3>1. row'[d] = Report(row[d], pc[d], {}, 0)
      BY <1>0, <1>1 DEF ExecuteStage, Reports
    <3>. QED
      BY <1>0, <1>1, <3>1, ReportIsRow, StagesNamed DEF ExecuteStage
  <2>. QED
    BY <1>0, <1>1, <2>1, OwnGoesOn DEF ExecuteStage, Reports, Go, loop, node
<1>2. CASE StageFails(d)
  BY <1>0, <1>2, OwnGoesOn DEF StageFails, Breaks, Go, loop, node
<1>3. CASE ProposeDeal(d) \/ Subscribe(d)
  BY <1>0, <1>3, OwnGoesOn DEF ProposeDeal, Subscribe, Reports, Go, loop, node
<1>4. CASE ListRetrievals(d)
  BY <1>0, <1>4, OwnGoesOn DEF ListRetrievals, Go, node
<1>5. CASE RetrieveReturns(d) \/ Sent(d)
  BY <1>0, <1>5, OwnGoesOn DEF RetrieveReturns, Sent, Reports, Go, loop, node
<1>. QED
  BY <1>1, <1>2, <1>3, <1>4, <1>5

(* The retrieval begins.                                                   *)
LEMMA OwnRetrieve ==
  ASSUME RetrievalAssumption, TypeOK, NEW d \in Deals, OwnInv(d), Retrieve(d)
  PROVE  OwnInv(d)'
<1>1. d \in Retrievals /\ retrieval[d].status = "none" /\ pc[d] = "retrieve"
  BY DEF Retrievals, Retrieve, OwnInv, Before
<1>2. /\ pc'[d] = "retrieving" /\ retrieval'[d].status = "new"
      /\ row' = row /\ queue' = queue
  BY <1>1 DEF Retrieve, Go, loop, TypeOK
<1>. QED
  BY <1>1, <1>2 DEF OwnInv, Before, Waiting, After, Ends, Final

(* The loop.                                                               *)
LEMMA OwnInLoop ==
  ASSUME RetrievalAssumption, TypeOK, NEW d \in Deals, OwnInv(d),
         IgnoreEvent(d) \/ HandleEvent(d) \/ EventFails(d) \/ Fire(d) \/ Timeout(d)
  PROVE  OwnInv(d)'
<1>0. /\ Acts(d) /\ d \in DOMAIN pc /\ d \in DOMAIN failed /\ d \in DOMAIN queue
      /\ pc[d] = "monitor" /\ queue[d] \in Seq(EventSet)
  BY ActsInLoop DEF TypeOK, IgnoreEvent, HandleEvent, EventFails, Fire, Timeout
<1>1. /\ row'[d].status # "Successful" /\ row'[d].current # NULL
  BY <1>0, ActsOwn DEF OwnInv
<1>2. CASE EventFails(d) \/ Fire(d) \/ Timeout(d)
  BY <1>0, <1>2, OwnGoesOn
     DEF EventFails, CallFails, Fire, Timeout, Breaks, Go, LeaveLoop, node, Before,
         Waiting, After
(* An event that does not end the retrieval is read. *)
<1>3. ASSUME queue[d] # <<>>, queue'[d] = Tail(queue[d]), pc'[d] = "monitor",
             retrieval' = retrieval,
             \/ Head(queue[d]).id # d
             \/ Head(queue[d]).status \notin Ends
      PROVE  OwnInv(d)'
  <2>1. /\ \A i \in DOMAIN queue'[d] :
             i + 1 \in DOMAIN queue[d] /\ queue'[d][i] = queue[d][i + 1]
        /\ \A i \in DOMAIN queue[d] :
             i # 1 => i - 1 \in DOMAIN queue'[d] /\ queue'[d][i - 1] = queue[d][i]
        /\ Head(queue[d]) = queue[d][1]
    BY <1>0, <1>3, Received
  <2>2. \A i \in DOMAIN queue'[d] :
          queue'[d][i].id = d /\ queue'[d][i].status = "completed" =>
            retrieval'[d].status = "completed"
    BY <1>3, <2>1 DEF OwnInv
  <2>3. ASSUME retrieval'[d].status \in Ends
        PROVE  \E i \in DOMAIN queue'[d] :
                 queue'[d][i].id = d /\ queue'[d][i].status = retrieval'[d].status
    <3>1. PICK i \in DOMAIN queue[d] :
            queue[d][i].id = d /\ queue[d][i].status = retrieval[d].status
      BY <1>0, <1>3, <2>3 DEF OwnInv, Waiting
    <3>2. i # 1
      BY <1>3, <2>1, <2>3, <3>1
    <3>. QED
      BY <1>3, <2>1, <3>1, <3>2
  <2>. QED
    BY <1>1, <1>3, <2>2, <2>3 DEF OwnInv, Before, Waiting, After
<1>4. CASE IgnoreEvent(d)
  BY <1>0, <1>3, <1>4 DEF IgnoreEvent, OwnEvent, node
<1>5. ASSUME NEW e, e = Head(queue[d]), HandleEvent(d) PROVE OwnInv(d)'
  <2>0. retrieval' = retrieval /\ queue[d] # <<>> /\ e.id = d
    BY <1>5 DEF HandleEvent, OwnEvent, node
  <2>1. CASE e.status \notin {"completed", "rejected", "errored"}
    <3>1. queue'[d] = Tail(queue[d]) /\ pc'[d] = "monitor"
      BY <1>0, <1>5, <2>1 DEF HandleEvent
    <3>. QED
      BY <1>3, <1>5, <2>0, <2>1, <3>1 DEF Ends, Final
  <2>2. CASE e.status \in {"completed", "rejected", "errored"}
    <3>1. /\ queue'[d] = <<>> /\ DOMAIN queue'[d] = {}
          /\ \/ pc'[d] = "export" /\ e.status = "completed"
             \/ pc'[d] = "cleanup" /\ failed'[d] = TRUE
      BY <1>0, <1>5, <2>2 DEF HandleEvent, LeaveLoop, Breaks, Go
    <3>2. e.status = "completed" => retrieval[d].status = "completed"
      BY <1>0, <1>5, <2>0, Received DEF OwnInv
    <3>. QED
      BY <1>1, <2>0, <3>1, <3>2 DEF OwnInv, Before, Waiting, After
  <2>. QED
    BY <2>1, <2>2
<1>. QED
  BY <1>2, <1>4, <1>5

(* After the loop.                                                         *)
LEMMA OwnAfter ==
  ASSUME RetrievalAssumption, TypeOK, NEW d \in Deals, OwnInv(d),
         Export(d) \/ ExportFails(d) \/ ReadFile(d) \/ ReportFails(d) \/ RemoveImports(d)
           \/ CleanupFails(d) \/ RemoveFile(d) \/ Complete(d) \/ CompleteFails(d)
           \/ Abandon(d)
  PROVE  OwnInv(d)'
<1>. USE DEF Before, Waiting, After
<1>0. /\ Acts(d) /\ d \in DOMAIN pc /\ d \in DOMAIN failed /\ d \in DOMAIN queue
  BY ActsAfter DEF TypeOK
<1>1. CASE Export(d) \/ ExportFails(d) \/ RemoveImports(d) \/ CleanupFails(d)
             \/ RemoveFile(d)
  BY <1>0, <1>1, OwnGoesOn DEF Export, ExportFails, RemoveImports, CleanupFails, RemoveFile,
                               Breaks, Go, loop, node
<1>2. CASE ReadFile(d) \/ Complete(d) \/ CompleteFails(d)
  BY <1>0, <1>2, OwnGoesOn DEF ReadFile, Complete, CompleteFails, Reports, Breaks, Go,
                               loop, node
<1>3. CASE ReportFails(d) \/ Abandon(d)
  BY <1>0, <1>3, OwnGoesOn DEF ReportFails, Abandon, CallFails, Breaks, Go, LeaveLoop, node
<1>. QED
  BY <1>1, <1>2, <1>3

(* The outcome is the one the deal ends with.                              *)
LEMMA OwnFinish ==
  ASSUME RetrievalAssumption, TypeOK, NEW d \in Deals, OwnInv(d), Finish(d)
  PROVE  OwnInv(d)'
<1>1. /\ row[d] \in RowSet /\ row \in [Deals -> RowSet]
      /\ pc[d] = "finish" /\ pc'[d] = "ended"
      /\ retrieval' = retrieval /\ queue' = queue
  BY DEF TypeOK, Finish, Go, loop, node
<1>2. row[d].status # "Successful"
  BY <1>1 DEF OwnInv
<1>3. row'[d].status = "Successful" => retrieval[d].status = "completed"
  <2>1. \/ row' = row
        \/ row'[d] = FinalUpdate(row[d], IF failed[d] THEN "Failed" ELSE "Successful")
    BY <1>1 DEF Finish
  <2>2. row'[d].status = "Successful" => ~failed[d]
    BY <1>1, <1>2, <2>1, FinalIsRow
  <2>. QED
    BY <1>1, <2>2 DEF OwnInv, After
<1>. QED
  BY <1>1, <1>3 DEF OwnInv, Before, Waiting, After

(* Nothing but Retrieve changes the deal's retrieval; cancelOldDeals does  *)
(* as well, and is told of.                                                *)
LEMMA RetrievalKept ==
  ASSUME TypeOK, NEW d \in Deals, Step(d) \/ Fails(d) \/ Fire(d), ~CancelOld(d),
         NEW c \in Deals, c # d \/ ~Retrieve(d)
  PROVE  retrieval'[c] = retrieval[c]
<1>1. CASE Retrieve(d)
  BY <1>1 DEF Retrieve, TypeOK, Retrievals
<1>2. CASE ExecuteStage(d) \/ StageFails(d) \/ ProposeDeal(d) \/ ListRetrievals(d)
             \/ Subscribe(d) \/ RetrieveReturns(d) \/ Sent(d)
  BY <1>2 DEF ExecuteStage, StageFails, ProposeDeal, ListRetrievals, Subscribe,
              RetrieveReturns, Sent, node
<1>3. CASE IgnoreEvent(d) \/ HandleEvent(d) \/ EventFails(d) \/ Fire(d) \/ Timeout(d)
  BY <1>3 DEF IgnoreEvent, HandleEvent, EventFails, Fire, Timeout, node
<1>4. CASE Export(d) \/ ExportFails(d) \/ ReadFile(d) \/ ReportFails(d)
             \/ RemoveImports(d) \/ CleanupFails(d) \/ RemoveFile(d) \/ Complete(d)
             \/ CompleteFails(d) \/ Abandon(d) \/ Finish(d)
  BY <1>4 DEF Export, ExportFails, ReadFile, ReportFails, RemoveImports, CleanupFails,
              RemoveFile, Complete, CompleteFails, Abandon, Finish, node
<1>. QED
  BY <1>1, <1>2, <1>3, <1>4 DEF Step, Fails

(* A deal's own steps leave what the others have.                          *)
LEMMA StepsAlone ==
  ASSUME RetrievalAssumption, TypeOK, NEW d \in Deals, OwnInv(d),
         Step(d) \/ Fails(d) \/ Fire(d), ~CancelOld(d), NEW c \in Deals \ {d}
  PROVE  /\ pc'[c] = pc[c] /\ failed'[c] = failed[c] /\ row'[c] = row[c]
         /\ queue'[c] = queue[c] /\ retrieval'[c] = retrieval[c]
<1>1. retrieval'[c] = retrieval[c]
  BY RetrievalKept
<1>2. CASE Finish(d)
  BY <1>1, <1>2 DEF Finish, Go, loop, TypeOK
<1>3. CASE ~Finish(d)
  <2>1. Acts(d)
    BY <1>3, ActsBefore, ActsInLoop, ActsAfter DEF Step, Fails
  <2>. QED
    BY <1>1, <2>1, ActsAlone
<1>. QED
  BY <1>2, <1>3

(* Every step keeps each outcome the deal's own.                           *)
LEMMA OwnStep ==
  ASSUME RetrievalAssumption, TypeOK, \A c \in Deals : OwnInv(c), [Next]_vars
  PROVE  \A c \in Deals : OwnInv(c)'
<1>1. CASE UNCHANGED vars
  BY <1>1 DEF OwnInv, vars
<1>2. ASSUME NEW d \in Deals, Step(d) \/ Fails(d) \/ Fire(d), ~CancelOld(d), ~Finish(d)
      PROVE  \A c \in Deals : OwnInv(c)'
  <2>1. Acts(d)
    BY <1>2, ActsBefore, ActsInLoop, ActsAfter DEF Step, Fails
  <2>2. OwnInv(d)'
    BY <1>2, OwnBefore, OwnRetrieve, OwnInLoop, OwnAfter DEF Step, Fails
  <2>3. ASSUME NEW c \in Deals \ {d} PROVE OwnInv(c)'
    BY <1>2, <2>3, StepsAlone, OthersKeep
  <2>. QED
    BY <2>2, <2>3
<1>3. ASSUME NEW d \in Deals, Finish(d), NEW c \in Deals PROVE OwnInv(c)'
  <2>1. CASE c = d
    BY <1>3, <2>1, OwnFinish
  <2>2. CASE c # d
    <3>1. /\ pc'[c] = pc[c] /\ failed'[c] = failed[c] /\ row'[c] = row[c]
          /\ queue' = queue /\ retrieval' = retrieval
      BY <1>3, <2>2 DEF Finish, Go, loop, node, TypeOK
    <3>. QED
      BY <3>1, OthersKeep
  <2>. QED
    BY <2>1, <2>2
<1>4. ASSUME NEW d \in Deals, CancelOld(d), NEW c \in Deals PROVE OwnInv(c)'
  <2>1. UNCHANGED <<pc, failed, row>>
    BY <1>4 DEF CancelOld
  <2>2. CASE UNCHANGED <<retrieval, queue>>
    BY <2>1, <2>2, OthersKeep
  <2>3. CASE \E r \in Retrievals : Told(r) /\ Publish(r, FALSE)
    BY <2>1, <2>3, HearingKeeps
  <2>. QED
    BY <1>4, <2>2, <2>3, CancelTells
<1>5. ASSUME NEW r \in Retrievals, Accept(r) \/ Receive(r) \/ End(r), NEW c \in Deals
      PROVE  OwnInv(c)'
  <2>1. UNCHANGED <<pc, failed, row>>
    BY <1>5 DEF Accept, Receive, End
  <2>. QED
    BY <1>5, <2>1, NodeTells, HearingKeeps
<1>6. CASE Shutdown
  BY <1>6 DEF Shutdown, loop, node, OwnInv
<1>. QED
  BY <1>1, <1>2, <1>3, <1>4, <1>5, <1>6 DEF Next, Ended

-----------------------------------------------------------------------------
(* What is left of the payload.                                            *)
LEMMA LeftStep ==
  ASSUME RetrievalAssumption, TypeOK, \A d \in Deals : OwnInv(d), LeftInv, [Next]_vars
  PROVE  LeftInv'
<1>. DEFINE Imported == Waiting \union {"export", "stat", "cleanup"}
            Exported == {"stat", "cleanup", "remove"}
<1>0. faults \in Nat /\ cancelled \in BOOLEAN /\ data \subseteq {"import", "file"}
      /\ DOMAIN pc = Deals
  BY DEF TypeOK, RetrievalAssumption
<1>1. CASE UNCHANGED vars
  BY <1>1 DEF LeftInv, vars
(* The acting deal stays responsible, or has removed what it was responsible for. *)
<1>2. ASSUME NEW d \in Deals, NEW x, pc' = [pc EXCEPT ![d] = x],
             faults = faults', cancelled' = cancelled,
             "import" \in data' => x \in Imported \/ (pc[d] \notin Imported /\ "import" \in data),
             "file" \in data' => x \in Exported \/ (pc[d] \notin Exported /\ "file" \in data)
      PROVE  LeftInv'
  <2>1. pc'[d] = x /\ \A c \in Deals \ {d} : pc'[c] = pc[c]
    BY <1>0, <1>2
  <2>2. "import" \in data' /\ faults' = 0 /\ ~cancelled' => \E c \in Deals : pc'[c] \in Imported
    BY <1>2, <2>1 DEF LeftInv
  <2>3. "file" \in data' /\ faults' = 0 /\ ~cancelled' => \E c \in Deals : pc'[c] \in Exported
    BY <1>2, <2>1 DEF LeftInv
  <2>. QED
    BY <2>2, <2>3 DEF LeftInv
<1>3. ASSUME UNCHANGED <<pc, data, faults, cancelled>> PROVE LeftInv'
  BY <1>3 DEF LeftInv
<1>4. ASSUME faults' = faults + 1 PROVE LeftInv'
  BY <1>0, <1>4 DEF LeftInv
<1>5. ASSUME cancelled' PROVE LeftInv'
  BY <1>5 DEF LeftInv
<1>6. ASSUME NEW d \in Deals, Step(d) \/ Fails(d) \/ Fire(d) PROVE LeftInv'
  <2>1. CASE ReportFails(d) \/ EventFails(d) \/ ExportFails(d) \/ CleanupFails(d)
               \/ CompleteFails(d)
    BY <1>4, <2>1 DEF ReportFails, EventFails, ExportFails, CleanupFails, CompleteFails,
                      CallFails, Fault
  <2>2. CASE Abandon(d)
    BY <1>5, <2>2 DEF Abandon
  <2>3. CASE CancelOld(d) \/ IgnoreEvent(d) \/ Fire(d)
    BY <1>3, <2>3 DEF CancelOld, IgnoreEvent, Fire, node
  <2>4. CASE ExecuteStage(d) \/ StageFails(d) \/ ProposeDeal(d) \/ ListRetrievals(d)
               \/ Subscribe(d)
    BY <1>2, <2>4 DEF ExecuteStage, StageFails, ProposeDeal, ListRetrievals, Subscribe,
                      Reports, Breaks, Go, node, Waiting
  <2>5. CASE Retrieve(d) \/ RetrieveReturns(d) \/ Sent(d) \/ Timeout(d) \/ Export(d)
    BY <1>2, <2>5 DEF Retrieve, RetrieveReturns, Sent, Timeout, Export, Reports, Breaks, Go,
                      node, Waiting
  <2>6. CASE HandleEvent(d)
    <3>1. /\ pc[d] = "monitor" /\ UNCHANGED <<data, cancelled, faults>>
          /\ \/ pc' = pc
             \/ \E x \in {"export", "cleanup"} : pc' = [pc EXCEPT ![d] = x]
      BY <2>6 DEF HandleEvent, Breaks, Go, node
    <3>. QED
      BY <1>2, <1>3, <3>1 DEF Waiting
  <2>7. CASE ReadFile(d) \/ Complete(d)
    BY <1>2, <2>7 DEF ReadFile, Complete, Reports, Breaks, Go, node, Waiting
  <2>8. CASE RemoveImports(d) \/ RemoveFile(d)
    BY <1>2, <2>8 DEF RemoveImports, RemoveFile, Go, Waiting
  <2>9. CASE Finish(d)
    <3>1. /\ pc[d] = "finish" /\ pc' = [pc EXCEPT ![d] = "ended"] /\ data' = data
          /\ faults' = faults + 1 \/ (faults' = faults /\ cancelled' = cancelled)
      BY <2>9 DEF Finish, Fault, Go, node
    <3>. QED
      BY <1>2, <1>4, <3>1 DEF Waiting
  <2>. QED
    BY <1>6, <2>1, <2>2, <2>3, <2>4, <2>5, <2>6, <2>7, <2>8, <2>9 DEF Step, Fails
<1>7. ASSUME NEW r \in Retrievals, Accept(r) \/ Receive(r) \/ End(r) PROVE LeftInv'
  BY <1>3, <1>7 DEF Accept, Receive, End
<1>8. CASE Shutdown
  BY <1>5, <1>8 DEF Shutdown
<1>. QED
  BY <1>1, <1>6, <1>7, <1>8 DEF Next, Ended

-----------------------------------------------------------------------------
(* It holds before the first step.                                         *)
LEMMA InitInv ==
  ASSUME RetrievalAssumption, Init PROVE Inv
<1>1. AssignedRow \in RowSet /\ AssignedRow.status = "InProgress"
  <2>1. NoStage \in StageNames
    BY DEF StageNames
  <2>2. <<>> \in Seq(DetailsSet)
    OBVIOUS
  <2>. QED
    BY <2>1, <2>2 DEF AssignedRow, RowSet
<1>2. TypeOK
  <2>1. 0 \in 0..MaxBytes /\ 0 \in 0..MaxFaults /\ <<>> \in Seq(EventSet)
    BY DEF RetrievalAssumption
  <2>2. retrieval \in [Retrievals -> [status : Statuses, bytes : 0..MaxBytes]]
    <3>1. "accepted" \in Statuses /\ "none" \in Statuses
      BY DEF Statuses
    <3>2. \A r \in Retrievals :
            [status |-> IF r \in Leftover THEN "accepted" ELSE "none", bytes |-> 0]
              \in [status : Statuses, bytes : 0..MaxBytes]
      BY <2>1, <3>1
    <3>. QED
      BY <3>2 DEF Init
  <2>3. row \in [Deals -> RowSet]
    BY <1>1 DEF Init
  <2>4. queue \in [Deals -> Seq(EventSet)]
    BY <2>1 DEF Init
  <2>. QED
    BY <2>1, <2>2, <2>3, <2>4 DEF Init, TypeOK
<1>3. ASSUME NEW d \in Deals PROVE OwnInv(d)
  <2>1. /\ pc[d] = "MinerOnline" /\ row[d] = AssignedRow
        /\ queue[d] = <<>> /\ DOMAIN queue[d] = {}
    BY DEF Init
  <2>2. retrieval[d].status = "none"
    BY DEF Init, Retrievals, RetrievalAssumption
  <2>. QED
    BY <1>1, <2>1, <2>2 DEF OwnInv, Before, Waiting, After
<1>4. LeftInv
  BY DEF Init, LeftInv
<1>. QED
  BY <1>2, <1>3, <1>4 DEF Inv

(* In every behaviour of the executors and the node the invariant holds.   *)
THEOREM InvHolds == Spec => []Inv
<1>1. Init => Inv
  BY InitInv, RetrievalAssumption
<1>2. Inv /\ [Next]_vars => Inv'
  BY TypeStep, OwnStep, LeftStep, RetrievalAssumption DEF Inv
<1>. QED
  BY <1>1, <1>2, PTL DEF Spec

(* The variables keep their types: the timer of a deal is never left       *)
(* stopped, and its rows are rows of the stages.                           *)
THEOREM TypeCorrect == Spec => []TypeOK
<1>1. Inv => TypeOK
  BY DEF Inv
<1>. QED
  BY <1>1, InvHolds, PTL

(* A task is Successful only if its own retrieval completed, and a         *)
(* retrieval that has ended is not waited for in vain, however many deals  *)
(* retrieve the payload and cancel one another (executeAndMonitorDeal).    *)
THEOREM OutcomesAreOwn == Spec => []OutcomeIsOwn
<1>1. Inv => OutcomeIsOwn
  BY DEF Inv, OwnInv, OutcomeIsOwn, Waiting, Ends
<1>. QED
  BY <1>1, InvHolds, PTL

(* When all deals have ended and no call has failed nothing is left of the *)
(* payload (the deferred cleanupDeal).                                     *)
THEOREM NothingIsLeft == Spec => []NothingLeft
<1>1. Inv => NothingLeft
  BY DEF Inv, TypeOK, LeftInv, NothingLeft, Settled, Waiting
<1>. QED
  BY <1>1, InvHolds, PTL

-----------------------------------------------------------------------------
(* The archive of the stages, which the finished record is made from.      *)

Archived(r) == {r.past[i].of : i \in DOMAIN r.past}

(* The row holds the details of its stage, and the archive those of stages *)
(* before it, each once and in order.                                      *)
Ordered(r) ==
  /\ IF r.current = NULL THEN r.stage = NoStage /\ r.past = <<>> ELSE r.current.of = r.stage
  /\ \A i, j \in DOMAIN r.past : i < j => Rank(r.past[i].of) < Rank(r.past[j].of)
  /\ \A s \in Archived(r) : Rank(s) < Rank(r.stage)

Asked    == {"MinerOnline", "QueryAsk"}
Proposed == Asked \union {"ProposeDeal"}

(* A row of a deal that has been proposed.                                 *)
Underway(r) ==
  /\ Asked \subseteq Archived(r)
  /\ r.stage # "ProposeDeal" => "ProposeDeal" \in Archived(r)

Loop == {"ProposeDeal", "DealAccepted", "FirstByteReceived"}

(* The stage the row is in, wherever the deal is and whether it has failed *)
(* or not.                                                                 *)
InPlace(p, f, r) ==
  /\ p = "MinerOnline" => r.stage = NoStage
  /\ p = "QueryAsk" => r.stage = "MinerOnline"
  /\ p = "ProposeDeal" => r.stage = "QueryAsk" /\ "MinerOnline" \in Archived(r)
  /\ p \in {"list", "cancel", "retrieve", "retrieving", "sent"} =>
       r.stage = "ProposeDeal" /\ Underway(r)
  /\ p = "monitor" => r.stage \in Loop /\ Underway(r)
  /\ p \in {"export", "stat", "complete"} \/ (p \in {"cleanup", "remove"} /\ ~f) =>
       r.stage = "AllBytesReceived" /\ Underway(r)
  /\ r.stage = "DealComplete" =>
       Proposed \union {"AllBytesReceived"} \subseteq Archived(r)

(* An acceptance is the first the deal hears of its retrieval, so that no  *)
(* event takes the deal back to a stage it has left.                       *)
Mine(d, q) == {i \in DOMAIN q : q[i].id = d}

EventInv(d) ==
  /\ retrieval[d].status \in {"none", "new"} => Mine(d, queue[d]) = {}
  /\ \A i, j \in Mine(d, queue[d]) : i < j => ~queue[d][j].accepted
  /\ pc[d] = "monitor" /\ row[d].stage # "ProposeDeal" =>
       /\ \A i \in Mine(d, queue[d]) : ~queue[d][i].accepted
       /\ retrieval[d].status \notin {"none", "new"}

RowInv(d) == Ordered(row[d]) /\ InPlace(pc[d], failed[d], row[d])

(* No stage is the one of a task that has reported none.                   *)
LEMMA NoStageIsNone ==
  NoStage \notin {"MinerOnline", "QueryAsk", "ProposeDeal", "DealAccepted",
                  "FirstByteReceived", "AllBytesReceived", "DealComplete"}
  BY Zenon DEF NoStage

(* Where each stage stands in the order of the deal.                       *)
LEMMA Ranks ==
  /\ Rank(NoStage) = 0 /\ Rank("MinerOnline") = 1 /\ Rank("QueryAsk") = 2
  /\ Rank("ProposeDeal") = 3 /\ Rank("DealAccepted") = 4
  /\ Rank("FirstByteReceived") = 5 /\ Rank("AllBytesReceived") = 6
  /\ Rank("DealComplete") = 7
<1>1. /\ DOMAIN Stages = 1..7
      /\ Stages[1] = "MinerOnline" /\ Stages[2] = "QueryAsk" /\ Stages[3] = "ProposeDeal"
      /\ Stages[4] = "DealAccepted" /\ Stages[5] = "FirstByteReceived"
      /\ Stages[6] = "AllBytesReceived" /\ Stages[7] = "DealComplete"
  BY DEF Stages
<1>2. Rank(NoStage) = 0
  BY DEF Rank
<1>3. ASSUME NEW s, s # NoStage, NEW k \in 1..7, \A i \in 1..7 : Stages[i] = s <=> i = k
      PROVE  Rank(s) = k
  <2>1. \E i \in DOMAIN Stages : Stages[i] = s
    BY <1>1, <1>3
  <2>2. (CHOOSE i \in DOMAIN Stages : Stages[i] = s) = k
    BY <1>1, <1>3, <2>1
  <2>. QED
    BY <1>3, <2>2 DEF Rank
<1>4. Rank("MinerOnline") = 1
  <2>1. \A i \in 1..7 : Stages[i] = "MinerOnline" <=> i = 1
    BY <1>1
  <2>. QED
    BY <1>3, <2>1, NoStageIsNone
<1>5. Rank("QueryAsk") = 2
  <2>1. \A i \in 1..7 : Stages[i] = "QueryAsk" <=> i = 2
    BY <1>1
  <2>. QED
    BY <1>3, <2>1, NoStageIsNone
<1>6. Rank("ProposeDeal") = 3
  <2>1. \A i \in 1..7 : Stages[i] = "ProposeDeal" <=> i = 3
    BY <1>1
  <2>. QED
    BY <1>3, <2>1, NoStageIsNone
<1>7. Rank("DealAccepted") = 4
  <2>1. \A i \in 1..7 : Stages[i] = "DealAccepted" <=> i = 4
    BY <1>1
  <2>. QED
    BY <1>3, <2>1, NoStageIsNone
<1>8. Rank("FirstByteReceived") = 5
  <2>1. \A i \in 1..7 : Stages[i] = "FirstByteReceived" <=> i = 5
    BY <1>1
  <2>. QED
    BY <1>3, <2>1, NoStageIsNone
<1>9. Rank("AllBytesReceived") = 6
  <2>1. \A i \in 1..7 : Stages[i] = "AllBytesReceived" <=> i = 6
    BY <1>1
  <2>. QED
    BY <1>3, <2>1, NoStageIsNone
<1>10. Rank("DealComplete") = 7
  <2>1. \A i \in 1..7 : Stages[i] = "DealComplete" <=> i = 7
    BY <1>1
  <2>. QED
    BY <1>3, <2>1, NoStageIsNone
<1>. QED
  BY <1>2, <1>4, <1>5, <1>6, <1>7, <1>8, <1>9, <1>10

(* Stages are compared by number.                                          *)
LEMMA RanksAreNumbers == \A s \in StageNames : Rank(s) \in Nat
<1>1. /\ DOMAIN Stages = 1..7
      /\ Stages[1] = "MinerOnline" /\ Stages[2] = "QueryAsk" /\ Stages[3] = "ProposeDeal"
      /\ Stages[4] = "DealAccepted" /\ Stages[5] = "FirstByteReceived"
      /\ Stages[6] = "AllBytesReceived" /\ Stages[7] = "DealComplete"
  BY DEF Stages
<1>2. \A i \in 1..7 : Rank(Stages[i]) \in Nat
  <2>1. \A i \in 1..7 : i = 1 \/ i = 2 \/ i = 3 \/ i = 4 \/ i = 5 \/ i = 6 \/ i = 7
    OBVIOUS
  <2>. QED
    BY <1>1, <2>1, Ranks
<1>. QED
  BY <1>1, <1>2, Ranks DEF StageNames

(* A report of the stage the row is in, or of a later one, archives the    *)
(* stage it leaves.                                                        *)
LEMMA ReportArchives ==
  ASSUME RetrievalAssumption, NEW r \in RowSet, Ordered(r), NEW stage \in StageNames,
         NEW at \in 0..MaxBytes, stage = r.stage \/ Rank(r.stage) < Rank(stage),
         stage # NoStage, NEW n, n = Report(r, stage, {}, at)
  PROVE  /\ n \in RowSet /\ Ordered(n) /\ n.stage = stage
         /\ Archived(r) \subseteq Archived(n)
         /\ r.stage \notin {NoStage, stage} => r.stage \in Archived(n)
<1>. DEFINE d == Details(stage, {}, at)
<1>1. /\ n \in RowSet /\ n.stage = stage /\ n.current = d /\ n.current # NULL
      /\ n.current.of = n.stage
      /\ n.past = IF stage # r.stage /\ r.current # NULL
                  THEN Append(r.past, r.current) ELSE r.past
  BY ReportIsRow DEF Report, UpdateTask, Details
<1>. HIDE DEF d
<1>2. r.past \in Seq(DetailsSet) /\ r.stage \in StageNames
  BY DEF RowSet
<1>3. CASE stage # r.stage /\ r.current # NULL
  <2>1. n.past = Append(r.past, r.current) /\ r.current.of = r.stage
    BY <1>1, <1>3 DEF Ordered
  <2>2. PICK l \in Nat :
          /\ DOMAIN n.past = DOMAIN r.past \union {l} /\ n.past[l] = r.current
          /\ \A i \in DOMAIN r.past : i \in Nat /\ i < l /\ n.past[i] = r.past[i]
    BY <1>2, <2>1, SentLast
  <2>4. Archived(n) = Archived(r) \union {r.stage}
    BY <2>1, <2>2 DEF Archived
  <2>5. \A s \in Archived(n) : Rank(s) < Rank(n.stage)
    <3>1. Archived(r) \subseteq StageNames
      <4>1. \A i \in DOMAIN r.past : r.past[i] \in DetailsSet
        BY <1>2
      <4>. QED
        BY <4>1 DEF Archived, DetailsSet
    <3>2. Rank(stage) \in Nat /\ Rank(r.stage) \in Nat /\ Rank(r.stage) < Rank(stage)
      BY <1>2, <1>3, RanksAreNumbers
    <3>3. \A s \in Archived(r) : Rank(s) \in Nat /\ Rank(s) < Rank(r.stage)
      BY <3>1, RanksAreNumbers DEF Ordered
    <3>. QED
      BY <1>1, <2>4, <3>2, <3>3
  <2>6. ASSUME NEW i \in DOMAIN n.past, NEW j \in DOMAIN n.past, i < j
        PROVE  Rank(n.past[i].of) < Rank(n.past[j].of)
    <3>1. i \in DOMAIN r.past /\ n.past[i] = r.past[i]
      BY <2>2, <2>6
    <3>2. CASE j \in DOMAIN r.past
      BY <2>2, <2>6, <3>1, <3>2 DEF Ordered
    <3>3. CASE j = l
      BY <2>1, <2>2, <3>1, <3>3 DEF Ordered, Archived
    <3>. QED
      BY <2>2, <3>2, <3>3
  <2>. QED
    BY <1>1, <1>3, <2>4, <2>5, <2>6 DEF Ordered
<1>4. CASE ~(stage # r.stage /\ r.current # NULL)
  <2>1. n.past = r.past
    BY <1>1, <1>4
  <2>2. Archived(n) = Archived(r)
    BY <2>1 DEF Archived
  <2>3. \A s \in Archived(r) : Rank(s) < Rank(stage)
    <3>1. stage = r.stage \/ r.past = <<>>
      BY <1>4 DEF Ordered
    <3>2. r.past = <<>> => Archived(r) = {}
      BY DEF Archived
    <3>. QED
      BY <3>1, <3>2 DEF Ordered
  <2>4. r.stage \in {NoStage, stage}
    BY <1>4 DEF Ordered
  <2>. QED
    BY <1>1, <2>1, <2>2, <2>3, <2>4 DEF Ordered
<1>. QED
  BY <1>3, <1>4

(* The last update neither archives nor changes the stage.                 *)
LEMMA FinalArchives ==
  ASSUME RetrievalAssumption, NEW r \in RowSet, Ordered(r), NEW s,
         NEW n, n = FinalUpdate(r, s)
  PROVE  Ordered(n) /\ n.stage = r.stage /\ Archived(n) = Archived(r)
<1>1. /\ n.stage = r.stage /\ n.past = r.past
      /\ n.current = IF r.current = NULL THEN Details(NoStage, {}, 0) ELSE r.current
  BY DEF FinalUpdate, UpdateTask
<1>2. Details(NoStage, {}, 0) # NULL /\ Details(NoStage, {}, 0).of = NoStage
  <2>1. Details(NoStage, {}, 0) \in DetailsSet
    BY DEF Details, DetailsSet, StageNames, RetrievalAssumption
  <2>. QED
    BY <2>1 DEF RetrievalAssumption, Details
<1>3. n.current # NULL /\ n.current.of = n.stage
  BY <1>1, <1>2 DEF Ordered
<1>4. Archived(n) = Archived(r)
  BY <1>1 DEF Archived
<1>. QED
  BY <1>1, <1>3, <1>4 DEF Ordered

(* The rows an event may lead to, when it is no acceptance told of too     *)
(* late.                                                                   *)
LEMMA EventArchives ==
  ASSUME RetrievalAssumption, TypeOK, NEW d \in Deals, NEW e \in EventSet,
         Ordered(row[d]), row[d].stage \in Loop, Underway(row[d]),
         e.accepted => row[d].stage = "ProposeDeal"
  PROVE  /\ \A r \in {row[d], Accepted(d, e), FirstByte(d, e), AllBytes(d, e)} :
              Ordered(r) /\ Underway(r) /\ r.stage # "DealComplete"
         /\ IF e.status = "completed" THEN AllBytes(d, e).stage = "AllBytesReceived"
                                      ELSE AllBytes(d, e).stage \in Loop
<1>. USE DEF Underway, Loop
<1>0. row[d] \in RowSet /\ e.bytes \in 0..MaxBytes
  BY DEF TypeOK, EventSet
<1>. DEFINE a == Accepted(d, e)
            f == FirstByte(d, e)
            z == AllBytes(d, e)
<1>1. a \in RowSet /\ Ordered(a) /\ Underway(a) /\ a.stage \in Loop
  <2>1. CASE e.accepted
    BY <1>0, <2>1, ReportArchives, Ranks, StagesNamed, NoStageIsNone DEF Accepted
  <2>2. CASE ~e.accepted
    BY <1>0, <2>2 DEF Accepted
  <2>. QED
    BY <2>1, <2>2
<1>2. f \in RowSet /\ Ordered(f) /\ Underway(f) /\ f.stage \in Loop
  <2>. HIDE DEF a
  <2>1. CASE e.bytes > 0
    <3>1. f = Report(a, "FirstByteReceived", {}, e.bytes)
      BY <2>1 DEF FirstByte, a
    <3>. QED
      BY <1>0, <1>1, <3>1, ReportArchives, Ranks, StagesNamed, NoStageIsNone
  <2>2. CASE ~(e.bytes > 0)
    BY <1>1, <2>2 DEF FirstByte, a
  <2>. QED
    BY <2>1, <2>2
<1>3. /\ z \in RowSet /\ Ordered(z) /\ Underway(z)
      /\ IF e.status = "completed" THEN z.stage = "AllBytesReceived" ELSE z.stage \in Loop
  <2>. HIDE DEF f
  <2>1. CASE e.status = "completed"
    <3>1. z = Report(f, "AllBytesReceived", {}, e.bytes)
      BY <2>1 DEF AllBytes, f
    <3>. HIDE DEF z
    <3>2. Rank(f.stage) < Rank("AllBytesReceived")
      BY <1>2, Ranks
    <3>3. /\ z \in RowSet /\ Ordered(z) /\ z.stage = "AllBytesReceived"
          /\ Archived(f) \subseteq Archived(z)
          /\ f.stage \notin {NoStage, "AllBytesReceived"} => f.stage \in Archived(z)
      BY <1>0, <1>2, <3>1, <3>2, ReportArchives, StagesNamed, NoStageIsNone
    <3>4. Underway(z)
      BY <1>2, <3>3, NoStageIsNone
    <3>. QED
      BY <2>1, <3>3, <3>4
  <2>2. CASE e.status # "completed"
    BY <1>2, <2>2 DEF AllBytes, f
  <2>. QED
    BY <2>1, <2>2
<1>. QED
  BY <1>1, <1>2, <1>3

-----------------------------------------------------------------------------
(* The row of a deal, step by step.                                        *)

(* A row that is left as it is, or of a deal that has gone wrong.          *)
LEMMA RowOver ==
  ASSUME NEW d \in Deals, NEW r, Ordered(r), row'[d] = r,
         r.stage = "DealComplete" => Proposed \union {"AllBytesReceived"} \subseteq Archived(r),
         \/ pc'[d] \in {"finish", "ended"}
         \/ pc'[d] \in {"cleanup", "remove"} /\ failed'[d]
  PROVE  RowInv(d)'
  BY DEF RowInv, InPlace

(* Before the loop each report is of the stage the deal is in or the next. *)
LEMMA RowBefore ==
  ASSUME RetrievalAssumption, TypeOK, NEW d \in Deals, RowInv(d),
         ExecuteStage(d) \/ StageFails(d) \/ ProposeDeal(d) \/ ListRetrievals(d)
           \/ Subscribe(d) \/ Retrieve(d) \/ RetrieveReturns(d) \/ Sent(d)
  PROVE  RowInv(d)'
<1>0. /\ row[d] \in RowSet /\ Ordered(row[d]) /\ InPlace(pc[d], failed[d], row[d])
      /\ 0 \in 0..MaxBytes /\ row \in [Deals -> RowSet]
      /\ d \in DOMAIN pc /\ d \in DOMAIN failed
  BY DEF TypeOK, RowInv, RetrievalAssumption
<1>1. CASE ExecuteStage(d) \/ StageFails(d)
  <2>1. /\ pc[d] \in {"MinerOnline", "QueryAsk"}
        /\ row'[d] = Report(row[d], pc[d], {}, 0)
    BY <1>0, <1>1 DEF ExecuteStage, StageFails, Reports
  <2>2. pc[d] = row[d].stage \/ Rank(row[d].stage) < Rank(pc[d])
    BY <1>0, <2>1, Ranks DEF InPlace
  <2>3. /\ Ordered(row'[d]) /\ row'[d].stage = pc[d]
        /\ row[d].stage \notin {NoStage, pc[d]} => row[d].stage \in Archived(row'[d])
    BY <1>0, <2>1, <2>2, ReportArchives, StagesNamed, NoStageIsNone
  <2>4. \/ pc[d] = "MinerOnline" /\ pc'[d] = "QueryAsk"
        \/ pc[d] = "QueryAsk" /\ pc'[d] = "ProposeDeal"
        \/ pc'[d] = "finish"
    BY <1>0, <1>1 DEF ExecuteStage, StageFails, Reports, Breaks, Go
  <2>. QED
    BY <1>0, <2>1, <2>3, <2>4, NoStageIsNone DEF RowInv, InPlace
<1>2. CASE ProposeDeal(d) \/ Subscribe(d) \/ Sent(d)
  <2>1. /\ row'[d] = Report(row[d], "ProposeDeal", {}, 0)
        /\ \/ pc[d] = "ProposeDeal" /\ pc'[d] = "list"
           \/ pc[d] = "cancel" /\ pc'[d] = "retrieve"
           \/ pc[d] = "sent" /\ pc'[d] = "monitor"
    BY <1>0, <1>2 DEF ProposeDeal, Subscribe, Sent, Reports, Go
  <2>2. row[d].stage \in {"QueryAsk", "ProposeDeal"}
    BY <1>0, <2>1 DEF InPlace
  <2>3. /\ Ordered(row'[d]) /\ row'[d].stage = "ProposeDeal"
        /\ Archived(row[d]) \subseteq Archived(row'[d])
        /\ row[d].stage \notin {NoStage, "ProposeDeal"} =>
             row[d].stage \in Archived(row'[d])
    BY <1>0, <2>1, <2>2, ReportArchives, Ranks, StagesNamed, NoStageIsNone
  <2>4. Asked \subseteq Archived(row'[d])
    BY <1>0, <2>1, <2>2, <2>3, NoStageIsNone DEF InPlace, Asked, Underway
  <2>. QED
    BY <2>1, <2>3, <2>4 DEF RowInv, InPlace, Underway, Loop
<1>3. CASE ListRetrievals(d) \/ Retrieve(d) \/ RetrieveReturns(d)
  <2>1. /\ row' = row
        /\ pc[d] \in {"list", "retrieve", "retrieving"}
        /\ pc'[d] \in {"cancel", "retrieving", "sent"}
    BY <1>0, <1>3 DEF ListRetrievals, Retrieve, RetrieveReturns, Go
  <2>. QED
    BY <1>0, <2>1 DEF RowInv, InPlace
<1>. QED
  BY <1>1, <1>2, <1>3

(* In the loop the row follows the events of the deal.                     *)
LEMMA RowInLoop ==
  ASSUME RetrievalAssumption, TypeOK, NEW d \in Deals, RowInv(d), EventInv(d),
         IgnoreEvent(d) \/ HandleEvent(d) \/ EventFails(d) \/ Fire(d) \/ Timeout(d)
  PROVE  RowInv(d)'
<1>0. /\ row[d] \in RowSet /\ Ordered(row[d]) /\ InPlace(pc[d], failed[d], row[d])
      /\ row \in [Deals -> RowSet] /\ pc[d] = "monitor"
      /\ d \in DOMAIN pc /\ d \in DOMAIN failed
      /\ row[d].stage \in Loop /\ Underway(row[d])
  BY DEF TypeOK, RowInv, InPlace, IgnoreEvent, HandleEvent, EventFails, Fire, Timeout
<1>1. CASE IgnoreEvent(d) \/ Fire(d)
  BY <1>1 DEF IgnoreEvent, Fire, RowInv
<1>2. CASE Timeout(d)
  <2>1. row' = row /\ pc'[d] = "cleanup" /\ failed'[d]
    BY <1>0, <1>2 DEF Timeout, Breaks, Go
  <2>. QED
    BY <1>0, <2>1, RowOver DEF InPlace
<1>3. ASSUME NEW e \in EventSet, e = Head(queue[d]), HandleEvent(d) \/ EventFails(d)
      PROVE  RowInv(d)'
  <2>1. e.id = d /\ e = queue[d][1] /\ 1 \in DOMAIN queue[d]
    <3>1. queue[d] \in Seq(EventSet) /\ queue[d] # <<>>
      BY <1>3 DEF TypeOK, HandleEvent, EventFails
    <3>. QED
      BY <1>3, <3>1, Received DEF HandleEvent, EventFails, OwnEvent
  <2>2. e.accepted => row[d].stage = "ProposeDeal"
    BY <1>0, <2>1 DEF EventInv, Mine
  <2>3. /\ \A r \in {row[d], Accepted(d, e), FirstByte(d, e), AllBytes(d, e)} :
             Ordered(r) /\ Underway(r) /\ r.stage # "DealComplete"
        /\ IF e.status = "completed" THEN AllBytes(d, e).stage = "AllBytesReceived"
                                     ELSE AllBytes(d, e).stage \in Loop
    BY <1>0, <2>2, EventArchives
  <2>4. CASE HandleEvent(d)
    <3>1. /\ row'[d] = AllBytes(d, e)
          /\ \/ e.status # "completed" /\ pc'[d] = "monitor"
             \/ e.status = "completed" /\ pc'[d] = "export"
             \/ pc'[d] = "cleanup" /\ failed'[d]
      BY <1>0, <1>3, <2>4 DEF HandleEvent, Breaks, Go
    <3>3. CASE e.status # "completed" /\ pc'[d] = "monitor"
      BY <2>3, <3>1, <3>3 DEF RowInv, InPlace
    <3>4. CASE e.status = "completed" /\ pc'[d] = "export"
      BY <2>3, <3>1, <3>4 DEF RowInv, InPlace
    <3>5. CASE pc'[d] = "cleanup" /\ failed'[d]
      BY <2>3, <3>1, <3>5 DEF RowInv, InPlace
    <3>. QED
      BY <3>1, <3>3, <3>4, <3>5
  <2>5. CASE EventFails(d)
    <3>1. /\ row'[d] \in {row[d], Accepted(d, e), FirstByte(d, e), AllBytes(d, e)}
          /\ pc'[d] = "cleanup" /\ failed'[d]
      BY <1>0, <1>3, <2>5 DEF EventFails, CallFails, Breaks, Go
    <3>. QED
      BY <2>3, <3>1, RowOver
  <2>. QED
    BY <1>3, <2>4, <2>5
<1>4. queue[d] # <<>> => Head(queue[d]) \in EventSet
  BY QueueTypes
<1>. QED
  BY <1>1, <1>2, <1>3, <1>4 DEF HandleEvent, EventFails

(* After it all bytes have been received, or the deal has failed.          *)
LEMMA RowAfter ==
  ASSUME RetrievalAssumption, TypeOK, NEW d \in Deals, OwnInv(d), RowInv(d),
         Export(d) \/ ExportFails(d) \/ ReadFile(d) \/ ReportFails(d) \/ RemoveImports(d)
           \/ CleanupFails(d) \/ RemoveFile(d) \/ Complete(d) \/ CompleteFails(d)
           \/ Abandon(d) \/ Finish(d)
  PROVE  RowInv(d)'
<1>0. /\ row[d] \in RowSet /\ Ordered(row[d]) /\ InPlace(pc[d], failed[d], row[d])
      /\ row \in [Deals -> RowSet]
      /\ d \in DOMAIN pc /\ d \in DOMAIN failed /\ 0 \in 0..MaxBytes
  BY DEF TypeOK, RowInv, RetrievalAssumption
<1>1. pc[d] \in {"stat", "complete"} => row[d].current.at \in 0..MaxBytes
  BY <1>0 DEF OwnInv, RowSet, DetailsSet
(* Reports of the last two stages. *)
<1>2. pc[d] \in {"stat", "complete"} =>
        row[d].stage = "AllBytesReceived" /\ Underway(row[d])
  BY <1>0 DEF InPlace
<1>3. ASSUME pc[d] = "stat", NEW r,
             r = Report(row[d], "AllBytesReceived", {}, row[d].current.at)
      PROVE  Ordered(r) /\ Underway(r) /\ r.stage = "AllBytesReceived"
  <2>1. /\ Ordered(r) /\ r.stage = "AllBytesReceived"
        /\ Archived(row[d]) \subseteq Archived(r)
    BY <1>0, <1>1, <1>2, <1>3, ReportArchives, StagesNamed, NoStageIsNone
  <2>. QED
    BY <1>2, <1>3, <2>1 DEF Underway
<1>4. ASSUME pc[d] = "complete", NEW r,
             r = Report(row[d], "DealComplete", {}, row[d].current.at)
      PROVE  Ordered(r) /\ Proposed \union {"AllBytesReceived"} \subseteq Archived(r)
  <2>1. /\ Ordered(r) /\ row[d].stage \in Archived(r)
        /\ Archived(row[d]) \subseteq Archived(r)
    BY <1>0, <1>1, <1>2, <1>4, ReportArchives, Ranks, StagesNamed, NoStageIsNone
  <2>. QED
    BY <1>2, <1>4, <2>1 DEF Underway, Proposed
<1>5. CASE Export(d) \/ ExportFails(d) \/ RemoveImports(d) \/ CleanupFails(d)
             \/ RemoveFile(d) \/ Abandon(d)
  <2>1. /\ row'[d] = row[d]
        /\ \/ pc'[d] = "ended" \/ pc'[d] = "finish"
           \/ failed' = failed /\ pc[d] = "export" /\ pc'[d] \in {"stat", "cleanup"}
           \/ failed' = failed /\ pc[d] = "cleanup" /\ pc'[d] = "remove"
           \/ failed' = failed /\ pc[d] = "remove" /\ ~failed[d] /\ pc'[d] = "complete"
    BY <1>0, <1>5 DEF Export, ExportFails, RemoveImports, CleanupFails, RemoveFile,
                      Abandon, Breaks, Go
  <2>. QED
    BY <1>0, <2>1 DEF RowInv, InPlace
<1>6. CASE ReadFile(d)
  <2>1. \/ /\ row'[d] = Report(row[d], "AllBytesReceived", {}, row[d].current.at)
           /\ pc'[d] = "cleanup"
        \/ row'[d] = row[d] /\ pc'[d] = "cleanup" /\ failed'[d]
    BY <1>0, <1>6 DEF ReadFile, Reports, Breaks, Go
  <2>2. pc[d] = "stat"
    BY <1>6 DEF ReadFile
  <2>3. CASE row'[d] = Report(row[d], "AllBytesReceived", {}, row[d].current.at)
               /\ pc'[d] = "cleanup"
    BY <1>3, <2>2, <2>3 DEF RowInv, InPlace
  <2>4. CASE row'[d] = row[d] /\ pc'[d] = "cleanup" /\ failed'[d]
    BY <1>0, <2>4, RowOver DEF InPlace
  <2>. QED
    BY <2>1, <2>3, <2>4
<1>7. CASE Complete(d) \/ CompleteFails(d)
  <2>1. /\ pc[d] = "complete" /\ pc'[d] = "finish"
        /\ row'[d] \in {row[d], Report(row[d], "DealComplete", {}, row[d].current.at)}
    BY <1>0, <1>7 DEF Complete, CompleteFails, Reports, Breaks, Go
  <2>. QED
    BY <1>0, <1>4, <2>1, RowOver DEF InPlace
<1>8. CASE ReportFails(d)
  <2>1. /\ pc'[d] = "finish" \/ (pc'[d] = "cleanup" /\ failed'[d])
        /\ \/ row'[d] = row[d]
           \/ /\ pc[d] \in {"MinerOnline", "QueryAsk", "ProposeDeal"}
              /\ row'[d] = Report(row[d], pc[d], {}, 0)
           \/ /\ pc[d] = "stat"
              /\ row'[d] = Report(row[d], "AllBytesReceived", {}, row[d].current.at)
    <3>1. /\ pc' = [pc EXCEPT ![d] = "finish"] \/ pc' = [pc EXCEPT ![d] = "cleanup"]
          /\ failed' = [failed EXCEPT ![d] = TRUE]
      BY <1>8 DEF ReportFails, CallFails, Breaks, Go
    <3>2. pc'[d] = "finish" \/ (pc'[d] = "cleanup" /\ failed'[d])
      BY <1>0, <3>1
    <3>3. \/ row'[d] = row[d]
          \/ /\ pc[d] \in {"MinerOnline", "QueryAsk", "ProposeDeal"}
             /\ row'[d] = Report(row[d], pc[d], {}, 0)
          \/ /\ pc[d] = "stat"
             /\ row'[d] = Report(row[d], "AllBytesReceived", {}, row[d].current.at)
      BY <1>0, <1>8 DEF ReportFails, CallFails
    <3>. QED
      BY <3>2, <3>3
  <2>2. CASE row'[d] = row[d]
    BY <1>0, <2>1, <2>2, RowOver DEF InPlace
  <2>3. ASSUME pc[d] \in {"MinerOnline", "QueryAsk", "ProposeDeal"},
               row'[d] = Report(row[d], pc[d], {}, 0)
        PROVE  RowInv(d)'
    <3>1. pc[d] = row[d].stage \/ Rank(row[d].stage) < Rank(pc[d])
      BY <1>0, <2>3, Ranks DEF InPlace
    <3>2. Ordered(row'[d]) /\ row'[d].stage = pc[d]
      BY <1>0, <2>3, <3>1, ReportArchives, StagesNamed, NoStageIsNone
    <3>. QED
      BY <2>1, <2>3, <3>2, RowOver
  <2>4. ASSUME pc[d] = "stat",
               row'[d] = Report(row[d], "AllBytesReceived", {}, row[d].current.at)
        PROVE  RowInv(d)'
    <3>1. Ordered(row'[d]) /\ row'[d].stage = "AllBytesReceived"
      BY <1>3, <2>4
    <3>. QED
      BY <2>1, <3>1, RowOver
  <2>. QED
    BY <2>1, <2>2, <2>3, <2>4
<1>9. CASE Finish(d)
  <2>1. /\ pc'[d] = "ended"
        /\ \/ row'[d] = row[d]
           \/ row'[d] = FinalUpdate(row[d], IF failed[d] THEN "Failed" ELSE "Successful")
    BY <1>0, <1>9 DEF Finish, Go
  <2>. QED
    BY <1>0, <2>1, FinalArchives, RowOver DEF InPlace
<1>. QED
  BY <1>5, <1>6, <1>7, <1>8, <1>9

-----------------------------------------------------------------------------
(* The events of a retrieval, step by step.                                *)

(* Nothing is told, and the loop has read nothing.                         *)
LEMMA EventsQuiet ==
  ASSUME NEW c \in Deals, EventInv(c), retrieval'[c].status = retrieval[c].status,
         queue'[c] = queue[c] \/ queue'[c] = <<>>,
         pc'[c] = "monitor" /\ row'[c].stage # "ProposeDeal" =>
           pc[c] = "monitor" /\ row'[c] = row[c]
  PROVE  EventInv(c)'
<1>1. Mine(c, <<>>) = {}
  BY DEF Mine
<1>. QED
  BY <1>1 DEF EventInv

(* An event is told: it is an acceptance only of a retrieval of which      *)
(* nothing has been told.                                                  *)
LEMMA EventsTold ==
  ASSUME TypeOK, NEW c \in Deals, EventInv(c), NEW r \in Retrievals, Told(r),
         NEW a \in BOOLEAN, Publish(r, a), a => retrieval[r].status = "new",
         pc'[c] = pc[c], row'[c] = row[c]
  PROVE  EventInv(c)'
<1>1. PICK e \in EventSet :
         /\ e.id = r /\ e.accepted = a
         /\ queue'[c] = IF Subscribed(c) THEN Append(queue[c], e) ELSE queue[c]
  BY PublishTypes DEF Told
<1>2. queue[c] \in Seq(EventSet) /\ c \in Retrievals
  BY DEF TypeOK, Retrievals
<1>3. CASE r # c
  <2>1. retrieval'[c] = retrieval[c]
    BY <1>2, <1>3 DEF Told
  <2>2. Mine(c, queue'[c]) = Mine(c, queue[c])
    <3>1. CASE Subscribed(c)
      BY <1>1, <1>2, <1>3, <3>1, Sending DEF Mine
    <3>. QED
      BY <1>1, <3>1
  <2>3. \A i \in Mine(c, queue[c]) : queue'[c][i] = queue[c][i]
    BY <1>1, <1>2, Sending DEF Mine
  <2>. QED
    BY <2>1, <2>2, <2>3 DEF EventInv
<1>4. CASE r = c
  <2>1. /\ retrieval'[c].status \notin {"none", "new"}
        /\ a => Mine(c, queue[c]) = {}
        /\ a /\ pc[c] = "monitor" => row[c].stage = "ProposeDeal"
    BY <1>4 DEF Told, EventInv
  <2>2. CASE ~Subscribed(c)
    <3>1. queue'[c] = queue[c] /\ pc[c] # "monitor"
      BY <1>1, <2>2 DEF Subscribed
    <3>. QED
      BY <2>1, <3>1 DEF EventInv
  <2>3. CASE Subscribed(c)
    <3>. DEFINE q == queue[c]
                p == queue'[c]
    <3>1. PICK n \in Nat :
            /\ DOMAIN p = DOMAIN q \union {n} /\ p[n] = e
            /\ \A i \in DOMAIN q : i \in Nat /\ i < n /\ p[i] = q[i]
      BY <1>1, <1>2, <2>3, SentLast
    <3>2. Mine(c, q) \subseteq DOMAIN q /\ Mine(c, p) \subseteq DOMAIN q \union {n}
      BY <3>1 DEF Mine
    <3>3. \A i \in Mine(c, p) : i \in Mine(c, q) \/ i = n
      BY <3>1 DEF Mine
    <3>. HIDE DEF p, q
    <3>4. ASSUME NEW i \in Mine(c, p), NEW j \in Mine(c, p), i < j PROVE ~p[j].accepted
      <4>1. i \in Mine(c, q) /\ i \in DOMAIN q
        BY <3>1, <3>2, <3>3, <3>4
      <4>2. CASE j = n
        BY <1>1, <2>1, <3>1, <4>1, <4>2 DEF q
      <4>3. CASE j \in Mine(c, q)
        BY <3>1, <3>2, <3>4, <4>1, <4>3 DEF EventInv, q
      <4>. QED
        BY <3>3, <4>2, <4>3
    <3>5. ASSUME pc[c] = "monitor", row[c].stage # "ProposeDeal", NEW i \in Mine(c, p)
          PROVE  ~p[i].accepted
      <4>1. CASE i = n
        BY <1>1, <2>1, <3>1, <3>5, <4>1
      <4>2. CASE i \in Mine(c, q)
        BY <3>1, <3>2, <3>5, <4>2 DEF EventInv, q
      <4>. QED
        BY <3>3, <4>1, <4>2
    <3>. QED
      BY <2>1, <3>4, <3>5 DEF EventInv, p
  <2>. QED
    BY <2>2, <2>3
<1>. QED
  BY <1>3, <1>4

(* An event is read: when it is of the deal's own, what is left of these   *)
(* is no acceptance.                                                       *)
LEMMA EventsRead ==
  ASSUME TypeOK, NEW d \in Deals, EventInv(d), retrieval' = retrieval,
         queue[d] # <<>>, queue'[d] = Tail(queue[d]), pc'[d] = pc[d],
         Head(queue[d]).id = d \/ row'[d] = row[d]
  PROVE  EventInv(d)'
<1>. DEFINE q == queue[d]
            p == queue'[d]
<1>1. /\ \A i \in DOMAIN p : i + 1 \in DOMAIN q /\ p[i] = q[i + 1]
      /\ Head(q) = q[1] /\ 1 \in DOMAIN q
  BY Received DEF TypeOK
<1>2. DOMAIN p \subseteq Nat \ {0}
  <2>1. q \in Seq(EventSet) /\ p \in Seq(EventSet)
    BY QueueTypes DEF TypeOK
  <2>2. DOMAIN p = 1..Len(p) /\ Len(p) \in Nat
    BY <2>1
  <2>. QED
    BY <2>2
<1>. HIDE DEF p, q
<1>3. /\ \A i \in Mine(d, p) : i + 1 \in Mine(d, q) /\ p[i] = q[i + 1]
      /\ Mine(d, p) \subseteq Nat \ {0}
  BY <1>1, <1>2 DEF Mine
<1>4. Mine(d, q) = {} => Mine(d, p) = {}
  BY <1>3
<1>5. ASSUME NEW i \in Mine(d, p), NEW j \in Mine(d, p), i < j PROVE ~p[j].accepted
  <2>1. /\ i + 1 \in Mine(d, q) /\ j + 1 \in Mine(d, q) /\ p[j] = q[j + 1]
        /\ i \in Nat /\ j \in Nat
    BY <1>3
  <2>2. i + 1 < j + 1
    BY <1>5, <2>1
  <2>. QED
    BY <2>1, <2>2 DEF EventInv, q
<1>6. CASE Head(q).id = d
  <2>1. 1 \in Mine(d, q)
    BY <1>1, <1>6 DEF Mine
  <2>2. retrieval[d].status \notin {"none", "new"}
    BY <2>1 DEF EventInv, q
  <2>3. \A i \in Mine(d, p) : ~p[i].accepted
    <3>. SUFFICES ASSUME NEW i \in Mine(d, p) PROVE ~p[i].accepted
      OBVIOUS
    <3>1. i + 1 \in Mine(d, q) /\ p[i] = q[i + 1] /\ 1 < i + 1
      BY <1>3
    <3>. QED
      BY <2>1, <3>1 DEF EventInv, q
  <2>. QED
    BY <1>5, <2>2, <2>3 DEF EventInv, p
<1>7. CASE row'[d] = row[d]
  <2>1. pc[d] = "monitor" /\ row[d].stage # "ProposeDeal" =>
          /\ \A i \in Mine(d, p) : ~p[i].accepted
          /\ retrieval[d].status \notin {"none", "new"}
    BY <1>3 DEF EventInv, q
  <2>. QED
    BY <1>4, <1>5, <1>7, <2>1 DEF EventInv, p, q
<1>. QED
  BY <1>6, <1>7 DEF q

(* Steps of the deal itself: it reads an event, or leaves its channel.     *)
LEMMA EventsOwn ==
  ASSUME TypeOK, NEW d \in Deals, OwnInv(d), EventInv(d),
         Step(d) \/ Fails(d) \/ Fire(d), ~CancelOld(d)
  PROVE  EventInv(d)'
<1>0. /\ d \in DOMAIN pc /\ d \in DOMAIN queue /\ d \in DOMAIN row
      /\ \A r : [row EXCEPT ![d] = r][d] = r
  BY DEF TypeOK
<1>1. CASE ExecuteStage(d) \/ StageFails(d) \/ ProposeDeal(d) \/ ListRetrievals(d)
             \/ Subscribe(d) \/ RetrieveReturns(d)
  <2>1. queue' = queue /\ pc'[d] # "monitor"
    BY <1>0, <1>1 DEF ExecuteStage, StageFails, ProposeDeal, ListRetrievals, Subscribe,
                      RetrieveReturns, Reports, Breaks, Go, loop
  <2>2. ~Retrieve(d)
    BY <1>1 DEF Retrieve, ExecuteStage, StageFails, ProposeDeal, ListRetrievals, Subscribe,
                RetrieveReturns
  <2>. QED
    BY <2>1, <2>2, RetrievalKept, EventsQuiet
<1>2. CASE Sent(d)
  <2>1. queue' = queue /\ row'[d].stage = "ProposeDeal" /\ ~Retrieve(d)
    BY <1>0, <1>2 DEF Sent, Retrieve, Reports, Report, UpdateTask, loop
  <2>. QED
    BY <2>1, RetrievalKept, EventsQuiet
<1>3. CASE Retrieve(d)
  <2>1. retrieval[d].status = "none" /\ pc'[d] = "retrieving" /\ queue' = queue
    BY <1>0, <1>3 DEF Retrieve, OwnInv, Before, Go, loop
  <2>2. Mine(d, queue[d]) = {}
    BY <2>1 DEF EventInv
  <2>. QED
    BY <2>1, <2>2 DEF EventInv
<1>4. CASE IgnoreEvent(d)
  <2>1. /\ queue[d] # <<>> /\ queue'[d] = Tail(queue[d])
        /\ pc' = pc /\ row' = row /\ retrieval' = retrieval
    BY <1>0, <1>4 DEF IgnoreEvent, node
  <2>. QED
    BY <2>1, EventsRead
<1>5. CASE HandleEvent(d)
  <2>1. /\ queue[d] # <<>> /\ Head(queue[d]).id = d /\ retrieval' = retrieval
        /\ \/ queue'[d] = Tail(queue[d]) /\ pc' = pc
           \/ queue'[d] = <<>> /\ pc'[d] # "monitor"
    BY <1>0, <1>5 DEF HandleEvent, OwnEvent, LeaveLoop, Breaks, Go, node
  <2>2. CASE queue'[d] = Tail(queue[d]) /\ pc' = pc
    BY <2>1, <2>2, EventsRead
  <2>3. CASE queue'[d] = <<>> /\ pc'[d] # "monitor"
    BY <2>1, <2>3, EventsQuiet
  <2>. QED
    BY <2>1, <2>2, <2>3
<1>6. CASE Fire(d)
  BY <1>6, EventsQuiet DEF Fire, node
<1>7. CASE EventFails(d) \/ Timeout(d) \/ ReportFails(d) \/ Abandon(d)
  <2>1. queue'[d] = <<>> /\ pc'[d] # "monitor"
    BY <1>0, <1>7 DEF EventFails, Timeout, ReportFails, Abandon, CallFails, LeaveLoop,
                      Breaks, Go
  <2>2. retrieval' = retrieval
    BY <1>7 DEF EventFails, Timeout, ReportFails, Abandon, node
  <2>. QED
    BY <2>1, <2>2, EventsQuiet
<1>8. CASE Export(d) \/ ExportFails(d) \/ ReadFile(d) \/ RemoveImports(d)
             \/ CleanupFails(d) \/ RemoveFile(d) \/ Complete(d) \/ CompleteFails(d)
             \/ Finish(d)
  <2>1. queue' = queue /\ pc'[d] # "monitor"
    BY <1>0, <1>8 DEF Export, ExportFails, ReadFile, RemoveImports, CleanupFails,
                      RemoveFile, Complete, CompleteFails, Finish, Reports, Breaks, Go, loop
  <2>2. retrieval' = retrieval
    BY <1>8 DEF Export, ExportFails, ReadFile, RemoveImports, CleanupFails, RemoveFile,
                Complete, CompleteFails, Finish, node
  <2>. QED
    BY <2>1, <2>2, EventsQuiet
<1>. QED
  BY <1>1, <1>2, <1>3, <1>4, <1>5, <1>6, <1>7, <1>8 DEF Step, Fails

(* Every step keeps what is said of the events.                            *)
LEMMA EventStep ==
  ASSUME RetrievalAssumption, TypeOK, \A c \in Deals : OwnInv(c),
         \A c \in Deals : EventInv(c), [Next]_vars
  PROVE  \A c \in Deals : EventInv(c)'
<1>. SUFFICES ASSUME NEW c \in Deals PROVE EventInv(c)'
  OBVIOUS
<1>0. EventInv(c)
  OBVIOUS
<1>1. CASE UNCHANGED vars \/ Shutdown
  <2>1. UNCHANGED <<pc, row, queue, retrieval>>
    BY <1>1 DEF vars, Shutdown, loop, node
  <2>. QED
    BY <1>0, <2>1, EventsQuiet
<1>2. ASSUME NEW d \in Deals, Step(d) \/ Fails(d) \/ Fire(d), ~CancelOld(d)
      PROVE  EventInv(c)'
  <2>1. CASE c = d
    BY <1>2, <2>1, EventsOwn
  <2>2. CASE c # d
    BY <1>0, <1>2, <2>2, StepsAlone, EventsQuiet
  <2>. QED
    BY <2>1, <2>2
<1>3. ASSUME NEW d \in Deals, CancelOld(d) PROVE EventInv(c)'
  <2>1. UNCHANGED <<pc, row>>
    BY <1>3 DEF CancelOld
  <2>2. CASE UNCHANGED <<retrieval, queue>>
    BY <1>0, <2>1, <2>2, EventsQuiet
  <2>3. ASSUME NEW r \in Retrievals, Told(r), Publish(r, FALSE) PROVE EventInv(c)'
    BY <1>0, <2>1, <2>3, EventsTold
  <2>. QED
    BY <1>3, <2>2, <2>3, CancelTells
<1>4. ASSUME NEW r \in Retrievals, Accept(r) \/ Receive(r) \/ End(r) PROVE EventInv(c)'
  <2>1. UNCHANGED <<pc, row>>
    BY <1>4 DEF Accept, Receive, End
  <2>. QED
    BY <1>0, <1>4, <2>1, NodeTells, EventsTold
<1>. QED
  BY <1>1, <1>2, <1>3, <1>4 DEF Next, Ended

(* Every step keeps the archives.                                          *)
LEMMA RowStep ==
  ASSUME RetrievalAssumption, TypeOK, \A c \in Deals : OwnInv(c),
         \A c \in Deals : RowInv(c), \A c \in Deals : EventInv(c), [Next]_vars
  PROVE  \A c \in Deals : RowInv(c)'
<1>1. ASSUME UNCHANGED <<pc, failed, row>> PROVE \A c \in Deals : RowInv(c)'
  BY <1>1 DEF RowInv
<1>2. CASE UNCHANGED vars \/ Shutdown
  BY <1>1, <1>2 DEF vars, Shutdown
<1>3. ASSUME NEW d \in Deals, Step(d) \/ Fails(d) \/ Fire(d), ~CancelOld(d),
             NEW c \in Deals
      PROVE  RowInv(c)'
  <2>1. CASE c = d
    BY <1>3, <2>1, RowBefore, RowInLoop, RowAfter DEF Step, Fails
  <2>2. CASE c # d
    <3>1. pc'[c] = pc[c] /\ failed'[c] = failed[c] /\ row'[c] = row[c]
      BY <1>3, <2>2, StepsAlone
    <3>. QED
      BY <3>1 DEF RowInv
  <2>. QED
    BY <2>1, <2>2
<1>4. ASSUME NEW d \in Deals, CancelOld(d) PROVE \A c \in Deals : RowInv(c)'
  BY <1>1, <1>4 DEF CancelOld
<1>5. ASSUME NEW r \in Retrievals, Accept(r) \/ Receive(r) \/ End(r)
      PROVE  \A c \in Deals : RowInv(c)'
  BY <1>1, <1>5 DEF Accept, Receive, End
<1>. QED
  BY <1>2, <1>3, <1>4, <1>5 DEF Next, Ended

ArchiveInv == Inv /\ \A d \in Deals : RowInv(d) /\ EventInv(d)

(* Nothing is archived and nothing told before the first step.             *)
LEMMA InitArchive ==
  ASSUME RetrievalAssumption, Init, NEW d \in Deals PROVE RowInv(d) /\ EventInv(d)
<1>1. /\ row[d].current = NULL /\ row[d].stage = NoStage /\ row[d].past = <<>>
      /\ pc[d] = "MinerOnline" /\ queue[d] = <<>>
  BY DEF Init, AssignedRow
<1>2. DOMAIN row[d].past = {} /\ DOMAIN queue[d] = {}
  BY <1>1
<1>3. RowInv(d)
  BY <1>1, <1>2, NoStageIsNone DEF RowInv, Ordered, Archived, InPlace
<1>4. EventInv(d)
  BY <1>1, <1>2 DEF EventInv, Mine
<1>. QED
  BY <1>3, <1>4

(* Whatever the deal hears, of its own retrieval and of the others', and   *)
(* whichever of its calls fail, its archive has each stage once and in the *)
(* order of the deal, never the one it is in, and those every deal goes    *)
(* through once it is complete (UpdateTask, executeAndMonitorDeal).        *)
THEOREM StagesAreArchived == Spec => []StagesArchived
<1>1. Init => ArchiveInv
  BY InitInv, InitArchive, RetrievalAssumption DEF ArchiveInv
<1>2. ArchiveInv /\ [Next]_vars => ArchiveInv'
  <2>. SUFFICES ASSUME ArchiveInv, [Next]_vars PROVE ArchiveInv'
    OBVIOUS
  <2>1. Inv'
    BY TypeStep, OwnStep, LeftStep, RetrievalAssumption DEF Inv, ArchiveInv
  <2>2. /\ \A d \in Deals : RowInv(d)'
        /\ \A d \in Deals : EventInv(d)'
    BY RowStep, EventStep, RetrievalAssumption DEF Inv, ArchiveInv
  <2>. QED
    BY <2>1, <2>2 DEF ArchiveInv
<1>3. ArchiveInv => StagesArchived
  <2>. SUFFICES ASSUME ArchiveInv, NEW d \in Deals
                PROVE  /\ \A i, j \in DOMAIN row[d].past :
                            i < j => Rank(row[d].past[i].of) < Rank(row[d].past[j].of)
                       /\ row[d].stage \notin Archived(row[d])
                       /\ row[d].stage = "DealComplete" =>
                            {"MinerOnline", "QueryAsk", "ProposeDeal", "AllBytesReceived"}
                              \subseteq Archived(row[d])
    BY DEF StagesArchived, Archived
  <2>1. Ordered(row[d]) /\ InPlace(pc[d], failed[d], row[d]) /\ row[d] \in RowSet
    BY DEF ArchiveInv, RowInv, Inv, TypeOK
  <2>2. Rank(row[d].stage) \in Nat
    BY <2>1, RanksAreNumbers DEF RowSet
  <2>3. row[d].stage \notin Archived(row[d])
    BY <2>1, <2>2 DEF Ordered
  <2>. QED
    BY <2>1, <2>3 DEF Ordered, InPlace, Proposed, Asked
<1>. QED
  BY <1>1, <1>2, <1>3, PTL DEF Spec
=============================================================================
