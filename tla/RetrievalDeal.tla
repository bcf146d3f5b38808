--------------------------- MODULE RetrievalDeal ---------------------------
(***************************************************************************)
(* Retrieval deals (tasks/retrieval_deal.go) of one daemon that all ask    *)
(* the same miner for the same payload, the case in which they meet: each  *)
(* cancels the retrievals it finds under way, each hears the events of     *)
(* all, and they share one path for the exported file.  A deal is run by a *)
(* goroutine of the engine; its calls to the node and to the controller    *)
(* are steps of their own.                                                 *)
(*                                                                         *)
(* The node and the miner are external: a retrieval is accepted, receives  *)
(* bytes and comes to an end, and its events reach every subscriber in     *)
(* order.  The time a stage's details are made at is measured in the bytes *)
(* the deal has been told of, 0 before the first.                          *)
(***************************************************************************)
EXTENDS StageLog, FiniteSets

CONSTANTS
  Deals,      \* tasks; a retrieval has the name of the deal that began it
  Leftover,   \* retrievals an earlier process of the daemon left under way
  MaxBytes,   \* bound: progress events of a retrieval
  MaxFaults   \* bound: calls that fail or go unacknowledged

Retrievals == Deals \union Leftover

(* The stages of a deal, in the order in which a deal goes through them.   *)
Stages == <<"MinerOnline", "QueryAsk", "ProposeDeal", "DealAccepted",
            "FirstByteReceived", "AllBytesReceived", "DealComplete">>

Rank(s) == IF s = NoStage THEN 0 ELSE CHOOSE i \in DOMAIN Stages : Stages[i] = s

StageNames == {Stages[i] : i \in DOMAIN Stages} \union {NoStage}
DetailsSet == [of : StageNames, logs : {{}}, at : 0..MaxBytes]

ASSUME RetrievalAssumption ==
  /\ Deals \intersect Leftover = {}
  /\ MaxBytes \in Nat /\ MaxFaults \in Nat
  /\ NULL \notin DetailsSet

VARIABLES
  pc,         \* where the goroutine of the deal is
  failed,     \* err # nil: the deal is going to end as Failed
  row,        \* the task at the controller
  found,      \* cancelOldDeals: retrievals listed and still to be looked at
  queue,      \* subscribeEvents
  timer,      \* the stage's timer: "armed", or "fired" with a tick in timer.C
  retrieval,  \* the node's retrievals
  data,       \* what this machine holds of the payload: "import" in the
              \* node's store, "file" at the path of the payload's name
  cancelled,  \* the context the deals run under: the engine has shut down
  faults

vars == <<pc, failed, row, found, queue, timer, retrieval, data, cancelled, faults>>
node == <<retrieval, data>>
loop == <<found, queue, timer>>

-----------------------------------------------------------------------------
Final == {"completed", "rejected", "errored", "cancelled"}
UnderWay(r) == retrieval[r].status \in {"new", "accepted"}

(* Mutant: the deal subscribes once it knows the id of its retrieval.      *)
SubscribedLate(d) == pc[d] \in {"sent", "monitor"}

Subscribed(d) == pc[d] \in {"retrieve", "retrieving", "sent", "monitor"}

Init ==
  /\ pc        = [d \in Deals |-> "MinerOnline"]
  /\ failed    = [d \in Deals |-> FALSE]
  /\ row       = [d \in Deals |-> AssignedRow]
  /\ found     = [d \in Deals |-> {}]
  /\ queue     = [d \in Deals |-> <<>>]
  /\ timer     = [d \in Deals |-> "armed"]
  /\ retrieval = [r \in Retrievals |->
                    [status |-> IF r \in Leftover THEN "accepted" ELSE "none",
                     bytes  |-> 0]]
  /\ data      = {}
  /\ cancelled = FALSE
  /\ faults    = 0

-----------------------------------------------------------------------------
(* The node, for as long as a deal may hear of it.                         *)

Heard == ~cancelled /\ \E d \in Deals : pc[d] # "ended"

Publish(r, accepted) ==
  queue' = [d \in Deals |->
              IF Subscribed(d)
              THEN Append(queue[d], [id       |-> r,
                                     accepted |-> accepted,
                                     bytes    |-> retrieval'[r].bytes,
                                     status   |-> retrieval'[r].status])
              ELSE queue[d]]

Accept(r) ==
  /\ Heard
  /\ retrieval[r].status = "new"
  /\ retrieval' = [retrieval EXCEPT ![r].status = "accepted"]
  /\ Publish(r, TRUE)
  /\ UNCHANGED <<pc, failed, row, found, timer, data, cancelled, faults>>

Receive(r) ==
  /\ Heard
  /\ retrieval[r].status = "accepted" /\ retrieval[r].bytes < MaxBytes
  /\ retrieval' = [retrieval EXCEPT ![r].bytes = @ + 1]
  /\ Publish(r, FALSE)
  /\ UNCHANGED <<pc, failed, row, found, timer, data, cancelled, faults>>

End(r) ==
  /\ Heard
  /\ \E s \in Final \ {"cancelled"} :
       /\ retrieval[r].status = (IF s = "rejected" THEN "new" ELSE "accepted")
       /\ retrieval' = [retrieval EXCEPT ![r].status = s]
  /\ Publish(r, FALSE)
  /\ UNCHANGED <<pc, failed, row, found, timer, data, cancelled, faults>>

-----------------------------------------------------------------------------
(* Steps of the executor's goroutine.                                      *)

Go(d, next) == pc' = [pc EXCEPT ![d] = next]

(* updateStage goes through, and the goroutine goes on.                    *)
Reports(d, stage, at, next) ==
  /\ ~cancelled
  /\ row' = [row EXCEPT ![d] = Report(@, stage, {}, at)]
  /\ Go(d, next)
  /\ UNCHANGED <<failed, cancelled, faults>>

Breaks(d, next) ==
  /\ Go(d, next)
  /\ failed' = [failed EXCEPT ![d] = TRUE]

(* What is left in the channels nobody reads.                              *)
LeaveLoop(d) ==
  /\ queue' = [queue EXCEPT ![d] = <<>>]
  /\ timer' = [timer EXCEPT ![d] = "armed"]

Fault == /\ ~cancelled /\ faults < MaxFaults
         /\ faults' = faults + 1 /\ UNCHANGED cancelled

(* A call fails, or the controller does what it is told and its answer is  *)
(* lost: the deal ends, and there is something to clean up from ProposeDeal *)
(* on.  `after' are the states of the row this may leave.                  *)
CallFails(d, after) ==
  /\ Fault
  /\ \E r \in after : row' = [row EXCEPT ![d] = r]
  /\ Breaks(d, IF pc[d] \in {"MinerOnline", "QueryAsk"} THEN "finish"
               ELSE "cleanup")

(* executeStage: the stage is reported, then its steps, which only ask the *)
(* node, and the details again after each.                                 *)
ExecuteStage(d) ==
  /\ pc[d] \in {"MinerOnline", "QueryAsk"}
  /\ Reports(d, pc[d], 0,
             IF pc[d] = "MinerOnline" THEN "QueryAsk" ELSE "ProposeDeal")
  /\ UNCHANGED <<node, loop>>

(* A step fails: the miner is off line, the offer too dear, or the stage's *)
(* time has run out between two steps.                                     *)
StageFails(d) ==
  /\ pc[d] \in {"MinerOnline", "QueryAsk"} /\ ~cancelled
  /\ row' = [row EXCEPT ![d] = Report(@, pc[d], {}, 0)]
  /\ Breaks(d, "finish")
  /\ UNCHANGED <<node, loop, cancelled, faults>>

ProposeDeal(d) ==
  /\ pc[d] = "ProposeDeal"
  /\ Reports(d, "ProposeDeal", 0, "list")
  /\ UNCHANGED <<node, loop>>

(* cancelOldDeals lists the retrievals, ...                                *)
ListRetrievals(d) ==
  /\ pc[d] = "list" /\ ~cancelled
  /\ found' = [found EXCEPT ![d] = {r \in Retrievals : UnderWay(r)}]
  /\ Go(d, "cancel")
  /\ UNCHANGED <<failed, row, queue, timer, node, cancelled, faults>>

(* ... and cancels those that were under way when it did.                  *)
CancelOld(d) ==
  /\ pc[d] = "cancel" /\ ~cancelled
  /\ \E r \in found[d] :
       /\ found' = [found EXCEPT ![d] = @ \ {r}]
       /\ IF UnderWay(r)
          THEN /\ retrieval' = [retrieval EXCEPT ![r].status = "cancelled"]
               /\ Publish(r, FALSE)
          ELSE UNCHANGED <<retrieval, queue>>
  /\ UNCHANGED <<pc, failed, row, timer, data, cancelled, faults>>

(* The stage is reported again and the deal subscribes to the events.      *)
Subscribe(d) ==
  /\ pc[d] = "cancel" /\ found[d] = {}
  /\ Reports(d, "ProposeDeal", 0, "retrieve")
  /\ UNCHANGED <<node, loop>>

(* ClientRetrieve: the retrieval begins, and may get on, ...               *)
Retrieve(d) ==
  /\ pc[d] = "retrieve" /\ ~cancelled
  /\ retrieval' = [retrieval EXCEPT ![d].status = "new"]
  /\ data' = data \union {"import"}
  /\ Go(d, "retrieving")
  /\ UNCHANGED <<failed, row, loop, cancelled, faults>>

(* ... before the call returns its id.                                     *)
RetrieveReturns(d) ==
  /\ pc[d] = "retrieving" /\ ~cancelled
  /\ Go(d, "sent")
  /\ UNCHANGED <<failed, row, loop, node, cancelled, faults>>

(* "deal sent to miner"; the loop begins with a new timer.                 *)
Sent(d) ==
  /\ pc[d] = "sent"
  /\ Reports(d, "ProposeDeal", 0, "monitor")
  /\ UNCHANGED <<node, loop>>

-----------------------------------------------------------------------------
(* The loop.  `stage' is the stage of the row: every stage the loop stays  *)
(* in has been reported.                                                   *)

(* The row after each of the reports an event may call for.  lastBytes-    *)
(* Received stays 0: every event with bytes reports the first byte again.  *)
Accepted(d, e) ==
  IF e.accepted THEN Report(row[d], "DealAccepted", {}, e.bytes) ELSE row[d]
FirstByte(d, e) ==
  IF e.bytes > 0 THEN Report(Accepted(d, e), "FirstByteReceived", {}, e.bytes)
  ELSE Accepted(d, e)
AllBytes(d, e) ==
  IF e.status = "completed"
  THEN Report(FirstByte(d, e), "AllBytesReceived", {}, e.bytes)
  ELSE FirstByte(d, e)

(* Mutant: the events of other retrievals are taken for this one's.        *)
AnyEvent(d, e) == TRUE

OwnEvent(d, e) == e.id = d

(* Mutant: it is not set again.                                            *)
StopOnly(d) ==
  timer' = [timer EXCEPT ![d] = IF row'[d].stage # row[d].stage THEN "stopped" ELSE @]

(* When the stage is another the timer is stopped, drained and set again.  *)
ResetTimer(d) ==
  timer' = [timer EXCEPT ![d] = IF row'[d].stage # row[d].stage THEN "armed" ELSE @]

IgnoreEvent(d) ==
  /\ pc[d] = "monitor" /\ ~cancelled /\ queue[d] # <<>>
  /\ ~OwnEvent(d, Head(queue[d]))
  /\ queue' = [queue EXCEPT ![d] = Tail(@)]
  /\ UNCHANGED <<pc, failed, row, found, timer, node, cancelled, faults>>

(* Reports, and a retrieval that has ended leaves the loop; one that was   *)
(* cancelled does not.                                                     *)
HandleEvent(d) ==
  /\ pc[d] = "monitor" /\ ~cancelled /\ queue[d] # <<>>
  /\ LET e == Head(queue[d])
     IN  /\ OwnEvent(d, e)
         /\ row' = [row EXCEPT ![d] = AllBytes(d, e)]
         /\ \/ /\ e.status \notin {"completed", "rejected", "errored"}
               /\ queue' = [queue EXCEPT ![d] = Tail(@)]
               /\ ResetTimer(d)
               /\ UNCHANGED <<pc, failed>>
            \/ /\ e.status = "completed"
               /\ Go(d, "export")
               /\ LeaveLoop(d)
               /\ UNCHANGED failed
            \/ /\ e.status \in {"rejected", "errored"}
               /\ Breaks(d, "cleanup")
               /\ LeaveLoop(d)
  /\ UNCHANGED <<found, node, cancelled, faults>>

(* One of the reports fails, those before it having gone through.          *)
EventFails(d) ==
  /\ pc[d] = "monitor" /\ queue[d] # <<>>
  /\ LET e == Head(queue[d])
     IN  /\ OwnEvent(d, e)
         /\ CallFails(d, {row[d], Accepted(d, e), FirstByte(d, e), AllBytes(d, e)})
  /\ LeaveLoop(d)
  /\ UNCHANGED <<found, node>>

Fire(d) ==
  /\ pc[d] = "monitor" /\ timer[d] = "armed"
  /\ timer' = [timer EXCEPT ![d] = "fired"]
  /\ UNCHANGED <<pc, failed, row, found, queue, node, cancelled, faults>>

Timeout(d) ==
  /\ pc[d] = "monitor" /\ timer[d] = "fired" /\ ~cancelled
  /\ Breaks(d, "cleanup")
  /\ LeaveLoop(d)
  /\ UNCHANGED <<row, found, node, cancelled, faults>>

(* ClientExport; when it fails the deal ends without an error.             *)
Export(d) ==
  /\ pc[d] = "export" /\ ~cancelled
  /\ data' = data \union {"file"}
  /\ Go(d, "stat")
  /\ UNCHANGED <<failed, row, retrieval, loop, cancelled, faults>>

ExportFails(d) ==
  /\ pc[d] = "export" /\ Fault
  /\ Go(d, "cleanup")
  /\ UNCHANGED <<failed, row, node, loop>>

(* os.Stat and the reading of the file, which is reported.                 *)
ReadFile(d) ==
  /\ pc[d] = "stat"
  /\ IF "file" \in data
     THEN Reports(d, "AllBytesReceived", row[d].current.at, "cleanup")
     ELSE ~cancelled /\ Breaks(d, "cleanup") /\ UNCHANGED <<row, cancelled, faults>>
  /\ UNCHANGED <<node, loop>>

(* A report, or a call that changes nothing, fails.                        *)
ReportFails(d) ==
  /\ \/ /\ pc[d] \in {"MinerOnline", "QueryAsk", "ProposeDeal"}
        /\ CallFails(d, {row[d], Report(row[d], pc[d], {}, 0)})
     \/ /\ pc[d] \in {"list", "cancel", "retrieve", "retrieving", "sent"}
        /\ CallFails(d, {row[d]})
     \/ /\ pc[d] = "stat" /\ "file" \in data
        /\ CallFails(d, {row[d], Report(row[d], "AllBytesReceived", {},
                                        row[d].current.at)})
  /\ found' = [found EXCEPT ![d] = {}]
  /\ LeaveLoop(d)
  /\ UNCHANGED node

(* Mutant: what a deal that failed has imported is kept.                   *)
RemoveAfterSuccess(d) ==
  /\ pc[d] = "cleanup" /\ ~cancelled
  /\ data' = IF failed[d] THEN data ELSE data \ {"import"}
  /\ Go(d, "remove")
  /\ UNCHANGED <<failed, row, retrieval, loop, cancelled, faults>>

(* cleanupDeal: the imports, ...                                           *)
RemoveImports(d) ==
  /\ pc[d] = "cleanup" /\ ~cancelled
  /\ data' = data \ {"import"}
  /\ Go(d, "remove")
  /\ UNCHANGED <<failed, row, retrieval, loop, cancelled, faults>>

(* ... whose failure fails the deal and leaves the file, ...               *)
CleanupFails(d) ==
  /\ pc[d] = "cleanup" /\ Fault
  /\ Breaks(d, "finish")
  /\ UNCHANGED <<row, node, loop>>

(* ... and the file.  An error of the deal goes before one of the cleanup. *)
RemoveFile(d) ==
  /\ pc[d] = "remove"
  /\ data' = data \ {"file"}
  /\ Go(d, IF failed[d] THEN "finish" ELSE "complete")
  /\ UNCHANGED <<failed, row, retrieval, loop, cancelled, faults>>

Complete(d) ==
  /\ pc[d] = "complete"
  /\ Reports(d, "DealComplete", row[d].current.at, "finish")
  /\ UNCHANGED <<node, loop>>

CompleteFails(d) ==
  /\ pc[d] = "complete" /\ Fault
  /\ Breaks(d, "finish")
  /\ \E r \in {row[d], Report(row[d], "DealComplete", {}, row[d].current.at)} :
       row' = [row EXCEPT ![d] = r]
  /\ UNCHANGED <<node, loop>>

(* runTask's last update; when it fails the failure is logged.             *)
Finish(d) ==
  /\ pc[d] = "finish" /\ ~cancelled
  /\ Go(d, "ended")
  /\ \/ /\ row' = [row EXCEPT ![d] =
                     FinalUpdate(@, IF failed[d] THEN "Failed" ELSE "Successful")]
        /\ UNCHANGED <<cancelled, faults>>
     \/ Fault /\ UNCHANGED row
  /\ failed' = [failed EXCEPT ![d] = FALSE]
  /\ UNCHANGED <<node, loop>>

(* The context is cancelled: every call from now on fails, the first of    *)
(* cleanupDeal and the last update too, and the task is left as it is.     *)
Shutdown ==
  /\ ~cancelled /\ cancelled' = TRUE
  /\ UNCHANGED <<pc, failed, row, loop, node, faults>>

Abandon(d) ==
  /\ cancelled /\ pc[d] \notin {"remove", "ended"}
  /\ Go(d, "ended")
  /\ failed' = [failed EXCEPT ![d] = FALSE]
  /\ found' = [found EXCEPT ![d] = {}]
  /\ LeaveLoop(d)
  /\ UNCHANGED <<row, node, cancelled, faults>>

Settled == \A d \in Deals : pc[d] = "ended"

(* The deals have ended; that is no deadlock.                              *)
Ended == Settled /\ UNCHANGED vars

Step(d) ==
  \/ ExecuteStage(d) \/ ProposeDeal(d) \/ ListRetrievals(d) \/ CancelOld(d)
  \/ Subscribe(d) \/ Retrieve(d) \/ RetrieveReturns(d) \/ Sent(d)
  \/ IgnoreEvent(d) \/ HandleEvent(d) \/ Timeout(d) \/ Export(d) \/ ReadFile(d)
  \/ RemoveImports(d) \/ RemoveFile(d) \/ Complete(d) \/ Finish(d) \/ Abandon(d)

Fails(d) ==
  \/ StageFails(d) \/ ReportFails(d) \/ EventFails(d) \/ ExportFails(d)
  \/ CleanupFails(d) \/ CompleteFails(d)

Next ==
  \/ \E d \in Deals : Step(d) \/ Fails(d) \/ Fire(d)
  \/ \E r \in Retrievals : Accept(r) \/ Receive(r) \/ End(r)
  \/ Shutdown
  \/ Ended

Spec == Init /\ [][Next]_vars

(* The calls are answered and timers fire.  The miner owes nothing.        *)
FairSpec == Spec /\ \A d \in Deals : WF_vars(Step(d)) /\ WF_vars(Fire(d))

-----------------------------------------------------------------------------
(* Properties.                                                             *)

RowSet == [status : {"InProgress", "Failed", "Successful"}, stage : StageNames,
           current : DetailsSet \union {NULL}, past : Seq(DetailsSet)]
Statuses == Final \union {"none", "new", "accepted"}
EventSet == [id : Retrievals, accepted : BOOLEAN, bytes : 0..MaxBytes,
             status : Statuses]

TypeOK ==
  /\ pc \in [Deals -> {"MinerOnline", "QueryAsk", "ProposeDeal", "list", "cancel",
                       "retrieve", "retrieving", "sent", "monitor", "export",
                       "stat", "cleanup", "remove", "complete", "finish", "ended"}]
  /\ failed \in [Deals -> BOOLEAN]
  /\ row \in [Deals -> RowSet]
  /\ found \in [Deals -> SUBSET Retrievals]
  /\ queue \in [Deals -> Seq(EventSet)]
  /\ timer \in [Deals -> {"armed", "fired"}]
  /\ retrieval \in [Retrievals -> [status : Statuses, bytes : 0..MaxBytes]]
  /\ data \subseteq {"import", "file"}
  /\ cancelled \in BOOLEAN
  /\ faults \in 0..MaxFaults

(* A task that ends as Successful had its own retrieval completed, whatever *)
(* was heard of the others', and whoever cancelled it.  And a retrieval    *)
(* that has come to its end is not waited for in vain: the event that says *)
(* so is still to come, as the subscription precedes the retrieval, whose  *)
(* events may overtake the answer that tells its id.                       *)
OutcomeIsOwn ==
  \A d \in Deals :
    /\ row[d].status = "Successful" => retrieval[d].status = "completed"
    /\ pc[d] = "monitor" /\ retrieval[d].status \in Final \ {"cancelled"} =>
         \E i \in DOMAIN queue[d] :
           queue[d][i].id = d /\ queue[d][i].status = retrieval[d].status

(* The archive is the deal's history: each stage once, in order, none that *)
(* the deal is in, so that it never goes back to one, and of a deal that   *)
(* completed all that every deal passes through.  The finished record is   *)
(* made from it.                                                           *)
StagesArchived ==
  \A d \in Deals :
    LET stageOf(i) == row[d].past[i].of
        archived   == {stageOf(i) : i \in DOMAIN row[d].past}
    IN  /\ \A i, j \in DOMAIN row[d].past : i < j => Rank(stageOf(i)) < Rank(stageOf(j))
        /\ row[d].stage \notin archived
        /\ row[d].stage = "DealComplete" =>
             {"MinerOnline", "QueryAsk", "ProposeDeal", "AllBytesReceived"}
               \subseteq archived

(* When all deals have ended and no call has failed nothing is left of the *)
(* payload, in whichever order they shared it.                             *)
NothingLeft == Settled /\ faults = 0 /\ ~cancelled => data = {}

(* Every deal comes to an end, also one whose retrieval another deal has   *)
(* cancelled, of which the loop takes no notice: its timer ends it.        *)
DealsEnd == \A d \in Deals : <>(pc[d] = "ended")

(* The time to the first byte in the record is the time at which the first *)
(* byte had come.                                                          *)
FirstByteIsFirst ==
  \A d \in Deals :
    TimeToFirstByte(row[d].past, "FirstByteReceived") \in {NULL, 1}
=============================================================================
