---------------------------- MODULE StorageDeal ----------------------------
(***************************************************************************)
(* One storage deal of a daemon (tasks/storage_deal.go): the stages before *)
(* the proposal, the loop that follows the deal through the node's updates *)
(* and a timer for each stage, the slot given back on the way, and the     *)
(* clean-up of the generated file and its import.                          *)
(*                                                                         *)
(* The node is external.  It reports every change of every deal it has, so *)
(* that the updates of the daemon's other deals arrive as well.  Its       *)
(* states are those of one way to an active deal, which may start the      *)
(* transfer again, and one state for the eight the code takes as failures. *)
(* The details of a stage come from the node; of their logs those are kept *)
(* that end in the finished record as its ids.                             *)
(***************************************************************************)
EXTENDS StageLog, FiniteSets

CONSTANTS
  Own,         \* the proposal of this deal
  Others,      \* proposals of other deals on the node
  Repeats,     \* states the node may report again without a change
  MaxUpdates,  \* bound: updates of this deal
  MaxOthers,   \* bound: updates of each of the others
  MaxFaults    \* bound: calls that fail or go unacknowledged

Proposals == {Own} \union Others

(* In the order of the node; a deal has its id from "Sealing" on.          *)
States == <<"FundsReserved", "Transferring", "CheckForAcceptance", "Sealing",
            "Active">>
Failure == "Failing"
Index(s) == CHOOSE i \in DOMAIN States : States[i] = s
StateSet == {States[i] : i \in DOMAIN States} \union {Failure}

Early == <<"MinerOnline", "QueryAsk", "CheckPrice", "ClientImport">>

ASSUME StorageAssumption ==
  /\ Own \notin Others
  /\ NULL \notin StateSet \union {"failed", "cancelled"}
  /\ Repeats \subseteq StateSet
  /\ MaxUpdates \in Nat /\ MaxOthers \in Nat /\ MaxFaults \in Nat

VARIABLES
  pc,         \* where the executor is
  early,      \* the number of the early stage it is in
  err,        \* NULL, or how the deal went wrong: "failed" or "cancelled"
  row,        \* the task at the controller
  updates,    \* the channel of ClientGetDealUpdates
  timer,      \* "armed", or "fired" with a tick in timer.C
  lastState,
  loggedID,
  released,   \* releaseWorker has been called
  file,       \* the generated file: "none", "named", "disk" or "removed"
  import,     \* its import in the node: "none", "unknown", "store", "removed"
  deal,       \* the node's deals: state, updates so far, and its stages known
  cancelled,  \* the context: the engine has shut down
  faults

vars == <<pc, early, err, row, updates, timer, lastState, loggedID, released,
          file, import, deal, cancelled, faults>>
loop  == <<updates, timer, lastState, loggedID, released>>
disk  == <<file, import>>

Init ==
  /\ pc = "early" /\ early = 1 /\ err = NULL
  /\ row = AssignedRow
  /\ updates = <<>> /\ timer = "armed" /\ lastState = NULL
  /\ loggedID = FALSE /\ released = FALSE
  /\ file = "none" /\ import = "none"
  /\ \E s \in StateSet :
       deal = [p \in Proposals |->
                 [state |-> IF p = Own THEN NULL ELSE s, sent |-> 0]]
  /\ cancelled = FALSE
  /\ faults = 0

-----------------------------------------------------------------------------
(* The node.                                                               *)

Subscribed == pc \in {"subscribed", "starting", "monitor"}

HasID(s) == s \in {"Sealing", "Active"}

(* Any update may come without stages: the code looks before it uses them. *)
Publish(p, s) ==
  /\ deal' = [deal EXCEPT ![p] = [state |-> s, sent |-> @.sent + 1]]
  /\ \E staged \in BOOLEAN :
       updates' = IF Subscribed
                  THEN Append(updates, [proposal |-> p, state |-> s,
                                        id |-> HasID(s), staged |-> staged])
                  ELSE updates

Successors(s) ==
  {States[i] : i \in {Index(s) + 1} \intersect DOMAIN States}
    \union {Failure}
    \union (IF s = "CheckForAcceptance" THEN {"Transferring"} ELSE {})
    \union (Repeats \intersect {s})

UpdateDeal(p) ==
  /\ pc # "ended" /\ ~cancelled
  /\ deal[p].state \notin {NULL, Failure, "Active"}
  /\ deal[p].sent < (IF p = Own THEN MaxUpdates ELSE MaxOthers)
  /\ \E s \in Successors(deal[p].state) : Publish(p, s)
  /\ UNCHANGED <<pc, early, err, row, timer, lastState, loggedID, released, disk,
                 cancelled, faults>>

-----------------------------------------------------------------------------
(* The executor.                                                           *)

Reports(stage, logs) ==
  /\ ~cancelled
  /\ row' = Report(row, stage, logs, 0)
  /\ UNCHANGED <<cancelled, faults>>

Fault == /\ ~cancelled /\ faults < MaxFaults
         /\ faults' = faults + 1 /\ UNCHANGED cancelled

(* The deal goes wrong; the deferred clean-up comes next.  What is left in *)
(* the channels nobody reads.                                              *)
Breaks(why) ==
  /\ err' = why
  /\ pc' = "cleanup"
  /\ updates' = <<>>
  /\ timer' = "armed"

(* executeStage for the stages that only ask the node.                     *)
ExecuteStage ==
  /\ pc = "early" /\ early < Len(Early)
  /\ Reports(Early[early], {})
  /\ early' = early + 1
  /\ UNCHANGED <<pc, err, loop, disk, deal>>

StageFails ==
  /\ pc = "early"
  /\ Reports(Early[early], {})
  /\ Breaks("failed")
  /\ UNCHANGED <<early, lastState, loggedID, released, disk, deal>>

(* ClientImport: the file is named, created and filled, and reported; the  *)
(* disk may be full before or after it exists.                             *)
GenerateFile ==
  /\ pc = "early" /\ early = Len(Early)
  /\ Reports("ClientImport", {})
  /\ \/ file' = "disk" /\ pc' = "import" /\ UNCHANGED <<err, updates, timer>>
     \/ file' \in {"named", "disk"} /\ Breaks("failed")
  /\ UNCHANGED <<early, lastState, loggedID, released, import, deal>>

ImportFile ==
  /\ pc = "import"
  /\ Reports("ClientImport", {"PayloadCID"})
  /\ import' = "store"
  /\ pc' = "propose"
  /\ UNCHANGED <<early, err, loop, file, deal>>

(* The node cannot import the file, or does and its answer is lost: then   *)
(* importRes is nil, and nobody knows of the import.                       *)
ImportFails ==
  /\ pc = "import" /\ Fault
  /\ import' \in {"none", "unknown"}
  /\ Breaks("failed")
  /\ UNCHANGED <<early, row, lastState, loggedID, released, file, deal>>

ProposeDeal ==
  /\ pc = "propose"
  /\ Reports("ProposeDeal", {})
  /\ pc' = "size"
  /\ UNCHANGED <<early, err, loop, disk, deal>>

(* ClientDealSize and ClientGetDealUpdates: the updates precede the deal   *)
(* "so we don't miss any".                                                 *)
Subscribe ==
  /\ pc = "size" /\ ~cancelled
  /\ pc' = "subscribed"
  /\ UNCHANGED <<early, err, row, loop, disk, deal, cancelled, faults>>

(* ClientStartDeal: the deal begins, and may get on, ...                   *)
StartDeal ==
  /\ pc = "subscribed" /\ ~cancelled
  /\ pc' = "starting"
  /\ Publish(Own, States[1])
  /\ UNCHANGED <<early, err, row, timer, lastState, loggedID, released, disk,
                 cancelled, faults>>

(* ... before the call returns the proposal's id.                          *)
Started ==
  /\ pc = "starting"
  /\ Reports("ProposeDeal", {"ProposalCID"})
  /\ pc' = "monitor"
  /\ UNCHANGED <<early, err, loop, disk, deal>>

(* A report, or a call that has changed nothing, fails; a report may have  *)
(* got through all the same.                                               *)
CallFails ==
  /\ Fault
  /\ \/ /\ pc = "early"
        /\ row' \in {row, Report(row, Early[early], {}, 0)}
     \/ /\ pc = "propose"
        /\ row' \in {row, Report(row, "ClientImport", {"PayloadCID"}, 0),
                     Report(row, "ProposeDeal", {}, 0)}
     \/ /\ pc \in {"size", "subscribed"} /\ UNCHANGED row
     \/ /\ pc = "starting"
        /\ row' \in {row, Report(row, "ProposeDeal", {"ProposalCID"}, 0)}
  /\ Breaks("failed")
  /\ UNCHANGED <<early, lastState, loggedID, released, disk, deal>>

-----------------------------------------------------------------------------
(* The loop.                                                               *)

(* Mutant: the updates of every deal are taken for this one's.             *)
AnyUpdate(u) == TRUE

OwnUpdate(u) == u.proposal = Own

IgnoreUpdate ==
  /\ pc = "monitor" /\ ~cancelled /\ updates # <<>>
  /\ ~OwnUpdate(Head(updates))
  /\ updates' = Tail(updates)
  /\ UNCHANGED <<pc, early, err, row, timer, lastState, loggedID, released, disk,
                 deal, cancelled, faults>>

(* The slot is given back when the deal first waits for acceptance.        *)
Observe(u) ==
  /\ lastState' = u.state
  /\ released' = (released \/ (u.state # lastState
                                 /\ u.state = "CheckForAcceptance"))

(* The id is logged once, with the first update that has it and stages.     *)
LogsID(u) == IF ~loggedID /\ u.id THEN {"DealID"} ELSE {}

Moved(u) == IF u.staged THEN Report(row, u.state, LogsID(u), 0) ELSE row

(* Mutant: the timer is stopped and not set again.                         *)
StopOnly(u) == timer' = IF Moved(u).stage # row.stage THEN "stopped" ELSE timer

(* For another stage the timer is stopped, drained and set again.          *)
ResetTimer(u) == timer' = IF Moved(u).stage # row.stage THEN "armed" ELSE timer

HandleUpdate ==
  /\ pc = "monitor" /\ ~cancelled /\ updates # <<>>
  /\ LET u == Head(updates)
     IN  /\ OwnUpdate(u)
         /\ Observe(u)
         /\ \/ /\ u.state = Failure
               /\ Breaks("failed")
               /\ UNCHANGED <<row, loggedID>>
            \/ /\ u.state # Failure
               /\ row' = Moved(u)
               /\ loggedID' = (loggedID \/ (u.staged /\ u.id))
               /\ UNCHANGED err
               /\ IF u.state = "Active"
                  THEN pc' = "cleanup" /\ updates' = <<>> /\ timer' = "armed"
                  ELSE updates' = Tail(updates) /\ ResetTimer(u) /\ UNCHANGED pc
  /\ UNCHANGED <<early, disk, deal, cancelled, faults>>

(* The report of the update fails.                                         *)
UpdateFails ==
  /\ pc = "monitor" /\ updates # <<>> /\ Fault
  /\ LET u == Head(updates)
     IN  /\ OwnUpdate(u) /\ u.state # Failure /\ u.staged
         /\ Observe(u)
         /\ row' \in {row, Moved(u)}
         /\ loggedID' = (loggedID \/ u.id)
  /\ Breaks("failed")
  /\ UNCHANGED <<early, disk, deal>>

(* The connection to the node ends: the channel is closed.                 *)
UpdatesClosed ==
  /\ pc = "monitor" /\ updates = <<>> /\ Fault
  /\ Breaks("failed")
  /\ UNCHANGED <<early, row, lastState, loggedID, released, disk, deal>>

Fire ==
  /\ pc = "monitor" /\ timer = "armed"
  /\ timer' = "fired"
  /\ UNCHANGED <<pc, early, err, row, updates, lastState, loggedID, released, disk,
                 deal, cancelled, faults>>

Timeout ==
  /\ pc = "monitor" /\ timer = "fired" /\ ~cancelled
  /\ Breaks("failed")
  /\ UNCHANGED <<early, row, lastState, loggedID, released, disk, deal, cancelled,
                 faults>>

-----------------------------------------------------------------------------
(* The end.                                                                *)

(* cleanupDeal: the import, if there is one, ...                           *)
RemoveImport ==
  /\ pc = "cleanup" /\ (import = "store" => ~cancelled)
  /\ import' = IF import = "store" THEN "removed" ELSE import
  /\ pc' = "remove"
  /\ UNCHANGED <<early, err, row, loop, file, deal, cancelled, faults>>

(* ... whose failure leaves the file on the disk: the context is cancelled *)
(* or the node does not answer; ...                                        *)
RemoveImportFails ==
  /\ pc = "cleanup" /\ import = "store"
  /\ Fault \/ (cancelled /\ UNCHANGED <<cancelled, faults>>)
  /\ pc' = "finish"
  /\ UNCHANGED <<early, err, row, loop, disk, deal>>

(* Mutant: the clean-up is left out for a deal that was not proposed.      *)
RemoveProposed ==
  /\ pc = "remove"
  /\ file' = IF file = "disk" /\ import # "none" THEN "removed" ELSE file
  /\ pc' = "finish"
  /\ UNCHANGED <<early, err, row, loop, import, deal, cancelled, faults>>

(* ... and the file.                                                       *)
RemoveFile ==
  /\ pc = "remove"
  /\ file' = IF file = "disk" THEN "removed" ELSE file
  /\ pc' = "finish"
  /\ UNCHANGED <<early, err, row, loop, import, deal, cancelled, faults>>

(* runTask gives the slot back, if the executor has not, and makes the     *)
(* last update; when that fails the failure is logged.                     *)
Finish ==
  /\ pc = "finish" /\ ~cancelled
  /\ pc' = "ended"
  /\ released' = TRUE
  /\ \/ /\ row' = FinalUpdate(row, IF err = NULL THEN "Successful" ELSE "Failed")
        /\ UNCHANGED <<cancelled, faults>>
     \/ Fault /\ UNCHANGED row
  /\ UNCHANGED <<early, err, updates, timer, lastState, loggedID, disk, deal>>

(* The context is cancelled: every call from now on fails.                 *)
Shutdown ==
  /\ ~cancelled /\ pc # "ended"
  /\ cancelled' = TRUE
  /\ UNCHANGED <<pc, early, err, row, loop, disk, deal, faults>>

Cancelled ==
  /\ cancelled /\ pc \notin {"cleanup", "remove", "finish", "ended"}
  /\ Breaks("cancelled")
  /\ UNCHANGED <<early, row, lastState, loggedID, released, disk, deal, cancelled,
                 faults>>

Abandon ==
  /\ cancelled /\ pc = "finish"
  /\ pc' = "ended"
  /\ UNCHANGED <<early, err, row, loop, disk, deal, cancelled, faults>>

(* The deal has ended; that is no deadlock.                                *)
Ended == pc = "ended" /\ UNCHANGED vars

Step ==
  \/ ExecuteStage \/ GenerateFile \/ ImportFile \/ ProposeDeal \/ Subscribe
  \/ StartDeal \/ Started \/ IgnoreUpdate \/ HandleUpdate \/ Timeout
  \/ RemoveImport \/ RemoveFile \/ Finish \/ Cancelled \/ Abandon

Fails ==
  \/ StageFails \/ ImportFails \/ CallFails \/ UpdateFails \/ UpdatesClosed
  \/ RemoveImportFails

Next ==
  \/ Step \/ Fails
  \/ Fire
  \/ \E p \in Proposals : UpdateDeal(p)
  \/ Shutdown
  \/ Ended

Spec == Init /\ [][Next]_vars

(* The calls are answered and timers fire.  The miner owes nothing, and no *)
(* call is bound to fail but that to a node of a cancelled context.        *)
FairSpec == Spec /\ WF_vars(Step \/ (cancelled /\ Fails)) /\ WF_vars(Fire)

-----------------------------------------------------------------------------
(* Properties.                                                             *)

Logs == {"PayloadCID", "ProposalCID", "DealID"}
StageNames == {NoStage, "ProposeDeal"} \union StateSet \union {Early[i] : i \in DOMAIN Early}
DetailsSet == [of : StageNames, logs : SUBSET Logs, at : {0}]
ASSUME NullAssumption == NULL \notin DetailsSet
RowSet == [status : {"InProgress", "Successful", "Failed"}, stage : StageNames,
           current : DetailsSet \union {NULL}, past : Seq(DetailsSet)]
UpdateSet == [proposal : Proposals, state : StateSet, id : BOOLEAN, staged : BOOLEAN]

TypeOK ==
  /\ pc \in {"early", "import", "propose", "size", "subscribed", "starting",
             "monitor", "cleanup", "remove", "finish", "ended"}
  /\ early \in DOMAIN Early
  /\ err \in {NULL, "failed", "cancelled"}
  /\ row \in RowSet
  /\ updates \in Seq(UpdateSet)
  /\ timer \in {"armed", "fired"}
  /\ lastState \in StateSet \union {NULL}
  /\ loggedID \in BOOLEAN /\ released \in BOOLEAN
  /\ file \in {"none", "named", "disk", "removed"}
  /\ import \in {"none", "unknown", "store", "removed"}
  /\ deal \in [Proposals -> [state : StateSet \union {NULL}, sent : Nat]]
  /\ cancelled \in BOOLEAN
  /\ faults \in 0..MaxFaults

(* A task that ends as Successful has its own deal active, whatever the    *)
(* node told of others; and a deal that has come to its end is not waited  *)
(* for in vain: the update that says so is still to be read.               *)
OutcomeIsOwn ==
  /\ row.status = "Successful" => deal[Own].state = "Active"
  /\ pc = "monitor" /\ deal[Own].state \in {"Active", Failure} =>
       \E i \in DOMAIN updates :
         updates[i].proposal = Own /\ updates[i].state = deal[Own].state

(* The node reads the file where it is: the file stays on the disk for as  *)
(* long as an import refers to it, and the deal is followed with both in   *)
(* place.  What a deal that has ended leaves on the disk is the file of an *)
(* import the node did not remove, and never a file of no import.          *)
FileServesImport ==
  /\ import = "store" => file = "disk"
  /\ pc \in {"subscribed", "starting", "monitor"} => import = "store"
  /\ pc = "ended" /\ file = "disk" => import = "store"

(* "As a last step no matter what ended up happening with the deal, delete *)
(* the generated file off to reclaim disk space" (cleanupDeal).            *)
FileReclaimed == pc = "ended" => file # "disk"

(* The row tells the ids of the payload, the proposal and the deal by log  *)
(* entries in present and archived details.  One that has been told is     *)
(* not lost by what is reported later, with one exception: the deal's id,  *)
(* when the node sends an update for the state the row shows already, the  *)
(* details of which replace those that have the entry.                     *)
Told(r, tag) ==
  \/ r.current # NULL /\ tag \in r.current.logs
  \/ HasLog(r.past, tag)
IdsDropOnlyOnRepeat ==
  [][\A tag \in Logs : Told(row, tag) /\ ~Told(row', tag) =>
       /\ tag = "DealID" /\ pc = "monitor" /\ updates # <<>>
       /\ Head(updates).proposal = Own /\ Head(updates).state = row.stage]_vars

(* The deal comes to an end, also when the miner falls silent.             *)
DealEnds == <>(pc = "ended")
=============================================================================
