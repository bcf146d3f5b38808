------------------------- MODULE StorageDeal_proofs -------------------------
(***************************************************************************)
(* Proofs about StorageDeal: for any number of other deals on the node,    *)
(* any bounds and any states reported again, the outcome is the deal's     *)
(* own, the file stays as long as its import and no longer, and an id that *)
(* has been told is lost in one way only.                                  *)
(***************************************************************************)
EXTENDS StorageDeal, TLAPS, SequenceTheorems, Channels

(* How far the executor has got with the file and its import.              *)
FileInv ==
  /\ pc = "early" => file = "none" /\ import = "none"
  /\ pc = "import" => file = "disk" /\ import = "none"
  /\ pc \in {"propose", "size"} => import = "store"
  /\ pc = "remove" => import # "store"
  /\ pc = "finish" /\ file = "disk" => import = "store"

(* The deal exists on the node from StartDeal on, ends there once, and the *)
(* updates of it say what it was and is.                                   *)
DealInv ==
  /\ pc \in {"early", "import", "propose", "size", "subscribed"} =>
       deal[Own].state = NULL
  /\ \A i \in DOMAIN updates :
       updates[i].proposal = Own /\ updates[i].state = "Active" =>
         deal[Own].state = "Active"
  /\ pc \in {"starting", "monitor"} /\ deal[Own].state \in {"Active", Failure} =>
       \E i \in DOMAIN updates :
         updates[i].proposal = Own /\ updates[i].state = deal[Own].state

(* Only a deal that has become active leaves the loop without an error.    *)
ErrInv ==
  /\ pc \in {"cleanup", "remove", "finish"} /\ err = NULL =>
       deal[Own].state = "Active"
  /\ row.status = "Successful" => pc = "ended" /\ deal[Own].state = "Active"

Inv == TypeOK /\ FileInv /\ FileServesImport /\ DealInv /\ ErrInv

-----------------------------------------------------------------------------
(* A report is a row of a task under way, in the stage reported.           *)
LEMMA ReportIsRow ==
  ASSUME NEW r \in RowSet, NEW stage \in StageNames, NEW logs \in SUBSET Logs
  PROVE  /\ Report(r, stage, logs, 0) \in RowSet
         /\ Report(r, stage, logs, 0).status = "InProgress"
<1>. DEFINE d == Details(stage, logs, 0)
<1>1. d \in DetailsSet
  BY DEF Details, DetailsSet
<1>. HIDE DEF d
<1>2. UpdateTask(r, "InProgress", stage, d).past \in Seq(DetailsSet)
  <2>1. CASE stage # r.stage /\ r.current # NULL
    <3>1. r.current \in DetailsSet /\ r.past \in Seq(DetailsSet)
      BY <2>1 DEF RowSet
    <3>2. Append(r.past, r.current) \in Seq(DetailsSet)
      BY <3>1
    <3>. QED
      BY <2>1, <3>2 DEF UpdateTask
  <2>2. CASE ~(stage # r.stage /\ r.current # NULL)
    BY <2>2 DEF UpdateTask, RowSet
  <2>. QED
    BY <2>1, <2>2
<1>. QED
  BY <1>1, <1>2 DEF Report, UpdateTask, RowSet, d

(* The last update changes the outcome only.                               *)
LEMMA FinalIsRow ==
  ASSUME NEW r \in RowSet, NEW s \in {"Successful", "Failed"}
  PROVE  FinalUpdate(r, s) \in RowSet /\ FinalUpdate(r, s).status = s
<1>1. Details(NoStage, {}, 0) \in DetailsSet
  BY DEF Details, DetailsSet, StageNames
<1>. QED
  BY <1>1 DEF FinalUpdate, UpdateTask, RowSet

(* The stages the executor reports have names.                             *)
LEMMA StagesNamed ==
  /\ \A i \in DOMAIN Early : Early[i] \in StageNames
  /\ {"ProposeDeal", "ClientImport"} \subseteq StageNames
  /\ StateSet \subseteq StageNames
  /\ {States[1], Failure, "Active"} \subseteq StateSet
<1>1. "ClientImport" = Early[4] /\ 4 \in DOMAIN Early
  BY DEF Early
<1>2. States[1] \in StateSet
  <2>1. 1 \in DOMAIN States
    BY DEF States
  <2>. QED
    BY <2>1 DEF StateSet
<1>3. "Active" = States[5] /\ 5 \in DOMAIN States
  BY DEF States
<1>4. "Active" \in StateSet
  BY <1>3 DEF StateSet
<1>. QED
  BY <1>1, <1>2, <1>4 DEF StageNames, StateSet

(* An update moves the task on, or leaves it as it was.                    *)
LEMMA MovedIsRow ==
  ASSUME TypeOK, NEW u \in UpdateSet
  PROVE  Moved(u) \in RowSet /\ Moved(u).status \in {"InProgress", row.status}
<1>1. u.state \in StageNames
  BY StagesNamed DEF UpdateSet
<1>2. LogsID(u) \in SUBSET Logs
  BY DEF LogsID, Logs
<1>3. row \in RowSet
  BY DEF TypeOK
<1>4. CASE u.staged
  BY <1>1, <1>2, <1>3, <1>4, ReportIsRow DEF Moved
<1>5. CASE ~u.staged
  BY <1>3, <1>5 DEF Moved
<1>. QED
  BY <1>4, <1>5

(* A deal goes from a state to a state.                                    *)
LEMMA SuccessorsAreStates ==
  ASSUME StorageAssumption, NEW s PROVE Successors(s) \subseteq StateSet
  BY StagesNamed DEF Successors, StateSet, States, StorageAssumption

-----------------------------------------------------------------------------
(* What Publish does.                                                      *)
LEMMA PublishTypes ==
  ASSUME TypeOK, NEW p \in Proposals, NEW s \in StateSet, Publish(p, s)
  PROVE  /\ deal' \in [Proposals -> [state : StateSet \union {NULL}, sent : Nat]]
         /\ updates' \in Seq(UpdateSet)
         /\ deal'[p].state = s
         /\ \A q \in Proposals \ {p} : deal'[q] = deal[q]
<1>1. deal \in [Proposals -> [state : StateSet \union {NULL}, sent : Nat]]
  BY DEF TypeOK
<1>. DEFINE r == [state |-> s, sent |-> deal[p].sent + 1]
<1>2. r \in [state : StateSet \union {NULL}, sent : Nat] /\ r.state = s
  BY <1>1
<1>3. deal' = [deal EXCEPT ![p] = r]
  BY DEF Publish
<1>. HIDE DEF r
<1>4. updates' \in Seq(UpdateSet)
  <2>1. PICK b \in BOOLEAN :
          updates' = IF Subscribed
                     THEN Append(updates, [proposal |-> p, state |-> s,
                                           id |-> HasID(s), staged |-> b])
                     ELSE updates
    BY DEF Publish
  <2>2. [proposal |-> p, state |-> s, id |-> HasID(s), staged |-> b] \in UpdateSet
    BY DEF UpdateSet, HasID
  <2>. QED
    BY <2>1, <2>2 DEF TypeOK
<1>. QED
  BY <1>1, <1>2, <1>3, <1>4

(* Every step keeps the types.                                             *)
LEMMA TypeStep ==
  ASSUME StorageAssumption, TypeOK, [Next]_vars
  PROVE  TypeOK'
<1>. USE DEF loop, disk
<1>0. /\ row \in RowSet /\ updates \in Seq(UpdateSet)
      /\ Early[early] \in StageNames /\ \A i \in DOMAIN Early : i \in 1..4
      /\ DOMAIN Early = 1..4 /\ Len(Early) = 4
  BY StagesNamed DEF TypeOK, Early
<1>00. <<>> \in Seq(UpdateSet) /\ (updates # <<>> => Tail(updates) \in Seq(UpdateSet))
  <2>1. updates \in Seq(UpdateSet)
    BY DEF TypeOK
  <2>. QED
    BY <2>1, HeadTailProperties
<1>1. CASE UNCHANGED vars
  BY <1>1 DEF TypeOK, vars
<1>2. CASE ExecuteStage
  <2>1. row' \in RowSet
    BY <1>0, <1>2, ReportIsRow DEF ExecuteStage, Reports
  <2>2. early' \in DOMAIN Early
    BY <1>0, <1>2 DEF ExecuteStage, TypeOK
  <2>. QED
    BY <1>2, <2>1, <2>2 DEF ExecuteStage, Reports, TypeOK
<1>3. CASE StageFails
  <2>1. row' \in RowSet
    BY <1>0, <1>3, ReportIsRow DEF StageFails, Reports
  <2>. QED
    BY <1>3, <2>1 DEF StageFails, Reports, Breaks, TypeOK
<1>4. CASE GenerateFile
  <2>1. row' \in RowSet
    BY <1>0, <1>4, ReportIsRow, StagesNamed DEF GenerateFile, Reports
  <2>2. file' \in {"named", "disk"} /\ (updates' = updates \/ updates' = <<>>)
    BY <1>4 DEF GenerateFile, Breaks
  <2>3. updates' \in Seq(UpdateSet)
    BY <1>0, <1>00, <2>2
  <2>4. /\ pc' \in {"import", "cleanup"} /\ err' \in {NULL, "failed", "cancelled"}
        /\ timer' \in {"armed", "fired"}
    BY <1>4 DEF GenerateFile, Breaks, TypeOK
  <2>. QED
    BY <1>4, <2>1, <2>2, <2>3, <2>4 DEF GenerateFile, Reports, TypeOK
<1>5. CASE ImportFile
  <2>1. row' \in RowSet
    BY <1>0, <1>5, ReportIsRow, StagesNamed DEF ImportFile, Reports, Logs
  <2>. QED
    BY <1>5, <2>1 DEF ImportFile, Reports, TypeOK
<1>6. CASE ImportFails
  BY <1>6 DEF ImportFails, Breaks, Fault, TypeOK, StorageAssumption
<1>7. CASE ProposeDeal
  <2>1. row' \in RowSet
    BY <1>0, <1>7, ReportIsRow, StagesNamed DEF ProposeDeal, Reports
  <2>. QED
    BY <1>7, <2>1 DEF ProposeDeal, Reports, TypeOK
<1>8. CASE Subscribe
  BY <1>8 DEF Subscribe, TypeOK
<1>9. CASE StartDeal
  <2>1. /\ deal' \in [Proposals -> [state : StateSet \union {NULL}, sent : Nat]]
        /\ updates' \in Seq(UpdateSet)
    BY <1>9, PublishTypes, StagesNamed DEF StartDeal, Proposals
  <2>. QED
    BY <1>9, <2>1 DEF StartDeal, TypeOK
<1>10. CASE Started
  <2>1. row' \in RowSet
    BY <1>0, <1>10, ReportIsRow, StagesNamed DEF Started, Reports, Logs
  <2>. QED
    BY <1>10, <2>1 DEF Started, Reports, TypeOK
<1>11. CASE CallFails
  <2>1. row' \in RowSet
    BY <1>0, <1>11, ReportIsRow, StagesNamed DEF CallFails, Logs
  <2>2. faults' \in 0..MaxFaults
    BY <1>11 DEF CallFails, Fault, TypeOK, StorageAssumption
  <2>. QED
    BY <1>11, <2>1, <2>2 DEF CallFails, Breaks, Fault, TypeOK
<1>12. CASE IgnoreUpdate
  BY <1>12 DEF IgnoreUpdate, TypeOK
<1>13. ASSUME NEW u \in UpdateSet, u = Head(updates), HandleUpdate PROVE TypeOK'
  <2>1. row' \in RowSet
    BY <1>0, <1>13, MovedIsRow DEF HandleUpdate
  <2>2. updates' \in Seq(UpdateSet)
    <3>1. updates' = <<>> \/ updates' = Tail(updates)
      BY <1>13 DEF HandleUpdate, Breaks
    <3>2. updates # <<>>
      BY <1>13 DEF HandleUpdate
    <3>. QED
      BY <1>00, <3>1, <3>2
  <2>3. timer' \in {"armed", "fired"}
    BY <1>13 DEF HandleUpdate, Breaks, ResetTimer, TypeOK
  <2>4. lastState' \in StateSet \union {NULL} /\ released' \in BOOLEAN
    BY <1>13 DEF HandleUpdate, Observe, UpdateSet, TypeOK
  <2>5. loggedID' \in BOOLEAN
    BY <1>13 DEF HandleUpdate, UpdateSet, TypeOK
  <2>6. pc' \in {"monitor", "cleanup"} /\ err' \in {NULL, "failed", "cancelled"}
    BY <1>13 DEF HandleUpdate, Breaks, TypeOK
  <2>. QED
    BY <1>13, <2>1, <2>2, <2>3, <2>4, <2>5, <2>6 DEF HandleUpdate, TypeOK
<1>14. ASSUME NEW u \in UpdateSet, u = Head(updates), UpdateFails PROVE TypeOK'
  <2>1. row' \in RowSet
    BY <1>0, <1>14, MovedIsRow DEF UpdateFails
  <2>4. lastState' \in StateSet \union {NULL} /\ released' \in BOOLEAN
    BY <1>14 DEF UpdateFails, Observe, UpdateSet, TypeOK
  <2>5. loggedID' \in BOOLEAN
    BY <1>14 DEF UpdateFails, UpdateSet, TypeOK
  <2>6. faults' \in 0..MaxFaults
    BY <1>14 DEF UpdateFails, Fault, TypeOK, StorageAssumption
  <2>. QED
    BY <1>14, <2>1, <2>4, <2>5, <2>6 DEF UpdateFails, Breaks, Fault, TypeOK
<1>15. CASE UpdatesClosed
  BY <1>15 DEF UpdatesClosed, Breaks, Fault, TypeOK, StorageAssumption
<1>16. CASE Fire
  BY <1>16 DEF Fire, TypeOK
<1>17. CASE Timeout
  BY <1>17 DEF Timeout, Breaks, TypeOK
<1>18. CASE RemoveImport
  BY <1>18 DEF RemoveImport, TypeOK
<1>19. CASE RemoveImportFails
  BY <1>19 DEF RemoveImportFails, Fault, TypeOK, StorageAssumption
<1>20. CASE RemoveFile
  BY <1>20 DEF RemoveFile, TypeOK
<1>21. CASE Finish
  <2>1. row' \in RowSet
    BY <1>0, <1>21, FinalIsRow DEF Finish
  <2>2. faults' \in 0..MaxFaults /\ cancelled' \in BOOLEAN
    BY <1>21 DEF Finish, Fault, TypeOK, StorageAssumption
  <2>. QED
    BY <1>21, <2>1, <2>2 DEF Finish, TypeOK
<1>22. CASE Shutdown
  BY <1>22 DEF Shutdown, TypeOK
<1>23. CASE Cancelled
  BY <1>23 DEF Cancelled, Breaks, TypeOK
<1>24. CASE Abandon
  BY <1>24 DEF Abandon, TypeOK
<1>25. ASSUME NEW p \in Proposals, UpdateDeal(p) PROVE TypeOK'
  <2>1. PICK s \in StateSet : Publish(p, s)
    BY <1>25, SuccessorsAreStates DEF UpdateDeal
  <2>2. /\ deal' \in [Proposals -> [state : StateSet \union {NULL}, sent : Nat]]
        /\ updates' \in Seq(UpdateSet)
    BY <2>1, PublishTypes
  <2>. QED
    BY <1>25, <2>2 DEF UpdateDeal, TypeOK
<1>26. updates # <<>> => Head(updates) \in UpdateSet
  BY <1>0
<1>. QED
  BY <1>1, <1>2, <1>3, <1>4, <1>5, <1>6, <1>7, <1>8, <1>9, <1>10, <1>11, <1>12,
     <1>13, <1>14, <1>15, <1>16, <1>17, <1>18, <1>19, <1>20, <1>21, <1>22, <1>23,
     <1>24, <1>25, <1>26
     DEF Next, Step, Fails, Ended, HandleUpdate, UpdateFails

-----------------------------------------------------------------------------
(* The file and its import.                                                *)
LEMMA FileStep ==
  ASSUME FileInv, FileServesImport, [Next]_vars
  PROVE  FileInv' /\ FileServesImport'
<1>. USE DEF FileInv, FileServesImport
<1>1. CASE UNCHANGED vars
  BY <1>1 DEF vars
<1>2. CASE ExecuteStage \/ StageFails \/ ImportFails \/ CallFails \/ UpdateFails
             \/ UpdatesClosed \/ Timeout \/ Cancelled
  BY <1>2 DEF ExecuteStage, StageFails, ImportFails, CallFails, UpdateFails,
              UpdatesClosed, Timeout, Cancelled, Reports, Breaks, disk
<1>3. CASE GenerateFile \/ ImportFile \/ ProposeDeal \/ Subscribe \/ StartDeal
             \/ Started \/ IgnoreUpdate \/ Fire \/ Shutdown
  BY <1>3 DEF GenerateFile, ImportFile, ProposeDeal, Subscribe, StartDeal, Started,
              IgnoreUpdate, Fire, Shutdown, Reports, Breaks, disk
<1>4. CASE HandleUpdate
  <2>1. pc = "monitor" /\ pc' \in {"monitor", "cleanup"} /\ UNCHANGED disk
    BY <1>4 DEF HandleUpdate, Breaks
  <2>. QED
    BY <2>1 DEF disk
<1>5. CASE RemoveImport \/ RemoveImportFails \/ RemoveFile \/ Finish \/ Abandon
  BY <1>5 DEF RemoveImport, RemoveImportFails, RemoveFile, Finish, Abandon, disk
<1>6. ASSUME NEW p \in Proposals, UpdateDeal(p)
      PROVE  FileInv' /\ FileServesImport'
  BY <1>6 DEF UpdateDeal, disk
<1>. QED
  BY <1>1, <1>2, <1>3, <1>4, <1>5, <1>6 DEF Next, Step, Fails, Ended

(* The deal on the node and the updates of it.                             *)
LEMMA DealStep ==
  ASSUME StorageAssumption, TypeOK, DealInv, [Next]_vars
  PROVE  DealInv'
<1>. DEFINE Hears == pc \in {"starting", "monitor"}
<1>0. updates \in Seq(UpdateSet)
  BY DEF TypeOK
<1>1. CASE UNCHANGED vars
  BY <1>1 DEF vars, DealInv
(* The deal breaks off, or has not begun. *)
<1>2. ASSUME deal' = deal, updates' = <<>>, pc' = "cleanup" PROVE DealInv'
  BY <1>2 DEF DealInv
<1>3. ASSUME deal' = deal, updates' = updates,
             pc' \in {"early", "import", "propose", "size", "subscribed"} =>
               pc \in {"early", "import", "propose", "size", "subscribed"},
             Hears' => Hears
      PROVE  DealInv'
  BY <1>3 DEF DealInv
<1>4. CASE StageFails \/ ImportFails \/ CallFails \/ UpdateFails
             \/ UpdatesClosed \/ Timeout \/ Cancelled
  BY <1>2, <1>4 DEF StageFails, ImportFails, CallFails, UpdateFails, UpdatesClosed,
                    Timeout, Cancelled, Breaks
<1>5. CASE ExecuteStage \/ ImportFile \/ ProposeDeal \/ Subscribe \/ Started \/ Fire
             \/ Shutdown \/ RemoveImport \/ RemoveImportFails \/ RemoveFile \/ Finish
             \/ Abandon
  BY <1>3, <1>5 DEF ExecuteStage, ImportFile, ProposeDeal, Subscribe, Started, Fire,
                    Shutdown, RemoveImport, RemoveImportFails, RemoveFile, Finish,
                    Abandon, loop
<1>6. CASE GenerateFile
  BY <1>2, <1>3, <1>6 DEF GenerateFile, Breaks
(* An update that says of this deal neither that it is active nor that it has failed. *)
<1>7. ASSUME deal' = deal, updates # <<>>, updates' = Tail(updates), pc = "monitor",
             pc' = "monitor",
             \/ Head(updates).proposal # Own
             \/ Head(updates).state \notin {"Active", Failure}
      PROVE  DealInv'
  <2>1. /\ \A i \in DOMAIN updates' : i + 1 \in DOMAIN updates /\ updates'[i] = updates[i + 1]
        /\ \A i \in DOMAIN updates :
             i # 1 => i - 1 \in DOMAIN updates' /\ updates'[i - 1] = updates[i]
        /\ Head(updates) = updates[1]
    BY <1>0, <1>7, Received
  <2>2. \A i \in DOMAIN updates' :
          updates'[i].proposal = Own /\ updates'[i].state = "Active" =>
            deal[Own].state = "Active"
    BY <2>1 DEF DealInv
  <2>3. ASSUME deal[Own].state \in {"Active", Failure}
        PROVE  \E i \in DOMAIN updates' :
                 updates'[i].proposal = Own /\ updates'[i].state = deal[Own].state
    <3>1. PICK i \in DOMAIN updates :
            updates[i].proposal = Own /\ updates[i].state = deal[Own].state
      BY <1>7, <2>3 DEF DealInv
    <3>2. i # 1
      BY <1>7, <2>1, <2>3, <3>1
    <3>. QED
      BY <2>1, <3>1, <3>2
  <2>. QED
    BY <1>7, <2>2, <2>3 DEF DealInv
<1>8. CASE IgnoreUpdate
  BY <1>7, <1>8 DEF IgnoreUpdate, OwnUpdate
<1>9. CASE HandleUpdate
  <2>1. \/ updates' = <<>> /\ pc' = "cleanup"
        \/ /\ updates' = Tail(updates) /\ pc' = "monitor"
           /\ Head(updates).state \notin {"Active", Failure}
    BY <1>9 DEF HandleUpdate, Breaks
  <2>. QED
    BY <1>2, <1>7, <1>9, <2>1 DEF HandleUpdate
(* An update is told of a deal that has not come to its end. *)
<1>10. ASSUME NEW p \in Proposals, NEW s \in StateSet, Publish(p, s), pc' \in {pc, "starting"},
              Hears' => Subscribed, deal[Own].state # "Active",
              p # Own => pc' = pc,
              p = Own => /\ deal[Own].state # Failure
                         /\ pc' \notin {"early", "import", "propose", "size", "subscribed"}
       PROVE  DealInv'
  <2>1. deal'[p].state = s /\ \A q \in Proposals \ {p} : deal'[q] = deal[q]
    BY <1>10, PublishTypes
  <2>2. PICK u \in UpdateSet :
          /\ u.proposal = p /\ u.state = s
          /\ updates' = IF Subscribed THEN Append(updates, u) ELSE updates
    <3>1. PICK b \in BOOLEAN :
            updates' = IF Subscribed
                       THEN Append(updates, [proposal |-> p, state |-> s,
                                             id |-> HasID(s), staged |-> b])
                       ELSE updates
      BY <1>10 DEF Publish
    <3>2. [proposal |-> p, state |-> s, id |-> HasID(s), staged |-> b] \in UpdateSet
      BY DEF UpdateSet, HasID
    <3>. QED
      BY <3>1, <3>2
  <2>3. /\ \A i \in DOMAIN updates : i \in DOMAIN updates' /\ updates'[i] = updates[i]
        /\ \A i \in DOMAIN updates' :
             (i \in DOMAIN updates /\ updates'[i] = updates[i]) \/ updates'[i] = u
        /\ Subscribed => \E i \in DOMAIN updates' : updates'[i] = u
    <3>1. CASE Subscribed
      BY <1>0, <2>2, <3>1, Sending
    <3>. QED
      BY <2>2, <3>1
  <2>4. Own \in Proposals
    BY DEF Proposals
  <2>5. \A i \in DOMAIN updates' :
          updates'[i].proposal = Own /\ updates'[i].state = "Active" =>
            deal'[Own].state = "Active"
    BY <1>10, <2>1, <2>2, <2>3 DEF DealInv
  <2>6. pc' \in {"early", "import", "propose", "size", "subscribed"} =>
          deal'[Own].state = NULL
    BY <1>10, <2>1, <2>4 DEF DealInv
  <2>7. ASSUME Hears', deal'[Own].state \in {"Active", Failure}
        PROVE  \E i \in DOMAIN updates' :
                 updates'[i].proposal = Own /\ updates'[i].state = deal'[Own].state
    <3>1. CASE p = Own
      BY <1>10, <2>1, <2>2, <2>3, <2>7, <3>1
    <3>2. CASE p # Own
      <4>1. deal'[Own] = deal[Own] /\ Hears
        BY <1>10, <2>1, <2>4, <2>7, <3>2
      <4>2. PICK i \in DOMAIN updates :
              updates[i].proposal = Own /\ updates[i].state = deal[Own].state
        BY <2>7, <4>1 DEF DealInv
      <4>. QED
        BY <2>3, <4>1, <4>2
    <3>. QED
      BY <3>1, <3>2
  <2>. QED
    BY <2>5, <2>6, <2>7 DEF DealInv
<1>11. CASE StartDeal
  <2>1. /\ pc = "subscribed" /\ pc' = "starting" /\ Publish(Own, States[1])
        /\ deal[Own].state = NULL
    BY <1>11 DEF StartDeal, DealInv
  <2>2. NULL # "Active" /\ NULL # Failure
    BY StagesNamed DEF StorageAssumption
  <2>. QED
    BY <1>10, <2>1, <2>2, StagesNamed DEF Subscribed, Proposals
<1>12. ASSUME NEW p \in Proposals, UpdateDeal(p) PROVE DealInv'
  <2>1. PICK s \in StateSet : Publish(p, s)
    BY <1>12, SuccessorsAreStates DEF UpdateDeal
  <2>2. pc' = pc /\ deal[p].state \notin {NULL, Failure, "Active"}
    BY <1>12 DEF UpdateDeal
  <2>3. Hears => Subscribed
    BY DEF Subscribed
  <2>4. CASE p = Own \/ deal[Own].state # "Active"
    BY <1>10, <2>1, <2>2, <2>3, <2>4 DEF DealInv
  <2>5. CASE p # Own /\ deal[Own].state = "Active"
    <3>1. deal'[Own] = deal[Own]
      BY <2>1, <2>5, PublishTypes DEF Proposals
    <3>2. \A i \in DOMAIN updates : i \in DOMAIN updates' /\ updates'[i] = updates[i]
      BY <1>0, <2>1, Sending DEF Publish
    <3>. QED
      BY <2>2, <2>5, <3>1, <3>2 DEF DealInv
  <2>. QED
    BY <2>4, <2>5
<1>. QED
  BY <1>1, <1>4, <1>5, <1>6, <1>8, <1>9, <1>11, <1>12 DEF Next, Step, Fails, Ended

(* The outcome.                                                            *)
LEMMA ErrStep ==
  ASSUME StorageAssumption, TypeOK, DealInv, ErrInv, [Next]_vars
  PROVE  ErrInv'
<1>0. row \in RowSet /\ NULL \notin {"failed", "cancelled"}
  BY DEF TypeOK, StorageAssumption
<1>00. Own \in Proposals
  BY DEF Proposals
<1>1. CASE UNCHANGED vars
  BY <1>1 DEF vars, ErrInv
(* Before the end: the deal breaks off, or goes on. *)
<1>2. ASSUME row'.status # "Successful", err' # NULL PROVE ErrInv'
  BY <1>2 DEF ErrInv
<1>3. ASSUME row'.status # "Successful", pc' \notin {"cleanup", "remove", "finish"}
      PROVE  ErrInv'
  BY <1>3 DEF ErrInv
(* After the loop: nothing of the deal's is changed. *)
<1>4. ASSUME row' = row, err' = err, deal' = deal,
             pc' \in {"cleanup", "remove", "finish"} =>
               pc \in {"cleanup", "remove", "finish"},
             pc = "ended" => pc' = "ended"
      PROVE  ErrInv'
  BY <1>4 DEF ErrInv
<1>5. CASE StageFails \/ ImportFails \/ CallFails \/ UpdatesClosed \/ Timeout
             \/ Cancelled
  <2>1. err' # NULL
    BY <1>0, <1>5 DEF StageFails, ImportFails, CallFails, UpdatesClosed, Timeout,
                      Cancelled, Breaks
  <2>2. row.status # "Successful"
    BY <1>5 DEF StageFails, ImportFails, CallFails, UpdatesClosed, Timeout, Cancelled,
                ErrInv
  <2>3. CASE StageFails
    <3>1. Early[early] \in StageNames
      BY StagesNamed DEF TypeOK
    <3>2. row'.status = "InProgress"
      BY <1>0, <2>3, <3>1, ReportIsRow DEF StageFails, Reports
    <3>. QED
      BY <1>2, <2>1, <3>2
  <2>4. CASE CallFails
    <3>1. Early[early] \in StageNames
      BY StagesNamed DEF TypeOK
    <3>2. row'.status # "Successful"
      BY <1>0, <2>2, <2>4, <3>1, ReportIsRow, StagesNamed DEF CallFails, Logs
    <3>. QED
      BY <1>2, <2>1, <3>2
  <2>5. CASE ImportFails \/ UpdatesClosed \/ Timeout \/ Cancelled
    <3>1. row' = row
      BY <2>5 DEF ImportFails, UpdatesClosed, Timeout, Cancelled
    <3>. QED
      BY <1>2, <2>1, <2>2, <3>1
  <2>. QED
    BY <1>5, <2>3, <2>4, <2>5
<1>6. CASE ExecuteStage \/ ImportFile \/ ProposeDeal \/ Started
  <2>1. Early[early] \in StageNames
    BY StagesNamed DEF TypeOK
  <2>2. row'.status = "InProgress"
    BY <1>0, <1>6, <2>1, ReportIsRow, StagesNamed
       DEF ExecuteStage, ImportFile, ProposeDeal, Started, Reports, Logs
  <2>. QED
    BY <1>3, <1>6, <2>2 DEF ExecuteStage, ImportFile, ProposeDeal, Started
<1>7. CASE GenerateFile
  <2>1. row'.status = "InProgress"
    BY <1>0, <1>7, ReportIsRow, StagesNamed DEF GenerateFile, Reports
  <2>2. pc' = "import" \/ err' # NULL
    BY <1>0, <1>7 DEF GenerateFile, Breaks
  <2>. QED
    BY <1>2, <1>3, <2>1, <2>2
<1>8. CASE Subscribe \/ IgnoreUpdate \/ Fire \/ RemoveImport \/ RemoveImportFails
             \/ RemoveFile \/ Shutdown \/ Abandon
  BY <1>4, <1>8 DEF Subscribe, IgnoreUpdate, Fire, RemoveImport, RemoveImportFails,
                    RemoveFile, Shutdown, Abandon, loop
<1>9. CASE StartDeal
  <2>1. row' = row /\ pc = "subscribed" /\ pc' = "starting"
    BY <1>9 DEF StartDeal
  <2>. QED
    BY <1>3, <2>1 DEF ErrInv
<1>10. ASSUME NEW u \in UpdateSet, u = Head(updates), HandleUpdate \/ UpdateFails
       PROVE  ErrInv'
  <2>1. row.status # "Successful" /\ Moved(u).status # "Successful"
    <3>1. row.status # "Successful"
      BY <1>10 DEF HandleUpdate, UpdateFails, ErrInv
    <3>. QED
      BY <1>10, <3>1, MovedIsRow
  <2>2. row'.status # "Successful"
    BY <1>10, <2>1 DEF HandleUpdate, UpdateFails
  <2>3. CASE pc' = "monitor" \/ err' # NULL
    BY <1>3, <1>2, <2>2, <2>3
  <2>4. CASE ~(pc' = "monitor" \/ err' # NULL)
    <3>1. HandleUpdate /\ u.state = "Active" /\ u.proposal = Own /\ deal' = deal
      BY <1>0, <1>10, <2>4 DEF HandleUpdate, UpdateFails, Breaks, OwnUpdate
    <3>2. u = updates[1] /\ 1 \in DOMAIN updates
      BY <1>10, <3>1, Received DEF HandleUpdate, TypeOK
    <3>3. deal'[Own].state = "Active"
      BY <3>1, <3>2 DEF DealInv
    <3>. QED
      BY <2>2, <3>3 DEF ErrInv
  <2>. QED
    BY <2>3, <2>4
<1>11. CASE Finish
  <2>1. deal' = deal /\ pc' = "ended" /\ pc = "finish" /\ row.status # "Successful"
    BY <1>11 DEF Finish, ErrInv
  <2>2. row' = row \/ row' = FinalUpdate(row, IF err = NULL THEN "Successful" ELSE "Failed")
    BY <1>11 DEF Finish
  <2>3. row'.status = "Successful" => err = NULL
    BY <1>0, <2>1, <2>2, FinalIsRow
  <2>. QED
    BY <2>1, <2>3 DEF ErrInv
<1>12. ASSUME NEW p \in Proposals, UpdateDeal(p) PROVE ErrInv'
  <2>1. PICK s \in StateSet : Publish(p, s)
    BY <1>12, SuccessorsAreStates DEF UpdateDeal
  <2>2. /\ pc' = pc /\ err' = err /\ row' = row
        /\ deal[p].state # "Active"
    BY <1>12 DEF UpdateDeal
  <2>3. deal[Own].state = "Active" => deal'[Own].state = "Active"
    BY <1>00, <2>1, <2>2, PublishTypes
  <2>. QED
    BY <2>2, <2>3 DEF ErrInv
<1>13. updates # <<>> => Head(updates) \in UpdateSet
  BY DEF TypeOK
<1>. QED
  BY <1>1, <1>5, <1>6, <1>7, <1>8, <1>9, <1>10, <1>11, <1>12, <1>13
     DEF Next, Step, Fails, Ended, HandleUpdate, UpdateFails

-----------------------------------------------------------------------------
(* It holds before the first step.                                         *)
LEMMA InitInv ==
  ASSUME StorageAssumption, Init PROVE Inv
<1>1. AssignedRow \in RowSet /\ AssignedRow.status = "InProgress"
  BY DEF AssignedRow, RowSet, StageNames
<1>2. TypeOK
  <2>1. 1 \in DOMAIN Early
    BY DEF Early
  <2>2. deal \in [Proposals -> [state : StateSet \union {NULL}, sent : Nat]]
    BY DEF Init
  <2>3. updates \in Seq(UpdateSet)
    BY DEF Init
  <2>4. 0 \in 0..MaxFaults
    BY DEF StorageAssumption
  <2>. QED
    BY <1>1, <2>1, <2>2, <2>3, <2>4 DEF Init, TypeOK
<1>3. FileInv /\ FileServesImport
  BY DEF Init, FileInv, FileServesImport
<1>4. DealInv
  <2>1. deal[Own].state = NULL
    BY DEF Init, Proposals
  <2>2. DOMAIN updates = {}
    BY DEF Init
  <2>. QED
    BY <2>1, <2>2 DEF Init, DealInv
<1>5. ErrInv
  BY <1>1 DEF Init, ErrInv
<1>. QED
  BY <1>2, <1>3, <1>4, <1>5 DEF Inv

(* In every behaviour of the executor and the node the invariant holds.    *)
THEOREM InvHolds == Spec => []Inv
<1>1. Init => Inv
  BY InitInv, StorageAssumption
<1>2. Inv /\ [Next]_vars => Inv'
  BY TypeStep, FileStep, DealStep, ErrStep, StorageAssumption DEF Inv
<1>. QED
  BY <1>1, <1>2, PTL DEF Spec

(* The executor's variables keep their types: the timer is never left      *)
(* stopped, the early stage is one of the four.                            *)
THEOREM TypeCorrect == Spec => []TypeOK
<1>1. Inv => TypeOK
  BY DEF Inv
<1>. QED
  BY <1>1, InvHolds, PTL

(* Whatever the node tells of other deals, a task ends as Successful only  *)
(* when its own deal is active, and in the loop the last state of the deal *)
(* is still to be read (executeAndMonitorDeal).                            *)
THEOREM OutcomesAreOwn == Spec => []OutcomeIsOwn
<1>1. Inv => OutcomeIsOwn
  BY DEF Inv, ErrInv, DealInv, OutcomeIsOwn
<1>. QED
  BY <1>1, InvHolds, PTL

(* The file is on the disk for as long as the import that refers to it is  *)
(* in the node's store, and when the deal has ended no longer than that    *)
(* (generateFile, importFile and the deferred cleanupDeal).                *)
THEOREM FileFollowsImport == Spec => []FileServesImport
<1>1. Inv => FileServesImport
  BY DEF Inv
<1>. QED
  BY <1>1, InvHolds, PTL

-----------------------------------------------------------------------------
(* The ids told by log entries.                                            *)

Noted(r, tag) == r.current # NULL /\ tag \in r.current.logs

(* No id but these is in the details of the present stage.                 *)
NotesOnly(r, tags) == \A tag \in Logs : Noted(r, tag) => tag \in tags

(* Which ids the next report of the present stage could drop.              *)
LogInv ==
  /\ pc \in {"early", "import"} => NotesOnly(row, {})
  /\ pc = "propose" => row.stage = "ClientImport" /\ NotesOnly(row, {"PayloadCID"})
  /\ pc \in {"size", "subscribed", "starting"} => NotesOnly(row, {})
  /\ pc = "monitor" => row.stage = "ProposeDeal" \/ NotesOnly(row, {"DealID"})

(* A report drops an id only if it is of the stage the row shows, and has  *)
(* not the id itself.                                                      *)
LEMMA ReportKeeps ==
  ASSUME NullAssumption, NEW r \in RowSet, NEW stage \in StageNames,
         NEW logs \in SUBSET Logs, NEW n, n = Report(r, stage, logs, 0)
  PROVE  /\ n.stage = stage /\ NotesOnly(n, logs)
         /\ \A tag \in Logs :
              Told(r, tag) /\ ~Told(n, tag) =>
                stage = r.stage /\ Noted(r, tag) /\ tag \notin logs
<1>. DEFINE d == Details(stage, logs, 0)
<1>1. d \in DetailsSet /\ d.logs = logs
  BY DEF Details, DetailsSet
<1>2. /\ n.stage = stage /\ n.current = d
      /\ n.past = IF stage # r.stage /\ r.current # NULL
                  THEN Append(r.past, r.current) ELSE r.past
  BY DEF Report, UpdateTask
<1>3. \A tag \in Logs : Noted(n, tag) <=> tag \in logs
  BY <1>1, <1>2 DEF Noted, NullAssumption
<1>. HIDE DEF d
<1>4. \A tag \in Logs : HasLog(r.past, tag) => HasLog(n.past, tag)
  <2>1. CASE stage # r.stage /\ r.current # NULL
    <3>1. r.past \in Seq(DetailsSet) /\ n.past = Append(r.past, r.current)
      BY <1>2, <2>1 DEF RowSet
    <3>2. \A i \in DOMAIN r.past : i \in DOMAIN n.past /\ n.past[i] = r.past[i]
      BY <3>1, Sending
    <3>. QED
      BY <3>2 DEF HasLog
  <2>2. CASE ~(stage # r.stage /\ r.current # NULL)
    BY <1>2, <2>2
  <2>. QED
    BY <2>1, <2>2
<1>5. \A tag \in Logs : Noted(r, tag) /\ stage # r.stage => HasLog(n.past, tag)
  <2>. SUFFICES ASSUME NEW tag \in Logs, Noted(r, tag), stage # r.stage
                PROVE  HasLog(n.past, tag)
    OBVIOUS
  <2>1. r.past \in Seq(DetailsSet) /\ n.past = Append(r.past, r.current)
    BY <1>2 DEF RowSet, Noted
  <2>2. \E i \in DOMAIN n.past : n.past[i] = r.current
    BY <2>1, Sending
  <2>. QED
    BY <2>2 DEF HasLog, Noted
<1>6. \A tag \in Logs : /\ Told(r, tag) <=> Noted(r, tag) \/ HasLog(r.past, tag)
                        /\ Told(n, tag) <=> Noted(n, tag) \/ HasLog(n.past, tag)
  BY DEF Told, Noted
<1>7. \A tag \in Logs :
        Told(r, tag) /\ ~Told(n, tag) => stage = r.stage /\ Noted(r, tag) /\ tag \notin logs
  BY <1>3, <1>4, <1>5, <1>6
<1>. QED
  BY <1>2, <1>3, <1>7 DEF NotesOnly

(* What one step may lose.                                                 *)
Drops ==
  \A tag \in Logs : Told(row, tag) /\ ~Told(row', tag) =>
    /\ tag = "DealID" /\ pc = "monitor" /\ updates # <<>>
    /\ Head(updates).proposal = Own /\ Head(updates).state = row.stage

(* The update read last: its report moves the row on, or drops at most the *)
(* deal's id.                                                              *)
LEMMA MovedKeeps ==
  ASSUME NullAssumption, TypeOK, LogInv, pc = "monitor", NEW u \in UpdateSet
  PROVE  /\ Moved(u).stage = "ProposeDeal" \/ NotesOnly(Moved(u), {"DealID"})
         /\ \A tag \in Logs :
              Told(row, tag) /\ ~Told(Moved(u), tag) =>
                tag = "DealID" /\ u.state = row.stage
<1>1. row \in RowSet /\ u.state \in StageNames /\ LogsID(u) \in SUBSET {"DealID"}
  BY StagesNamed DEF TypeOK, UpdateSet, LogsID
<1>2. row.stage = "ProposeDeal" \/ NotesOnly(row, {"DealID"})
  BY DEF LogInv
<1>3. CASE u.staged
  <2>1. /\ NotesOnly(Moved(u), LogsID(u))
        /\ \A tag \in Logs : Told(row, tag) /\ ~Told(Moved(u), tag) =>
             u.state = row.stage /\ Noted(row, tag)
    BY <1>1, <1>3, ReportKeeps DEF Moved, Logs
  <2>2. u.state # "ProposeDeal"
    BY DEF UpdateSet, StateSet, States, Failure
  <2>. QED
    BY <1>1, <1>2, <2>1, <2>2 DEF NotesOnly
<1>4. CASE ~u.staged
  BY <1>2, <1>4 DEF Moved
<1>. QED
  BY <1>3, <1>4

(* Every step keeps the ids but for that case, and where they are.         *)
LEMMA LogStep ==
  ASSUME NullAssumption, TypeOK, LogInv, [Next]_vars
  PROVE  LogInv' /\ Drops
<1>0. row \in RowSet /\ {"PayloadCID", "ProposalCID", "DealID"} = Logs
  BY DEF TypeOK, Logs
<1>1. ASSUME row' = row, pc' = pc PROVE LogInv' /\ Drops
  BY <1>1 DEF LogInv, NotesOnly, Noted, Drops, Told
<1>2. ASSUME row' = row, pc' \in {"cleanup", "remove", "finish", "ended"}
      PROVE  LogInv' /\ Drops
  BY <1>2 DEF LogInv, Drops, Told
<1>3. CASE \/ IgnoreUpdate \/ Fire \/ Shutdown \/ Ended \/ UNCHANGED vars
           \/ \E p \in Proposals : UpdateDeal(p)
  BY <1>1, <1>3 DEF IgnoreUpdate, Fire, Shutdown, UpdateDeal, Ended, vars
<1>4. CASE \/ ImportFails \/ UpdatesClosed \/ Timeout \/ Cancelled
           \/ RemoveImport \/ RemoveImportFails \/ RemoveFile \/ Abandon
  BY <1>2, <1>4 DEF ImportFails, UpdatesClosed, Timeout, Cancelled, RemoveImport,
                    RemoveImportFails, RemoveFile, Abandon, Breaks
(* The stages before the proposal: the details reported over have no ids.  *)
<1>5. ASSUME NEW stage \in StageNames, NEW logs \in SUBSET Logs,
             row' = Report(row, stage, logs, 0),
             NotesOnly(row, {}) \/ stage # row.stage \/ NotesOnly(row, logs)
      PROVE  Drops /\ row'.stage = stage /\ NotesOnly(row', logs)
  BY <1>0, <1>5, ReportKeeps DEF Drops, NotesOnly
<1>6. CASE ExecuteStage \/ StageFails \/ GenerateFile
  <2>1. pc = "early" /\ pc' \in {"early", "import", "cleanup"} /\ NotesOnly(row, {})
    BY <1>6 DEF ExecuteStage, StageFails, GenerateFile, Breaks, LogInv
  <2>2. \E stage \in StageNames : row' = Report(row, stage, {}, 0)
    BY <1>6, StagesNamed DEF ExecuteStage, StageFails, GenerateFile, Reports, TypeOK
  <2>3. Drops /\ NotesOnly(row', {})
    BY <1>5, <2>1, <2>2
  <2>. QED
    BY <2>1, <2>3 DEF LogInv
<1>7. CASE ImportFile
  <2>1. pc = "import" /\ pc' = "propose" /\ row' = Report(row, "ClientImport", {"PayloadCID"}, 0)
    BY <1>7 DEF ImportFile, Reports
  <2>2. Drops /\ row'.stage = "ClientImport" /\ NotesOnly(row', {"PayloadCID"})
    BY <1>0, <1>5, <2>1, StagesNamed DEF LogInv
  <2>. QED
    BY <2>1, <2>2 DEF LogInv
<1>8. CASE ProposeDeal
  <2>1. pc = "propose" /\ pc' = "size" /\ row' = Report(row, "ProposeDeal", {}, 0)
    BY <1>8 DEF ProposeDeal, Reports
  <2>2. Drops /\ NotesOnly(row', {})
    BY <1>5, <2>1, StagesNamed DEF LogInv
  <2>. QED
    BY <2>1, <2>2 DEF LogInv
<1>9. CASE Subscribe \/ StartDeal
  <2>1. pc \in {"size", "subscribed"} /\ pc' \in {"subscribed", "starting"} /\ row' = row
    BY <1>9 DEF Subscribe, StartDeal
  <2>. QED
    BY <2>1 DEF LogInv, NotesOnly, Noted, Drops, Told
<1>10. CASE Started
  <2>1. /\ pc = "starting" /\ pc' = "monitor"
        /\ row' = Report(row, "ProposeDeal", {"ProposalCID"}, 0)
    BY <1>10 DEF Started, Reports
  <2>2. Drops /\ row'.stage = "ProposeDeal"
    BY <1>0, <1>5, <2>1, StagesNamed DEF LogInv
  <2>. QED
    BY <2>1, <2>2 DEF LogInv
<1>11. CASE CallFails
  <2>1. pc' = "cleanup"
    BY <1>11 DEF CallFails, Breaks
  <2>2. Drops
    <3>1. CASE row' = row
      BY <3>1 DEF Drops, Told
    <3>2. CASE pc = "early" /\ row' = Report(row, Early[early], {}, 0)
      BY <1>5, <3>2, StagesNamed DEF LogInv, TypeOK
    <3>3. CASE pc = "propose" /\ row' = Report(row, "ClientImport", {"PayloadCID"}, 0)
      BY <1>0, <1>5, <3>3, StagesNamed DEF LogInv
    <3>4. CASE pc = "propose" /\ row' = Report(row, "ProposeDeal", {}, 0)
      BY <1>5, <3>4, StagesNamed DEF LogInv
    <3>5. CASE pc = "starting" /\ row' = Report(row, "ProposeDeal", {"ProposalCID"}, 0)
      BY <1>0, <1>5, <3>5, StagesNamed DEF LogInv
    <3>. QED
      BY <1>11, <3>1, <3>2, <3>3, <3>4, <3>5 DEF CallFails
  <2>. QED
    BY <2>1, <2>2 DEF LogInv
(* The loop. *)
<1>12. CASE HandleUpdate \/ UpdateFails
  <2>. DEFINE u == Head(updates)
  <2>1. /\ pc = "monitor" /\ updates # <<>> /\ u.proposal = Own
        /\ pc' \in {"monitor", "cleanup"} /\ row' \in {row, Moved(u)}
    BY <1>12 DEF HandleUpdate, UpdateFails, OwnUpdate, Breaks
  <2>2. u \in UpdateSet
    BY <2>1 DEF TypeOK
  <2>. HIDE DEF u
  <2>3. CASE row' = row
    BY <2>1, <2>3 DEF LogInv, NotesOnly, Noted, Drops, Told
  <2>4. CASE row' = Moved(u)
    <3>1. /\ row'.stage = "ProposeDeal" \/ NotesOnly(row', {"DealID"})
          /\ \A tag \in Logs : Told(row, tag) /\ ~Told(row', tag) =>
               tag = "DealID" /\ u.state = row.stage
      BY <2>1, <2>2, <2>4, MovedKeeps
    <3>. QED
      BY <2>1, <3>1 DEF LogInv, Drops, u
  <2>. QED
    BY <2>1, <2>3, <2>4
(* The end. *)
<1>13. CASE Finish
  <2>1. pc' = "ended"
    BY <1>13 DEF Finish
  <2>2. row' = row \/ \E s \in {"Successful", "Failed"} : row' = FinalUpdate(row, s)
    BY <1>13 DEF Finish
  <2>3. ASSUME NEW s, row' = FinalUpdate(row, s)
        PROVE  row'.past = row.past /\ (row.current # NULL => row'.current = row.current)
    BY <2>3 DEF FinalUpdate, UpdateTask
  <2>4. Drops
    BY <2>2, <2>3 DEF Drops, Told
  <2>. QED
    BY <2>1, <2>4 DEF LogInv
<1>. QED
  BY <1>3, <1>4, <1>6, <1>7, <1>8, <1>9, <1>10, <1>11, <1>12, <1>13 DEF Next, Step, Fails

(* Whatever the node reports, again or without stages, and whichever calls *)
(* fail: an id told in the row stays there, except that the deal's id goes *)
(* with the details of a stage the node reports once more.                 *)
THEOREM IdsStay == Spec => IdsDropOnlyOnRepeat
<1>1. Init => LogInv
  BY DEF Init, LogInv, NotesOnly, Noted, AssignedRow
<1>2. TypeOK /\ LogInv /\ [Next]_vars => LogInv'
  BY LogStep, NullAssumption
<1>3. TypeOK /\ LogInv /\ [Next]_vars =>
        [\A tag \in Logs : Told(row, tag) /\ ~Told(row', tag) =>
           /\ tag = "DealID" /\ pc = "monitor" /\ updates # <<>>
           /\ Head(updates).proposal = Own /\ Head(updates).state = row.stage]_vars
  BY LogStep, NullAssumption DEF Drops
<1>. QED
  BY <1>1, <1>2, <1>3, TypeCorrect, PTL DEF Spec, IdsDropOnlyOnRepeat
=============================================================================
