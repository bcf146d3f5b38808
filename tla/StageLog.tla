------------------------------ MODULE StageLog ------------------------------
(***************************************************************************)
(* What the controller keeps of a deal's progress, and what it reads out   *)
(* of it at the end (tasks/model.go): the stage a task is in, the details  *)
(* of that stage, the details of the stages it has left, and the figures   *)
(* Finalize takes from these for the finished record.                      *)
(*                                                                         *)
(* Details are the stage they describe (its description), the log entries  *)
(* somebody reads later, and the time they were made, `at'.                *)
(***************************************************************************)
EXTENDS Naturals, Sequences

CONSTANT NULL       \* a Maybe that is absent

Details(stage, logs, at) == [of |-> stage, logs |-> logs, at |-> at]

(* The stage of a task that has not reported one.                          *)
NoStage == ""

(* The row of a task that has just been assigned.                          *)
AssignedRow == [status |-> "InProgress", stage |-> NoStage, current |-> NULL,
                past |-> <<>>]

(* Mutant: the archive is made anew with each stage that is left.          *)
UpdateTaskAnew(r, status, stage, details) ==
  [status  |-> status,
   stage   |-> stage,
   current |-> details,
   past    |-> IF stage # r.stage /\ r.current # NULL THEN <<r.current>> ELSE r.past]

(* UpdateTask: the details of the stage that is left are archived.         *)
UpdateTask(r, status, stage, details) ==
  [status  |-> status,
   stage   |-> stage,
   current |-> details,
   past    |-> IF stage # r.stage /\ r.current # NULL
               THEN Append(r.past, r.current)
               ELSE r.past]

(* A stage as the executor reports it while the deal is under way.         *)
Report(r, stage, logs, at) ==
  UpdateTask(r, "InProgress", stage, Details(stage, logs, at))

(* runTask's last update: the outcome, with the stage and the details the  *)
(* row has already, so that these are not archived; a deal that failed     *)
(* before any stage has those of BlankStage.                               *)
FinalUpdate(r, status) ==
  UpdateTask(r, status, r.stage,
             IF r.current = NULL THEN Details(NoStage, {}, 0) ELSE r.current)

-----------------------------------------------------------------------------
(* parseFinalLogs, over the archived stages only.                          *)

(* The first of the archived details that are of the stage.                *)
FirstOf(past, stage) ==
  LET found == {i \in DOMAIN past : past[i].of = stage}
  IN  IF found = {} THEN NULL
      ELSE past[CHOOSE i \in found : \A j \in found : i <= j]

TimeOf(details) == IF details = NULL THEN NULL ELSE details.at

TimeToFirstByte(past, first) == TimeOf(FirstOf(past, first))

(* Whether an entry that starts with the tag is found.                     *)
HasLog(past, tag) == \E i \in DOMAIN past : tag \in past[i].logs
=============================================================================
