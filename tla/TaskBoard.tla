----------------------------- MODULE TaskBoard -----------------------------
(***************************************************************************)
(* What the controller's task table promises the dealbots, with no tables, *)
(* transactions or requests in it: a board of tasks, each open, kept by    *)
(* the scheduler, or held by one worker.  A held task is reported on by    *)
(* its holder only, and passes to another worker only by being released    *)
(* while it is still in progress.                                          *)
(*                                                                         *)
(* StateDB.tla is shown to implement it.                                   *)
(***************************************************************************)

CONSTANTS
  TaskIds,      \* the tasks
  Scheduled,    \* the tasks that carry a schedule
  Workers       \* the dealbots

VARIABLE board  \* [TaskIds -> Cards]: what the board shows of each task

Reports  == {"InProgress", "Successful", "Failed"}

Absent   == [kind |-> "absent"]      \* not posted yet
Open     == [kind |-> "open"]        \* any worker may claim it
Kept     == [kind |-> "kept"]        \* the scheduler's
Gone     == [kind |-> "gone"]        \* removed, for good
Held(w, s) == [kind |-> "held", by |-> w, status |-> s]

Cards == {Absent, Open, Kept, Gone}
           \union {Held(w, s) : w \in Workers, s \in Reports}

Init == board = [t \in TaskIds |-> Absent]

Post(t) ==
  /\ board[t] = Absent
  /\ \/ board' = [board EXCEPT ![t] = Open]
     \/ /\ t \in Scheduled
        /\ board' = [board EXCEPT ![t] = Kept]

(* The scheduler takes over a task with a schedule that nobody keeps.      *)
Adopt(t) ==
  /\ t \in Scheduled
  /\ board[t] = Open
  /\ board' = [board EXCEPT ![t] = Kept]

Claim(t, w) ==
  /\ t \notin Scheduled
  /\ board[t] = Open
  /\ board' = [board EXCEPT ![t] = Held(w, "InProgress")]

Report(t, w, s) ==
  /\ \E old \in Reports : board[t] = Held(w, old)
  /\ board' = [board EXCEPT ![t] = Held(w, s)]

(* Everything w holds and has not finished is open again.                  *)
Release(w) ==
  board' = [t \in TaskIds |->
              IF board[t] = Held(w, "InProgress") THEN Open ELSE board[t]]

Remove(t) ==
  /\ board[t] # Absent
  /\ board' = [board EXCEPT ![t] = Gone]

Next ==
  \/ \E t \in TaskIds :
       \/ Post(t) \/ Adopt(t) \/ Remove(t)
       \/ \E w \in Workers : Claim(t, w) \/ \E s \in Reports : Report(t, w, s)
  \/ \E w \in Workers : Release(w)

Spec == Init /\ [][Next]_board
=============================================================================
