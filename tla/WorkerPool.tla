----------------------------- MODULE WorkerPool -----------------------------
(***************************************************************************)
(* What a dealbot's engine promises the controller, with no channels,      *)
(* timers or goroutines in it: a pool of so many slots.  A task is started *)
(* only in a slot that is free; a slot is given back once, or never; and   *)
(* once the pool has been told to close at most one more task is started.  *)
(*                                                                         *)
(* Engine.tla is shown to implement it.                                    *)
(***************************************************************************)
EXTENDS Naturals, FiniteSets

CONSTANTS
  Slots,     \* how many tasks may have one at a time
  Runners    \* who may run a task

VARIABLES
  busy,      \* the runners that occupy a slot
  door       \* "open", "closing" for one more task, "shut"

vars == <<busy, door>>

Init == busy = {} /\ door = "open"

(* The task that was being fetched when the pool was closed is the last.   *)
Start(r) ==
  /\ door # "shut"
  /\ r \notin busy
  /\ Cardinality(busy) < Slots
  /\ busy' = busy \union {r}
  /\ door' = IF door = "open" THEN "open" ELSE "shut"

GiveBack(r) ==
  /\ r \in busy
  /\ busy' = busy \ {r}
  /\ UNCHANGED door

Close ==
  /\ door = "open"
  /\ door' \in {"closing", "shut"}
  /\ UNCHANGED busy

Shut ==
  /\ door = "closing"
  /\ door' = "shut"
  /\ UNCHANGED busy

Next == Close \/ Shut \/ \E r \in Runners : Start(r) \/ GiveBack(r)

Spec == Init /\ [][Next]_vars
=============================================================================
