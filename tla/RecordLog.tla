----------------------------- MODULE RecordLog -----------------------------
(***************************************************************************)
(* What the controller's record chain promises to those who read it: the   *)
(* finished records wait until an update takes them up, the updates form   *)
(* one list that only grows, and the part of it that the outside can reach *)
(* only grows too.  RecordChain implements it.                             *)
(***************************************************************************)
EXTENDS Naturals, Sequences

CONSTANT Rows   \* the entries that finished tasks leave in record_updates

VARIABLES
  waiting,  \* the rows no update has taken up
  log,      \* the updates, oldest first: the rows each of them lists
  shown     \* how many of them can be reached from the published root

Init == waiting = {} /\ log = <<>> /\ shown = 0

(* A finished task is recorded; no update lists its row yet.               *)
Record ==
  /\ \E x \in Rows \ waiting :
       /\ waiting' = waiting \union {x}
       /\ \A i \in DOMAIN log : x \notin log[i]
  /\ UNCHANGED <<log, shown>>

(* An update takes rows up, and lists those that are not excluded.         *)
TakeUp ==
  /\ \E S \in SUBSET waiting : \E L \in SUBSET S :
       waiting' = waiting \ S /\ log' = Append(log, L)
  /\ UNCHANGED shown

Show ==
  /\ \E n \in shown + 1..Len(log) : shown' = n
  /\ UNCHANGED <<waiting, log>>

Next == Record \/ TakeUp \/ Show

Spec == Init /\ [][Next]_<<waiting, log, shown>>
=============================================================================
