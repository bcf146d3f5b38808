------------------------------- MODULE Engine -------------------------------
(***************************************************************************)
(* A dealbot's engine (engine/engine.go): the goroutine of taskLoop, which *)
(* pops tasks for as long as it counts fewer than `workers` active, the    *)
(* goroutine of runTask it starts for each, and the call to Close that     *)
(* stops them.  They share the channels ready (capacity 1), released       *)
(* (capacity workers), shutdown and stopped, the tick of popTimer and the  *)
(* context.                                                                *)
(*                                                                         *)
(* The controller and the Lotus node answer as they like: a pop finds a    *)
(* task or not, a deal ends well or badly, a call fails.                   *)
(***************************************************************************)
EXTENDS Naturals, FiniteSets

CONSTANTS
  Workers,   \* the workers flag
  Runners,   \* bound: goroutines of runTask at one time, and slots lost
  Kinds      \* deals the popped tasks may hold

ASSUME EngineAssumption ==
  /\ Workers \in Nat \ {0}
  /\ IsFiniteSet(Runners)
  /\ Kinds \subseteq {"storage", "retrieval", "unknown"}

VARIABLES
  loop,      \* where taskLoop and run are
  active,    \* taskLoop's count
  ready,     \* ready holds an element
  released,  \* elements of released
  timer,     \* popTimer: armed, expired and about to send, a tick in C
  runner,    \* the goroutines of runTask
  close,     \* Close: "open" before, "closing" in it, "closed" after closer()
  cancelled, \* the context of taskLoop is done
  panicked   \* the process has died of a nil dereference

vars == <<loop, active, ready, released, timer, runner, close, cancelled, panicked>>
process == <<close, cancelled, panicked>>

(* pc: "deal"    in MakeStorageDeal or MakeRetrievalDeal                   *)
(*     "fetch"   at GetTask                                                *)
(*     "release" at the last releaseWorker()                               *)
(*     "update"  at the final UpdateTask                                   *)
(*     "hook"    past it                                                   *)
(*     "lost"    returned without releaseWorker(): no goroutine is left,   *)
(*               but its slot is counted for good                          *)
Free == [pc |-> "free", kind |-> "none", holds |-> FALSE, fetched |-> FALSE]
Started(kind) == [pc |-> "deal", kind |-> kind, holds |-> TRUE, fetched |-> FALSE]

Off == [armed |-> FALSE, sending |-> FALSE, tick |-> FALSE]

Init ==
  /\ loop = "check"
  /\ active = 0
  /\ ready = TRUE        \* we start in a ready state
  /\ released = 0
  /\ timer = Off
  /\ runner = [r \in Runners |-> Free]
  /\ close = "open"
  /\ cancelled = FALSE
  /\ panicked = FALSE

-----------------------------------------------------------------------------
(* taskLoop.                                                               *)

NoCheck == FALSE    \* mutant

ShutdownClosed == close # "open"

(* The first select: a quit comes before any other operation.              *)
Check ==
  /\ loop = "check"
  /\ loop' = IF ShutdownClosed THEN "cancel" ELSE "select"
  /\ UNCHANGED <<active, ready, released, timer, runner, process>>

(* The second select, one action for each channel.                         *)
TakeShutdown ==
  /\ loop = "select"
  /\ close # "open"
  /\ loop' = "cancel"
  /\ UNCHANGED <<active, ready, released, timer, runner, process>>

(* Mutant: the tick is not drained.                                        *)
StopOnly == [timer EXCEPT !.armed = FALSE]

(* Stop returns true for an armed timer; otherwise C is drained.  A tick   *)
(* that is being sent meanwhile is neither stopped nor found in C.         *)
StoppedTimer ==
  IF timer.armed THEN [timer EXCEPT !.armed = FALSE]
  ELSE [timer EXCEPT !.tick = FALSE]

TakeReady ==
  /\ loop = "select"
  /\ ready
  /\ ready' = FALSE
  /\ timer' = StoppedTimer
  /\ loop' = "pop"
  /\ UNCHANGED <<active, released, runner, process>>

TakeTick ==
  /\ loop = "select"
  /\ timer.tick
  /\ timer' = [timer EXCEPT !.tick = FALSE]
  /\ ready' = TRUE
  /\ loop' = "check"
  /\ UNCHANGED <<active, released, runner, process>>

(* Mutant: an element left in ready stands for both.                       *)
DecrementIfEmpty == IF ready THEN active ELSE active - 1

DecrementActive == active - 1

(* Mutant: releases are received only below the limit.                     *)
TakeReleasedBelow ==
  /\ loop = "select"
  /\ released > 0 /\ active < Workers
  /\ released' = released - 1
  /\ active' = active - 1
  /\ ready' = TRUE
  /\ loop' = "check"
  /\ UNCHANGED <<timer, runner, process>>

TakeReleased ==
  /\ loop = "select"
  /\ released > 0
  /\ released' = released - 1
  /\ active' = DecrementActive
  /\ ready' = TRUE
  /\ loop' = "check"
  /\ UNCHANGED <<timer, runner, process>>

LeaveTimer == timer    \* mutant

ResetTimer == [timer EXCEPT !.armed = TRUE]

(* tryPopTask returns nil: the API is not good, no task, an error, a       *)
(* timeout, or a task of another host.                                     *)
PopNothing ==
  /\ loop = "pop"
  /\ timer' = ResetTimer
  /\ loop' = "check"
  /\ UNCHANGED <<active, ready, released, runner, process>>

PopTask ==
  /\ loop = "pop"
  /\ \E r \in Runners, kind \in Kinds :
       /\ runner[r].pc = "free"
       /\ runner' = [runner EXCEPT ![r] = Started(kind)]
  /\ active' = active + 1
  /\ loop' = IF active + 1 < Workers THEN "offer" ELSE "check"
  /\ UNCHANGED <<ready, released, timer, process>>

(* ready <- struct{}{}, which blocks as long as ready is full.             *)
OfferReady ==
  /\ loop = "offer"
  /\ ~ready
  /\ ready' = TRUE
  /\ loop' = "check"
  /\ UNCHANGED <<active, released, timer, runner, process>>

-----------------------------------------------------------------------------
(* run, after taskLoop has returned.                                       *)

Cancel ==
  /\ loop = "cancel"
  /\ cancelled' = TRUE
  /\ loop' = "wait"
  /\ UNCHANGED <<active, ready, released, timer, runner, close, panicked>>

(* The goroutines run's wait group counts: taskLoop was given a copy of it *)
(* and counts its goroutines there.                                        *)
WaitedFor == {}

Stop ==
  /\ loop = "wait"
  /\ WaitedFor = {}
  /\ loop' = "stopped"
  /\ UNCHANGED <<active, ready, released, timer, runner, process>>

-----------------------------------------------------------------------------
(* runTask.                                                                *)

(* Mutant: sync.Once is left out.                                          *)
ReleaseAgain(r, next) ==
  /\ released < Workers
  /\ released' = released + 1
  /\ runner' = [runner EXCEPT ![r] = next]

(* releaseWorker(), which blocks as long as released is full, and what the *)
(* goroutine does next.                                                    *)
ReleaseWorker(r, next) ==
  /\ runner[r].holds => released < Workers
  /\ released' = IF runner[r].holds THEN released + 1 ELSE released
  /\ runner' = [runner EXCEPT ![r] = [next EXCEPT !.holds = FALSE]]

(* The deal has been proposed and is waiting to be accepted.               *)
ReleaseEarly(r) ==
  /\ runner[r].pc = "deal" /\ runner[r].kind = "storage"
  /\ ReleaseWorker(r, runner[r])
  /\ UNCHANGED <<loop, active, ready, timer, process>>

(* Returning without releaseWorker().                                      *)
Return(r) ==
  /\ runner' = [runner EXCEPT ![r] =
                  IF runner[r].holds THEN [runner[r] EXCEPT !.pc = "lost"] ELSE Free]
  /\ UNCHANGED <<loop, active, ready, released, timer, process>>

(* The task has unknown deal type, or the deal returns context.Canceled.   *)
AbandonDeal(r) ==
  /\ runner[r].pc = "deal"
  /\ runner[r].kind = "unknown" \/ cancelled
  /\ Return(r)

(* The deal returns, with an error or none.                                *)
EndDeal(r) ==
  /\ runner[r].pc = "deal" /\ runner[r].kind # "unknown"
  /\ runner' = [runner EXCEPT ![r].pc = "fetch"]
  /\ UNCHANGED <<loop, active, ready, released, timer, process>>

(* GetTask returns nil with an error; it always fails once the context is  *)
(* done.                                                                   *)
FetchTask(r) ==
  /\ runner[r].pc = "fetch"
  /\ \E ok \in {TRUE, FALSE} :
       /\ cancelled => ~ok
       /\ runner' = [runner EXCEPT ![r].pc = "release", ![r].fetched = ok]
  /\ UNCHANGED <<loop, active, ready, released, timer, process>>

(* Past the release the task's stage details are read, whether or not      *)
(* GetTask has returned a task.                                            *)
ReleaseLast(r) ==
  /\ runner[r].pc = "release"
  /\ ReleaseWorker(r, [runner[r] EXCEPT !.pc = "update"])
  /\ panicked' = ~runner[r].fetched
  /\ UNCHANGED <<loop, active, ready, timer, close, cancelled>>

(* UpdateTask, with the context the deal ran under; an error is logged.    *)
UpdateFinal(r) ==
  /\ runner[r].pc = "update"
  /\ runner' = [runner EXCEPT ![r].pc = "hook"]
  /\ UNCHANGED <<loop, active, ready, released, timer, process>>

(* The post hook has run, or there is none; or UpdateTask was cancelled.   *)
Done(r) ==
  /\ runner[r].pc = "hook"
  /\ Return(r)

-----------------------------------------------------------------------------
(* popTimer, Close, the daemon's context.                                  *)

(* A tick is sent long before the timer, armed anew for noTasksWait, can   *)
(* expire again.                                                           *)
Expire ==
  /\ timer.armed /\ ~timer.sending
  /\ timer' = [timer EXCEPT !.armed = FALSE, !.sending = TRUE]
  /\ UNCHANGED <<loop, active, ready, released, runner, process>>

SendTick ==
  /\ timer.sending
  /\ timer' = [timer EXCEPT !.sending = FALSE, !.tick = TRUE]
  /\ UNCHANGED <<loop, active, ready, released, runner, process>>

Close ==
  /\ close = "open"
  /\ close' = "closing"
  /\ UNCHANGED <<loop, active, ready, released, timer, runner, cancelled, panicked>>

(* <-e.stopped, then e.closer() closes the connection to the node.         *)
CloseNode ==
  /\ close = "closing"
  /\ loop = "stopped"
  /\ close' = "closed"
  /\ UNCHANGED <<loop, active, ready, released, timer, runner, cancelled, panicked>>

(* A signal to the process.  Its handler calls Close, some time after.     *)
Interrupt ==
  /\ ~cancelled
  /\ cancelled' = TRUE
  /\ UNCHANGED <<loop, active, ready, released, timer, runner, close, panicked>>

-----------------------------------------------------------------------------
LoopStep ==
  /\ ~panicked
  /\ \/ Check \/ TakeShutdown \/ TakeReady \/ TakeTick \/ TakeReleased
     \/ PopNothing \/ PopTask \/ OfferReady
     \/ Cancel \/ Stop

RunnerStep(r) ==
  /\ ~panicked
  /\ \/ ReleaseEarly(r) \/ AbandonDeal(r) \/ EndDeal(r) \/ FetchTask(r)
     \/ ReleaseLast(r) \/ UpdateFinal(r) \/ Done(r)

TimerStep == ~panicked /\ (Expire \/ SendTick)

(* The goroutine waits in releaseWorker() for room.                        *)
Blocked(r) == runner[r].pc = "release" /\ runner[r].holds /\ released = Workers

(* Nothing is left to happen: a deadlock anywhere else is an error.  Once  *)
(* taskLoop has returned nobody makes room in released.                    *)
Ended ==
  /\ \/ panicked
     \/ /\ close = "closed"
        /\ \A r \in Runners : runner[r].pc \in {"free", "lost"} \/ Blocked(r)
  /\ UNCHANGED vars

Next ==
  \/ LoopStep
  \/ \E r \in Runners : RunnerStep(r)
  \/ TimerStep
  \/ ~panicked /\ (Close \/ CloseNode \/ Interrupt)
  \/ Ended

Spec == Init /\ [][Next]_vars

(* The goroutine of taskLoop, the timer and the caller of Close get on,    *)
(* and select, which chooses at random, does not pass over released for    *)
(* ever; nothing is assumed of deals, of the node or of the controller.    *)
FairSpec ==
  /\ Spec
  /\ WF_vars(LoopStep) /\ WF_vars(TimerStep) /\ WF_vars(~panicked /\ CloseNode)
  /\ SF_vars(~panicked /\ TakeReleased)

-----------------------------------------------------------------------------
(* Properties.                                                             *)

RunnerStates ==
  [pc : {"free", "deal", "fetch", "release", "update", "hook", "lost"},
   kind : {"none", "storage", "retrieval", "unknown"},
   holds : BOOLEAN, fetched : BOOLEAN]

(* The counters, channels and program counters of the goroutines.          *)
TypeOK ==
  /\ loop \in {"check", "select", "pop", "offer", "cancel", "wait", "stopped"}
  /\ active \in Nat
  /\ ready \in BOOLEAN
  /\ released \in 0..Workers
  /\ timer \in [armed : BOOLEAN, sending : BOOLEAN, tick : BOOLEAN]
  /\ runner \in [Runners -> RunnerStates]
  /\ close \in {"open", "closing", "closed"}
  /\ cancelled \in BOOLEAN
  /\ panicked \in BOOLEAN

Holding == {r \in Runners : runner[r].holds}

(* taskLoop's count, kept by one goroutine, is the number of slots that    *)
(* the others hold, have lost, or have put into released: none is counted  *)
(* twice or forgotten whatever the order of releases and pops.             *)
SlotsAccounted == active = released + Cardinality(Holding)

(* "how many tasks to accept at a time", "number of concurrent task        *)
(* workers": taskLoop counts no more active tasks than workers.            *)
AtMostWorkers == active <= Workers

(* A tick left over from a timer that expired as it was stopped costs one  *)
(* task above the limit and no more, however often it happens.             *)
AtMostOneMore == active <= Workers + 1

(* releaseWorker() may find released full, with one task above the limit;  *)
(* it blocks no deal for good as long as taskLoop runs.                    *)
ReleasesGoOn ==
  (\E r \in Runners : Blocked(r))
    ~> released < Workers \/ close # "open" \/ panicked

(* taskLoop never waits in its select, with fewer tasks than workers, for  *)
(* an event nothing will bring about: what asks for the next pop is in     *)
(* ready, or a tick is on its way.                                         *)
NoLostWakeup ==
  loop \in {"check", "select"} /\ active < Workers
    => ready \/ timer.armed \/ timer.sending \/ timer.tick

(* With fewer tasks than workers the engine asks the controller for one    *)
(* again, whatever the pops before found, until it is closed.              *)
PopsAgain ==
  close = "open" /\ active < Workers
    ~> loop = "pop" \/ close # "open" \/ panicked

(* Close returns: taskLoop quits in whatever state it is found.            *)
CloseReturns == close = "closing" ~> close = "closed" \/ panicked

(* "wait for workers to stop": the connection to the node is closed when   *)
(* no deal is under way on it.                                             *)
NodeOutlivesDeals ==
  close = "closed" => \A r \in Runners : runner[r].pc # "deal"

(* "release the queue to run more jobs", "Update task final status": a     *)
(* call that fails at the end of a deal costs that deal alone, and the     *)
(* engine goes on.                                                         *)
EngineSurvives == ~panicked

-----------------------------------------------------------------------------
(* The abstract pool of slots that the engine implements.                  *)

Door ==
  IF close = "open" THEN "open"
  ELSE IF loop \in {"select", "pop"} THEN "closing"
  ELSE "shut"

Pool == INSTANCE WorkerPool WITH Slots <- Workers + 1, busy <- Holding, door <- Door

(* "insure at most one operation runs before a quit": whatever of ready,   *)
(* the tick and released its selects find beside shutdown, taskLoop starts *)
(* at most one more deal after Close; every deal has a slot of its own,    *)
(* gives it back once, and never has more than Workers beside it.          *)
ImplementsPool == Pool!Spec
=============================================================================
