--------------------------- MODULE Engine_proofs ---------------------------
(***************************************************************************)
(* The slots of the engine, for every number of workers and of goroutines. *)
(*                                                                         *)
(* The count of active tasks is right because every step that takes a slot *)
(* or gives one back changes the two sides of SlotsAccounted alike.  That  *)
(* it goes one above the number of workers at most needs in addition what  *)
(* may still ask for a pop (an element in ready, an armed timer, a tick on *)
(* its way or there) as the count nears the limit: any of it below, one    *)
(* thing at the limit, nothing above it.  On both rests that the engine    *)
(* implements a pool of slots.                                             *)
(***************************************************************************)
EXTENDS Engine, FiniteSetTheorems, TLAPS

FreeHoldsNone == \A r \in Runners : runner[r].pc = "free" => ~runner[r].holds
Counted == TypeOK /\ FreeHoldsNone /\ SlotsAccounted

LEMMA HoldingFinite == IsFiniteSet(Holding) /\ Cardinality(Holding) \in Nat
<1>1. Holding \subseteq Runners /\ IsFiniteSet(Runners)
  BY EngineAssumption DEF Holding
<1>2. IsFiniteSet(Holding)
  BY <1>1, FS_Subset
<1>. QED
  BY <1>2, FS_CardinalityType

(* A goroutine that takes a slot adds one to those that hold one.          *)
LEMMA HoldingAdds ==
  ASSUME NEW r \in Runners, r \notin Holding, Holding' = Holding \union {r}
  PROVE  Cardinality(Holding') = Cardinality(Holding) + 1
BY HoldingFinite, FS_AddElement

(* One that gives its slot back takes one from them.                       *)
LEMMA HoldingRemoves ==
  ASSUME NEW r \in Runners, r \in Holding, Holding' = Holding \ {r}
  PROVE  Cardinality(Holding') = Cardinality(Holding) - 1
BY HoldingFinite, FS_RemoveElement

LEMMA CountedInit == Init => Counted
<1>. SUFFICES ASSUME Init PROVE Counted
  OBVIOUS
<1>1. Free \in RunnerStates /\ ~Free.holds
  BY DEF Free, RunnerStates
<1>2. Off \in [armed : BOOLEAN, sending : BOOLEAN, tick : BOOLEAN]
  BY DEF Off
<1>3. TypeOK
  <2>1. runner \in [Runners -> RunnerStates]
    BY <1>1 DEF Init
  <2>2. released \in 0..Workers /\ active \in Nat
    BY EngineAssumption DEF Init
  <2>. QED
    BY <1>2, <2>1, <2>2 DEF Init, TypeOK
<1>4. Holding = {} /\ FreeHoldsNone
  BY <1>1 DEF Init, Holding, FreeHoldsNone
<1>. QED
  BY <1>3, <1>4, FS_EmptySet DEF Init, Counted, SlotsAccounted

(* A goroutine that keeps its slot, or has none and gets none, leaves the  *)
(* number of slots held alone.                                             *)
LEMMA SameHolding ==
  ASSUME TypeOK, FreeHoldsNone, NEW r \in Runners, NEW s \in RunnerStates,
         runner' = [runner EXCEPT ![r] = s], s.holds = runner[r].holds,
         s.pc = "free" => ~s.holds
  PROVE  Holding' = Holding /\ FreeHoldsNone' /\ runner' \in [Runners -> RunnerStates]
BY DEF Holding, TypeOK, FreeHoldsNone

(* releaseWorker() moves one slot from the goroutine to the channel, or    *)
(* does nothing.                                                           *)
LEMMA ReleaseCounted ==
  ASSUME Counted, NEW r \in Runners, NEW s \in RunnerStates, ReleaseWorker(r, s)
  PROVE  /\ released' \in 0..Workers
         /\ runner' \in [Runners -> RunnerStates]
         /\ FreeHoldsNone'
         /\ released' + Cardinality(Holding') = released + Cardinality(Holding)
<1>. DEFINE next == [s EXCEPT !.holds = FALSE]
<1>1. next \in RunnerStates /\ next.holds = FALSE
  BY DEF RunnerStates
<1>2. runner' = [runner EXCEPT ![r] = next]
  BY DEF ReleaseWorker
<1>. HIDE DEF next
<1>3. runner' \in [Runners -> RunnerStates] /\ FreeHoldsNone'
  BY <1>1, <1>2 DEF Counted, TypeOK, FreeHoldsNone
<1>4. Holding' = Holding \ {r}
  BY <1>1, <1>2 DEF Holding, Counted, TypeOK
<1>5. CASE runner[r].holds
  <2>1. Cardinality(Holding') = Cardinality(Holding) - 1
    BY <1>4, <1>5, HoldingRemoves DEF Holding
  <2>2. released' = released + 1 /\ released < Workers
    BY <1>5 DEF ReleaseWorker
  <2>. QED
    BY <1>3, <2>1, <2>2, HoldingFinite, EngineAssumption DEF Counted, TypeOK
<1>6. CASE ~runner[r].holds
  <2>1. Holding' = Holding
    BY <1>4, <1>6 DEF Holding
  <2>. QED
    BY <1>3, <1>6, <2>1 DEF ReleaseWorker, Counted, TypeOK
<1>. QED
  BY <1>5, <1>6

Timers == [armed : BOOLEAN, sending : BOOLEAN, tick : BOOLEAN]

(* Every step of taskLoop and of run keeps the count.                      *)
LEMMA LoopCounted ==
  ASSUME Counted, LoopStep
  PROVE  Counted'
<1>. USE DEF Counted
<1>1. /\ Cardinality(Holding) \in Nat
      /\ runner' = runner => Holding' = Holding /\ FreeHoldsNone'
  BY HoldingFinite DEF Holding, FreeHoldsNone
<1>2. CASE Check \/ TakeShutdown \/ OfferReady \/ Cancel \/ Stop
  BY <1>1, <1>2 DEF Check, TakeShutdown, OfferReady, Cancel, Stop, process,
                    TypeOK, SlotsAccounted
<1>3. CASE TakeReady \/ TakeTick \/ PopNothing
  <2>1. timer' \in Timers
    BY <1>3 DEF TakeReady, TakeTick, PopNothing, StoppedTimer, ResetTimer, TypeOK, Timers
  <2>. QED
    BY <1>1, <1>3, <2>1 DEF TakeReady, TakeTick, PopNothing, process,
                            TypeOK, SlotsAccounted, Timers
<1>4. CASE TakeReleased
  BY <1>1, <1>4, EngineAssumption
     DEF TakeReleased, DecrementActive, process, TypeOK, SlotsAccounted
<1>5. CASE PopTask
  <2>1. PICK r \in Runners, kind \in Kinds :
          runner[r].pc = "free" /\ runner' = [runner EXCEPT ![r] = Started(kind)]
    BY <1>5 DEF PopTask
  <2>2. Started(kind) \in RunnerStates /\ Started(kind).holds /\ Started(kind).pc # "free"
    BY EngineAssumption DEF Started, RunnerStates
  <2>3. runner' \in [Runners -> RunnerStates] /\ FreeHoldsNone'
    BY <2>1, <2>2 DEF TypeOK, FreeHoldsNone
  <2>4. r \notin Holding /\ Holding' = Holding \union {r}
    BY <2>1, <2>2 DEF Holding, FreeHoldsNone, TypeOK
  <2>5. Cardinality(Holding') = Cardinality(Holding) + 1
    BY <2>4, HoldingAdds
  <2>. QED
    BY <1>1, <1>5, <2>3, <2>5 DEF PopTask, process, TypeOK, SlotsAccounted
<1>. QED
  BY <1>2, <1>3, <1>4, <1>5 DEF LoopStep

(* Every step of a goroutine of runTask keeps the count.                   *)
LEMMA RunnerCounted ==
  ASSUME Counted, NEW r \in Runners, RunnerStep(r)
  PROVE  Counted'
<1>. USE DEF Counted
<1>1. runner[r] \in RunnerStates
  BY DEF TypeOK
<1>2. CASE ReleaseEarly(r)
  <2>1. ReleaseWorker(r, runner[r])
    BY <1>2 DEF ReleaseEarly
  <2>. QED
    BY <1>1, <1>2, <2>1, ReleaseCounted DEF ReleaseEarly, process, TypeOK, SlotsAccounted
<1>3. CASE ReleaseLast(r)
  <2>1. [runner[r] EXCEPT !.pc = "update"] \in RunnerStates
    BY <1>1 DEF RunnerStates
  <2>2. ReleaseWorker(r, [runner[r] EXCEPT !.pc = "update"])
    BY <1>3 DEF ReleaseLast
  <2>3. panicked' \in BOOLEAN
    BY <1>1, <1>3 DEF ReleaseLast, RunnerStates
  <2>. QED
    BY <1>3, <2>1, <2>2, <2>3, ReleaseCounted DEF ReleaseLast, TypeOK, SlotsAccounted
<1>4. CASE AbandonDeal(r) \/ EndDeal(r) \/ FetchTask(r) \/ UpdateFinal(r) \/ Done(r)
  <2>1. PICK s \in RunnerStates :
          /\ runner' = [runner EXCEPT ![r] = s]
          /\ s.holds = runner[r].holds
          /\ s.pc = "free" => ~s.holds
    <3>1. CASE AbandonDeal(r) \/ Done(r)
      <4>. DEFINE lost == [runner[r] EXCEPT !.pc = "lost"]
      <4>1. lost \in RunnerStates /\ lost.holds = runner[r].holds /\ lost.pc = "lost"
        BY <1>1 DEF RunnerStates
      <4>2. Free \in RunnerStates /\ Free.holds = FALSE
        BY DEF Free, RunnerStates
      <4>3. Return(r)
        BY <3>1 DEF AbandonDeal, Done
      <4>4. CASE runner[r].holds
        BY <4>1, <4>3, <4>4 DEF Return
      <4>5. CASE ~runner[r].holds
        <5>1. runner[r].holds = FALSE
          BY <1>1, <4>5 DEF RunnerStates
        <5>. QED
          BY <4>2, <4>3, <4>5, <5>1 DEF Return
      <4>. QED
        BY <4>4, <4>5
    <3>2. CASE EndDeal(r)
      <4>. DEFINE s == [runner[r] EXCEPT !.pc = "fetch"]
      <4>1. s \in RunnerStates /\ s.holds = runner[r].holds /\ s.pc = "fetch"
        BY <1>1 DEF RunnerStates
      <4>. QED
        BY <3>2, <4>1 DEF EndDeal
    <3>3. CASE FetchTask(r)
      <4>1. PICK ok \in {TRUE, FALSE} :
              runner' = [runner EXCEPT ![r].pc = "release", ![r].fetched = ok]
        BY <3>3 DEF FetchTask
      <4>. DEFINE s == [runner[r] EXCEPT !.pc = "release", !.fetched = ok]
      <4>2. s \in RunnerStates /\ s.holds = runner[r].holds /\ s.pc = "release"
        BY <1>1 DEF RunnerStates
      <4>3. runner' = [runner EXCEPT ![r] = s]
        BY <4>1 DEF TypeOK
      <4>. QED
        BY <4>2, <4>3
    <3>4. CASE UpdateFinal(r)
      <4>. DEFINE s == [runner[r] EXCEPT !.pc = "hook"]
      <4>1. s \in RunnerStates /\ s.holds = runner[r].holds /\ s.pc = "hook"
        BY <1>1 DEF RunnerStates
      <4>. QED
        BY <3>4, <4>1 DEF UpdateFinal
    <3>. QED
      BY <1>4, <3>1, <3>2, <3>3, <3>4
  <2>2. Holding' = Holding /\ FreeHoldsNone' /\ runner' \in [Runners -> RunnerStates]
    BY <2>1, SameHolding
  <2>3. UNCHANGED <<loop, active, ready, released, timer, process>>
    BY <1>4 DEF AbandonDeal, EndDeal, FetchTask, UpdateFinal, Done, Return
  <2>. QED
    BY <2>2, <2>3 DEF process, TypeOK, SlotsAccounted
<1>. QED
  BY <1>2, <1>3, <1>4 DEF RunnerStep

LEMMA CountedInductive == Counted /\ [Next]_vars => Counted'
<1>. SUFFICES ASSUME Counted, [Next]_vars PROVE Counted'
  OBVIOUS
<1>1. runner' = runner => Holding' = Holding /\ FreeHoldsNone'
  BY DEF Holding, FreeHoldsNone, Counted
<1>2. CASE TimerStep
  <2>1. timer' \in Timers
    BY <1>2 DEF TimerStep, Expire, SendTick, Counted, TypeOK, Timers
  <2>. QED
    BY <1>1, <1>2, <2>1 DEF TimerStep, Expire, SendTick, process, Timers,
                            Counted, TypeOK, SlotsAccounted
<1>3. CASE Close \/ CloseNode \/ Interrupt
  BY <1>1, <1>3 DEF Close, CloseNode, Interrupt, Counted, TypeOK, SlotsAccounted
<1>4. CASE UNCHANGED vars
  BY <1>1, <1>4 DEF vars, Counted, TypeOK, SlotsAccounted
<1>. QED
  BY <1>2, <1>3, <1>4, LoopCounted, RunnerCounted DEF Next, Ended

(* The state of the engine stays what TypeOK says it is; with it, the      *)
(* count of active tasks never goes below zero and released never holds    *)
(* more than its capacity.                                                 *)
THEOREM EngineTypeCorrect == Spec => []TypeOK
BY CountedInit, CountedInductive, PTL DEF Spec, Counted

(* taskLoop's count is always the number of slots held, lost or in         *)
(* released.                                                               *)
THEOREM SlotsCorrect == Spec => []SlotsAccounted
BY CountedInit, CountedInductive, PTL DEF Spec, Counted

-----------------------------------------------------------------------------
(* The bound on active tasks.                                              *)

(* What leads to a pop, now or later; and that it is one thing at most.    *)
Asks == ready \/ timer.armed \/ timer.sending \/ timer.tick
OneAsk ==
  /\ ready => ~(timer.armed \/ timer.sending \/ timer.tick)
  /\ timer.armed => ~(timer.sending \/ timer.tick)
  /\ timer.sending => ~timer.tick

(* A pop begins with the timer stopped: all that can be left of it is one  *)
(* tick, and no second one at the limit.                                   *)
Limited ==
  /\ active <= Workers + 1
  /\ active = Workers + 1 => ~Asks /\ loop # "pop"
  /\ active = Workers => OneAsk /\ (loop = "pop" => ~Asks)
  /\ loop = "offer" => active < Workers
  /\ loop = "pop" => ~ready /\ ~timer.armed
  /\ timer.armed \/ loop = "pop" => ~(timer.sending /\ timer.tick)

LEMMA LimitedInit == Init => Limited
BY EngineAssumption DEF Init, Limited, Asks, OneAsk, Off

LEMMA LimitedLoop ==
  ASSUME Counted, Limited, LoopStep
  PROVE  Limited'
<1>. Workers \in Nat /\ active \in Nat /\ timer \in Timers
  BY EngineAssumption DEF Counted, TypeOK, Timers
<1>1. CASE TakeReady
  BY <1>1 DEF TakeReady, StoppedTimer, Limited, Asks, OneAsk, Timers
<1>2. CASE TakeTick
  BY <1>2 DEF TakeTick, Limited, Asks, OneAsk, Timers
<1>3. CASE TakeReleased
  BY <1>3 DEF TakeReleased, DecrementActive, Limited, Asks, OneAsk
<1>4. CASE PopNothing
  BY <1>4 DEF PopNothing, ResetTimer, Limited, Asks, OneAsk, Timers
<1>5. CASE PopTask
  BY <1>5 DEF PopTask, Limited, Asks, OneAsk
<1>6. CASE OfferReady
  BY <1>6 DEF OfferReady, Limited, Asks, OneAsk
<1>7. CASE Check \/ TakeShutdown \/ Cancel \/ Stop
  BY <1>7 DEF Check, TakeShutdown, Cancel, Stop, Limited, Asks, OneAsk
<1>. QED
  BY <1>1, <1>2, <1>3, <1>4, <1>5, <1>6, <1>7 DEF LoopStep

LEMMA LimitedInductive == Counted /\ Limited /\ [Next]_vars => Limited'
<1>. SUFFICES ASSUME Counted, Limited, [Next]_vars PROVE Limited'
  OBVIOUS
<1>1. CASE TimerStep
  BY <1>1 DEF TimerStep, Expire, SendTick, Counted, TypeOK, Limited, Asks, OneAsk
<1>2. ASSUME UNCHANGED <<loop, active, ready, timer>>
      PROVE  Limited'
  BY <1>2 DEF Limited, Asks, OneAsk
<1>3. ASSUME NEW r \in Runners, RunnerStep(r)
      PROVE  UNCHANGED <<loop, active, ready, timer>>
  BY <1>3 DEF RunnerStep, ReleaseEarly, AbandonDeal, EndDeal, FetchTask, ReleaseLast,
              UpdateFinal, Done, Return
<1>. QED
  BY <1>1, <1>2, <1>3, LimitedLoop
     DEF Next, Close, CloseNode, Interrupt, Ended, vars

(* However often a timer expires as it is stopped, taskLoop never counts   *)
(* more than one task above its number of workers.                         *)
THEOREM OneMoreAtMost == Spec => []AtMostOneMore
<1>1. Limited => AtMostOneMore
  BY DEF Limited, AtMostOneMore
<1>. QED
  BY <1>1, CountedInit, CountedInductive, LimitedInit, LimitedInductive, PTL DEF Spec

(* While two goroutines hold slots both find room in released, before and  *)
(* after taskLoop has stopped receiving: only the last one can be blocked  *)
(* by releaseWorker().                                                     *)
THEOREM ReleaseFindsRoom ==
  Spec => [](Cardinality(Holding) > 1 => released < Workers)
<1>1. Counted /\ Limited => (Cardinality(Holding) > 1 => released < Workers)
  BY HoldingFinite, EngineAssumption DEF Counted, TypeOK, Limited, SlotsAccounted
<1>. QED
  BY <1>1, CountedInit, CountedInductive, LimitedInit, LimitedInductive, PTL DEF Spec

-----------------------------------------------------------------------------
(* Wakeups.                                                                *)

LEMMA WakeupInductive == Counted /\ NoLostWakeup /\ [Next]_vars => NoLostWakeup'
<1>. SUFFICES ASSUME Counted, NoLostWakeup, [Next]_vars PROVE NoLostWakeup'
  OBVIOUS
<1>1. CASE LoopStep
  <2>1. CASE Check
    BY <1>1, <2>1 DEF Check, NoLostWakeup
  <2>2. CASE TakeShutdown \/ TakeReady \/ Cancel \/ Stop
    BY <2>2 DEF TakeShutdown, TakeReady, Cancel, Stop, NoLostWakeup
  <2>3. CASE TakeTick \/ TakeReleased \/ OfferReady
    BY <2>3 DEF TakeTick, TakeReleased, OfferReady, NoLostWakeup
  <2>4. CASE PopNothing
    BY <2>4 DEF PopNothing, ResetTimer, NoLostWakeup, Counted, TypeOK
  <2>5. CASE PopTask
    BY <2>5 DEF PopTask, NoLostWakeup
  <2>. QED
    BY <1>1, <2>1, <2>2, <2>3, <2>4, <2>5 DEF LoopStep
<1>2. CASE TimerStep
  BY <1>2 DEF TimerStep, Expire, SendTick, NoLostWakeup, Counted, TypeOK
<1>3. ASSUME UNCHANGED <<loop, active, ready, timer>>
      PROVE  NoLostWakeup'
  BY <1>3 DEF NoLostWakeup
<1>4. ASSUME NEW r \in Runners, RunnerStep(r)
      PROVE  UNCHANGED <<loop, active, ready, timer>>
  BY <1>4 DEF RunnerStep, ReleaseEarly, AbandonDeal, EndDeal, FetchTask, ReleaseLast,
              UpdateFinal, Done, Return
<1>. QED
  BY <1>1, <1>2, <1>3, <1>4 DEF Next, Close, CloseNode, Interrupt, Ended, vars

(* With a slot free, taskLoop's select always has in ready, in the timer   *)
(* or in its tick what will make it pop again.                             *)
THEOREM WakeupsKept == Spec => []NoLostWakeup
<1>1. Init => NoLostWakeup
  BY DEF Init, NoLostWakeup
<1>. QED
  BY <1>1, CountedInit, CountedInductive, WakeupInductive, PTL DEF Spec

-----------------------------------------------------------------------------
(* taskLoop's own sends.                                                   *)

OfferRoom == loop \in {"pop", "offer"} => ~ready

LEMMA OfferInductive == OfferRoom /\ [Next]_vars => OfferRoom'
<1>. SUFFICES ASSUME OfferRoom, [Next]_vars PROVE OfferRoom'
  OBVIOUS
<1>1. CASE LoopStep
  BY <1>1 DEF LoopStep, Check, TakeShutdown, TakeReady, TakeTick, TakeReleased, PopNothing,
              PopTask, OfferReady, Cancel, Stop, process, OfferRoom
<1>2. ASSUME UNCHANGED <<loop, ready>> PROVE OfferRoom'
  BY <1>2 DEF OfferRoom
<1>3. ASSUME NEW r \in Runners, RunnerStep(r) PROVE UNCHANGED <<loop, ready>>
  BY <1>3 DEF RunnerStep, ReleaseEarly, AbandonDeal, EndDeal, FetchTask, ReleaseLast,
              UpdateFinal, Done, Return
<1>. QED
  BY <1>1, <1>2, <1>3 DEF Next, TimerStep, Expire, SendTick, Close, CloseNode, Interrupt,
                          Ended, vars

(* taskLoop, the only goroutine that empties ready, never finds it full    *)
(* when it sends to it after a pop (engine.go:209): what it has received   *)
(* it has not put back in between, and nobody else sends.  CloseReturns    *)
(* and PopsAgain rest on it.                                               *)
THEOREM OffersFindRoom == Spec => [](loop = "offer" => ~ready)
<1>1. Init => OfferRoom
  BY DEF Init, OfferRoom
<1>2. OfferRoom => (loop = "offer" => ~ready)
  BY DEF OfferRoom
<1>. QED
  BY <1>1, <1>2, OfferInductive, PTL DEF Spec

-----------------------------------------------------------------------------
(* The abstract pool.                                                      *)

(* A step that keeps every slot with its runner, and from which the door   *)
(* goes no way but to.                                                     *)
DoorOnly ==
  /\ Holding' = Holding
  /\ \/ Door' = Door
     \/ Door = "open" /\ Door' \in {"closing", "shut"}
     \/ Door = "closing" /\ Door' = "shut"

LEMMA DoorIsPool == DoorOnly => Pool!Next \/ UNCHANGED <<Holding, Door>>
BY DEF DoorOnly, Pool!Next, Pool!Close, Pool!Shut

(* taskLoop starts a deal: there is a slot, as it is not above its limit   *)
(* when it pops, and its count has those given back but not yet received.  *)
LEMMA PoolStart ==
  ASSUME Counted, Limited, PopTask
  PROVE  \E r \in Runners : Pool!Start(r)
<1>1. PICK r \in Runners, kind \in Kinds :
        runner[r].pc = "free" /\ runner' = [runner EXCEPT ![r] = Started(kind)]
  BY DEF PopTask
<1>2. r \notin Holding /\ Holding' = Holding \union {r}
  BY <1>1 DEF Counted, FreeHoldsNone, TypeOK, Holding, Started
<1>3. Cardinality(Holding) < Workers + 1
  <2>1. /\ active < Workers + 1 /\ active = released + Cardinality(Holding)
        /\ active \in Nat /\ released \in Nat /\ Workers \in Nat
    BY EngineAssumption DEF PopTask, Limited, Counted, TypeOK, SlotsAccounted
  <2>2. Cardinality(Holding) \in Nat
    BY HoldingFinite
  <2>. QED
    BY <2>1, <2>2
<1>4. Door # "shut" /\ Door' = IF Door = "open" THEN "open" ELSE "shut"
  BY DEF PopTask, Door, process
<1>5. Pool!Cardinality(Holding) = Cardinality(Holding)
  BY Zenon DEF Pool!Cardinality, Cardinality
<1>. QED
  BY <1>2, <1>3, <1>4, <1>5 DEF Pool!Start

(* Every other step of taskLoop and run is one of the door or none.        *)
LEMMA PoolLoop ==
  ASSUME LoopStep, ~PopTask PROVE DoorOnly
<1>1. Holding' = Holding
  BY DEF LoopStep, Check, TakeShutdown, TakeReady, TakeTick, TakeReleased, PopNothing,
         OfferReady, Cancel, Stop, Holding
<1>2. CASE Check \/ TakeShutdown \/ TakeReady \/ TakeTick \/ TakeReleased
  BY <1>1, <1>2 DEF Check, TakeShutdown, TakeReady, TakeTick, TakeReleased, ShutdownClosed,
                    process, DoorOnly, Door
<1>3. CASE PopNothing \/ OfferReady \/ Cancel \/ Stop
  BY <1>1, <1>3 DEF PopNothing, OfferReady, Cancel, Stop, process, DoorOnly, Door
<1>. QED
  BY <1>2, <1>3 DEF LoopStep

(* A goroutine gives its slot back or keeps it.                            *)
LEMMA PoolRunner ==
  ASSUME Counted, NEW r \in Runners, RunnerStep(r)
  PROVE  Pool!GiveBack(r) \/ DoorOnly
<1>1. runner \in [Runners -> RunnerStates]
  BY DEF Counted, TypeOK
<1>2. Door' = Door
  BY DEF RunnerStep, ReleaseEarly, AbandonDeal, EndDeal, FetchTask, ReleaseLast,
         UpdateFinal, Done, Return, process, Door
<1>3. ASSUME NEW s, ReleaseWorker(r, s)
      PROVE  Holding' = Holding \ {r}
  BY <1>1, <1>3 DEF ReleaseWorker, Holding
<1>4. CASE ReleaseEarly(r) \/ ReleaseLast(r)
  <2>1. Holding' = Holding \ {r}
    BY <1>3, <1>4 DEF ReleaseEarly, ReleaseLast
  <2>2. r \in Holding => Pool!GiveBack(r)
    BY <1>2, <2>1 DEF Pool!GiveBack
  <2>3. r \notin Holding => DoorOnly
    BY <1>2, <2>1 DEF DoorOnly
  <2>. QED
    BY <2>2, <2>3
<1>5. CASE AbandonDeal(r) \/ Done(r)
  <2>1. Return(r) /\ Free.holds = FALSE
    BY <1>5 DEF AbandonDeal, Done, Free
  <2>2. Holding' = Holding
    <3>1. CASE runner[r].holds
      BY <1>1, <2>1, <3>1 DEF Return, Holding
    <3>2. CASE ~runner[r].holds
      BY <1>1, <2>1, <3>2 DEF Return, Holding
    <3>. QED
      BY <3>1, <3>2
  <2>. QED
    BY <1>2, <2>2 DEF DoorOnly
<1>6. CASE EndDeal(r) \/ FetchTask(r) \/ UpdateFinal(r)
  <2>1. \A q \in Runners : runner'[q].holds = runner[q].holds
    <3>1. CASE EndDeal(r)
      BY <1>1, <3>1 DEF EndDeal, RunnerStates
    <3>2. CASE FetchTask(r)
      BY <1>1, <3>2 DEF FetchTask, RunnerStates
    <3>3. CASE UpdateFinal(r)
      BY <1>1, <3>3 DEF UpdateFinal, RunnerStates
    <3>. QED
      BY <1>6, <3>1, <3>2, <3>3
  <2>2. Holding' = Holding
    BY <2>1 DEF Holding
  <2>. QED
    BY <1>2, <2>2 DEF DoorOnly
<1>. QED
  BY <1>4, <1>5, <1>6 DEF RunnerStep

LEMMA PoolStep ==
  ASSUME Counted, Limited, [Next]_vars
  PROVE  Pool!Next \/ UNCHANGED <<Holding, Door>>
<1>1. CASE LoopStep
  <2>1. CASE PopTask
    BY <2>1, PoolStart DEF Pool!Next
  <2>. QED
    BY <1>1, <2>1, PoolLoop, DoorIsPool
<1>2. ASSUME NEW r \in Runners, RunnerStep(r) PROVE Pool!Next \/ UNCHANGED <<Holding, Door>>
  BY <1>2, PoolRunner, DoorIsPool DEF Pool!Next
<1>3. CASE TimerStep \/ Interrupt \/ UNCHANGED vars
  BY <1>3 DEF TimerStep, Expire, SendTick, Interrupt, process, vars, Holding, Door
<1>4. CASE Close \/ CloseNode
  <2>1. DoorOnly
    BY <1>4 DEF Close, CloseNode, DoorOnly, Door, Holding
  <2>. QED
    BY <2>1, DoorIsPool
<1>. QED
  BY <1>1, <1>2, <1>3, <1>4 DEF Next, Ended

(* The engine is a pool of one slot more than it has workers, which starts *)
(* at most one more deal once Close has been called, whatever its channels *)
(* hold then.                                                              *)
THEOREM PoolImplemented == Spec => ImplementsPool
<1>1. Init => Pool!Init
  <2>. SUFFICES ASSUME Init PROVE Pool!Init
    OBVIOUS
  <2>1. Holding = {}
    BY DEF Init, Holding, Free
  <2>. QED
    BY <2>1 DEF Init, Pool!Init, Door
<1>2. Counted /\ Limited /\ [Next]_vars => [Pool!Next]_<<Holding, Door>>
  BY PoolStep
<1>. QED
  BY <1>1, <1>2, CountedInit, CountedInductive, LimitedInit, LimitedInductive, PTL
     DEF Spec, ImplementsPool, Pool!Spec, Pool!vars
=============================================================================
