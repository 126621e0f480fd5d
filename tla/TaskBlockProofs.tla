--------------------------- MODULE TaskBlockProofs ---------------------------
(***************************************************************************)
(* Proofs, for every set of tasks, clock bound and set of timeouts, of the *)
(* safety invariants of TaskBlock that MCTaskBlock checks on one instance. *)
(***************************************************************************)
EXTENDS TaskBlock, TLAPS

\* Updating one field of a call record (the error a select case returns,
\* the remaining time, the deactivate flag) keeps it a call record.
LEMMA CallFieldUpdate ==
  \A c \in Calls :
     /\ \A e \in Errs : [c EXCEPT !.err = e] \in Calls
     /\ \A n \in Nat : [c EXCEPT !.rem = n] \in Calls
     /\ \A b \in BOOLEAN : [c EXCEPT !.deactivate = b] \in Calls
BY Zenon DEF Calls

\* The type invariant holds in every reachable state.
THEOREM TypeCorrect == Spec => []TypeOK
<1>1. Init => TypeOK
  BY TimeAssumption DEF Init, TypeOK, Calls, Time, GoStates, Errs
<1>2. TypeOK /\ [Next]_vars => TypeOK'
  <2> SUFFICES ASSUME TypeOK, [Next]_vars PROVE TypeOK'
    OBVIOUS
  <2> USE TimeAssumption DEF TypeOK, Calls, Time, GoStates, Errs
  <2>1. ASSUME NEW t \in Tasks, NEW o \in Ops, NEW d \in Nat,
               NEW dl \in Time, BeginBlock(t, o, d, dl)
        PROVE TypeOK'
    <3> USE <2>1 DEF BeginBlock
    <3>1. call' \in [Tasks -> Calls]
      BY DEF Ops
    <3>2. pc' \in [Tasks -> {"Idle", "Blocked", "Stopping", "Uninterruptible"}]
      BY DEF FastPath, PrepareSleep
    <3>3. /\ C' \in [Tasks -> BOOLEAN]
          /\ active' \in [Tasks -> BOOLEAN]
          /\ gostate' \in [Tasks -> GoStates]
      BY DEF FastPath, PrepareSleep
    <3>4. QED
      BY <3>1, <3>2, <3>3
  <2>2. ASSUME NEW t \in Tasks, Call(t) PROVE TypeOK'
    <3>1. \E o \in Ops, d \in Nat, dl \in Time : BeginBlock(t, o, d, dl)
      BY <2>2 DEF Call, Ops, RemainingOps, UntimedOps, TimedOps
    <3>2. QED
      BY <3>1, <2>1
  <2>3. ASSUME NEW t \in Tasks, Wake(t) PROVE TypeOK'
    <3> USE <2>3 DEF Wake, CompleteSleep, ReturnFromBlock
    <3>1. CASE SelectEvent(t)
      <4>1. C' \in [Tasks -> BOOLEAN] /\ ech' \in [Tasks -> BOOLEAN]
        BY <3>1 DEF SelectEvent, ConsumeChan
      <4>2. [call[t] EXCEPT !.err = "nil"] \in Calls
        BY CallFieldUpdate, call[t] \in Calls
      <4>3. call' \in [Tasks -> Calls]
        BY <3>1, <4>2, Zenon DEF SelectEvent
      <4>4. QED
        BY <3>1, <4>1, <4>3 DEF SelectEvent
    <3>2. CASE SelectInterrupt(t)
      <4>1. [call[t] EXCEPT !.err = "ErrInterrupted"] \in Calls
        BY CallFieldUpdate, call[t] \in Calls
      <4>2. call' \in [Tasks -> Calls]
        BY <3>2, <4>1, Zenon DEF SelectInterrupt
      <4>3. QED
        BY <3>2, <4>2 DEF SelectInterrupt
    <3>3. CASE SelectTimer(t)
      <4>1. [call[t] EXCEPT !.err = "ETIMEDOUT"] \in Calls
        BY CallFieldUpdate, call[t] \in Calls
      <4>2. call' \in [Tasks -> Calls]
        BY <3>3, <4>1, Zenon DEF SelectTimer
      <4>3. QED
        BY <3>3, <4>2 DEF SelectTimer
    <3>4. QED
      BY <3>1, <3>2, <3>3
  <2>4. ASSUME NEW t \in Tasks, StopTimer(t) PROVE TypeOK'
    <3>0. call[t] \in Calls
      OBVIOUS
    <3>1. RemainingTimeout(t) \in Nat
      BY <3>0 DEF RemainingTimeout
    <3>2. [call[t] EXCEPT !.rem = IF call[t].op \in RemainingOps
                                  THEN RemainingTimeout(t)
                                  ELSE call[t].rem] \in Calls
      <4> DEFINE v == IF call[t].op \in RemainingOps
                      THEN RemainingTimeout(t) ELSE call[t].rem
      <4>1. v \in Nat
        BY <3>0, <3>1
      <4>2. [call[t] EXCEPT !.rem = v] \in Calls
        BY <3>0, <4>1, CallFieldUpdate
      <4>3. QED
        BY <4>2
    <3>3. call' \in [Tasks -> Calls]
      BY <2>4, <3>2 DEF StopTimer
    <3>4. QED
      BY <2>4, <3>3 DEF StopTimer
  <2>5. ASSUME NEW t \in Tasks, UnsetInterrupted(t) PROVE TypeOK'
    BY <2>5 DEF UnsetInterrupted
  <2>6. ASSUME NEW t \in Tasks, NEW b \in BOOLEAN,
               UninterruptibleSleepStart(t, b)
        PROVE TypeOK'
    <3>1. [call[t] EXCEPT !.deactivate = b] \in Calls
      BY CallFieldUpdate, call[t] \in Calls
    <3>2. call' \in [Tasks -> Calls]
      BY <2>6, <3>1, Zenon DEF UninterruptibleSleepStart
    <3>3. QED
      BY <2>6, <3>2 DEF UninterruptibleSleepStart
  <2>7. ASSUME NEW t \in Tasks, UninterruptibleSleepFinish(t) PROVE TypeOK'
    BY <2>7 DEF UninterruptibleSleepFinish
  <2>8. ASSUME NEW t \in Tasks, Environment(t) PROVE TypeOK'
    BY <2>8 DEF Environment, Interrupt, Send, Notify, TimerFire
  <2>9. CASE Tick
    BY <2>9 DEF Tick
  <2>10. CASE UNCHANGED vars
    BY <2>10 DEF vars
  <2>11. QED
    BY <2>2, <2>3, <2>4, <2>5, <2>6, <2>7, <2>8, <2>9, <2>10
       DEF Next, TaskStep
<1>3. QED
  BY <1>1, <1>2, PTL DEF Spec

-----------------------------------------------------------------------------
(* Timer hygiene. TimerQuiescent is not inductive by itself: TimerFire    *)
(* sets the expiry channel, which is harmless only because an armed timer *)
(* belongs to a timed call in progress, and StopTimer leaves the channel  *)
(* untouched when the timer is still armed, which is harmless only        *)
(* because an armed timer has not sent yet.                               *)

TimerInv ==
    \A t \in Tasks :
        /\ armed[t] => ~tchan[t]
        /\ (pc[t] \in {"Idle", "Uninterruptible"}
              \/ call[t].op \notin TimedOps) => ~armed[t] /\ ~tchan[t]

\* The strengthened timer invariant holds in every reachable state.
LEMMA TimerInvHolds == Spec => []TimerInv
<1>1. Init => TimerInv
  BY DEF Init, TimerInv
<1>2. TypeOK /\ TimerInv /\ [Next]_vars => TimerInv'
  <2> SUFFICES ASSUME TypeOK, TimerInv, [Next]_vars PROVE TimerInv'
    OBVIOUS
  <2> USE DEF TypeOK, TimerInv
  <2>1. ASSUME NEW t \in Tasks, NEW o \in Ops, NEW d \in Nat,
               NEW dl \in Time, BeginBlock(t, o, d, dl)
        PROVE TimerInv'
    BY <2>1 DEF BeginBlock, FastPath, PrepareSleep, Ops, UntimedOps, TimedOps
  <2>2. ASSUME NEW t \in Tasks, Call(t) PROVE TimerInv'
    <3>1. \E o \in Ops, d \in Nat, dl \in Time : BeginBlock(t, o, d, dl)
      BY <2>2, TimeAssumption DEF Call, Ops, RemainingOps, UntimedOps,
                                  TimedOps, Time
    <3>2. QED
      BY <3>1, <2>1
  <2>3. ASSUME NEW t \in Tasks, Wake(t) PROVE TimerInv'
    <3> USE <2>3 DEF Wake, CompleteSleep, ReturnFromBlock
    <3>1. CASE SelectEvent(t)
      BY <3>1 DEF SelectEvent, ConsumeChan
    <3>2. CASE SelectInterrupt(t)
      BY <3>2 DEF SelectInterrupt
    <3>3. CASE SelectTimer(t)
      BY <3>3 DEF SelectTimer
    <3>4. QED
      BY <3>1, <3>2, <3>3
  <2>4. ASSUME NEW t \in Tasks, StopTimer(t) PROVE TimerInv'
    <3>1. ~armed'[t] /\ ~tchan'[t]
      BY <2>4 DEF StopTimer
    <3>2. \A u \in Tasks \ {t} : /\ armed'[u] = armed[u] /\ tchan'[u] = tchan[u]
                                /\ pc'[u] = pc[u] /\ call'[u] = call[u]
      BY <2>4 DEF StopTimer
    <3>3. QED
      BY <3>1, <3>2
  <2>5. ASSUME NEW t \in Tasks, UnsetInterrupted(t) PROVE TimerInv'
    BY <2>5 DEF UnsetInterrupted
  <2>6. ASSUME NEW t \in Tasks, NEW b \in BOOLEAN,
               UninterruptibleSleepStart(t, b)
        PROVE TimerInv'
    BY <2>6 DEF UninterruptibleSleepStart
  <2>7. ASSUME NEW t \in Tasks, UninterruptibleSleepFinish(t) PROVE TimerInv'
    BY <2>7 DEF UninterruptibleSleepFinish
  <2>8. ASSUME NEW t \in Tasks, Environment(t) PROVE TimerInv'
    BY <2>8 DEF Environment, Interrupt, Send, Notify, TimerFire
  <2>9. CASE Tick
    BY <2>9 DEF Tick
  <2>10. CASE UNCHANGED vars
    BY <2>10 DEF vars
  <2>11. QED
    BY <2>2, <2>3, <2>4, <2>5, <2>6, <2>7, <2>8, <2>9, <2>10
       DEF Next, TaskStep
<1>3. QED
  BY <1>1, <1>2, TypeCorrect, PTL DEF Spec

\* Timer hygiene holds for every instance: no call returns with the blocking
\* timer armed or a value left in t.blockingTimerChan.
THEOREM TimerQuiescentHolds == Spec => []TimerQuiescent
<1>1. TimerInv => TimerQuiescent
  BY DEF TimerInv, TimerQuiescent
<1>2. QED
  BY <1>1, TimerInvHolds, PTL

-----------------------------------------------------------------------------
(* Interrupts are sticky. InterruptedUntilUnset is inductive given        *)
(* TypeOK: the only step that empties the interrupt slot,                 *)
(* unsetInterrupted, also clears the history flag, and the select's       *)
(* interrupt case refills the slot through interruptSelf().               *)

\* Interrupted() stays true after a block returned ErrInterrupted until
\* unsetInterrupted, for every instance.
THEOREM InterruptedUntilUnsetHolds == Spec => []InterruptedUntilUnset
<1>1. Init => InterruptedUntilUnset
  BY DEF Init, InterruptedUntilUnset
<1>2. TypeOK /\ InterruptedUntilUnset /\ [Next]_vars => InterruptedUntilUnset'
  <2> SUFFICES ASSUME TypeOK, InterruptedUntilUnset, [Next]_vars
               PROVE InterruptedUntilUnset'
    OBVIOUS
  <2> USE DEF TypeOK, InterruptedUntilUnset, Interrupted
  <2>1. ASSUME NEW t \in Tasks, Call(t) PROVE InterruptedUntilUnset'
    BY <2>1 DEF Call, BeginBlock
  <2>2. ASSUME NEW t \in Tasks, Wake(t) PROVE InterruptedUntilUnset'
    <3> USE <2>2 DEF Wake
    <3>1. CASE SelectEvent(t)
      BY <3>1 DEF SelectEvent
    <3>2. CASE SelectInterrupt(t)
      BY <3>2 DEF SelectInterrupt
    <3>3. CASE SelectTimer(t)
      BY <3>3 DEF SelectTimer
    <3>4. QED
      BY <3>1, <3>2, <3>3
  <2>3. ASSUME NEW t \in Tasks, StopTimer(t) PROVE InterruptedUntilUnset'
    BY <2>3 DEF StopTimer
  <2>4. ASSUME NEW t \in Tasks, UnsetInterrupted(t)
        PROVE InterruptedUntilUnset'
    BY <2>4 DEF UnsetInterrupted
  <2>5. ASSUME NEW t \in Tasks, NEW b \in BOOLEAN,
               UninterruptibleSleepStart(t, b)
        PROVE InterruptedUntilUnset'
    BY <2>5 DEF UninterruptibleSleepStart
  <2>6. ASSUME NEW t \in Tasks, UninterruptibleSleepFinish(t)
        PROVE InterruptedUntilUnset'
    BY <2>6 DEF UninterruptibleSleepFinish
  <2>7. ASSUME NEW t \in Tasks, Environment(t) PROVE InterruptedUntilUnset'
    BY <2>7 DEF Environment, Interrupt, Send, Notify, TimerFire
  <2>8. CASE Tick
    BY <2>8 DEF Tick
  <2>9. CASE UNCHANGED vars
    BY <2>9 DEF vars
  <2>10. QED
    BY <2>1, <2>2, <2>3, <2>4, <2>5, <2>6, <2>7, <2>8, <2>9
       DEF Next, TaskStep
<1>3. QED
  BY <1>1, <1>2, TypeCorrect, PTL DEF Spec

-----------------------------------------------------------------------------
(* The remaining time of BlockWithTimeout. RemainingInRange needs that a  *)
(* call in progress started no later than the current instant: the clock  *)
(* is monotonic, so now - start, the time the call has used, is never     *)
(* negative and the capped remainder never exceeds the timeout. The       *)
(* result of the last call must also survive an uninterruptible sleep.    *)

RemainingInv ==
    /\ RemainingInRange
    /\ \A t \in Tasks : pc[t] \in {"Blocked", "Stopping"} =>
                           call[t].start <= now
    /\ \A t \in Tasks :
          (pc[t] = "Uninterruptible" /\ call[t].op \in RemainingOps) =>
              /\ call[t].err = "ETIMEDOUT" => call[t].rem = 0
              /\ call[t].rem \in 0..call[t].timeout

\* BlockWithTimeout returns 0 on expiry and otherwise a remaining time in
\* 0..timeout, for every instance.
THEOREM RemainingInRangeHolds == Spec => []RemainingInRange
<1>1. Init => RemainingInv
  BY DEF Init, RemainingInv, RemainingInRange, RemainingOps
<1>2. TypeOK /\ RemainingInv /\ [Next]_vars => RemainingInv'
  <2> SUFFICES ASSUME TypeOK, RemainingInv, [Next]_vars PROVE RemainingInv'
    OBVIOUS
  <2> USE TimeAssumption DEF TypeOK, RemainingInv, RemainingInRange, Time,
                             Calls
  <2>1. ASSUME NEW t \in Tasks, NEW o \in Ops, NEW d \in Nat,
               NEW dl \in Time, BeginBlock(t, o, d, dl)
        PROVE RemainingInv'
    BY <2>1 DEF BeginBlock, FastPath, PrepareSleep, Ops, UntimedOps,
                TimedOps, RemainingOps
  <2>2. ASSUME NEW t \in Tasks, Call(t) PROVE RemainingInv'
    <3>1. \E o \in Ops, d \in Nat, dl \in Time : BeginBlock(t, o, d, dl)
      BY <2>2 DEF Call, Ops, RemainingOps, UntimedOps, TimedOps
    <3>2. QED
      BY <3>1, <2>1
  <2>3. ASSUME NEW t \in Tasks, Wake(t) PROVE RemainingInv'
    <3> USE <2>3 DEF Wake, CompleteSleep, ReturnFromBlock, TimedOps,
                     RemainingOps
    <3>1. CASE SelectEvent(t)
      <4>1. UNCHANGED now /\ \A u \in Tasks : call'[u].start = call[u].start
                                       /\ call'[u].timeout = call[u].timeout
                                       /\ call'[u].op = call[u].op
        BY <3>1 DEF SelectEvent
      <4>2. \A u \in Tasks \ {t} : call'[u] = call[u] /\ pc'[u] = pc[u]
        BY <3>1 DEF SelectEvent
      <4>3. QED
        BY <4>1, <4>2
    <3>2. CASE SelectInterrupt(t)
      BY <3>2 DEF SelectInterrupt
    <3>3. CASE SelectTimer(t)
      BY <3>3 DEF SelectTimer
    <3>4. QED
      BY <3>1, <3>2, <3>3
  <2>4. ASSUME NEW t \in Tasks, StopTimer(t) PROVE RemainingInv'
    <3>1. call[t].start <= now
      BY <2>4 DEF StopTimer
    <3>2. call[t].op \in RemainingOps =>
             /\ call[t].err = "ETIMEDOUT" => RemainingTimeout(t) = 0
             /\ RemainingTimeout(t) \in 0..call[t].timeout
      BY <3>1 DEF RemainingTimeout
    <3>3. QED
      BY <2>4, <3>2 DEF StopTimer
  <2>5. ASSUME NEW t \in Tasks, UnsetInterrupted(t) PROVE RemainingInv'
    BY <2>5 DEF UnsetInterrupted
  <2>6. ASSUME NEW t \in Tasks, NEW b \in BOOLEAN,
               UninterruptibleSleepStart(t, b)
        PROVE RemainingInv'
    BY <2>6 DEF UninterruptibleSleepStart
  <2>7. ASSUME NEW t \in Tasks, UninterruptibleSleepFinish(t)
        PROVE RemainingInv'
    BY <2>7 DEF UninterruptibleSleepFinish
  <2>8. ASSUME NEW t \in Tasks, Environment(t) PROVE RemainingInv'
    BY <2>8 DEF Environment, Interrupt, Send, Notify, TimerFire
  <2>9. CASE Tick
    BY <2>9 DEF Tick
  <2>10. CASE UNCHANGED vars
    BY <2>10 DEF vars
  <2>11. QED
    BY <2>2, <2>3, <2>4, <2>5, <2>6, <2>7, <2>8, <2>9, <2>10
       DEF Next, TaskStep
<1>3. QED
  BY <1>1, <1>2, TypeCorrect, PTL DEF Spec, RemainingInv

-----------------------------------------------------------------------------
(* Sleep accounting. SleepBalanced is not inductive on its own: the flag  *)
(* UninterruptibleSleepFinish reactivates by must be the one Start         *)
(* deactivated by, so during an uninterruptible sleep the address space is *)
(* active exactly when the call did not deactivate it.                     *)

SleepInv ==
    /\ SleepBalanced
    /\ \A t \in Tasks : pc[t] = "Uninterruptible" =>
                           (active[t] <=> ~call[t].deactivate)

\* The address space and goroutine accounting of a task that is not asleep
\* or blocked are restored by every exit of block() and of an
\* uninterruptible sleep, for every instance.
THEOREM SleepBalancedHolds == Spec => []SleepBalanced
<1>1. Init => SleepInv
  BY DEF Init, SleepInv, SleepBalanced
<1>2. TypeOK /\ SleepInv /\ [Next]_vars => SleepInv'
  <2> SUFFICES ASSUME TypeOK, SleepInv, [Next]_vars PROVE SleepInv'
    OBVIOUS
  <2> USE TimeAssumption DEF TypeOK, SleepInv, SleepBalanced, Calls, Time
  <2>1. ASSUME NEW t \in Tasks, NEW o \in Ops, NEW d \in Nat,
               NEW dl \in Time, BeginBlock(t, o, d, dl)
        PROVE SleepInv'
    BY <2>1 DEF BeginBlock, FastPath, PrepareSleep
  <2>2. ASSUME NEW t \in Tasks, Call(t) PROVE SleepInv'
    <3>1. \E o \in Ops, d \in Nat, dl \in Time : BeginBlock(t, o, d, dl)
      BY <2>2 DEF Call, Ops, RemainingOps, UntimedOps, TimedOps
    <3>2. QED
      BY <3>1, <2>1
  <2>3. ASSUME NEW t \in Tasks, Wake(t) PROVE SleepInv'
    <3> USE <2>3 DEF Wake, CompleteSleep, ReturnFromBlock
    <3>1. \A u \in Tasks \ {t} : call'[u] = call[u]
      BY DEF SelectEvent, SelectInterrupt, SelectTimer
    <3>2. QED
      BY <3>1
  <2>4. ASSUME NEW t \in Tasks, StopTimer(t) PROVE SleepInv'
    <3>1. \A u \in Tasks \ {t} : call'[u] = call[u]
      BY <2>4 DEF StopTimer
    <3>2. QED
      BY <2>4, <3>1 DEF StopTimer
  <2>5. ASSUME NEW t \in Tasks, UnsetInterrupted(t) PROVE SleepInv'
    BY <2>5 DEF UnsetInterrupted
  <2>6. ASSUME NEW t \in Tasks, NEW b \in BOOLEAN,
               UninterruptibleSleepStart(t, b)
        PROVE SleepInv'
    <3>1. call'[t].deactivate = b /\ \A u \in Tasks \ {t} : call'[u] = call[u]
      BY <2>6 DEF UninterruptibleSleepStart
    <3>2. QED
      BY <2>6, <3>1 DEF UninterruptibleSleepStart
  <2>7. ASSUME NEW t \in Tasks, UninterruptibleSleepFinish(t)
        PROVE SleepInv'
    BY <2>7 DEF UninterruptibleSleepFinish
  <2>8. ASSUME NEW t \in Tasks, Environment(t) PROVE SleepInv'
    BY <2>8 DEF Environment, Interrupt, Send, Notify, TimerFire
  <2>9. CASE Tick
    BY <2>9 DEF Tick
  <2>10. CASE UNCHANGED vars
    BY <2>10 DEF vars
  <2>11. QED
    BY <2>2, <2>3, <2>4, <2>5, <2>6, <2>7, <2>8, <2>9, <2>10
       DEF Next, TaskStep
<1>3. QED
  BY <1>1, <1>2, TypeCorrect, PTL DEF Spec, SleepInv

=============================================================================
