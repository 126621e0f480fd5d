------------------------- MODULE TaskBlockRefinement -------------------------
(***************************************************************************)
(* Proof, for every set of tasks and clock bound, that TaskBlock           *)
(* implements the safety part of BlockContract under the refinement        *)
(* mapping Contract of TaskBlock. The liveness part (Contract!Spec with    *)
(* its fairness) is checked by TLC only.                                   *)
(*                                                                         *)
(* The one step that needs more than the definitions is the select's timer *)
(* case: the contract lets a call return ETIMEDOUT only once its deadline  *)
(* has passed. That holds because a value on blockingTimerChan was sent by *)
(* an expiry at or after the deadline of the call in progress; a value     *)
(* from an earlier call's timer would break it, and none survives because  *)
(* StopTimer drains the channel (TimerInv).                                *)
(***************************************************************************)
EXTENDS TaskBlockProofs

\* A value in t.blockingTimerChan was sent at or after t's current deadline.
ExpiryInv == \A t \in Tasks : tchan[t] => now >= deadline[t]

\* ExpiryInv is inductive given the type and timer invariants: the deadline
\* changes only when a call begins, when the channel is empty.
LEMMA ExpiryStep == TypeOK /\ TimerInv /\ ExpiryInv /\ [Next]_vars => ExpiryInv'
<1> SUFFICES ASSUME TypeOK, TimerInv, ExpiryInv, [Next]_vars PROVE ExpiryInv'
  OBVIOUS
<1> USE DEF TypeOK, ExpiryInv, Time
<1>1. ASSUME NEW t \in Tasks, Call(t) PROVE ExpiryInv'
  <2>1. ~tchan[t]
    BY <1>1 DEF Call, BeginBlock, TimerInv
  <2>2. QED
    BY <1>1, <2>1 DEF Call, BeginBlock
<1>2. ASSUME NEW t \in Tasks, Wake(t) PROVE ExpiryInv'
  BY <1>2 DEF Wake, SelectEvent, SelectInterrupt, SelectTimer
<1>3. ASSUME NEW t \in Tasks, StopTimer(t) PROVE ExpiryInv'
  BY <1>3 DEF StopTimer
<1>4. ASSUME NEW t \in Tasks, UnsetInterrupted(t) PROVE ExpiryInv'
  BY <1>4 DEF UnsetInterrupted
<1>5. ASSUME NEW t \in Tasks, NEW b \in BOOLEAN,
             UninterruptibleSleepStart(t, b)
      PROVE ExpiryInv'
  BY <1>5 DEF UninterruptibleSleepStart
<1>6. ASSUME NEW t \in Tasks, UninterruptibleSleepFinish(t) PROVE ExpiryInv'
  BY <1>6 DEF UninterruptibleSleepFinish
<1>7. ASSUME NEW t \in Tasks, Environment(t) PROVE ExpiryInv'
  BY <1>7 DEF Environment, Interrupt, Send, Notify, TimerFire
<1>8. CASE Tick
  BY <1>8 DEF Tick
<1>9. CASE UNCHANGED vars
  BY <1>9 DEF vars
<1>10. QED
  BY <1>1, <1>2, <1>3, <1>4, <1>5, <1>6, <1>7, <1>8, <1>9 DEF Next, TaskStep

\* The conjunction the refinement step rests on.
RefInv == TypeOK /\ TimerInv /\ ExpiryInv

LEMMA RefInvHolds == Spec => []RefInv
<1>1. Init => ExpiryInv
  BY DEF Init, ExpiryInv
<1>2. QED
  BY <1>1, ExpiryStep, TypeCorrect, TimerInvHolds, PTL DEF Spec, RefInv


\* The images of the contract's variables under the mapping Contract.
aSt == [u \in Tasks |-> AbsSt(u)]
aEvt == [u \in Tasks |-> Chan(u)]
aTimed == [u \in Tasks |-> call[u].op \in TimedOps]
aRes == [u \in Tasks |-> call[u].err]

\* Setting the error of one task's call record changes nothing else of the
\* call table.
LEMMA ErrUpdate ==
  ASSUME NEW f \in [Tasks -> Calls], NEW t \in Tasks, NEW e \in Errs
  PROVE  LET g == [f EXCEPT ![t].err = e]
         IN  /\ g[t].op = f[t].op /\ g[t].err = e
             /\ \A u \in Tasks \ {t} : g[u] = f[u]
BY Zenon DEF Calls

\* The same for the remaining time and the deactivate flag.
LEMMA OtherFieldUpdate ==
  ASSUME NEW f \in [Tasks -> Calls], NEW t \in Tasks, NEW n \in Nat,
         NEW b \in BOOLEAN
  PROVE  /\ LET g == [f EXCEPT ![t].rem = n]
            IN  \A u \in Tasks : g[u].op = f[u].op /\ g[u].err = f[u].err
         /\ LET g == [f EXCEPT ![t].deactivate = b]
            IN  \A u \in Tasks : g[u].op = f[u].op /\ g[u].err = f[u].err
BY Zenon DEF Calls

\* A call maps to the contract's Start: its own channel, deadline and kind.
LEMMA CallRefines ==
  ASSUME RefInv, NEW t \in Tasks, Call(t)
  PROVE  Contract!Start(t)
<1> USE DEF RefInv, TypeOK
<1>1. PICK o \in Ops, d \in Nat, dl \in Time : BeginBlock(t, o, d, dl)
  BY TimeAssumption DEF Call, Ops, RemainingOps, UntimedOps, TimedOps, Time
<1>2. /\ call'[t].op = o /\ call'[t].err = "nil"
      /\ \A u \in Tasks \ {t} : call'[u] = call[u]
      /\ UNCHANGED <<now, intr>>
      /\ deadline' = [deadline EXCEPT ![t] = dl]
  BY <1>1 DEF BeginBlock
<1>3. aTimed' = [aTimed EXCEPT ![t] = o \in TimedOps]
  BY <1>2 DEF aTimed
<1>4. aRes' = [aRes EXCEPT ![t] = "nil"]
  BY <1>2 DEF aRes
<1>5. \A u \in Tasks \ {t} : Chan(u)' = Chan(u) /\ AbsSt(u)' = AbsSt(u)
  BY <1>1, <1>2 DEF BeginBlock, FastPath, PrepareSleep, Chan, AbsSt
<1>6. CASE FastPath(t, o)
  <2>1. aSt' = aSt
    BY <1>1, <1>5, <1>6 DEF BeginBlock, FastPath, aSt, AbsSt
  <2>2. aEvt' = [aEvt EXCEPT ![t] = FALSE]
    BY <1>1, <1>2, <1>5, <1>6 DEF BeginBlock, FastPath, aEvt, Chan
  <2>3. AbsSt(t) = "Idle"
    BY <1>1 DEF BeginBlock, AbsSt
  <2>4. /\ (o \in TimedOps) \in BOOLEAN /\ dl \in Contract!Time
        /\ FALSE \in BOOLEAN
    BY DEF Contract!Time, Time
  <2>5. QED
    BY <1>2, <1>3, <1>4, <2>1, <2>2, <2>3, <2>4, Zenon
       DEF Contract!Start, aSt, aEvt, aTimed, aRes
<1>7. CASE PrepareSleep(t, o)
  <2>1. aSt' = [aSt EXCEPT ![t] = "Blocked"]
    BY <1>1, <1>5, <1>7 DEF BeginBlock, PrepareSleep, aSt, AbsSt
  <2>2. aEvt' = [aEvt EXCEPT ![t] = Chan(t)']
    BY <1>5 DEF aEvt
  <2>3. Chan(t)' \in BOOLEAN
    BY <1>1, <1>7 DEF BeginBlock, PrepareSleep, Chan
  <2>4. AbsSt(t) = "Idle"
    BY <1>1 DEF BeginBlock, AbsSt
  <2>5. /\ (o \in TimedOps) \in BOOLEAN /\ dl \in Contract!Time
    BY DEF Contract!Time, Time
  <2>6. QED
    BY <1>2, <1>3, <1>4, <2>1, <2>2, <2>3, <2>4, <2>5, Zenon
       DEF Contract!Start, aSt, aEvt, aTimed, aRes
<1>8. QED
  BY <1>1, <1>6, <1>7 DEF BeginBlock

\* Each case of block()'s select maps to the contract's Return: an expiry
\* on the timer channel happened at or after the call's deadline.
LEMMA WakeRefines ==
  ASSUME RefInv, NEW t \in Tasks, Wake(t)
  PROVE  Contract!Return(t)
<1> USE DEF RefInv, TypeOK
<1>1. /\ AbsSt(t) = "Blocked"
      /\ aSt' = [aSt EXCEPT ![t] = "Idle"]
      /\ UNCHANGED <<now, intr, deadline>>
  BY DEF Wake, aSt, AbsSt, ReturnFromBlock, SelectEvent, SelectInterrupt,
         SelectTimer
<1>2. CASE SelectEvent(t)
  <2>1. /\ call'[t].op = call[t].op /\ call'[t].err = "nil"
        /\ \A u \in Tasks \ {t} : call'[u] = call[u]
    BY <1>2, ErrUpdate DEF SelectEvent, Errs
  <2>0. Chan(t) /\ ConsumeChan(t)
    BY <1>2 DEF SelectEvent
  <2>2. /\ Chan(t)
        /\ aEvt' = [aEvt EXCEPT ![t] = FALSE]
        /\ aTimed' = aTimed
        /\ aRes' = [aRes EXCEPT ![t] = "nil"]
    BY <2>0, <2>1 DEF ConsumeChan, Chan, aEvt, aTimed, aRes
  <2>3. QED
    BY <1>1, <2>2 DEF Contract!Return, aSt, aEvt, aTimed, aRes, AbsSt
<1>3. CASE SelectInterrupt(t)
  <2>1. /\ call'[t].op = call[t].op /\ call'[t].err = "ErrInterrupted"
        /\ \A u \in Tasks \ {t} : call'[u] = call[u]
    BY <1>3, ErrUpdate DEF SelectInterrupt, Errs
  <2>0. intr[t] /\ UNCHANGED <<C, ech>>
    BY <1>3 DEF SelectInterrupt
  <2>2. /\ intr[t]
        /\ aEvt' = aEvt
        /\ aTimed' = aTimed
        /\ aRes' = [aRes EXCEPT ![t] = "ErrInterrupted"]
    BY <2>0, <2>1 DEF Chan, aEvt, aTimed, aRes
  <2>3. QED
    BY <1>1, <2>2 DEF Contract!Return, aSt, aEvt, aTimed, aRes, AbsSt
<1>4. CASE SelectTimer(t)
  <2>1. /\ call'[t].op = call[t].op /\ call'[t].err = "ETIMEDOUT"
        /\ \A u \in Tasks \ {t} : call'[u] = call[u]
    BY <1>4, ErrUpdate DEF SelectTimer, Errs
  <2>0. UNCHANGED <<C, ech>>
    BY <1>4 DEF SelectTimer
  <2>2. call[t].op \in TimedOps /\ now >= deadline[t]
    BY <1>4 DEF SelectTimer, ExpiryInv
  <2>3. /\ aEvt' = aEvt
        /\ aTimed' = aTimed
        /\ aRes' = [aRes EXCEPT ![t] = "ETIMEDOUT"]
    BY <2>0, <2>1 DEF Chan, aEvt, aTimed, aRes
  <2>4. QED
    BY <1>1, <2>2, <2>3 DEF Contract!Return, aSt, aEvt, aTimed, aRes, AbsSt
<1>5. QED
  BY <1>2, <1>3, <1>4 DEF Wake


\* Disarming and draining the timer after block() has returned, and the
\* timer's own expiry, are invisible to the contract.
LEMMA StopTimerRefines ==
  ASSUME RefInv, NEW t \in Tasks, StopTimer(t)
  PROVE  UNCHANGED <<now, aSt, aEvt, intr, aTimed, deadline, aRes>>
<1> USE DEF RefInv, TypeOK
<1>1. \A u \in Tasks : call'[u].op = call[u].op /\ call'[u].err = call[u].err
  <2> DEFINE v == IF call[t].op \in RemainingOps
                  THEN RemainingTimeout(t) ELSE call[t].rem
  <2>0. call[t] \in Calls
    OBVIOUS
  <2>1. RemainingTimeout(t) \in Nat
    BY <2>0 DEF RemainingTimeout, Calls, Time
  <2>4. v \in Nat
    BY <2>0, <2>1 DEF Calls
  <2>2. call' = [call EXCEPT ![t].rem = v]
    BY DEF StopTimer
  <2>3. QED
    BY <2>4, <2>2, OtherFieldUpdate
<1>2. pc[t] = "Stopping" /\ pc' = [pc EXCEPT ![t] = "Idle"]
      /\ UNCHANGED <<now, C, ech, intr, deadline>>
  BY DEF StopTimer
<1>3. QED
  BY <1>1, <1>2 DEF aSt, AbsSt, aEvt, Chan, aTimed, aRes

LEMMA UnsetRefines ==
  ASSUME RefInv, NEW t \in Tasks, UnsetInterrupted(t)
  PROVE  Contract!Unset(t)
BY DEF UnsetInterrupted, Contract!Unset, RefInv, TypeOK, aSt, AbsSt, aEvt,
       Chan, aTimed, aRes

LEMMA SleepRefines ==
  ASSUME RefInv, NEW t \in Tasks, NEW b \in BOOLEAN,
         UninterruptibleSleepStart(t, b)
  PROVE  Contract!Sleep(t)
<1> USE DEF RefInv, TypeOK
<1>1. \A u \in Tasks : call'[u].op = call[u].op /\ call'[u].err = call[u].err
  BY OtherFieldUpdate DEF UninterruptibleSleepStart
<1>2. /\ pc[t] = "Idle" /\ pc' = [pc EXCEPT ![t] = "Uninterruptible"]
      /\ UNCHANGED <<now, C, ech, intr, deadline>>
  BY DEF UninterruptibleSleepStart
<1>3. /\ aSt' = [aSt EXCEPT ![t] = "Asleep"] /\ AbsSt(t) = "Idle"
      /\ UNCHANGED <<aEvt, aTimed, aRes>>
  BY <1>1, <1>2 DEF aSt, AbsSt, aEvt, Chan, aTimed, aRes
<1>4. QED
  BY <1>2, <1>3 DEF Contract!Sleep, aSt, aEvt, aTimed, aRes

LEMMA FinishRefines ==
  ASSUME RefInv, NEW t \in Tasks, UninterruptibleSleepFinish(t)
  PROVE  Contract!Finish(t)
BY DEF UninterruptibleSleepFinish, Contract!Finish, RefInv, TypeOK, aSt,
       AbsSt, aEvt, Chan, aTimed, aRes

\* Interrupts, sends and notifications are the contract's Interrupt and
\* Event; a send to a channel the call does not wait on is invisible.
LEMMA EnvironmentRefines ==
  ASSUME RefInv, NEW t \in Tasks, Environment(t)
  PROVE  \/ Contract!Interrupt(t) \/ Contract!Event(t)
         \/ UNCHANGED <<now, aSt, aEvt, intr, aTimed, deadline, aRes>>
<1> USE DEF RefInv, TypeOK
<1>1. CASE Interrupt(t)
  BY <1>1 DEF Interrupt, Contract!Interrupt, aSt, AbsSt, aEvt, Chan, aTimed,
              aRes
<1>2. CASE Send(t) /\ call[t].op \notin OnEntryOps
  BY <1>2 DEF Send, Contract!Event, aSt, AbsSt, aEvt, Chan, aTimed, aRes
<1>3. CASE Send(t) /\ call[t].op \in OnEntryOps
  BY <1>3 DEF Send, aSt, AbsSt, aEvt, Chan, aTimed, aRes
<1>4. CASE Notify(t)
  BY <1>4 DEF Notify, Registered, Contract!Event, aSt, AbsSt, aEvt, Chan,
              aTimed, aRes
<1>5. CASE TimerFire(t)
  BY <1>5 DEF TimerFire, aSt, AbsSt, aEvt, Chan, aTimed, aRes
<1>6. QED
  BY <1>1, <1>2, <1>3, <1>4, <1>5 DEF Environment

\* Every step of TaskBlock is a step of the contract or leaves its image
\* unchanged.
LEMMA RefinementStep ==
  RefInv /\ [Next]_vars => [Contract!Next]_Contract!avars
<1> SUFFICES ASSUME RefInv, [Next]_vars
             PROVE  [Contract!Next]_Contract!avars
  OBVIOUS
<1>0. UNCHANGED <<now, aSt, aEvt, intr, aTimed, deadline, aRes>>
         => UNCHANGED Contract!avars
  BY DEF Contract!avars, aSt, aEvt, aTimed, aRes
<1>1. ASSUME NEW t \in Tasks, Contract!Start(t) \/ Contract!Return(t)
             \/ Contract!Unset(t) \/ Contract!Sleep(t) \/ Contract!Finish(t)
             \/ Contract!Event(t) \/ Contract!Interrupt(t)
      PROVE  Contract!Next
  BY <1>1 DEF Contract!Next
<1>2. ASSUME NEW t \in Tasks, TaskStep(t)
      PROVE  [Contract!Next]_Contract!avars
  <2>1. CASE Call(t)
    BY <2>1, <1>1, CallRefines
  <2>2. CASE Wake(t)
    BY <2>2, <1>1, WakeRefines
  <2>3. CASE StopTimer(t)
    BY <2>3, <1>0, StopTimerRefines
  <2>4. CASE UnsetInterrupted(t)
    BY <2>4, <1>1, UnsetRefines
  <2>5. CASE \E b \in BOOLEAN : UninterruptibleSleepStart(t, b)
    BY <2>5, <1>1, SleepRefines
  <2>6. CASE UninterruptibleSleepFinish(t)
    BY <2>6, <1>1, FinishRefines
  <2>7. QED
    BY <1>2, <2>1, <2>2, <2>3, <2>4, <2>5, <2>6, Zenon DEF TaskStep
<1>3. ASSUME NEW t \in Tasks, Environment(t)
      PROVE  [Contract!Next]_Contract!avars
  BY <1>3, <1>0, <1>1, EnvironmentRefines
<1>4. CASE Tick
  BY <1>4 DEF Tick, Contract!Next, Contract!Tick, aSt, AbsSt, aEvt, Chan,
              aTimed, aRes
<1>5. CASE UNCHANGED vars
  <2>1. UNCHANGED <<now, aSt, aEvt, intr, aTimed, deadline, aRes>>
    BY <1>5 DEF vars, aSt, AbsSt, aEvt, Chan, aTimed, aRes
  <2>2. QED
    BY <2>1, <1>0
<1>6. QED
  BY <1>2, <1>3, <1>4, <1>5 DEF Next

\* TaskBlock implements the safety part of the contract of the blocking
\* calls, for every instance: every result a block() returns is one its
\* doc comment allows, given what happened before it.
THEOREM ImplementsContractSafety == Spec => Contract!SafeSpec
<1>1. Init => Contract!Init
  <2> SUFFICES ASSUME Init PROVE Contract!Init
    OBVIOUS
  <2>1. \A u \in Tasks : AbsSt(u) = "Idle" /\ Chan(u) = FALSE
                        /\ (call[u].op \in TimedOps) = FALSE /\ call[u].err = "nil"
    BY DEF Init, AbsSt, Chan, TimedOps
  <2>2. aSt = [u \in Tasks |-> "Idle"]
    BY <2>1 DEF aSt
  <2>3. aEvt = [u \in Tasks |-> FALSE]
    BY <2>1 DEF aEvt
  <2>4. aTimed = [u \in Tasks |-> FALSE]
    BY <2>1 DEF aTimed
  <2>5. aRes = [u \in Tasks |-> "nil"]
    BY <2>1 DEF aRes
  <2>6. QED
    BY <2>2, <2>3, <2>4, <2>5 DEF Init, Contract!Init, aSt, aEvt, aTimed, aRes
<1>2. QED
  BY <1>1, RefInvHolds, RefinementStep, PTL DEF Spec, Contract!SafeSpec

=============================================================================
