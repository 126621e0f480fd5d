------------------------------ MODULE TaskBlock ------------------------------
(***************************************************************************)
(* The task blocking core of the gVisor sentry                             *)
(* (pkg/sentry/kernel/task_block.go): Block, BlockOn, BlockWithDeadline,   *)
(* BlockWithDeadlineFrom, BlockWithTimeout and BlockWithTimeoutOn, the     *)
(* single-slot interrupt channel, the per-task blocking timer and its      *)
(* expiry channel, and the sleep accounting around a block.                *)
(*                                                                         *)
(* A task goroutine runs one call at a time: pc[t] says where it is.       *)
(*   "Idle"            not inside a blocking call                          *)
(*   "Blocked"         inside block(), waiting in the select               *)
(*   "Stopping"        block() has returned; the caller is disarming the   *)
(*                     blocking timer and computing the remaining time     *)
(*   "Uninterruptible" between UninterruptibleSleepStart and ...Finish     *)
(* Other threads interrupt the task, send on the caller's channel C,       *)
(* notify a waitable the task registered on, and the timer fires when the  *)
(* application monotonic clock reaches its deadline.                       *)
(***************************************************************************)
EXTENDS Integers

CONSTANTS
    Tasks,      \* the tasks (task goroutines) of the sentry
    MaxTime,    \* the last instant of the application monotonic clock
    Durations   \* the timeouts passed to BlockWithTimeout(On)

ASSUME TimeAssumption ==
    /\ MaxTime \in Nat
    /\ Durations \subseteq Nat

VARIABLES
    now,          \* the application monotonic clock
    pc,           \* pc[t]: where task t's goroutine is (see above)
    call,         \* call[t]: the blocking call task t is in or last made
    C,            \* C[t]: the caller's single-slot channel holds a value
    ech,          \* ech[t]: the channel of the waiter entry of BlockOn(...)
    intr,         \* intr[t]: t.interruptChan holds a value
    armed,        \* armed[t]: t.blockingTimer is enabled
    deadline,     \* deadline[t]: the instant t.blockingTimer fires at
    tchan,        \* tchan[t]: t.blockingTimerChan holds a value
    active,       \* active[t]: t's address space is active
    gostate,      \* gostate[t]: the task goroutine state accounting
    intrReturned  \* history: a block returned ErrInterrupted and
                  \* unsetInterrupted has not been called since

vars == <<now, pc, call, C, ech, intr, armed, deadline, tchan, active,
          gostate, intrReturned>>

Time == 0..MaxTime

\* The entry points that wait on a waiter.ChannelEntry of a Waitable.
OnEntryOps == {"BlockOn", "BlockWithTimeoutOn"}
\* The entry points that arm t.blockingTimer (haveTimeout/haveDeadline).
TimedOps == {"BlockWithDeadline", "BlockWithTimeout", "BlockWithTimeoutOn"}
\* The entry points that return the remaining timeout.
RemainingOps == {"BlockWithTimeout", "BlockWithTimeoutOn"}
\* Block(C), and every entry point called without a timeout or deadline,
\* reduce to t.block(C, nil).
UntimedOps == {"Block", "BlockOn"}
Ops == UntimedOps \cup TimedOps

Errs == {"nil", "ErrInterrupted", "ETIMEDOUT"}

GoStates == {"Running", "BlockedInterruptible", "BlockedUninterruptible"}

Calls == [op : Ops \cup {"None"}, start : Time, timeout : Nat,
          err : Errs, rem : Nat, deactivate : BOOLEAN]

-----------------------------------------------------------------------------
(* Helpers translated from the code.                                       *)

\* The channel the current call waits on: the caller's C, or the channel of
\* the waiter entry registered by BlockOn / BlockWithTimeoutOn.
Chan(t) == IF call[t].op \in OnEntryOps THEN ech[t] ELSE C[t]

\* Receive the value of Chan(t).
ConsumeChan(t) ==
    IF call[t].op \in OnEntryOps
    THEN /\ ech' = [ech EXCEPT ![t] = FALSE]
         /\ UNCHANGED C
    ELSE /\ C' = [C EXCEPT ![t] = FALSE]
         /\ UNCHANGED ech

\* The waiter entry is registered from EventRegister until the deferred
\* EventUnregister, i.e. for the whole call.
Registered(t) == pc[t] \in {"Blocked", "Stopping"} /\ call[t].op \in OnEntryOps

\* interrupted(): the interrupt channel is non-empty.
Interrupted(t) == intr[t]

\* Mutant of RemainingTimeout: the remaining time is not capped at 0.
RemainingTimeoutUncapped(t) ==
    IF call[t].err = "ETIMEDOUT" THEN 0
    ELSE call[t].timeout - (now - call[t].start)

\* The remaining timeout of BlockWithTimeout, capped below at 0.
RemainingTimeout(t) ==
    IF call[t].err = "ETIMEDOUT" THEN 0
    ELSE LET r == call[t].timeout - (now - call[t].start)
         IN IF r < 0 THEN 0 ELSE r

-----------------------------------------------------------------------------
(* Actions of the task goroutine.                                          *)

\* The fast path of block(): C already holds a value; take it and return
\* nil without touching the interrupt channel or the accounting.
FastPath(t, o) ==
    /\ o \notin OnEntryOps   \* a fresh waiter entry's channel is empty
    /\ C[t]
    /\ C' = [C EXCEPT ![t] = FALSE]
    /\ pc' = [pc EXCEPT ![t] = IF o \in TimedOps THEN "Stopping" ELSE "Idle"]
    /\ UNCHANGED <<active, gostate>>

\* prepareSleep(): deactivate the address space, account the goroutine as
\* blocked-interruptible, and wait in the select.
PrepareSleep(t, o) ==
    /\ ~(o \notin OnEntryOps /\ C[t])
    /\ active' = [active EXCEPT ![t] = FALSE]
    /\ gostate' = [gostate EXCEPT ![t] = "BlockedInterruptible"]
    /\ pc' = [pc EXCEPT ![t] = "Blocked"]
    /\ UNCHANGED C

\* A call of entry point o with timeout d and timer deadline dl: register
\* the waiter entry (BlockOn*), arm the blocking timer (timed entry points),
\* then block(): the fast path or prepareSleep.
BeginBlock(t, o, d, dl) ==
    /\ pc[t] = "Idle"
    /\ call' = [call EXCEPT ![t] = [op |-> o, start |-> now, timeout |-> d,
                                    err |-> "nil", rem |-> d,
                                    deactivate |-> FALSE]]
    /\ ech' = [ech EXCEPT ![t] = FALSE]
    /\ armed' = [armed EXCEPT ![t] = o \in TimedOps]
    /\ deadline' = [deadline EXCEPT ![t] = dl]
    /\ \/ FastPath(t, o)
       \/ PrepareSleep(t, o)
    /\ UNCHANGED <<now, intr, tchan, intrReturned>>

\* The select's cases. A value on Chan(t): woken by the event.
SelectEvent(t) ==
    /\ Chan(t)
    /\ ConsumeChan(t)
    /\ call' = [call EXCEPT ![t].err = "nil"]
    /\ UNCHANGED <<intr, tchan, intrReturned>>

\* Mutant of SelectInterrupt: the interrupt case returns without
\* interruptSelf(), so the taken value is lost.
SelectInterruptNoSelf(t) ==
    /\ intr[t]
    /\ intr' = [intr EXCEPT ![t] = FALSE]
    /\ call' = [call EXCEPT ![t].err = "ErrInterrupted"]
    /\ intrReturned' = [intrReturned EXCEPT ![t] = TRUE]
    /\ UNCHANGED <<C, ech, tchan>>

\* A value on t.interruptChan: take it, then interruptSelf() puts it back
\* (net: the slot stays full), and return ErrInterrupted.
SelectInterrupt(t) ==
    /\ intr[t]
    /\ call' = [call EXCEPT ![t].err = "ErrInterrupted"]
    /\ intrReturned' = [intrReturned EXCEPT ![t] = TRUE]
    /\ UNCHANGED <<C, ech, intr, tchan>>

\* A value on the timer channel (nil, so never ready, for untimed calls).
SelectTimer(t) ==
    /\ call[t].op \in TimedOps
    /\ tchan[t]
    /\ tchan' = [tchan EXCEPT ![t] = FALSE]
    /\ call' = [call EXCEPT ![t].err = "ETIMEDOUT"]
    /\ UNCHANGED <<C, ech, intr, intrReturned>>

\* Mutant of CompleteSleep: the goroutine accounting is restored but the
\* address space is not reactivated.
CompleteSleepNoActivate(t) ==
    /\ gostate' = [gostate EXCEPT ![t] = "Running"]
    /\ UNCHANGED active

\* completeSleep(), deferred in block(): runs on every exit of the select.
CompleteSleep(t) ==
    /\ gostate' = [gostate EXCEPT ![t] = "Running"]
    /\ active' = [active EXCEPT ![t] = TRUE]

\* The return from block(): back to Idle, or to StopTimer for timed calls.
ReturnFromBlock(t) ==
    pc' = [pc EXCEPT ![t] = IF call[t].op \in TimedOps THEN "Stopping"
                                                       ELSE "Idle"]

\* Mutant of Wake: the timed entry points pass a nil timer channel to
\* block(), so the select has no timer case.
WakeNoTimerCase(t) ==
    /\ pc[t] = "Blocked"
    /\ SelectEvent(t) \/ SelectInterrupt(t)
    /\ CompleteSleep(t)
    /\ ReturnFromBlock(t)
    /\ UNCHANGED <<now, armed, deadline>>

\* The select of block() takes one ready case, with no priority among them;
\* then the deferred completeSleep() restores accounting and address space.
Wake(t) ==
    /\ pc[t] = "Blocked"
    /\ SelectEvent(t) \/ SelectInterrupt(t) \/ SelectTimer(t)
    /\ CompleteSleep(t)
    /\ ReturnFromBlock(t)
    /\ UNCHANGED <<now, armed, deadline>>

\* Mutant of StopTimer: the timer is disarmed but its channel not drained.
StopTimerNoDrain(t) ==
    /\ pc[t] = "Stopping"
    /\ armed' = [armed EXCEPT ![t] = FALSE]
    /\ call' = [call EXCEPT ![t].rem = IF call[t].op \in RemainingOps
                                       THEN RemainingTimeout(t) ELSE @]
    /\ pc' = [pc EXCEPT ![t] = "Idle"]
    /\ UNCHANGED <<now, C, ech, intr, deadline, tchan, active, gostate,
                   intrReturned>>

\* After block() returns: t.blockingTimer.Set(ktime.Setting{}) disarms the
\* timer, and if the timer was no longer enabled (it fired) the expiry
\* channel is drained. BlockWithTimeout then computes the remaining time.
StopTimer(t) ==
    /\ pc[t] = "Stopping"
    /\ armed' = [armed EXCEPT ![t] = FALSE]
    /\ tchan' = [tchan EXCEPT ![t] = IF armed[t] THEN tchan[t] ELSE FALSE]
    /\ call' = [call EXCEPT ![t].rem = IF call[t].op \in RemainingOps
                                       THEN RemainingTimeout(t) ELSE @]
    /\ pc' = [pc EXCEPT ![t] = "Idle"]
    /\ UNCHANGED <<now, C, ech, intr, deadline, active, gostate, intrReturned>>

\* unsetInterrupted(), called by the task goroutine outside any block.
UnsetInterrupted(t) ==
    /\ pc[t] = "Idle"
    /\ intr' = [intr EXCEPT ![t] = FALSE]
    /\ intrReturned' = [intrReturned EXCEPT ![t] = FALSE]
    /\ UNCHANGED <<now, pc, call, C, ech, armed, deadline, tchan, active,
                   gostate>>

UninterruptibleSleepStart(t, d) ==
    /\ pc[t] = "Idle"
    /\ active' = [active EXCEPT ![t] = IF d THEN FALSE ELSE @]
    /\ gostate' = [gostate EXCEPT ![t] = "BlockedUninterruptible"]
    /\ call' = [call EXCEPT ![t].deactivate = d]
    /\ pc' = [pc EXCEPT ![t] = "Uninterruptible"]
    /\ UNCHANGED <<now, C, ech, intr, armed, deadline, tchan, intrReturned>>

\* Callers pass the same flag to Finish as they passed to Start.
UninterruptibleSleepFinish(t) ==
    /\ pc[t] = "Uninterruptible"
    /\ gostate' = [gostate EXCEPT ![t] = "Running"]
    /\ active' = [active EXCEPT ![t] = IF call[t].deactivate THEN TRUE ELSE @]
    /\ pc' = [pc EXCEPT ![t] = "Idle"]
    /\ UNCHANGED <<now, call, C, ech, intr, armed, deadline, tchan,
                   intrReturned>>

-----------------------------------------------------------------------------
(* Actions of other threads, the timer and the clock.                      *)

\* interrupt() from another thread: a non-blocking send on interruptChan.
Interrupt(t) ==
    /\ intr' = [intr EXCEPT ![t] = TRUE]
    /\ UNCHANGED <<now, pc, call, C, ech, armed, deadline, tchan, active,
                   gostate, intrReturned>>

\* A producer's non-blocking send on the caller's single-slot channel.
Send(t) ==
    /\ C' = [C EXCEPT ![t] = TRUE]
    /\ UNCHANGED <<now, pc, call, ech, intr, armed, deadline, tchan, active,
                   gostate, intrReturned>>

\* The waitable notifies the registered channel entry.
Notify(t) ==
    /\ Registered(t)
    /\ ech' = [ech EXCEPT ![t] = TRUE]
    /\ UNCHANGED <<now, pc, call, C, intr, armed, deadline, tchan, active,
                   gostate, intrReturned>>

\* The one-shot blocking timer expires: it disables itself and its
\* listener sends on t.blockingTimerChan.
TimerFire(t) ==
    /\ armed[t]
    /\ now >= deadline[t]
    /\ armed' = [armed EXCEPT ![t] = FALSE]
    /\ tchan' = [tchan EXCEPT ![t] = TRUE]
    /\ UNCHANGED <<now, pc, call, C, ech, intr, deadline, active, gostate,
                   intrReturned>>

Tick ==
    /\ now < MaxTime
    /\ now' = now + 1
    /\ UNCHANGED <<pc, call, C, ech, intr, armed, deadline, tchan, active,
                   gostate, intrReturned>>

-----------------------------------------------------------------------------

Init ==
    /\ now = 0
    /\ pc = [t \in Tasks |-> "Idle"]
    /\ call = [t \in Tasks |-> [op |-> "None", start |-> 0, timeout |-> 0,
                                err |-> "nil", rem |-> 0,
                                deactivate |-> FALSE]]
    /\ C = [t \in Tasks |-> FALSE]
    /\ ech = [t \in Tasks |-> FALSE]
    /\ intr = [t \in Tasks |-> FALSE]
    /\ armed = [t \in Tasks |-> FALSE]
    /\ deadline = [t \in Tasks |-> 0]
    /\ tchan = [t \in Tasks |-> FALSE]
    /\ active = [t \in Tasks |-> TRUE]
    /\ gostate = [t \in Tasks |-> "Running"]
    /\ intrReturned = [t \in Tasks |-> FALSE]

\* The inputs of a call: no timeout; an absolute deadline on the clock;
\* a relative timeout that ends within the modelled clock (bound MaxTime).
Call(t) ==
    \/ \E o \in UntimedOps : BeginBlock(t, o, 0, 0)
    \/ \E dl \in Time : BeginBlock(t, "BlockWithDeadline", 0, dl)
    \/ \E o \in RemainingOps, d \in Durations :
          /\ now + d <= MaxTime
          /\ BeginBlock(t, o, d, now + d)

TaskStep(t) ==
    \/ Call(t)
    \/ Wake(t)
    \/ StopTimer(t)
    \/ UnsetInterrupted(t)
    \/ \E d \in BOOLEAN : UninterruptibleSleepStart(t, d)
    \/ UninterruptibleSleepFinish(t)

Environment(t) ==
    \/ Interrupt(t)
    \/ Send(t)
    \/ Notify(t)
    \/ TimerFire(t)

Next ==
    \/ \E t \in Tasks : TaskStep(t) \/ Environment(t)
    \/ Tick

\* Each task goroutine is scheduled, the host operation of an
\* uninterruptible sleep completes, the clock advances and an expired timer
\* fires; interrupts and events are not bound to happen.
Fairness ==
    /\ \A t \in Tasks : /\ WF_vars(Wake(t))
                        /\ WF_vars(StopTimer(t))
                        /\ WF_vars(UninterruptibleSleepFinish(t))
                        /\ WF_vars(TimerFire(t))
    /\ WF_vars(Tick)

Spec == Init /\ [][Next]_vars /\ Fairness

-----------------------------------------------------------------------------
(* Properties.                                                             *)

TypeOK ==
    /\ now \in Time
    /\ pc \in [Tasks -> {"Idle", "Blocked", "Stopping", "Uninterruptible"}]
    /\ call \in [Tasks -> Calls]
    /\ C \in [Tasks -> BOOLEAN]
    /\ ech \in [Tasks -> BOOLEAN]
    /\ intr \in [Tasks -> BOOLEAN]
    /\ armed \in [Tasks -> BOOLEAN]
    /\ deadline \in [Tasks -> Time]
    /\ tchan \in [Tasks -> BOOLEAN]
    /\ active \in [Tasks -> BOOLEAN]
    /\ gostate \in [Tasks -> GoStates]
    /\ intrReturned \in [Tasks -> BOOLEAN]

\* Timer hygiene (blockWithDeadlineFromSampledClock, BlockWithDeadlineFrom):
\* once a call has returned, the blocking timer is disarmed and its expiry
\* channel is empty, whichever of event, interrupt or timer woke the task and
\* however the timer's expiry raced the wake-up; so a later block never sees
\* a stale expiry from an earlier call.
TimerQuiescent ==
    \A t \in Tasks : pc[t] \in {"Idle", "Uninterruptible"} =>
                        ~armed[t] /\ ~tchan[t]

\* interruptSelf() after the select: once a block has returned
\* ErrInterrupted, Interrupted() stays true, across any later blocks, until
\* the task calls unsetInterrupted.
InterruptedUntilUnset ==
    \A t \in Tasks : intrReturned[t] => Interrupted(t)

\* BlockWithTimeout: the remaining time is 0 when the timeout expired, and
\* otherwise lies between 0 and the timeout, even when the event won the
\* select after the deadline had already passed.
RemainingInRange ==
    \A t \in Tasks :
        (pc[t] = "Idle" /\ call[t].op \in RemainingOps) =>
            /\ call[t].err = "ETIMEDOUT" => call[t].rem = 0
            /\ call[t].rem \in 0..call[t].timeout

\* prepareSleep/completeSleep and UninterruptibleSleepStart/Finish: every
\* exit path of a call restores the address-space activation and the
\* goroutine accounting the task had before it.
SleepBalanced ==
    \A t \in Tasks : pc[t] \in {"Idle", "Stopping"} =>
                        active[t] /\ gostate[t] = "Running"

\* A blocked task whose wait can be satisfied returns: an interrupt, a value
\* on its channel, or an armed timer (which fires when the clock reaches the
\* deadline) each ends the block.
BlockReturns ==
    \A t \in Tasks :
        (pc[t] = "Blocked" /\ (intr[t] \/ Chan(t) \/ call[t].op \in TimedOps))
            ~> pc[t] = "Idle"

\* Spec section 5: between an interrupt and the next unsetInterrupted, every
\* block that passes the fast path returns ErrInterrupted without consuming
\* the event channel. (block()'s select has no priority among ready cases.)
InterruptWinsAfterFastPath ==
    [][\A t \in Tasks :
         (pc[t] = "Blocked" /\ intr[t] /\ pc'[t] # "Blocked") =>
             call'[t].err = "ErrInterrupted"]_vars

\* Spec section 8, property 4: a BlockWithTimeout that returned a non-zero
\* remaining time returned a nil error (it consumed a value from C).
RemainingImpliesEvent ==
    \A t \in Tasks :
        (pc[t] = "Idle" /\ call[t].op \in RemainingOps /\ call[t].rem > 0) =>
            call[t].err = "nil"

-----------------------------------------------------------------------------
(* Refinement: TaskBlock implements the contract of BlockContract. A task *)
(* inside block()'s select is blocked; one disarming its timer after the   *)
(* select has already returned to its caller; the waited-on event is a     *)
(* value on Chan(t).                                                       *)

AbsSt(t) ==
    CASE pc[t] = "Blocked"         -> "Blocked"
      [] pc[t] = "Uninterruptible" -> "Asleep"
      [] OTHER                     -> "Idle"

Contract == INSTANCE BlockContract WITH
    st    <- [t \in Tasks |-> AbsSt(t)],
    evt   <- [t \in Tasks |-> Chan(t)],
    intr  <- intr,
    timed <- [t \in Tasks |-> call[t].op \in TimedOps],
    dl    <- deadline,
    res   <- [t \in Tasks |-> call[t].err]

\* block() keeps the doc comments' promise: every result is justified by its
\* cause (nil by a consumed event, ErrInterrupted by an interrupt still
\* pending, ETIMEDOUT by a deadline that has passed, and only for a timed
\* call), whichever way the timer races the select; and every call that can
\* return does return.
ImplementsContract == Contract!Spec

=============================================================================
