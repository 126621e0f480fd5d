---------------------------- MODULE BlockContract ----------------------------
(***************************************************************************)
(* What a blocking call of a gVisor task promises, in the words of the     *)
(* doc comments of task_block.go (BlockWithTimeout, BlockWithDeadline):    *)
(* the task blocks "until an event is received from C, the application     *)
(* monotonic clock indicates that timeout has elapsed (only if haveTimeout *)
(* is true), or t is interrupted", and the error is nil, ETIMEDOUT or      *)
(* ErrInterrupted accordingly; an interrupt stays pending until the task   *)
(* clears it. Channels, timers and sleep accounting are not visible here.  *)
(***************************************************************************)
EXTENDS Naturals

CONSTANTS Tasks, MaxTime

VARIABLES
    now,    \* the application monotonic clock
    st,     \* st[t]: "Idle", "Blocked" or "Asleep" (uninterruptible)
    evt,    \* evt[t]: the channel the current call waits on holds an event
    intr,   \* intr[t]: an interrupt is pending for t
    timed,  \* timed[t]: the current call has a timeout or deadline
    dl,     \* dl[t]: its deadline on the clock
    res     \* res[t]: the error the last call returned

avars == <<now, st, evt, intr, timed, dl, res>>

Time == 0..MaxTime

\* A call starts waiting on a channel that may already hold an event; when
\* it does, the call may take it at once and return nil without blocking.
Start(t) ==
    /\ st[t] = "Idle"
    /\ \E tm \in BOOLEAN, d \in Time, e \in BOOLEAN :
          /\ timed' = [timed EXCEPT ![t] = tm]
          /\ dl' = [dl EXCEPT ![t] = d]
          /\ \/ st' = [st EXCEPT ![t] = "Blocked"] /\ evt' = [evt EXCEPT ![t] = e]
             \/ UNCHANGED st /\ evt' = [evt EXCEPT ![t] = FALSE]
    /\ res' = [res EXCEPT ![t] = "nil"]
    /\ UNCHANGED <<now, intr>>

\* A blocked call returns for one of its three reasons: it consumes the
\* event, it sees the pending interrupt (which stays pending), or its
\* deadline has passed.
Return(t) ==
    /\ st[t] = "Blocked"
    /\ st' = [st EXCEPT ![t] = "Idle"]
    /\ \/ /\ evt[t]
          /\ evt' = [evt EXCEPT ![t] = FALSE]
          /\ res' = [res EXCEPT ![t] = "nil"]
       \/ /\ intr[t]
          /\ res' = [res EXCEPT ![t] = "ErrInterrupted"]
          /\ UNCHANGED evt
       \/ /\ timed[t] /\ now >= dl[t]
          /\ res' = [res EXCEPT ![t] = "ETIMEDOUT"]
          /\ UNCHANGED evt
    /\ UNCHANGED <<now, intr, timed, dl>>

\* unsetInterrupted: the task clears its pending interrupt between calls.
Unset(t) ==
    /\ st[t] = "Idle"
    /\ intr' = [intr EXCEPT ![t] = FALSE]
    /\ UNCHANGED <<now, st, evt, timed, dl, res>>

\* UninterruptibleSleepStart / UninterruptibleSleepFinish.
Sleep(t) ==
    /\ st[t] = "Idle"
    /\ st' = [st EXCEPT ![t] = "Asleep"]
    /\ UNCHANGED <<now, evt, intr, timed, dl, res>>

Finish(t) ==
    /\ st[t] = "Asleep"
    /\ st' = [st EXCEPT ![t] = "Idle"]
    /\ UNCHANGED <<now, evt, intr, timed, dl, res>>

\* Another thread delivers an event to the channel or interrupts the task.
Event(t) ==
    /\ evt' = [evt EXCEPT ![t] = TRUE]
    /\ UNCHANGED <<now, st, intr, timed, dl, res>>

Interrupt(t) ==
    /\ intr' = [intr EXCEPT ![t] = TRUE]
    /\ UNCHANGED <<now, st, evt, timed, dl, res>>

Tick ==
    /\ now < MaxTime
    /\ now' = now + 1
    /\ UNCHANGED <<st, evt, intr, timed, dl, res>>

Init ==
    /\ now = 0
    /\ st = [t \in Tasks |-> "Idle"]
    /\ evt = [t \in Tasks |-> FALSE]
    /\ intr = [t \in Tasks |-> FALSE]
    /\ timed = [t \in Tasks |-> FALSE]
    /\ dl = [t \in Tasks |-> 0]
    /\ res = [t \in Tasks |-> "nil"]

Next ==
    \/ \E t \in Tasks : \/ Start(t) \/ Return(t) \/ Unset(t)
                        \/ Sleep(t) \/ Finish(t) \/ Event(t) \/ Interrupt(t)
    \/ Tick

\* A call that can return does return, an uninterruptible sleep ends, and
\* the clock advances.
Fairness ==
    /\ \A t \in Tasks : WF_avars(Return(t)) /\ WF_avars(Finish(t))
    /\ WF_avars(Tick)

SafeSpec == Init /\ [][Next]_avars

Spec == SafeSpec /\ Fairness

=============================================================================
