----------------------------- MODULE PIDNamespace -----------------------------
(***************************************************************************)
(* The TaskSet, its PID namespaces and thread groups                       *)
(* (pkg/sentry/kernel/threads.go).                                         *)
(*                                                                         *)
(* A PID namespace is a bimap between thread IDs and the tasks visible in  *)
(* it (ns.tasks / ns.tids), plus the TIDs of the thread groups visible in  *)
(* it (ns.tgids). A task is visible in its thread group's namespace and in *)
(* every ancestor of it. All of this is protected by the TaskSet mutex mu, *)
(* held for writing by every action below that changes it, so each action *)
(* is one atomic step; the lookups of threads.go are operators evaluated   *)
(* under the read lock.                                                    *)
(*                                                                         *)
(* The mutations themselves (admission and TID assignment, exit, reaping)  *)
(* are in task_start.go and task_exit.go, outside the sources given here:  *)
(* they are modelled from the specification of the TaskSet.                *)
(***************************************************************************)
EXTENDS Integers, FiniteSets

CONSTANTS
    Tasks,        \* task identities
    TGs,          \* thread group identities
    NSs,          \* PID namespace identities
    Root,         \* the root PID namespace, TaskSet.Root
    MaxTID,       \* the largest thread ID (TasksLimit)
    NoTask,       \* nil *Task
    NoTG,         \* nil *ThreadGroup
    NoNS          \* nil *PIDNamespace

ASSUME PIDAssumption ==
    /\ Root \in NSs
    /\ MaxTID \in Nat \ {0}
    /\ NoTask \notin Tasks
    /\ NoTG \notin TGs
    /\ NoNS \notin NSs
    /\ IsFiniteSet(Tasks)

\* initTID is the TID given to the first task added to each PID namespace.
initTID == 1

TIDs == 1..MaxTID

VARIABLES
    created,       \* the PID namespaces that exist
    parent,        \* parent[ns]: ns.parent (NoNS for the root)
    nsID,          \* nsID[ns]: ns.id
    lastPIDNSID,   \* the global lastPIDNSID counter
    last,          \* last[ns]: ns.last, the last TID allocated in ns
    exiting,       \* exiting[ns]: ns.exiting
    tasksMap,      \* tasksMap[ns][tid]: ns.tasks[tid] (NoTask if absent)
    tids,          \* tids[ns][t]: ns.tids[t] (0 if absent)
    tgids,         \* tgids[ns][tg]: ns.tgids[tg] (0 if absent)
    tgOf,          \* tgOf[t]: t.tg
    tgNS,          \* tgNS[tg]: tg.pidns (NoNS before the group exists)
    leader,        \* leader[tg]: tg.leader
    pidWithinNS,   \* pidWithinNS[tg]: tg.pidWithinNS
    status,        \* status[t]: the task's exit state
    tasksCount,    \* tasksCount[tg]: tg.tasksCount
    tgLive,        \* tgLive[tg]: tg.liveTasks
    tgActive,      \* tgActive[tg]: tg.activeTasks
    liveTasks,     \* TaskSet.liveTasks
    noNewTasksIfZeroLive, \* TaskSet.noNewTasksIfZeroLive
    zeroLiveBroadcasts    \* the number of broadcasts on zeroLiveTasksCond

vars == <<created, parent, nsID, lastPIDNSID, last, exiting, tasksMap, tids,
          tgids, tgOf, tgNS, leader, pidWithinNS, status, tasksCount, tgLive,
          tgActive, liveTasks, noNewTasksIfZeroLive, zeroLiveBroadcasts>>

\* Task exit states: not yet created; running; exit initiated
\* (TaskExitInitiated); zombie (TaskExitZombie); reaped (TaskExitDead).
Statuses == {"Unborn", "Active", "Exiting", "Zombie", "Reaped"}

-----------------------------------------------------------------------------
(* Lookups, as in threads.go (each under ts.mu.RLock).                     *)

\* ns.tasks[tid]; nil for a TID with no task.
TaskWithID(ns, tid) == IF tid \in TIDs THEN tasksMap[ns][tid] ELSE NoTask

\* The thread group led by the task with TID tid, or nil.
ThreadGroupWithID(ns, tid) ==
    LET t == TaskWithID(ns, tid)
    IN  IF t = NoTask \/ t # leader[tgOf[t]] THEN NoTG ELSE tgOf[t]

\* ns.tids[t]; 0 if t is not visible in ns.
IDOfTask(ns, t) == tids[ns][t]

\* ns.tgids[tg]; 0 if tg is not visible in ns.
IDOfThreadGroup(ns, tg) == tgids[ns][tg]

\* Tasks / TasksAppend: the tasks visible in ns.
TasksIn(ns) == {t \in Tasks : tids[ns][t] # 0}

\* ThreadGroups / ThreadGroupsAppend: the thread groups visible in ns.
ThreadGroupsIn(ns) == {tg \in TGs : tgids[ns][tg] # 0}

\* tg.tasks: the tasks of tg that have not been reaped.
Members(tg) == {t \in Tasks : tgOf[t] = tg /\ status[t] \notin {"Unborn", "Reaped"}}

\* Count(): the length of tg.tasks.
Count(tg) == Cardinality(Members(tg))

\* MemberIDs(pidns): the TIDs in pidns of the members visible there.
MemberIDs(tg, ns) == {tids[ns][t] : t \in {u \in Members(tg) : tids[ns][u] # 0}}

\* tg.ID(): an atomic load of pidWithinNS, without the TaskSet mutex.
ID(tg) == pidWithinNS[tg]

\* A parent chain of n namespaces from ns: p[1] = ns and each next entry
\* is the parent of the one before, as a walk along ns.parent visits them.
ParentChains(ns, n) ==
    {p \in [1..n -> NSs] : p[1] = ns /\ \A i \in 1..(n - 1) : p[i + 1] = parent[p[i]]}

\* ns and its ancestors, following the immutable parent pointers: ns itself
\* and the last entry of every longer parent chain from it. A chain without
\* a repeated namespace has at most Cardinality(NSs) entries.
Ancestors(ns) ==
    {ns} \cup {a \in NSs : \E n \in 2..Cardinality(NSs) :
                               \E p \in ParentChains(ns, n) : p[n] = a}

-----------------------------------------------------------------------------
(* TID allocation (task_start.go, from the specification): a free TID    *)
(* above ns.last; when there is none, wrapping, a free TID above initTID;  *)
(* none at all when every TID is taken. The code scans upwards and takes  *)
(* the first; the model takes any candidate, which includes that choice.  *)

FreeTIDs(ns) == {i \in TIDs : tasksMap[ns][i] = NoTask}

\* Mutant of TIDCandidates: past the last TID, last + 1 is handed out
\* without checking the limit.
TIDCandidatesPastLimit(ns) ==
    LET above == {i \in FreeTIDs(ns) : i > last[ns]}
    IN  IF above # {} THEN above ELSE {last[ns] + 1}

\* Mutant of TIDCandidates: the wrap-around scan does not skip TIDs in use.
TIDCandidatesNoFreeCheck(ns) ==
    LET above == {i \in FreeTIDs(ns) : i > last[ns]}
    IN  IF above # {} THEN above ELSE {i \in TIDs : i > initTID}

TIDCandidates(ns) ==
    LET above == {i \in FreeTIDs(ns) : i > last[ns]}
    IN  IF above # {} THEN above ELSE {i \in FreeTIDs(ns) : i > initTID}

\* One TID for each namespace in anc, allocated together under ts.mu.
TIDAssignments(anc) ==
    {f \in [anc -> UNION {TIDCandidates(a) : a \in anc}] :
        \A a \in anc : f[a] \in TIDCandidates(a)}

-----------------------------------------------------------------------------
(* Actions.                                                                *)

\* NewChild / newPIDNamespace: a new, empty namespace whose parent is ns,
\* with the next lastPIDNSID as its id.
NewChild(ns, child) ==
    /\ ns \in created
    /\ child \notin created
    /\ created' = created \cup {child}
    /\ parent' = [parent EXCEPT ![child] = ns]
    /\ lastPIDNSID' = lastPIDNSID + 1
    /\ nsID' = [nsID EXCEPT ![child] = lastPIDNSID + 1]
    /\ UNCHANGED <<last, exiting, tasksMap, tids, tgids, tgOf, tgNS, leader,
                   pidWithinNS, status, tasksCount, tgLive, tgActive,
                   liveTasks, noNewTasksIfZeroLive, zeroLiveBroadcasts>>

\* The admission gate of TaskSet.newTask.
Admissible == ~(noNewTasksIfZeroLive /\ liveTasks = 0)

\* TaskSet.newTask under ts.mu.Lock: refused if noNewTasksIfZeroLive is set
\* and no task is live; otherwise a TID is assigned to t in ns and in every
\* ancestor of ns (all or nothing), t joins tg, and the counters grow. A new
\* thread group (fork) is led by t; a new thread (clone with CLONE_THREAD)
\* joins an existing group with an active member, in the group's namespace.
NewTask(t, tg, ns) ==
    /\ status[t] = "Unborn"
    /\ ns \in created
    /\ \/ tgNS[tg] = NoNS
       \/ tgNS[tg] = ns /\ tgActive[tg] > 0
    /\ Admissible
    /\ \A a \in Ancestors(ns) : ~exiting[a] /\ TIDCandidates(a) # {}
    /\ \E tid \in TIDAssignments(Ancestors(ns)) :
       LET newTG == tgNS[tg] = NoNS
           anc == Ancestors(ns)
       IN
       /\ tasksMap' = [a \in NSs |-> IF a \in anc
                                      THEN [tasksMap[a] EXCEPT ![tid[a]] = t]
                                      ELSE tasksMap[a]]
       /\ tids' = [a \in NSs |-> IF a \in anc
                                 THEN [tids[a] EXCEPT ![t] = tid[a]]
                                 ELSE tids[a]]
       /\ last' = [a \in NSs |-> IF a \in anc THEN tid[a] ELSE last[a]]
       /\ tgids' = IF newTG
                   THEN [a \in NSs |-> IF a \in anc
                                       THEN [tgids[a] EXCEPT ![tg] = tid[a]]
                                       ELSE tgids[a]]
                   ELSE tgids
       /\ leader' = IF newTG THEN [leader EXCEPT ![tg] = t] ELSE leader
       /\ tgNS' = [tgNS EXCEPT ![tg] = ns]
       /\ pidWithinNS' = IF newTG THEN [pidWithinNS EXCEPT ![tg] = tid[ns]]
                                  ELSE pidWithinNS
    /\ tgOf' = [tgOf EXCEPT ![t] = tg]
    /\ status' = [status EXCEPT ![t] = "Active"]
    /\ tasksCount' = [tasksCount EXCEPT ![tg] = @ + 1]
    /\ tgLive' = [tgLive EXCEPT ![tg] = @ + 1]
    /\ tgActive' = [tgActive EXCEPT ![tg] = @ + 1]
    /\ liveTasks' = liveTasks + 1
    /\ UNCHANGED <<created, parent, nsID, lastPIDNSID, exiting,
                   noNewTasksIfZeroLive, zeroLiveBroadcasts>>

\* The task initiates exit (TaskExitInitiated): activeTasks drops. When the
\* last active task of the namespace's init process (the group whose leader
\* has initTID there) initiates exit, the namespace is exiting.
ExitInitiated(t) ==
    LET tg == tgOf[t]
        ns == tgNS[tg]
    IN
    /\ status[t] = "Active"
    /\ status' = [status EXCEPT ![t] = "Exiting"]
    /\ tgActive' = [tgActive EXCEPT ![tg] = @ - 1]
    /\ exiting' = IF tgids[ns][tg] = initTID /\ tgActive[tg] = 1
                  THEN [exiting EXCEPT ![ns] = TRUE] ELSE exiting
    /\ UNCHANGED <<created, parent, nsID, lastPIDNSID, last, tasksMap, tids,
                   tgids, tgOf, tgNS, leader, pidWithinNS, tasksCount, tgLive,
                   liveTasks, noNewTasksIfZeroLive, zeroLiveBroadcasts>>

\* Mutant of ExitZombie: the thread group's liveTasks is not decremented.
ExitZombieNoGroupCount(t) ==
    /\ status[t] = "Exiting"
    /\ status' = [status EXCEPT ![t] = "Zombie"]
    /\ liveTasks' = liveTasks - 1
    /\ zeroLiveBroadcasts' = IF liveTasks = 1 THEN zeroLiveBroadcasts + 1
                                              ELSE zeroLiveBroadcasts
    /\ UNCHANGED <<created, parent, nsID, lastPIDNSID, last, exiting,
                   tasksMap, tids, tgids, tgOf, tgNS, leader, pidWithinNS,
                   tasksCount, tgLive, tgActive, noNewTasksIfZeroLive>>

\* The task becomes a zombie and its goroutine exits: the group's and the
\* TaskSet's live counts drop; the TaskSet broadcasts zeroLiveTasksCond when
\* its count goes from non-zero to zero.
ExitZombie(t) ==
    LET tg == tgOf[t]
    IN
    /\ status[t] = "Exiting"
    /\ status' = [status EXCEPT ![t] = "Zombie"]
    /\ tgLive' = [tgLive EXCEPT ![tg] = @ - 1]
    /\ liveTasks' = liveTasks - 1
    /\ zeroLiveBroadcasts' = IF liveTasks = 1 THEN zeroLiveBroadcasts + 1
                                              ELSE zeroLiveBroadcasts
    /\ UNCHANGED <<created, parent, nsID, lastPIDNSID, last, exiting,
                   tasksMap, tids, tgids, tgOf, tgNS, leader, pidWithinNS,
                   tasksCount, tgActive, noNewTasksIfZeroLive>>

\* Mutant of ReapTargets: the task is removed from its own namespace only.
ReapTargetsOwnOnly(t) == {tgNS[tgOf[t]]}

\* The namespaces a reaped task leaves: its own and every ancestor.
ReapTargets(t) == Ancestors(tgNS[tgOf[t]])

\* Mutant of ReleasedTGIDs: the leader's ns.tgids entries are not deleted.
ReleasedTGIDsKept(t) == tgids

\* ns.tgids after t is released: a leader's group leaves every namespace
\* the leader leaves.
ReleasedTGIDs(t) ==
    IF t = leader[tgOf[t]]
    THEN [a \in NSs |-> IF a \in ReapTargets(t)
                        THEN [tgids[a] EXCEPT ![tgOf[t]] = 0]
                        ELSE tgids[a]]
    ELSE tgids

\* Reaping (releaseLocked): t leaves ns.tasks and ns.tids of its namespace
\* and every ancestor, a leader's group also leaves ns.tgids, and t leaves
\* tg.tasks. A leader may be reaped while the rest of its group lives (the
\* threadGroupNode.leader comment); tg.leader still names it, and tg.ID()
\* is 0 from then on.
Reap(t) ==
    LET tg == tgOf[t]
        anc == ReapTargets(t)
    IN
    /\ status[t] = "Zombie"
    /\ status' = [status EXCEPT ![t] = "Reaped"]
    /\ tasksMap' = [a \in NSs |-> IF a \in anc
                                  THEN [tasksMap[a] EXCEPT ![tids[a][t]] = NoTask]
                                  ELSE tasksMap[a]]
    /\ tids' = [a \in NSs |-> IF a \in anc THEN [tids[a] EXCEPT ![t] = 0]
                                           ELSE tids[a]]
    /\ tgids' = ReleasedTGIDs(t)
    /\ tasksCount' = [tasksCount EXCEPT ![tg] = @ - 1]
    /\ pidWithinNS' = IF t = leader[tg] THEN [pidWithinNS EXCEPT ![tg] = 0]
                                        ELSE pidWithinNS
    /\ UNCHANGED <<created, parent, nsID, lastPIDNSID, last, exiting, tgOf,
                   tgNS, leader, tgLive, tgActive, liveTasks,
                   noNewTasksIfZeroLive, zeroLiveBroadcasts>>

\* The kernel closes admission once the live-task count reaches zero.
SetNoNewTasksIfZeroLive ==
    /\ ~noNewTasksIfZeroLive
    /\ noNewTasksIfZeroLive' = TRUE
    /\ UNCHANGED <<created, parent, nsID, lastPIDNSID, last, exiting,
                   tasksMap, tids, tgids, tgOf, tgNS, leader, pidWithinNS,
                   status, tasksCount, tgLive, tgActive, liveTasks,
                   zeroLiveBroadcasts>>

-----------------------------------------------------------------------------

\* newTaskSet(NewRootPIDNamespace(...)): the root namespace with id 1, all
\* maps empty.
Init ==
    /\ created = {Root}
    /\ parent = [ns \in NSs |-> NoNS]
    /\ nsID = [ns \in NSs |-> IF ns = Root THEN 1 ELSE 0]
    /\ lastPIDNSID = 1
    /\ last = [ns \in NSs |-> 0]
    /\ exiting = [ns \in NSs |-> FALSE]
    /\ tasksMap = [ns \in NSs |-> [i \in TIDs |-> NoTask]]
    /\ tids = [ns \in NSs |-> [t \in Tasks |-> 0]]
    /\ tgids = [ns \in NSs |-> [tg \in TGs |-> 0]]
    /\ tgOf = [t \in Tasks |-> NoTG]
    /\ tgNS = [tg \in TGs |-> NoNS]
    /\ leader = [tg \in TGs |-> NoTask]
    /\ pidWithinNS = [tg \in TGs |-> 0]
    /\ status = [t \in Tasks |-> "Unborn"]
    /\ tasksCount = [tg \in TGs |-> 0]
    /\ tgLive = [tg \in TGs |-> 0]
    /\ tgActive = [tg \in TGs |-> 0]
    /\ liveTasks = 0
    /\ noNewTasksIfZeroLive = FALSE
    /\ zeroLiveBroadcasts = 0

Next ==
    \/ \E ns, child \in NSs : NewChild(ns, child)
    \/ \E t \in Tasks, tg \in TGs, ns \in NSs : NewTask(t, tg, ns)
    \/ \E t \in Tasks : ExitInitiated(t) \/ ExitZombie(t) \/ Reap(t)
    \/ SetNoNewTasksIfZeroLive

Spec == Init /\ [][Next]_vars

-----------------------------------------------------------------------------
(* Properties.                                                             *)

TypeOK ==
    /\ created \subseteq NSs
    /\ parent \in [NSs -> NSs \cup {NoNS}]
    /\ nsID \in [NSs -> Nat]
    /\ lastPIDNSID \in Nat
    /\ last \in [NSs -> 0..MaxTID]
    /\ exiting \in [NSs -> BOOLEAN]
    /\ tasksMap \in [NSs -> [TIDs -> Tasks \cup {NoTask}]]
    /\ tids \in [NSs -> [Tasks -> 0..MaxTID]]
    /\ tgids \in [NSs -> [TGs -> 0..MaxTID]]
    /\ tgOf \in [Tasks -> TGs \cup {NoTG}]
    /\ tgNS \in [TGs -> NSs \cup {NoNS}]
    /\ leader \in [TGs -> Tasks \cup {NoTask}]
    /\ pidWithinNS \in [TGs -> 0..MaxTID]
    /\ status \in [Tasks -> Statuses]
    /\ tasksCount \in [TGs -> Nat]
    /\ tgLive \in [TGs -> Nat]
    /\ tgActive \in [TGs -> Nat]
    /\ liveTasks \in Nat
    /\ noNewTasksIfZeroLive \in BOOLEAN
    /\ zeroLiveBroadcasts \in Nat

\* Spec 8.1: in every namespace ns.tasks and ns.tids are inverse maps, so
\* TaskWithID(IDOfTask(t)) = t for a visible t and no TID names two tasks,
\* across TID reuse after reaping and wrap-around of the allocator.
BimapConsistent ==
    \A ns \in NSs :
        /\ \A t \in Tasks : IDOfTask(ns, t) # 0 =>
                               TaskWithID(ns, IDOfTask(ns, t)) = t
        /\ \A i \in TIDs : TaskWithID(ns, i) # NoTask =>
                              IDOfTask(ns, TaskWithID(ns, i)) = i

\* A task that has been created and not reaped is visible exactly in its
\* thread group's namespace and that namespace's ancestors (so in Root,
\* which forEachTaskLocked iterates); a reaped or unborn task is visible
\* nowhere.
VisibilityExact ==
    \A t \in Tasks, ns \in NSs :
        IDOfTask(ns, t) # 0 <=>
            /\ status[t] \notin {"Unborn", "Reaped"}
            /\ ns \in Ancestors(tgNS[tgOf[t]])

\* Spec 8.2 and the thread-group lookups: a group visible in ns has its
\* leader's TID there, ThreadGroupWithID maps that TID back to the group,
\* and the lock-free tg.ID() agrees with IDOfThreadGroup in the group's own
\* namespace while the leader is unreaped, and is 0 once it is reaped.
ThreadGroupIDs ==
    /\ \A ns \in NSs : \A tg \in ThreadGroupsIn(ns) :
          /\ IDOfThreadGroup(ns, tg) = IDOfTask(ns, leader[tg])
          /\ ThreadGroupWithID(ns, IDOfThreadGroup(ns, tg)) = tg
    /\ \A tg \in TGs :
          ID(tg) = IF leader[tg] \in Members(tg)
                   THEN IDOfThreadGroup(tgNS[tg], tg) ELSE 0

\* Spec 3, invariant 3: the counters the code maintains match the tasks
\* they count, and activeTasks <= liveTasks <= tasksCount.
CountersMatch ==
    /\ \A tg \in TGs :
          /\ tasksCount[tg] = Count(tg)
          /\ tgLive[tg] = Cardinality({t \in Members(tg) :
                                          status[t] \in {"Active", "Exiting"}})
          /\ tgActive[tg] = Cardinality({t \in Members(tg) : status[t] = "Active"})
          /\ tgActive[tg] <= tgLive[tg] /\ tgLive[tg] <= tasksCount[tg]
    /\ liveTasks = Cardinality({t \in Tasks : status[t] \in {"Active", "Exiting"}})

=============================================================================
