------------------------ MODULE PIDNamespaceCounters -------------------------
(***************************************************************************)
(* Proofs, for every finite set of tasks and any thread groups, namespaces *)
(* and TID limit, that the TaskSet's and the thread groups' counters equal *)
(* the sets of tasks they count, and what follows from it: the type        *)
(* invariant, the zero-live broadcast and the closed admission gate.       *)
(***************************************************************************)
EXTENDS PIDNamespaceProofs, FiniteSetTheorems

\* The sets the counters count, over a status map st and a group map go:
\* tg.tasks, the live and the active tasks of tg, and the TaskSet's live
\* tasks.
MembersOf(st, go, tg) ==
    {u \in Tasks : go[u] = tg /\ st[u] \notin {"Unborn", "Reaped"}}

LiveOf(st, go, tg) ==
    {u \in MembersOf(st, go, tg) : st[u] \in {"Active", "Exiting"}}

ActOf(st, go, tg) == {u \in MembersOf(st, go, tg) : st[u] = "Active"}

LiveSetOf(st) == {u \in Tasks : st[u] \in {"Active", "Exiting"}}

\* Each counter equals the size of the set it counts.
CountsOf(st, go, tc, lv, ac, lt) ==
    /\ \A g \in TGs : /\ tc[g] = Cardinality(MembersOf(st, go, g))
                     /\ lv[g] = Cardinality(LiveOf(st, go, g))
                     /\ ac[g] = Cardinality(ActOf(st, go, g))
    /\ lt = Cardinality(LiveSetOf(st))

Counts == CountsOf(status, tgOf, tasksCount, tgLive, tgActive, liveTasks)

\* A task that has been created belongs to a thread group.
BornHasGroup == \A t \in Tasks : status[t] # "Unborn" => tgOf[t] \in TGs

\* The inductive invariant behind TypeOK and CountersMatch.
CounterInv == BimapInv /\ TypeOK /\ BornHasGroup /\ CountersMatch

-----------------------------------------------------------------------------
(* Cardinality of sets of tasks.                                           *)

LEMMA TaskSetFinite ==
  ASSUME NEW S \in SUBSET Tasks
  PROVE  IsFiniteSet(S) /\ Cardinality(S) \in Nat
<1>1. IsFiniteSet(Tasks)
  BY PIDAssumption
<1>2. IsFiniteSet(S)
  BY <1>1, FS_Subset
<1>3. QED
  BY <1>2, FS_CardinalityType

LEMMA CardPlus ==
  ASSUME NEW S \in SUBSET Tasks, NEW x \in Tasks \ S
  PROVE  Cardinality(S \cup {x}) = Cardinality(S) + 1
BY TaskSetFinite, FS_AddElement

LEMMA CardMinus ==
  ASSUME NEW S \in SUBSET Tasks, NEW x \in S
  PROVE  Cardinality(S \ {x}) = Cardinality(S) - 1
BY TaskSetFinite, FS_RemoveElement

LEMMA CardMono ==
  ASSUME NEW T \in SUBSET Tasks, NEW S \in SUBSET T
  PROVE  Cardinality(S) <= Cardinality(T)
BY TaskSetFinite, FS_Subset

\* Updating one entry of a map into Nat with a natural keeps it one.
LEMMA UpdateNat ==
  ASSUME NEW D, NEW f \in [D -> Nat], NEW x, NEW v \in Nat
  PROVE  [f EXCEPT ![x] = v] \in [D -> Nat]
OBVIOUS

\* The counted sets are nested, so the counters are ordered:
\* activeTasks <= liveTasks <= tasksCount in every group.
LEMMA CountersOrder ==
  ASSUME NEW st, NEW go, NEW tc, NEW lv, NEW ac, NEW lt,
         CountsOf(st, go, tc, lv, ac, lt)
  PROVE  \A g \in TGs : ac[g] <= lv[g] /\ lv[g] <= tc[g]
<1> SUFFICES ASSUME NEW g \in TGs PROVE ac[g] <= lv[g] /\ lv[g] <= tc[g]
  OBVIOUS
<1>1. /\ MembersOf(st, go, g) \in SUBSET Tasks
      /\ LiveOf(st, go, g) \in SUBSET MembersOf(st, go, g)
      /\ ActOf(st, go, g) \in SUBSET LiveOf(st, go, g)
  BY DEF MembersOf, LiveOf, ActOf
<1>2. QED
  BY <1>1, CardMono DEF CountsOf

\* CountersMatch over the maps st, go, tc, lv, ac and the count lt.
CountersMatchOf(st, go, tc, lv, ac, lt) ==
    /\ \A tg \in TGs :
          /\ tc[tg] = Cardinality(MembersOf(st, go, tg))
          /\ lv[tg] = Cardinality({u \in MembersOf(st, go, tg) :
                                        st[u] \in {"Active", "Exiting"}})
          /\ ac[tg] = Cardinality({u \in MembersOf(st, go, tg) :
                                        st[u] = "Active"})
          /\ ac[tg] <= lv[tg] /\ lv[tg] <= tc[tg]
    /\ lt = Cardinality({u \in Tasks : st[u] \in {"Active", "Exiting"}})

\* CountersMatch is the counters equal to their sets; the order follows.
LEMMA MatchFromCounts ==
  ASSUME NEW st, NEW go, NEW tc, NEW lv, NEW ac, NEW lt,
         CountsOf(st, go, tc, lv, ac, lt)
  PROVE  CountersMatchOf(st, go, tc, lv, ac, lt)
<1>1. \A g \in TGs : ac[g] <= lv[g] /\ lv[g] <= tc[g]
  BY CountersOrder
<1>2. QED
  BY <1>1, Zenon DEF CountsOf, CountersMatchOf, LiveOf, ActOf, LiveSetOf

\* Counts and CountersMatch say the same, in a state and in the next one.
LEMMA CountsOfMatch ==
  CountersMatch => Counts
BY DEF CountersMatch, Counts, CountsOf, Count, Members, MembersOf, LiveOf,
       ActOf, LiveSetOf

LEMMA MatchOfCounts ==
  ASSUME Counts'
  PROVE  CountersMatch'
<1>1. CountsOf(status', tgOf', tasksCount', tgLive', tgActive', liveTasks')
  BY DEF Counts
<1>2. CountersMatchOf(status', tgOf', tasksCount', tgLive', tgActive',
                      liveTasks')
  BY <1>1, MatchFromCounts, Zenon
<1>3. QED
  BY <1>2 DEF CountersMatch, CountersMatchOf, Count, Members, MembersOf

-----------------------------------------------------------------------------
(* The inductive invariant, action by action.                              *)

\* The TaskSet starts with no task, so every counted set is empty.
LEMMA InitCounter == Init => CounterInv
<1> SUFFICES ASSUME Init PROVE CounterInv
  OBVIOUS
<1>1. BimapInv
  BY BimapInit
<1>2. TypeOK
  <2>1. /\ created \subseteq NSs
        /\ parent \in [NSs -> NSs \cup {NoNS}]
        /\ nsID \in [NSs -> Nat]
        /\ lastPIDNSID \in Nat
        /\ last \in [NSs -> 0..MaxTID]
        /\ exiting \in [NSs -> BOOLEAN]
    BY PIDAssumption DEF Init
  <2>2. /\ tasksMap \in [NSs -> [TIDs -> Tasks \cup {NoTask}]]
        /\ tids \in [NSs -> [Tasks -> 0..MaxTID]]
        /\ tgids \in [NSs -> [TGs -> 0..MaxTID]]
    <3>1. 0 \in 0..MaxTID
      BY PIDAssumption
    <3>2. QED
      BY <3>1 DEF Init
  <2>3. /\ tgOf \in [Tasks -> TGs \cup {NoTG}]
        /\ tgNS \in [TGs -> NSs \cup {NoNS}]
        /\ leader \in [TGs -> Tasks \cup {NoTask}]
        /\ pidWithinNS \in [TGs -> 0..MaxTID]
        /\ status \in [Tasks -> Statuses]
    BY PIDAssumption DEF Init, Statuses
  <2>4. /\ tasksCount \in [TGs -> Nat]
        /\ tgLive \in [TGs -> Nat]
        /\ tgActive \in [TGs -> Nat]
        /\ liveTasks \in Nat
        /\ noNewTasksIfZeroLive \in BOOLEAN
        /\ zeroLiveBroadcasts \in Nat
    BY DEF Init
  <2>5. QED
    BY <2>1, <2>2, <2>3, <2>4 DEF TypeOK
<1>3. BornHasGroup
  BY DEF Init, BornHasGroup
<1>4. /\ \A g \in TGs : MembersOf(status, tgOf, g) = {}
      /\ LiveSetOf(status) = {}
  BY DEF Init, MembersOf, LiveSetOf
<1>5. Counts
  BY <1>4, FS_EmptySet DEF Init, Counts, CountsOf, LiveOf, ActOf
<1>6. CountersMatch
  <2>1. CountsOf(status, tgOf, tasksCount, tgLive, tgActive, liveTasks)
    BY <1>5 DEF Counts
  <2>2. CountersMatchOf(status, tgOf, tasksCount, tgLive, tgActive, liveTasks)
    BY <2>1, MatchFromCounts, Zenon
  <2>3. QED
    BY <2>2 DEF CountersMatch, CountersMatchOf, Count, Members, MembersOf
<1>7. QED
  BY <1>1, <1>2, <1>3, <1>6 DEF CounterInv

\* A new namespace, closing admission and a stutter touch no task and no
\* counter.
LEMMA OtherCounter ==
  ASSUME CounterInv,
         \/ \E ns, child \in NSs : NewChild(ns, child)
         \/ SetNoNewTasksIfZeroLive
         \/ UNCHANGED vars
  PROVE  CounterInv'
<1>1. BimapInv'
  BY OtherStepsKeepBimap DEF CounterInv
<1>2. UNCHANGED <<last, exiting, tasksMap, tids, tgids, tgOf, tgNS, leader,
                 pidWithinNS, status, tasksCount, tgLive, tgActive, liveTasks,
                 zeroLiveBroadcasts>>
  BY DEF NewChild, SetNoNewTasksIfZeroLive, vars
<1>3. /\ created' \subseteq NSs
      /\ parent' \in [NSs -> NSs \cup {NoNS}]
      /\ nsID' \in [NSs -> Nat]
      /\ lastPIDNSID' \in Nat
      /\ noNewTasksIfZeroLive' \in BOOLEAN
  <2>1. CASE \E ns, child \in NSs : NewChild(ns, child)
    <3>1. PICK ns, child \in NSs : NewChild(ns, child)
      BY <2>1
    <3>2. QED
      BY <3>1 DEF CounterInv, TypeOK, NewChild
  <2>2. CASE SetNoNewTasksIfZeroLive
    BY <2>2 DEF CounterInv, TypeOK, SetNoNewTasksIfZeroLive
  <2>3. CASE UNCHANGED vars
    BY <2>3 DEF CounterInv, TypeOK, vars
  <2>4. QED
    BY <2>1, <2>2, <2>3
<1>4. TypeOK'
  BY <1>2, <1>3 DEF CounterInv, TypeOK
<1>5. BornHasGroup'
  BY <1>2 DEF CounterInv, BornHasGroup
<1>6. CountersMatch'
  BY <1>2 DEF CounterInv, CountersMatch, Count, Members
<1>7. QED
  BY <1>1, <1>4, <1>5, <1>6 DEF CounterInv

\* TaskExitInitiated: t leaves its group's active tasks and stays a member
\* and live; activeTasks drops by one.
LEMMA ExitInitiatedCounter ==
  ASSUME CounterInv, NEW t \in Tasks, ExitInitiated(t)
  PROVE  CounterInv'
<1> DEFINE tg == tgOf[t]
<1> USE DEF CounterInv
<1>1. BimapInv'
  BY OtherStepsKeepBimap
<1>2. /\ tg \in TGs
      /\ status' = [status EXCEPT ![t] = "Exiting"]
      /\ tgActive' = [tgActive EXCEPT ![tg] = @ - 1]
      /\ UNCHANGED <<created, parent, nsID, lastPIDNSID, last, tasksMap,
                     tids, tgids, tgOf, tgNS, leader, pidWithinNS, tasksCount,
                     tgLive, liveTasks, noNewTasksIfZeroLive,
                     zeroLiveBroadcasts>>
  BY DEF ExitInitiated, BornHasGroup
<1>3. /\ \A g \in TGs : MembersOf(status', tgOf', g) = MembersOf(status, tgOf, g)
      /\ \A g \in TGs : LiveOf(status', tgOf', g) = LiveOf(status, tgOf, g)
      /\ \A g \in TGs \ {tg} : ActOf(status', tgOf', g) = ActOf(status, tgOf, g)
      /\ ActOf(status', tgOf', tg) = ActOf(status, tgOf, tg) \ {t}
      /\ t \in ActOf(status, tgOf, tg)
      /\ LiveSetOf(status') = LiveSetOf(status)
  BY <1>2 DEF ExitInitiated, TypeOK, MembersOf, LiveOf, ActOf, LiveSetOf
<1>4. Cardinality(ActOf(status', tgOf', tg))
        = Cardinality(ActOf(status, tgOf, tg)) - 1
  BY <1>3, CardMinus DEF ActOf, MembersOf
<1>5. Counts'
  BY <1>2, <1>3, <1>4, CountsOfMatch DEF Counts, CountsOf, TypeOK
<1>6. TypeOK'
  <2>1. tgActive' \in [TGs -> Nat]
    <3>1. tgActive[tg] = Cardinality(ActOf(status, tgOf, tg))
      BY <1>2, CountsOfMatch DEF Counts, CountsOf
    <3>2. Cardinality(ActOf(status', tgOf', tg)) \in Nat
      BY TaskSetFinite DEF ActOf, MembersOf
    <3>3. tgActive[tg] - 1 \in Nat
      BY <1>4, <3>1, <3>2
    <3>4. QED
      BY <1>2, <3>3, UpdateNat DEF TypeOK
  <2>2. status' \in [Tasks -> Statuses]
    BY <1>2 DEF TypeOK, Statuses
  <2>3. exiting' \in [NSs -> BOOLEAN]
    BY DEF ExitInitiated, TypeOK
  <2>4. QED
    BY <1>2, <2>1, <2>2, <2>3 DEF TypeOK
<1>7. BornHasGroup'
  BY <1>2 DEF BornHasGroup, ExitInitiated
<1>8. QED
  BY <1>1, <1>5, <1>6, <1>7, MatchOfCounts

\* TaskExitZombie: t leaves its group's live tasks and the TaskSet's, and
\* stays a member; both liveTasks counts drop by one.
LEMMA ExitZombieCounter ==
  ASSUME CounterInv, NEW t \in Tasks, ExitZombie(t)
  PROVE  CounterInv'
<1> DEFINE tg == tgOf[t]
<1> USE DEF CounterInv
<1>1. BimapInv'
  BY OtherStepsKeepBimap
<1>2. /\ tg \in TGs
      /\ status' = [status EXCEPT ![t] = "Zombie"]
      /\ tgLive' = [tgLive EXCEPT ![tg] = @ - 1]
      /\ liveTasks' = liveTasks - 1
      /\ UNCHANGED <<created, parent, nsID, lastPIDNSID, last, exiting,
                     tasksMap, tids, tgids, tgOf, tgNS, leader, pidWithinNS,
                     tasksCount, tgActive, noNewTasksIfZeroLive>>
  BY DEF ExitZombie, BornHasGroup
<1>3. /\ \A g \in TGs : MembersOf(status', tgOf', g) = MembersOf(status, tgOf, g)
      /\ \A g \in TGs \ {tg} : LiveOf(status', tgOf', g) = LiveOf(status, tgOf, g)
      /\ LiveOf(status', tgOf', tg) = LiveOf(status, tgOf, tg) \ {t}
      /\ t \in LiveOf(status, tgOf, tg)
      /\ \A g \in TGs : ActOf(status', tgOf', g) = ActOf(status, tgOf, g)
      /\ LiveSetOf(status') = LiveSetOf(status) \ {t}
      /\ t \in LiveSetOf(status)
  BY <1>2 DEF ExitZombie, TypeOK, MembersOf, LiveOf, ActOf, LiveSetOf
<1>4. /\ Cardinality(LiveOf(status', tgOf', tg))
           = Cardinality(LiveOf(status, tgOf, tg)) - 1
      /\ Cardinality(LiveSetOf(status')) = Cardinality(LiveSetOf(status)) - 1
      /\ Cardinality(LiveOf(status', tgOf', tg)) \in Nat
      /\ Cardinality(LiveSetOf(status')) \in Nat
  BY <1>3, CardMinus, TaskSetFinite DEF LiveOf, MembersOf, LiveSetOf
<1>5. Counts'
  BY <1>2, <1>3, <1>4, CountsOfMatch DEF Counts, CountsOf, TypeOK
<1>6. TypeOK'
  <2>1. /\ tgLive[tg] = Cardinality(LiveOf(status, tgOf, tg))
        /\ liveTasks = Cardinality(LiveSetOf(status))
    BY <1>2, CountsOfMatch DEF Counts, CountsOf
  <2>2. tgLive' \in [TGs -> Nat]
    BY <1>2, <1>4, <2>1, UpdateNat DEF TypeOK
  <2>3. liveTasks' \in Nat
    BY <1>2, <1>4, <2>1
  <2>4. status' \in [Tasks -> Statuses]
    BY <1>2 DEF TypeOK, Statuses
  <2>5. zeroLiveBroadcasts' \in Nat
    BY DEF ExitZombie, TypeOK
  <2>6. QED
    BY <1>2, <2>2, <2>3, <2>4, <2>5 DEF TypeOK
<1>7. BornHasGroup'
  BY <1>2 DEF BornHasGroup, ExitZombie
<1>8. QED
  BY <1>1, <1>5, <1>6, <1>7, MatchOfCounts

\* releaseLocked: a zombie t leaves tg.tasks; the live and active sets, which
\* it had already left, are unchanged, and tasksCount drops by one.
LEMMA ReapCounter ==
  ASSUME CounterInv, NEW t \in Tasks, Reap(t)
  PROVE  CounterInv'
<1> DEFINE tg == tgOf[t]
<1> USE DEF CounterInv
<1>1. BimapInv'
  BY ReapKeepsBimap
<1>2. /\ tg \in TGs
      /\ status' = [status EXCEPT ![t] = "Reaped"]
      /\ tasksCount' = [tasksCount EXCEPT ![tg] = @ - 1]
      /\ tgids' = ReleasedTGIDs(t)
      /\ pidWithinNS' = IF t = leader[tg] THEN [pidWithinNS EXCEPT ![tg] = 0]
                                          ELSE pidWithinNS
      /\ UNCHANGED <<created, parent, nsID, lastPIDNSID, last, exiting, tgOf,
                     tgNS, leader, tgLive, tgActive, liveTasks,
                     noNewTasksIfZeroLive, zeroLiveBroadcasts>>
  BY DEF Reap, BornHasGroup
<1>3. /\ \A g \in TGs \ {tg} :
            MembersOf(status', tgOf', g) = MembersOf(status, tgOf, g)
      /\ MembersOf(status', tgOf', tg) = MembersOf(status, tgOf, tg) \ {t}
      /\ t \in MembersOf(status, tgOf, tg)
      /\ \A g \in TGs : LiveOf(status', tgOf', g) = LiveOf(status, tgOf, g)
      /\ \A g \in TGs : ActOf(status', tgOf', g) = ActOf(status, tgOf, g)
      /\ LiveSetOf(status') = LiveSetOf(status)
  BY <1>2 DEF Reap, TypeOK, MembersOf, LiveOf, ActOf, LiveSetOf
<1>4. /\ Cardinality(MembersOf(status', tgOf', tg))
           = Cardinality(MembersOf(status, tgOf, tg)) - 1
      /\ Cardinality(MembersOf(status', tgOf', tg)) \in Nat
  BY <1>3, CardMinus, TaskSetFinite DEF MembersOf
<1>5. Counts'
  BY <1>2, <1>3, <1>4, CountsOfMatch DEF Counts, CountsOf, TypeOK
<1>6. TypeOK'
  <2>1. tasksCount[tg] = Cardinality(MembersOf(status, tgOf, tg))
    BY <1>2, CountsOfMatch DEF Counts, CountsOf
  <2>2. tasksCount' \in [TGs -> Nat]
    BY <1>2, <1>4, <2>1, UpdateNat DEF TypeOK
  <2>3. /\ tasksMap' \in [NSs -> [TIDs -> Tasks \cup {NoTask}]]
        /\ tids' \in [NSs -> [Tasks -> 0..MaxTID]]
        /\ status' \in [Tasks -> Statuses]
    BY <1>1 DEF BimapInv, MapsOK
  <2>4. tgids' \in [NSs -> [TGs -> 0..MaxTID]]
    <3>1. 0 \in 0..MaxTID
      BY PIDAssumption
    <3>2. QED
      BY <1>2, <3>1 DEF ReleasedTGIDs, TypeOK
  <2>5. pidWithinNS' \in [TGs -> 0..MaxTID]
    BY <1>2, PIDAssumption DEF TypeOK
  <2>6. QED
    BY <1>2, <2>2, <2>3, <2>4, <2>5 DEF TypeOK
<1>7. BornHasGroup'
  BY <1>2 DEF BornHasGroup, Reap
<1>8. QED
  BY <1>1, <1>5, <1>6, <1>7, MatchOfCounts

\* TaskSet.newTask: an unborn t joins tg as an active task, so it enters
\* tg's member, live and active sets and the TaskSet's live set; every
\* counter grows by one. Its TIDs, and a new group's, are free TIDs.
LEMMA NewTaskCounter ==
  ASSUME CounterInv, NEW t \in Tasks, NEW tg \in TGs, NEW ns \in NSs,
         NewTask(t, tg, ns)
  PROVE  CounterInv'
<1> DEFINE anc == Ancestors(ns)
<1> USE DEF CounterInv
<1>1. BimapInv'
  BY NewTaskKeepsBimap
<1>2. /\ status[t] = "Unborn"
      /\ status' = [status EXCEPT ![t] = "Active"]
      /\ tgOf' = [tgOf EXCEPT ![t] = tg]
      /\ tasksCount' = [tasksCount EXCEPT ![tg] = @ + 1]
      /\ tgLive' = [tgLive EXCEPT ![tg] = @ + 1]
      /\ tgActive' = [tgActive EXCEPT ![tg] = @ + 1]
      /\ liveTasks' = liveTasks + 1
      /\ UNCHANGED <<created, parent, nsID, lastPIDNSID, exiting,
                     noNewTasksIfZeroLive, zeroLiveBroadcasts>>
  BY DEF NewTask
<1>3. PICK tid \in TIDAssignments(anc) :
         /\ tgids' = IF tgNS[tg] = NoNS
                     THEN [a \in NSs |-> IF a \in anc
                                         THEN [tgids[a] EXCEPT ![tg] = tid[a]]
                                         ELSE tgids[a]]
                     ELSE tgids
         /\ leader' = IF tgNS[tg] = NoNS THEN [leader EXCEPT ![tg] = t]
                                         ELSE leader
         /\ pidWithinNS' = IF tgNS[tg] = NoNS
                           THEN [pidWithinNS EXCEPT ![tg] = tid[ns]]
                           ELSE pidWithinNS
  BY DEF NewTask
<1>4. /\ \A g \in TGs \ {tg} :
            /\ MembersOf(status', tgOf', g) = MembersOf(status, tgOf, g)
            /\ LiveOf(status', tgOf', g) = LiveOf(status, tgOf, g)
            /\ ActOf(status', tgOf', g) = ActOf(status, tgOf, g)
      /\ MembersOf(status', tgOf', tg) = MembersOf(status, tgOf, tg) \cup {t}
      /\ LiveOf(status', tgOf', tg) = LiveOf(status, tgOf, tg) \cup {t}
      /\ ActOf(status', tgOf', tg) = ActOf(status, tgOf, tg) \cup {t}
      /\ LiveSetOf(status') = LiveSetOf(status) \cup {t}
      /\ t \notin MembersOf(status, tgOf, tg) \cup LiveSetOf(status)
  BY <1>2 DEF TypeOK, MembersOf, LiveOf, ActOf, LiveSetOf
<1>5. /\ Cardinality(MembersOf(status', tgOf', tg))
           = Cardinality(MembersOf(status, tgOf, tg)) + 1
      /\ Cardinality(LiveOf(status', tgOf', tg))
           = Cardinality(LiveOf(status, tgOf, tg)) + 1
      /\ Cardinality(ActOf(status', tgOf', tg))
           = Cardinality(ActOf(status, tgOf, tg)) + 1
      /\ Cardinality(LiveSetOf(status')) = Cardinality(LiveSetOf(status)) + 1
  <2>1. /\ t \notin LiveOf(status, tgOf, tg)
        /\ t \notin ActOf(status, tgOf, tg)
    BY <1>4 DEF LiveOf, ActOf
  <2>2. QED
    BY <1>4, <2>1, CardPlus DEF MembersOf, LiveOf, ActOf, LiveSetOf
<1>6. Counts'
  BY <1>2, <1>4, <1>5, CountsOfMatch DEF Counts, CountsOf, TypeOK
<1>7. TypeOK'
  <2>1. /\ tasksCount' \in [TGs -> Nat]
        /\ tgLive' \in [TGs -> Nat]
        /\ tgActive' \in [TGs -> Nat]
        /\ liveTasks' \in Nat
    BY <1>2 DEF TypeOK
  <2>2. /\ tasksMap' \in [NSs -> [TIDs -> Tasks \cup {NoTask}]]
        /\ tids' \in [NSs -> [Tasks -> 0..MaxTID]]
        /\ last' \in [NSs -> 0..MaxTID]
        /\ status' \in [Tasks -> Statuses]
        /\ tgOf' \in [Tasks -> TGs \cup {NoTG}]
        /\ tgNS' \in [TGs -> NSs \cup {NoNS}]
    BY <1>1 DEF BimapInv, MapsOK
  <2>3. \A a \in anc : tid[a] \in 0..MaxTID
    BY <1>3, AssignedTIDFree DEF FreeTIDs, TIDs
  <2>4. ns \in anc
    BY AncestorsRefl
  <2>5. tgids' \in [NSs -> [TGs -> 0..MaxTID]]
    BY <1>3, <2>3 DEF TypeOK
  <2>6. leader' \in [TGs -> Tasks \cup {NoTask}]
    BY <1>3 DEF TypeOK
  <2>7. pidWithinNS' \in [TGs -> 0..MaxTID]
    BY <1>3, <2>3, <2>4 DEF TypeOK
  <2>8. QED
    BY <1>2, <2>1, <2>2, <2>5, <2>6, <2>7 DEF TypeOK
<1>8. BornHasGroup'
  BY <1>2 DEF BornHasGroup, TypeOK
<1>9. QED
  BY <1>1, <1>6, <1>7, <1>8, MatchOfCounts

\* CounterInv is inductive.
LEMMA NextCounter == CounterInv /\ [Next]_vars => CounterInv'
<1> SUFFICES ASSUME CounterInv, [Next]_vars PROVE CounterInv'
  OBVIOUS
<1>1. CASE \E t \in Tasks, tg \in TGs, ns \in NSs : NewTask(t, tg, ns)
  BY <1>1, NewTaskCounter
<1>2. CASE \E t \in Tasks : ExitInitiated(t)
  BY <1>2, ExitInitiatedCounter
<1>3. CASE \E t \in Tasks : ExitZombie(t)
  BY <1>3, ExitZombieCounter
<1>4. CASE \E t \in Tasks : Reap(t)
  BY <1>4, ReapCounter
<1>5. QED
  BY <1>1, <1>2, <1>3, <1>4, OtherCounter DEF Next

LEMMA CounterInvHolds == Spec => []CounterInv
BY InitCounter, NextCounter, PTL DEF Spec

-----------------------------------------------------------------------------
(* Theorems.                                                               *)

\* CountersMatch (spec 3, invariant 3) holds in every reachable state: the
\* tasksCount, liveTasks and activeTasks counters that newTask, the exit
\* transitions and releaseLocked update by hand equal the sets of tasks they
\* stand for, and activeTasks <= liveTasks <= tasksCount.
THEOREM CountersMatchHolds == Spec => []CountersMatch
BY CounterInvHolds, PTL DEF CounterInv

\* The type invariant of the TaskSet model holds in every reachable state:
\* in particular the counters never go negative and every TID, ns.last and
\* tg.pidWithinNS value lies in 0..TasksLimit.
THEOREM PIDTypeCorrect == Spec => []TypeOK
BY CounterInvHolds, PTL DEF CounterInv

\* The TaskSet's live count in terms of the set it counts.
LEMMA LiveTasksIsLiveSet ==
  ASSUME CounterInv
  PROVE  /\ liveTasks = Cardinality(LiveSetOf(status))
         /\ IsFiniteSet(LiveSetOf(status))
BY TaskSetFinite DEF CounterInv, CountersMatch, LiveSetOf

\* An exiting task is live, so while one exists liveTasks is positive.
LEMMA ExitingIsLive ==
  ASSUME CounterInv, NEW t \in Tasks, status[t] = "Exiting"
  PROVE  liveTasks > 0
<1>1. t \in LiveSetOf(status)
  BY DEF LiveSetOf
<1>2. QED
  BY <1>1, LiveTasksIsLiveSet, FS_EmptySet, TaskSetFinite DEF LiveSetOf

=============================================================================
