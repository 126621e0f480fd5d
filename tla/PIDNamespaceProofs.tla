------------------------- MODULE PIDNamespaceProofs --------------------------
(***************************************************************************)
(* Proofs, for every set of tasks, thread groups and namespaces and every  *)
(* TID limit, that the PID namespace maps stay consistent bimaps.          *)
(***************************************************************************)
EXTENDS PIDNamespace, TLAPS

\* The part of the type invariant the bimap argument rests on; unlike the
\* counters, these variables keep their types without any other invariant.
MapsOK ==
    /\ tasksMap \in [NSs -> [TIDs -> Tasks \cup {NoTask}]]
    /\ tids \in [NSs -> [Tasks -> 0..MaxTID]]
    /\ last \in [NSs -> 0..MaxTID]
    /\ status \in [Tasks -> Statuses]
    /\ tgOf \in [Tasks -> TGs \cup {NoTG}]
    /\ tgNS \in [TGs -> NSs \cup {NoNS}]

\* A task that has not been created has no TID in any namespace.
UnbornInvisible ==
    \A t \in Tasks, ns \in NSs : status[t] = "Unborn" => tids[ns][t] = 0

\* The inductive invariant behind BimapConsistent.
BimapInv == MapsOK /\ BimapConsistent /\ UnbornInvisible

\* Every TID handed out by an assignment is free in its namespace.
LEMMA AssignedTIDFree ==
  ASSUME NEW anc, NEW tid \in TIDAssignments(anc), NEW a \in anc
  PROVE  tid[a] \in FreeTIDs(a)
BY DEF TIDAssignments, TIDCandidates

\* The ancestors of a namespace are namespaces.
LEMMA AncestorsType ==
  ASSUME NEW ns \in NSs
  PROVE  Ancestors(ns) \subseteq NSs
BY Zenon DEF Ancestors

\* A namespace is among its own ancestors: a task's TID is assigned in the
\* namespace it is created in.
LEMMA AncestorsRefl ==
  ASSUME NEW ns
  PROVE  ns \in Ancestors(ns)
BY Zenon DEF Ancestors

\* The initial state: every map is empty.
LEMMA BimapInit == Init => BimapInv
BY PIDAssumption DEF Init, BimapInv, MapsOK, BimapConsistent, UnbornInvisible,
                     TaskWithID, IDOfTask, TIDs, Statuses

\* NewTask gives t a free TID in each namespace of anc, and t had none.
LEMMA NewTaskKeepsBimap ==
  ASSUME BimapInv, NEW t \in Tasks, NEW tg \in TGs, NEW ns \in NSs,
         NewTask(t, tg, ns)
  PROVE  BimapInv'
<1> DEFINE anc == Ancestors(ns)
<1>1. PICK tid \in TIDAssignments(anc) :
         /\ tasksMap' = [a \in NSs |-> IF a \in anc
                                        THEN [tasksMap[a] EXCEPT ![tid[a]] = t]
                                        ELSE tasksMap[a]]
         /\ tids' = [a \in NSs |-> IF a \in anc
                                   THEN [tids[a] EXCEPT ![t] = tid[a]]
                                   ELSE tids[a]]
         /\ last' = [a \in NSs |-> IF a \in anc THEN tid[a] ELSE last[a]]
  BY DEF NewTask
<1>2. \A a \in anc : tid[a] \in TIDs /\ tasksMap[a][tid[a]] = NoTask
  BY <1>1, AssignedTIDFree DEF FreeTIDs
<1>3. anc \subseteq NSs
  BY AncestorsType
<1>4. status[t] = "Unborn" /\ status' = [status EXCEPT ![t] = "Active"]
      /\ tgOf' = [tgOf EXCEPT ![t] = tg] /\ tgNS' = [tgNS EXCEPT ![tg] = ns]
  BY DEF NewTask
<1>5. \A a \in NSs : tids[a][t] = 0
  BY <1>4 DEF BimapInv, UnbornInvisible
<1>6. MapsOK'
  <2> USE DEF BimapInv, MapsOK
  <2>1. tasksMap' \in [NSs -> [TIDs -> Tasks \cup {NoTask}]]
    BY <1>1, <1>2
  <2>2. tids' \in [NSs -> [Tasks -> 0..MaxTID]]
    BY <1>1, <1>2 DEF TIDs
  <2>3. last' \in [NSs -> 0..MaxTID]
    BY <1>1, <1>2 DEF TIDs
  <2>4. status' \in [Tasks -> Statuses]
    BY <1>4 DEF Statuses
  <2>5. tgOf' \in [Tasks -> TGs \cup {NoTG}] /\ tgNS' \in [TGs -> NSs \cup {NoNS}]
    BY <1>4
  <2>6. QED
    BY <2>1, <2>2, <2>3, <2>4, <2>5
<1>7. BimapConsistent'
  <2> SUFFICES ASSUME NEW a \in NSs
               PROVE  /\ \A u \in Tasks : tids'[a][u] # 0 =>
                                            tasksMap'[a][tids'[a][u]] = u
                      /\ \A i \in TIDs : tasksMap'[a][i] # NoTask =>
                                            tids'[a][tasksMap'[a][i]] = i
    BY <1>6 DEF BimapConsistent, TaskWithID, IDOfTask, BimapInv, MapsOK, TIDs
  <2> USE DEF BimapInv, MapsOK, TIDs
  <2>1. CASE a \in anc
    <3>1. \A u \in Tasks : tids[a][u] # 0 => tasksMap[a][tids[a][u]] = u
      BY DEF BimapConsistent, TaskWithID, IDOfTask
    <3>2. \A i \in TIDs : tasksMap[a][i] # NoTask => tids[a][tasksMap[a][i]] = i
      BY DEF BimapConsistent, TaskWithID, IDOfTask
    <3>3. tasksMap'[a] = [tasksMap[a] EXCEPT ![tid[a]] = t]
          /\ tids'[a] = [tids[a] EXCEPT ![t] = tid[a]]
      BY <1>1, <2>1
    <3>4. tid[a] \in TIDs /\ tasksMap[a][tid[a]] = NoTask /\ tids[a][t] = 0
      BY <1>2, <1>5, <2>1
    <3>5. \A u \in Tasks : tids'[a][u] # 0 => tasksMap'[a][tids'[a][u]] = u
      BY <3>1, <3>3, <3>4, PIDAssumption DEF TIDs
    <3>6. \A i \in TIDs : tasksMap'[a][i] # NoTask => tids'[a][tasksMap'[a][i]] = i
      BY <3>2, <3>3, <3>4, PIDAssumption DEF TIDs
    <3>7. QED
      BY <3>5, <3>6
  <2>2. CASE a \notin anc
    BY <1>1, <2>2 DEF BimapConsistent, TaskWithID, IDOfTask
  <2>3. QED
    BY <2>1, <2>2
<1>8. UnbornInvisible'
  <2> SUFFICES ASSUME NEW u \in Tasks, NEW a \in NSs, status'[u] = "Unborn"
               PROVE  tids'[a][u] = 0
    BY DEF UnbornInvisible
  <2>1. u # t /\ status[u] = "Unborn"
    BY <1>4 DEF BimapInv, MapsOK
  <2>2. tids[a][u] = 0
    BY <2>1 DEF BimapInv, UnbornInvisible
  <2>3. QED
    BY <1>1, <2>1, <2>2 DEF BimapInv, MapsOK
<1>9. QED
  BY <1>6, <1>7, <1>8 DEF BimapInv

\* Reap removes t's entry, and only t's, from both maps of each namespace.
LEMMA ReapKeepsBimap ==
  ASSUME BimapInv, NEW t \in Tasks, Reap(t)
  PROVE  BimapInv'
<1> DEFINE anc == ReapTargets(t)
<1> USE PIDAssumption DEF BimapInv, MapsOK, TIDs
<1>1. /\ tasksMap' = [a \in NSs |-> IF a \in anc
                                    THEN [tasksMap[a] EXCEPT ![tids[a][t]] = NoTask]
                                    ELSE tasksMap[a]]
      /\ tids' = [a \in NSs |-> IF a \in anc THEN [tids[a] EXCEPT ![t] = 0]
                                             ELSE tids[a]]
      /\ status' = [status EXCEPT ![t] = "Reaped"]
      /\ UNCHANGED <<last, tgOf, tgNS>>
  BY DEF Reap
<1>2. MapsOK'
  <2>1. tasksMap' \in [NSs -> [TIDs -> Tasks \cup {NoTask}]]
    BY <1>1
  <2>2. tids' \in [NSs -> [Tasks -> 0..MaxTID]]
    BY <1>1
  <2>3. status' \in [Tasks -> Statuses]
    BY <1>1 DEF Statuses
  <2>4. QED
    BY <1>1, <2>1, <2>2, <2>3
<1>3. BimapConsistent'
  <2> SUFFICES ASSUME NEW a \in NSs
               PROVE  /\ \A u \in Tasks : tids'[a][u] # 0 =>
                                            tasksMap'[a][tids'[a][u]] = u
                      /\ \A i \in TIDs : tasksMap'[a][i] # NoTask =>
                                            tids'[a][tasksMap'[a][i]] = i
    BY <1>2 DEF BimapConsistent, TaskWithID, IDOfTask
  <2>1. \A u \in Tasks : tids[a][u] # 0 => tasksMap[a][tids[a][u]] = u
    BY DEF BimapConsistent, TaskWithID, IDOfTask
  <2>2. \A i \in TIDs : tasksMap[a][i] # NoTask => tids[a][tasksMap[a][i]] = i
    BY DEF BimapConsistent, TaskWithID, IDOfTask
  <2>3. CASE a \in anc
    <3>1. tasksMap'[a] = [tasksMap[a] EXCEPT ![tids[a][t]] = NoTask]
          /\ tids'[a] = [tids[a] EXCEPT ![t] = 0]
      BY <1>1, <2>3
    <3>2. \A u \in Tasks : tids'[a][u] # 0 => tasksMap'[a][tids'[a][u]] = u
      BY <2>1, <3>1
    <3>3. ASSUME NEW i \in TIDs, tasksMap'[a][i] # NoTask
          PROVE  tids'[a][tasksMap'[a][i]] = i
      <4>1. i # tids[a][t] /\ tasksMap'[a][i] = tasksMap[a][i]
        BY <3>1, <3>3
      <4>2. tasksMap[a][i] # t
        BY <2>2, <4>1
      <4>3. tids[a][tasksMap[a][i]] = i
        BY <2>2, <3>3, <4>1
      <4>4. QED
        BY <3>1, <4>1, <4>2, <4>3
    <3>4. QED
      BY <3>2, <3>3
  <2>4. CASE a \notin anc
    BY <1>1, <2>1, <2>2, <2>4
  <2>5. QED
    BY <2>3, <2>4
<1>4. UnbornInvisible'
  <2>1. status[t] = "Zombie"
    BY DEF Reap
  <2>2. QED
    BY <1>1, <2>1 DEF UnbornInvisible
<1>5. QED
  BY <1>2, <1>3, <1>4

\* The remaining steps leave both maps alone and never make a task unborn.
LEMMA OtherStepsKeepBimap ==
  ASSUME BimapInv,
         \/ \E ns, child \in NSs : NewChild(ns, child)
         \/ \E t \in Tasks : ExitInitiated(t) \/ ExitZombie(t)
         \/ SetNoNewTasksIfZeroLive
         \/ UNCHANGED vars
  PROVE  BimapInv'
<1>1. /\ UNCHANGED <<tasksMap, tids, last, tgOf, tgNS>>
      /\ status' \in [Tasks -> Statuses]
      /\ \A u \in Tasks : status'[u] = "Unborn" => status[u] = "Unborn"
  BY DEF NewChild, ExitInitiated, ExitZombie, SetNoNewTasksIfZeroLive, vars,
         BimapInv, MapsOK, Statuses
<1>2. QED
  BY <1>1 DEF BimapInv, MapsOK, BimapConsistent, UnbornInvisible, TaskWithID,
              IDOfTask

LEMMA BimapNext == BimapInv /\ [Next]_vars => BimapInv'
<1> SUFFICES ASSUME BimapInv, [Next]_vars PROVE BimapInv'
  OBVIOUS
<1>1. CASE \E t \in Tasks, tg \in TGs, ns \in NSs : NewTask(t, tg, ns)
  BY <1>1, NewTaskKeepsBimap
<1>2. CASE \E t \in Tasks : Reap(t)
  BY <1>2, ReapKeepsBimap
<1>3. QED
  BY <1>1, <1>2, OtherStepsKeepBimap DEF Next

\* BimapConsistent (spec 8.1) holds in every reachable state: in every
\* namespace, TaskWithID and IDOfTask are inverse through every admission
\* (TaskSet.newTask) and every reaping, across TID reuse and wrap-around.
THEOREM BimapConsistentHolds == Spec => []BimapConsistent
<1>1. Init => BimapInv
  BY BimapInit
<1>2. BimapInv => BimapConsistent
  BY DEF BimapInv
<1>3. QED
  BY <1>1, <1>2, BimapNext, PTL DEF Spec

=============================================================================
