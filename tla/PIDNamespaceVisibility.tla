------------------------ MODULE PIDNamespaceVisibility ------------------------
(***************************************************************************)
(* Proofs, for every finite set of tasks and any namespace tree, that a    *)
(* task is visible exactly in its thread group's namespace and that        *)
(* namespace's ancestors.                                                  *)
(***************************************************************************)
EXTENDS PIDNamespaceCounters

\* The parent of a namespace is a namespace that exists, or nil.
ParentCreated == \A u \in NSs : parent[u] \in created \cup {NoNS}

\* A task that has been created belongs to a group in an existing namespace.
BornInCreated ==
    \A t \in Tasks : status[t] # "Unborn" => tgNS[tgOf[t]] \in created

\* The inductive invariant behind VisibilityExact.
VisInv == CounterInv /\ ParentCreated /\ BornInCreated /\ VisibilityExact

-----------------------------------------------------------------------------
(* Parent chains.                                                          *)

\* A new namespace child is on no parent chain that starts at an existing
\* namespace, since no namespace has it as its parent; so the chains from
\* an existing namespace, and its ancestors, are the same after NewChild.
LEMMA NewChildKeepsAncestors ==
  ASSUME TypeOK, ParentCreated, NEW ns \in NSs, NEW child \in NSs,
         NewChild(ns, child), NEW x \in created
  PROVE  Ancestors(x)' = Ancestors(x)
<1>1. /\ child \notin created
      /\ ns \in created
      /\ parent' = [parent EXCEPT ![child] = ns]
  BY DEF NewChild
<1>2. /\ \A u \in NSs : parent[u] # child /\ parent'[u] # child
      /\ \A u \in NSs \ {child} : parent'[u] = parent[u]
      /\ x # child
  BY <1>1, PIDAssumption DEF ParentCreated, TypeOK
<1>3. ASSUME NEW n \in Nat, NEW p \in [1..n -> NSs], p[1] = x
      PROVE  (\A i \in 1..(n - 1) : p[i + 1] = parent'[p[i]])
             <=> (\A i \in 1..(n - 1) : p[i + 1] = parent[p[i]])
  <2>1. ASSUME \A i \in 1..(n - 1) : p[i + 1] = parent'[p[i]]
        PROVE  \A i \in 1..n : p[i] # child
    <3> SUFFICES ASSUME NEW i \in 1..n PROVE p[i] # child
      OBVIOUS
    <3>1. CASE i = 1
      BY <1>2, <1>3, <3>1
    <3>2. CASE i > 1
      <4>1. p[i] = parent'[p[i - 1]] /\ p[i - 1] \in NSs
        BY <2>1, <3>2
      <4>2. QED
        BY <1>2, <4>1
    <3>3. QED
      BY <3>1, <3>2
  <2>2. ASSUME \A i \in 1..(n - 1) : p[i + 1] = parent[p[i]]
        PROVE  \A i \in 1..n : p[i] # child
    <3> SUFFICES ASSUME NEW i \in 1..n PROVE p[i] # child
      OBVIOUS
    <3>1. CASE i = 1
      BY <1>2, <1>3, <3>1
    <3>2. CASE i > 1
      <4>1. p[i] = parent[p[i - 1]] /\ p[i - 1] \in NSs
        BY <2>2, <3>2
      <4>2. QED
        BY <1>2, <4>1
    <3>3. QED
      BY <3>1, <3>2
  <2>3. QED
    BY <1>2, <2>1, <2>2
<1>4. \A n \in Nat : ParentChains(x, n)' = ParentChains(x, n)
  BY <1>3 DEF ParentChains
<1>5. QED
  BY <1>4 DEF Ancestors

\* Ancestors depends on the parent pointers only.
LEMMA AncestorsUnchanged ==
  ASSUME parent' = parent
  PROVE  \A x : Ancestors(x)' = Ancestors(x)
BY DEF Ancestors, ParentChains

-----------------------------------------------------------------------------
(* The inductive invariant, action by action.                              *)

LEMMA InitVis == Init => VisInv
<1> SUFFICES ASSUME Init PROVE VisInv
  OBVIOUS
<1>1. CounterInv
  BY InitCounter
<1>2. ParentCreated /\ BornInCreated
  BY DEF Init, ParentCreated, BornInCreated
<1>3. VisibilityExact
  BY DEF Init, VisibilityExact, IDOfTask
<1>4. QED
  BY <1>1, <1>2, <1>3 DEF VisInv

\* NewChild changes only the parent of a namespace no task is in.
LEMMA NewChildVis ==
  ASSUME VisInv, NEW ns \in NSs, NEW child \in NSs, NewChild(ns, child)
  PROVE  ParentCreated' /\ BornInCreated' /\ VisibilityExact'
<1> USE DEF VisInv, CounterInv
<1>1. /\ created' = created \cup {child}
      /\ parent' = [parent EXCEPT ![child] = ns]
      /\ ns \in created
      /\ UNCHANGED <<tids, tgOf, tgNS, status>>
  BY DEF NewChild
<1>2. ParentCreated'
  BY <1>1 DEF ParentCreated, TypeOK
<1>3. BornInCreated'
  BY <1>1 DEF BornInCreated
<1>4. \A t \in Tasks : status[t] # "Unborn" =>
         Ancestors(tgNS[tgOf[t]])' = Ancestors(tgNS[tgOf[t]])
  BY <1>1, NewChildKeepsAncestors DEF BornInCreated
<1>5. VisibilityExact'
  <2> SUFFICES ASSUME NEW t \in Tasks, NEW a \in NSs
               PROVE  (IDOfTask(a, t) # 0 <=>
                         /\ status[t] \notin {"Unborn", "Reaped"}
                         /\ a \in Ancestors(tgNS[tgOf[t]]))'
    BY DEF VisibilityExact
  <2>1. CASE status[t] = "Unborn"
    BY <1>1, <2>1 DEF VisibilityExact, IDOfTask
  <2>2. CASE status[t] # "Unborn"
    BY <1>1, <1>4, <2>2 DEF VisibilityExact, IDOfTask
  <2>3. QED
    BY <2>1, <2>2
<1>6. QED
  BY <1>2, <1>3, <1>5

\* TaskSet.newTask: t gets a TID in exactly the ancestors of ns, and the
\* group it joins is new or already in ns.
LEMMA NewTaskVis ==
  ASSUME VisInv, NEW t \in Tasks, NEW tg \in TGs, NEW ns \in NSs,
         NewTask(t, tg, ns)
  PROVE  ParentCreated' /\ BornInCreated' /\ VisibilityExact'
<1> DEFINE anc == Ancestors(ns)
<1> USE DEF VisInv, CounterInv
<1>1. PICK tid \in TIDAssignments(anc) :
         tids' = [a \in NSs |-> IF a \in anc
                                THEN [tids[a] EXCEPT ![t] = tid[a]]
                                ELSE tids[a]]
  BY DEF NewTask
<1>2. /\ status[t] = "Unborn"
      /\ ns \in created
      /\ tgNS[tg] = NoNS \/ tgNS[tg] = ns
      /\ tgNS' = [tgNS EXCEPT ![tg] = ns]
      /\ tgOf' = [tgOf EXCEPT ![t] = tg]
      /\ status' = [status EXCEPT ![t] = "Active"]
      /\ UNCHANGED <<created, parent>>
  BY DEF NewTask
<1>3. /\ anc \subseteq NSs
      /\ \A a \in anc : tid[a] \in TIDs
  BY <1>1, AncestorsType, AssignedTIDFree DEF FreeTIDs
<1>4. \A x : Ancestors(x)' = Ancestors(x)
  BY <1>2, AncestorsUnchanged
<1>5. \A u \in Tasks \ {t} : status[u] # "Unborn" =>
         tgNS'[tgOf'[u]] = tgNS[tgOf[u]]
  BY <1>2, PIDAssumption DEF BornInCreated, BornHasGroup, TypeOK
<1>6. ParentCreated' /\ BornInCreated'
  BY <1>2, <1>5 DEF ParentCreated, BornInCreated, TypeOK
<1>7. VisibilityExact'
  <2> SUFFICES ASSUME NEW u \in Tasks, NEW a \in NSs
               PROVE  (IDOfTask(a, u) # 0 <=>
                         /\ status[u] \notin {"Unborn", "Reaped"}
                         /\ a \in Ancestors(tgNS[tgOf[u]]))'
    BY DEF VisibilityExact
  <2>1. CASE u = t
    <3>1. tgNS'[tgOf'[u]] = ns /\ status'[u] = "Active"
      BY <1>2, <2>1 DEF TypeOK
    <3>2. tids[a][t] = 0
      BY <1>2 DEF VisibilityExact, IDOfTask
    <3>3. tids'[a][u] = IF a \in anc THEN tid[a] ELSE 0
      BY <1>1, <2>1, <3>2 DEF TypeOK
    <3>4. QED
      BY <1>3, <1>4, <3>1, <3>3 DEF IDOfTask, TIDs
  <2>2. CASE u # t
    <3>1. /\ tids'[a][u] = tids[a][u]
          /\ status'[u] = status[u]
      BY <1>1, <1>2, <2>2 DEF TypeOK
    <3>2. CASE status[u] = "Unborn"
      BY <3>1, <3>2 DEF VisibilityExact, IDOfTask
    <3>3. CASE status[u] # "Unborn"
      BY <1>4, <1>5, <2>2, <3>1, <3>3 DEF VisibilityExact, IDOfTask
    <3>4. QED
      BY <3>2, <3>3
  <2>3. QED
    BY <2>1, <2>2
<1>8. QED
  BY <1>6, <1>7

\* releaseLocked: t leaves ns.tids in exactly the namespaces it was visible
\* in, its group's namespace and that namespace's ancestors.
LEMMA ReapVis ==
  ASSUME VisInv, NEW t \in Tasks, Reap(t)
  PROVE  ParentCreated' /\ BornInCreated' /\ VisibilityExact'
<1> DEFINE anc == ReapTargets(t)
<1> USE DEF VisInv, CounterInv
<1>1. /\ status[t] = "Zombie"
      /\ status' = [status EXCEPT ![t] = "Reaped"]
      /\ tids' = [a \in NSs |-> IF a \in anc THEN [tids[a] EXCEPT ![t] = 0]
                                            ELSE tids[a]]
      /\ UNCHANGED <<created, parent, tgOf, tgNS>>
  BY DEF Reap
<1>2. \A x : Ancestors(x)' = Ancestors(x)
  BY <1>1, AncestorsUnchanged
<1>3. ParentCreated' /\ BornInCreated'
  BY <1>1 DEF ParentCreated, BornInCreated, TypeOK
<1>4. VisibilityExact'
  <2> SUFFICES ASSUME NEW u \in Tasks, NEW a \in NSs
               PROVE  (IDOfTask(a, u) # 0 <=>
                         /\ status[u] \notin {"Unborn", "Reaped"}
                         /\ a \in Ancestors(tgNS[tgOf[u]]))'
    BY DEF VisibilityExact
  <2>1. CASE u = t
    <3>1. a \notin anc => tids[a][t] = 0
      BY <1>1 DEF VisibilityExact, IDOfTask, ReapTargets
    <3>2. tids'[a][u] = 0 /\ status'[u] = "Reaped"
      BY <1>1, <2>1, <3>1 DEF TypeOK
    <3>3. QED
      BY <3>2 DEF IDOfTask
  <2>2. CASE u # t
    <3>1. /\ tids'[a][u] = tids[a][u]
          /\ status'[u] = status[u]
      BY <1>1, <2>2 DEF TypeOK
    <3>2. QED
      BY <1>1, <1>2, <3>1 DEF VisibilityExact, IDOfTask
  <2>3. QED
    BY <2>1, <2>2
<1>5. QED
  BY <1>3, <1>4

\* The exit transitions move a task between live states and leave the maps.
LEMMA ExitVis ==
  ASSUME VisInv, NEW t \in Tasks, ExitInitiated(t) \/ ExitZombie(t)
  PROVE  ParentCreated' /\ BornInCreated' /\ VisibilityExact'
<1> USE DEF VisInv, CounterInv
<1>1. /\ status[t] \in {"Active", "Exiting"}
      /\ status' = [status EXCEPT ![t] = IF status[t] = "Active" THEN "Exiting"
                                                                 ELSE "Zombie"]
      /\ UNCHANGED <<created, parent, tids, tgOf, tgNS>>
  BY DEF ExitInitiated, ExitZombie
<1>2. \A x : Ancestors(x)' = Ancestors(x)
  BY <1>1, AncestorsUnchanged
<1>3. \A u \in Tasks : /\ status'[u] \notin {"Unborn", "Reaped"}
                             <=> status[u] \notin {"Unborn", "Reaped"}
                      /\ status'[u] = "Unborn" <=> status[u] = "Unborn"
  BY <1>1 DEF TypeOK
<1>4. QED
  BY <1>1, <1>2, <1>3 DEF ParentCreated, BornInCreated, VisibilityExact,
                          IDOfTask

\* Closing admission and a stutter change nothing visibility depends on.
LEMMA OtherVis ==
  ASSUME VisInv, SetNoNewTasksIfZeroLive \/ UNCHANGED vars
  PROVE  ParentCreated' /\ BornInCreated' /\ VisibilityExact'
<1>1. UNCHANGED <<created, parent, tids, tgOf, tgNS, status>>
  BY DEF SetNoNewTasksIfZeroLive, vars
<1>2. \A x : Ancestors(x)' = Ancestors(x)
  BY <1>1, AncestorsUnchanged
<1>3. QED
  BY <1>1, <1>2 DEF VisInv, ParentCreated, BornInCreated, VisibilityExact,
                    IDOfTask

LEMMA NextVis == VisInv /\ [Next]_vars => VisInv'
<1> SUFFICES ASSUME VisInv, [Next]_vars PROVE VisInv'
  OBVIOUS
<1>1. CounterInv'
  BY NextCounter DEF VisInv
<1>2. ParentCreated' /\ BornInCreated' /\ VisibilityExact'
  <2>1. CASE \E ns, child \in NSs : NewChild(ns, child)
    BY <2>1, NewChildVis
  <2>2. CASE \E t \in Tasks, tg \in TGs, ns \in NSs : NewTask(t, tg, ns)
    BY <2>2, NewTaskVis
  <2>3. CASE \E t \in Tasks : ExitInitiated(t) \/ ExitZombie(t)
    BY <2>3, ExitVis
  <2>4. CASE \E t \in Tasks : Reap(t)
    BY <2>4, ReapVis
  <2>5. QED
    BY <2>1, <2>2, <2>3, <2>4, OtherVis DEF Next
<1>3. QED
  BY <1>1, <1>2 DEF VisInv

-----------------------------------------------------------------------------

\* VisibilityExact holds in every reachable state: newTask gives a task a
\* TID in its thread group's namespace and in every ancestor of it, reaping
\* removes it from exactly those, and a new child namespace changes no
\* existing namespace's ancestors; so a task is listed in ns.tids exactly
\* while it is created and unreaped, and exactly in those namespaces.
THEOREM VisibilityExactHolds == Spec => []VisibilityExact
<1>1. Init => VisInv
  BY InitVis
<1>2. QED
  BY <1>1, NextVis, PTL DEF Spec, VisInv

-----------------------------------------------------------------------------
(* Thread-group IDs.                                                       *)

\* A group exists once it has a namespace, and then it has a leader: a
\* created task of the group.
LeaderOK ==
    \A tg \in TGs :
        /\ tgNS[tg] = NoNS <=> leader[tg] = NoTask
        /\ leader[tg] # NoTask =>
              /\ leader[tg] \in Tasks
              /\ tgOf[leader[tg]] = tg
              /\ status[leader[tg]] # "Unborn"

\* ns.tgids and tg.pidWithinNS are the leader's TIDs: tgids[ns][tg] is
\* tids[ns][leader] in every namespace, and pidWithinNS is the leader's TID
\* in the group's own namespace (all 0 once the leader is reaped).
GroupTIDs ==
    \A tg \in TGs :
        /\ \A ns \in NSs : tgids[ns][tg] = IF leader[tg] = NoTask THEN 0
                                           ELSE tids[ns][leader[tg]]
        /\ pidWithinNS[tg] = IF leader[tg] = NoTask THEN 0
                             ELSE tids[tgNS[tg]][leader[tg]]

\* The inductive invariant behind ThreadGroupIDs.
GroupInv == VisInv /\ LeaderOK /\ GroupTIDs

\* Steps that leave every map a thread-group ID is read from.
LEMMA OtherGroup ==
  ASSUME GroupInv,
         \/ \E ns, child \in NSs : NewChild(ns, child)
         \/ \E t \in Tasks : ExitInitiated(t) \/ ExitZombie(t)
         \/ SetNoNewTasksIfZeroLive
         \/ UNCHANGED vars
  PROVE  LeaderOK' /\ GroupTIDs'
<1>1. /\ UNCHANGED <<tids, tgids, tgOf, tgNS, leader, pidWithinNS>>
      /\ \A u \in Tasks : status[u] # "Unborn" => status'[u] # "Unborn"
  BY DEF NewChild, ExitInitiated, ExitZombie, SetNoNewTasksIfZeroLive, vars,
         GroupInv, VisInv, CounterInv, TypeOK
<1>2. QED
  BY <1>1 DEF GroupInv, LeaderOK, GroupTIDs

\* TaskSet.newTask: a new group gets t as its leader and t's TIDs as its
\* own; a clone leaves its group's leader and IDs alone.
LEMMA NewTaskGroup ==
  ASSUME GroupInv, NEW t \in Tasks, NEW tg \in TGs, NEW ns \in NSs,
         NewTask(t, tg, ns)
  PROVE  LeaderOK' /\ GroupTIDs'
<1> DEFINE anc == Ancestors(ns)
          newTG == tgNS[tg] = NoNS
<1> USE DEF GroupInv, VisInv, CounterInv
<1>1. PICK tid \in TIDAssignments(anc) :
         /\ tids' = [a \in NSs |-> IF a \in anc
                                   THEN [tids[a] EXCEPT ![t] = tid[a]]
                                   ELSE tids[a]]
         /\ tgids' = IF newTG
                     THEN [a \in NSs |-> IF a \in anc
                                         THEN [tgids[a] EXCEPT ![tg] = tid[a]]
                                         ELSE tgids[a]]
                     ELSE tgids
         /\ leader' = IF newTG THEN [leader EXCEPT ![tg] = t] ELSE leader
         /\ pidWithinNS' = IF newTG THEN [pidWithinNS EXCEPT ![tg] = tid[ns]]
                                    ELSE pidWithinNS
  BY DEF NewTask
<1>2. /\ status[t] = "Unborn"
      /\ newTG \/ tgNS[tg] = ns
      /\ tgNS' = [tgNS EXCEPT ![tg] = ns]
      /\ tgOf' = [tgOf EXCEPT ![t] = tg]
      /\ status' = [status EXCEPT ![t] = "Active"]
  BY DEF NewTask
<1>3. /\ anc \subseteq NSs
      /\ ns \in anc
      /\ \A a \in anc : tid[a] \in TIDs
  BY <1>1, AncestorsType, AncestorsRefl, AssignedTIDFree DEF FreeTIDs
<1>4. /\ \A a \in NSs : tids[a][t] = 0
      /\ \A g \in TGs : leader[g] # t
  BY <1>2, PIDAssumption DEF VisibilityExact, IDOfTask, LeaderOK
<1>5. \A a \in NSs, u \in Tasks \ {t} : tids'[a][u] = tids[a][u]
  BY <1>1 DEF TypeOK
<1>6. \A a \in NSs : tids'[a][t] = IF a \in anc THEN tid[a] ELSE 0
  BY <1>1, <1>4 DEF TypeOK
<1>7. LeaderOK'
  BY <1>1, <1>2, <1>4, PIDAssumption DEF LeaderOK, TypeOK
<1>8. GroupTIDs'
  <2> SUFFICES ASSUME NEW g \in TGs
               PROVE  /\ \A a \in NSs :
                           tgids'[a][g] = IF leader'[g] = NoTask THEN 0
                                          ELSE tids'[a][leader'[g]]
                      /\ pidWithinNS'[g] = IF leader'[g] = NoTask THEN 0
                                           ELSE tids'[tgNS'[g]][leader'[g]]
    BY DEF GroupTIDs
  <2>1. CASE newTG /\ g = tg
    <3>1. /\ leader[tg] = NoTask /\ pidWithinNS[tg] = 0
          /\ \A a \in NSs : tgids[a][tg] = 0
      BY <2>1 DEF LeaderOK, GroupTIDs
    <3>2. leader'[g] = t /\ t # NoTask
      BY <1>1, <2>1, PIDAssumption DEF TypeOK
    <3>3. \A a \in NSs : tgids'[a][tg] = tids'[a][t]
      BY <1>1, <1>6, <2>1, <3>1 DEF TypeOK
    <3>4. pidWithinNS'[tg] = tids'[tgNS'[tg]][t]
      BY <1>1, <1>2, <1>3, <1>6, <2>1 DEF TypeOK
    <3>5. QED
      BY <2>1, <3>2, <3>3, <3>4
  <2>2. CASE ~(newTG /\ g = tg)
    <3>1. /\ leader'[g] = leader[g] /\ pidWithinNS'[g] = pidWithinNS[g]
          /\ tgNS'[g] = tgNS[g]
          /\ \A a \in NSs : tgids'[a][g] = tgids[a][g]
      BY <1>1, <1>2, <2>2 DEF TypeOK
    <3>2. leader[g] # NoTask => /\ leader[g] \in Tasks \ {t}
                                /\ tgNS[g] \in NSs
      BY <1>4, PIDAssumption DEF LeaderOK, BornInCreated, TypeOK
    <3>3. CASE leader[g] = NoTask
      BY <3>1, <3>3 DEF GroupTIDs
    <3>4. CASE leader[g] # NoTask
      <4>1. \A a \in NSs : tids'[a][leader[g]] = tids[a][leader[g]]
        BY <1>5, <3>2, <3>4
      <4>2. QED
        BY <3>1, <3>2, <3>4, <4>1 DEF GroupTIDs
    <3>5. QED
      BY <3>3, <3>4
  <2>3. QED
    BY <2>1, <2>2
<1>9. QED
  BY <1>7, <1>8

\* releaseLocked: reaping a leader removes its group's TIDs from exactly
\* the namespaces the leader leaves and zeroes pidWithinNS; reaping any
\* other task leaves every group's IDs alone.
LEMMA ReapGroup ==
  ASSUME GroupInv, NEW t \in Tasks, Reap(t)
  PROVE  LeaderOK' /\ GroupTIDs'
<1> DEFINE tg == tgOf[t]
          anc == ReapTargets(t)
<1> USE DEF GroupInv, VisInv, CounterInv
<1>1. /\ status[t] = "Zombie"
      /\ status' = [status EXCEPT ![t] = "Reaped"]
      /\ tids' = [a \in NSs |-> IF a \in anc THEN [tids[a] EXCEPT ![t] = 0]
                                            ELSE tids[a]]
      /\ tgids' = ReleasedTGIDs(t)
      /\ pidWithinNS' = IF t = leader[tg] THEN [pidWithinNS EXCEPT ![tg] = 0]
                                          ELSE pidWithinNS
      /\ UNCHANGED <<tgOf, tgNS, leader>>
  BY DEF Reap
<1>2. /\ tg \in TGs
      /\ tgNS[tg] \in NSs
      /\ anc \subseteq NSs
      /\ tgNS[tg] \in anc
  BY <1>1, AncestorsType, AncestorsRefl
     DEF BornHasGroup, BornInCreated, TypeOK, ReapTargets
<1>3. \A a \in NSs \ anc : tids[a][t] = 0
  BY <1>1 DEF VisibilityExact, IDOfTask, ReapTargets
<1>4. /\ \A a \in NSs : tids'[a][t] = 0
      /\ \A a \in NSs, u \in Tasks \ {t} : tids'[a][u] = tids[a][u]
  BY <1>1, <1>3 DEF TypeOK
<1>5. LeaderOK'
  BY <1>1 DEF LeaderOK, TypeOK
<1>6. GroupTIDs'
  <2> SUFFICES ASSUME NEW g \in TGs
               PROVE  /\ \A a \in NSs :
                           tgids'[a][g] = IF leader'[g] = NoTask THEN 0
                                          ELSE tids'[a][leader'[g]]
                      /\ pidWithinNS'[g] = IF leader'[g] = NoTask THEN 0
                                           ELSE tids'[tgNS'[g]][leader'[g]]
    BY DEF GroupTIDs
  <2>1. CASE g = tg /\ t = leader[tg]
    <3>1. \A a \in NSs : tgids'[a][g] = 0
      <4>1. \A a \in NSs : tgids'[a][g] = IF a \in anc THEN 0 ELSE tgids[a][g]
        BY <1>1, <2>1 DEF ReleasedTGIDs, TypeOK
      <4>2. \A a \in NSs \ anc : tgids[a][g] = 0
        BY <1>3, <2>1, PIDAssumption DEF GroupTIDs
      <4>3. QED
        BY <4>1, <4>2
    <3>2. pidWithinNS'[g] = 0
      BY <1>1, <2>1 DEF TypeOK
    <3>3. QED
      BY <1>1, <1>2, <1>4, <2>1, <3>1, <3>2
  <2>2. CASE ~(g = tg /\ t = leader[tg])
    <3>1. leader[g] # t
      BY <2>2, PIDAssumption, Zenon DEF LeaderOK
    <3>2. /\ \A a \in NSs : tgids'[a][g] = tgids[a][g]
          /\ pidWithinNS'[g] = pidWithinNS[g]
      BY <1>1, <2>2 DEF ReleasedTGIDs, TypeOK
    <3>3. leader[g] # NoTask => /\ leader[g] \in Tasks \ {t}
                                /\ tgNS[g] \in NSs
      BY <3>1, PIDAssumption DEF LeaderOK, BornInCreated, TypeOK
    <3>4. CASE leader[g] = NoTask
      BY <1>1, <3>2, <3>4 DEF GroupTIDs
    <3>5. CASE leader[g] # NoTask
      <4>1. \A a \in NSs : tids'[a][leader[g]] = tids[a][leader[g]]
        BY <1>4, <3>3, <3>5
      <4>2. QED
        BY <1>1, <3>2, <3>3, <3>5, <4>1 DEF GroupTIDs
    <3>6. QED
      BY <3>4, <3>5
  <2>3. QED
    BY <2>1, <2>2
<1>7. QED
  BY <1>5, <1>6

LEMMA InitGroup == Init => GroupInv
<1> SUFFICES ASSUME Init PROVE GroupInv
  OBVIOUS
<1>1. VisInv
  BY InitVis
<1>2. LeaderOK /\ GroupTIDs
  BY DEF Init, LeaderOK, GroupTIDs
<1>3. QED
  BY <1>1, <1>2 DEF GroupInv

LEMMA NextGroup == GroupInv /\ [Next]_vars => GroupInv'
<1> SUFFICES ASSUME GroupInv, [Next]_vars PROVE GroupInv'
  OBVIOUS
<1>1. VisInv'
  BY NextVis DEF GroupInv
<1>2. LeaderOK' /\ GroupTIDs'
  <2>1. CASE \E t \in Tasks, tg \in TGs, ns \in NSs : NewTask(t, tg, ns)
    BY <2>1, NewTaskGroup
  <2>2. CASE \E t \in Tasks : Reap(t)
    BY <2>2, ReapGroup
  <2>3. CASE \/ \E ns, child \in NSs : NewChild(ns, child)
             \/ \E t \in Tasks : ExitInitiated(t) \/ ExitZombie(t)
             \/ SetNoNewTasksIfZeroLive
             \/ UNCHANGED vars
    BY <2>3, OtherGroup
  <2>4. QED
    BY <2>1, <2>2, <2>3 DEF Next
<1>3. QED
  BY <1>1, <1>2 DEF GroupInv

\* The lookups read ThreadGroupIDs off GroupInv: a visible group's TID is
\* its leader's, which the bimap sends back to the leader and so to the
\* group; tg.ID() is the leader's TID in tg.pidns until the leader is
\* reaped, and then the leader is visible nowhere.
LEMMA GroupIDsFromInv == GroupInv => ThreadGroupIDs
<1> SUFFICES ASSUME GroupInv PROVE ThreadGroupIDs
  OBVIOUS
<1> USE DEF GroupInv, VisInv, CounterInv
<1>1. ASSUME NEW ns \in NSs, NEW tg \in ThreadGroupsIn(ns)
      PROVE  /\ IDOfThreadGroup(ns, tg) = IDOfTask(ns, leader[tg])
             /\ ThreadGroupWithID(ns, IDOfThreadGroup(ns, tg)) = tg
  <2>1. /\ tg \in TGs
        /\ tgids[ns][tg] # 0
    BY DEF ThreadGroupsIn
  <2>2. /\ leader[tg] # NoTask
        /\ tgids[ns][tg] = tids[ns][leader[tg]]
    BY <2>1 DEF GroupTIDs
  <2>3. /\ leader[tg] \in Tasks
        /\ tgOf[leader[tg]] = tg
    BY <2>1, <2>2 DEF LeaderOK
  <2>4. tgids[ns][tg] \in TIDs
    BY <2>1 DEF TypeOK, TIDs
  <2>5. TaskWithID(ns, tgids[ns][tg]) = leader[tg]
    BY <2>1, <2>2, <2>3 DEF BimapInv, BimapConsistent, IDOfTask
  <2>6. QED
    BY <2>2, <2>3, <2>5, PIDAssumption
       DEF IDOfThreadGroup, IDOfTask, ThreadGroupWithID
<1>2. ASSUME NEW tg \in TGs
      PROVE  ID(tg) = IF leader[tg] \in Members(tg)
                      THEN IDOfThreadGroup(tgNS[tg], tg) ELSE 0
  <2>1. CASE leader[tg] = NoTask
    BY <2>1, PIDAssumption DEF GroupTIDs, ID, Members
  <2>2. CASE leader[tg] # NoTask
    <3>1. /\ leader[tg] \in Tasks
          /\ tgOf[leader[tg]] = tg
          /\ status[leader[tg]] # "Unborn"
          /\ tgNS[tg] \in NSs
      BY <2>2 DEF LeaderOK, BornInCreated, TypeOK
    <3>2. pidWithinNS[tg] = tids[tgNS[tg]][leader[tg]]
      BY <2>2, <3>1 DEF GroupTIDs
    <3>3. tgids[tgNS[tg]][tg] = tids[tgNS[tg]][leader[tg]]
      BY <2>2, <3>1 DEF GroupTIDs
    <3>4. leader[tg] \notin Members(tg) => tids[tgNS[tg]][leader[tg]] = 0
      BY <3>1 DEF Members, VisibilityExact, IDOfTask
    <3>5. QED
      BY <3>2, <3>3, <3>4 DEF ID, IDOfThreadGroup
  <2>3. QED
    BY <2>1, <2>2
<1>3. QED
  BY <1>1, <1>2 DEF ThreadGroupIDs

\* Spec 8.2 for every instance: ThreadGroupWithID and IDOfThreadGroup agree
\* with the group leader's TID in every namespace, and the lock-free
\* tg.ID() (pidWithinNS) agrees with them until the leader is reaped.
THEOREM ThreadGroupIDsHolds == Spec => []ThreadGroupIDs
<1>1. GroupInv => ThreadGroupIDs
  BY GroupIDsFromInv
<1>2. QED
  BY <1>1, InitGroup, NextGroup, PTL DEF Spec

=============================================================================
