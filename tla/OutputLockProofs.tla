-------------------------- MODULE OutputLockProofs --------------------------
(***************************************************************************)
(* For any finite set of processes, any staleness limit and any number of  *)
(* faults: the inductive invariant of OutputLock, and what it gives.       *)
(***************************************************************************)
EXTENDS OutputLock, FiniteSetTheorems, TLAPS

\* There are finitely many holders, before and after a step.
LEMMA HoldersFinite ==
    /\ IsFiniteSet(Holders) /\ Cardinality(Holders) \in Nat
    /\ IsFiniteSet(Holders') /\ Cardinality(Holders') \in Nat
<1>1. Holders \in SUBSET Proc /\ Holders' \in SUBSET Proc
  BY DEF Holders
<1>2. QED
  BY <1>1, ProcAssumption, FS_Subset, FS_CardinalityType

\* A process that neither becomes nor stops being a holder changes no holder.
LEMMA HoldersSame ==
  ASSUME TypeOK, NEW p \in Proc, NEW stage, Goto(p, stage),
         (pc[p] \in {"write", "run"}) <=> (stage \in {"write", "run"})
  PROVE  Holders' = Holders
BY DEF Holders, Goto, TypeOK

\* A process that goes anywhere else takes itself out of the holders.
LEMMA HoldersLose ==
  ASSUME TypeOK, NEW p \in Proc, NEW stage, Goto(p, stage),
         stage \notin {"write", "run"}
  PROVE  /\ Cardinality(Holders') <= Cardinality(Holders)
         /\ p \in Holders => Cardinality(Holders') = Cardinality(Holders) - 1
<1>1. Holders' = Holders \ {p}
  BY DEF Holders, Goto, TypeOK
<1>2. Cardinality(Holders \ {p}) =
        IF p \in Holders THEN Cardinality(Holders) - 1 ELSE Cardinality(Holders)
  BY HoldersFinite, FS_RemoveElement
<1>3. QED
  BY <1>1, <1>2, HoldersFinite

\* A process that creates the file adds itself, and nobody else.
LEMMA HoldersGain ==
  ASSUME TypeOK, NEW p \in Proc, Goto(p, "write")
  PROVE  Cardinality(Holders') <= Cardinality(Holders) + 1
<1>1. Holders' = Holders \cup {p}
  BY DEF Holders, Goto, TypeOK
<1>2. Cardinality(Holders \cup {p}) =
        IF p \in Holders THEN Cardinality(Holders) ELSE Cardinality(Holders) + 1
  BY HoldersFinite, FS_AddElement
<1>3. QED
  BY <1>1, <1>2, HoldersFinite

-----------------------------------------------------------------------------
LEMMA InitIInv == Init => IInv
<1> SUFFICES ASSUME Init PROVE IInv
  OBVIOUS
<1>1. TypeOK
  BY StaleAssumption, BoundAssumption DEF Init, TypeOK, NoLock, Ages, Stages
<1>2. HeldWhileRunning
  BY DEF Init, HeldWhileRunning
<1>3. Holders = {}
  BY DEF Init, Holders
<1>4. HoldersBoundedByReclaims
  BY <1>3, FS_EmptySet, BoundAssumption
  DEF Init, HoldersBoundedByReclaims, LockFiles, Exists, NoLock
<1>5. QED
  BY <1>1, <1>2, <1>4 DEF IInv

\* Every step keeps the types.
LEMMA TypeStep == TypeOK /\ [Next]_vars => TypeOK'
<1> SUFFICES ASSUME TypeOK, [Next]_vars PROVE TypeOK'
  OBVIOUS
<1> USE DEF TypeOK, Goto, Stages
<1>1. ASSUME NEW p \in Proc, Start(p) PROVE TypeOK'
  BY <1>1 DEF Start
<1>2. ASSUME NEW p \in Proc, CheckExists(p) PROVE TypeOK'
  BY <1>2 DEF CheckExists
<1>3. ASSUME NEW p \in Proc, CheckStale(p) PROVE TypeOK'
  BY <1>3 DEF CheckStale
<1>4. ASSUME NEW p \in Proc, Unlink(p) PROVE TypeOK'
  BY <1>4, StaleAssumption, BoundAssumption DEF Unlink, NoLock, Ages
<1>5. ASSUME NEW p \in Proc, Create(p) PROVE TypeOK'
  BY <1>5, StaleAssumption DEF Create, Ages
<1>6. ASSUME NEW p \in Proc, Write(p) PROVE TypeOK'
  BY <1>6, StaleAssumption DEF Write, Ages
<1>7. ASSUME NEW p \in Proc, WriteFails(p) PROVE TypeOK'
  BY <1>7, BoundAssumption DEF WriteFails
<1>8. ASSUME NEW p \in Proc, Release(p) PROVE TypeOK'
  BY <1>8, StaleAssumption DEF Release, NoLock, Ages
<1>9. ASSUME NEW p \in Proc, Kill(p) PROVE TypeOK'
  BY <1>9, BoundAssumption DEF Kill
<1>10. CASE Tick
  BY <1>10, StaleAssumption DEF Tick, Ages
<1>11. CASE UNCHANGED vars
  BY <1>11 DEF vars
<1>12. QED
  BY <1>1, <1>2, <1>3, <1>4, <1>5, <1>6, <1>7, <1>8, <1>9, <1>10, <1>11
  DEF Next, Step

\* _held stays TRUE exactly for the processes between acquire() and release().
LEMMA HeldStep == TypeOK /\ HeldWhileRunning /\ [Next]_vars => HeldWhileRunning'
<1> SUFFICES ASSUME TypeOK, HeldWhileRunning, Next \/ UNCHANGED vars
             PROVE  HeldWhileRunning'
  OBVIOUS
<1> USE DEF TypeOK, HeldWhileRunning, Goto
<1>1. ASSUME NEW p \in Proc, Start(p) \/ Step(p) \/ WriteFails(p) \/ Kill(p)
      PROVE  HeldWhileRunning'
  BY <1>1 DEF Start, Step, CheckExists, CheckStale, Unlink, Create, Write,
              Release, WriteFails, Kill
<1>2. CASE Tick \/ UNCHANGED vars
  BY <1>2 DEF Tick, vars
<1>3. QED
  BY <1>1, <1>2 DEF Next

\* No step lets holders outnumber the lock file and the reclaims.
LEMMA BoundStep ==
  TypeOK /\ HeldWhileRunning /\ HoldersBoundedByReclaims /\ [Next]_vars
    => HoldersBoundedByReclaims'
<1> SUFFICES ASSUME TypeOK, HeldWhileRunning, HoldersBoundedByReclaims,
                    Next \/ UNCHANGED vars, reclaims' < MaxReclaims
             PROVE  Cardinality(Holders') <= LockFiles' + reclaims'
  BY DEF HoldersBoundedByReclaims
<1> DEFINE n == Cardinality(Holders)
<1> DEFINE m == Cardinality(Holders')
<1>t. n \in Nat /\ m \in Nat /\ reclaims \in Nat /\ reclaims' \in Nat
      /\ MaxReclaims \in Nat
  BY HoldersFinite, TypeStep, BoundAssumption DEF TypeOK
<1>b. reclaims < MaxReclaims => n <= LockFiles + reclaims
  BY DEF HoldersBoundedByReclaims
<1> HIDE DEF n, m
<1>1. ASSUME NEW p \in Proc, Start(p) PROVE m <= LockFiles' + reclaims'
  <2>1. Holders' = Holders
    BY <1>1, HoldersSame DEF Start
  <2>2. QED
    BY <1>1, <1>b, <2>1 DEF Start, LockFiles, Exists, n, m
<1>2. ASSUME NEW p \in Proc, CheckExists(p) PROVE m <= LockFiles' + reclaims'
  <2>1. Holders' = Holders
    BY <1>2, HoldersSame DEF CheckExists
  <2>2. QED
    BY <1>2, <1>b, <2>1 DEF CheckExists, LockFiles, Exists, n, m
<1>3. ASSUME NEW p \in Proc, CheckStale(p) PROVE m <= LockFiles' + reclaims'
  <2>1. Holders' = Holders
    BY <1>3, HoldersSame DEF CheckStale
  <2>2. QED
    BY <1>3, <1>b, <2>1 DEF CheckStale, LockFiles, Exists, n, m
<1>4. ASSUME NEW p \in Proc, Unlink(p) PROVE m <= LockFiles' + reclaims'
  <2>1. Holders' = Holders
    BY <1>4, HoldersSame DEF Unlink
  <2>2. m = n
    BY <2>1 DEF n, m
  <2>3. LockFiles' = 0
    BY <1>4 DEF Unlink, LockFiles, Exists, NoLock
  <2>4. reclaims < MaxReclaims /\ reclaims' = reclaims + LockFiles
    BY <1>4, <1>t DEF Unlink, LockFiles
  <2>5. QED
    BY <1>b, <1>t, <2>2, <2>3, <2>4 DEF LockFiles
<1>5. ASSUME NEW p \in Proc, Create(p) PROVE m <= LockFiles' + reclaims'
  <2>1. CASE Exists
    <3>1. Holders' = Holders
      BY <1>5, <2>1, HoldersSame DEF Create
    <3>2. QED
      BY <1>5, <1>b, <2>1, <3>1 DEF Create, LockFiles, Exists, n, m
  <2>2. CASE ~Exists
    <3>1. m <= n + 1
      BY <1>5, <2>2, HoldersGain DEF Create, n, m
    <3>2. LockFiles = 0 /\ LockFiles' = 1 /\ reclaims' = reclaims
      BY <1>5, <2>2, ProcAssumption DEF Create, LockFiles, Exists
    <3>3. QED
      BY <1>b, <1>t, <3>1, <3>2
  <2>3. QED
    BY <2>1, <2>2
<1>6. ASSUME NEW p \in Proc, Write(p) PROVE m <= LockFiles' + reclaims'
  <2>1. Holders' = Holders
    BY <1>6, HoldersSame DEF Write
  <2>2. LockFiles' = LockFiles /\ reclaims' = reclaims
    BY <1>6 DEF Write, LockFiles, Exists, TypeOK
  <2>3. QED
    BY <1>b, <2>1, <2>2 DEF n, m
<1>7. ASSUME NEW p \in Proc, WriteFails(p) PROVE m <= LockFiles' + reclaims'
  <2>1. m <= n
    BY <1>7, HoldersLose DEF WriteFails, n, m
  <2>2. LockFiles' = LockFiles /\ reclaims' = reclaims /\ LockFiles \in {0, 1}
    BY <1>7 DEF WriteFails, LockFiles, Exists
  <2>3. QED
    BY <1>b, <1>t, <2>1, <2>2
<1>8. ASSUME NEW p \in Proc, Release(p) PROVE m <= LockFiles' + reclaims'
  <2>1. m <= n /\ (p \in Holders => m = n - 1)
    BY <1>8, HoldersLose DEF Release, n, m
  <2>2. reclaims' = reclaims /\ LockFiles \in {0, 1} /\ LockFiles' \in {0, 1}
    BY <1>8 DEF Release, LockFiles
  <2>3. CASE held[p]
    \* The holder goes together with whatever file is there.
    <3>1. p \in Holders
      BY <2>3 DEF HeldWhileRunning, Holders
    <3>2. m = n - 1
      BY <2>1, <3>1
    <3>3. LockFiles' = 0
      BY <1>8, <2>3 DEF Release, LockFiles, Exists, NoLock
    <3>4. n <= 1 + reclaims
      BY <1>b, <1>t, <2>2
    <3>5. QED
      BY <1>t, <2>2, <3>2, <3>3, <3>4
  <2>4. CASE ~held[p]
    <3>1. LockFiles' = LockFiles
      BY <1>8, <2>4 DEF Release, LockFiles, Exists
    <3>2. QED
      BY <1>b, <1>t, <2>1, <2>2, <3>1
  <2>5. QED
    BY <2>3, <2>4
<1>9. ASSUME NEW p \in Proc, Kill(p) PROVE m <= LockFiles' + reclaims'
  <2>1. m <= n
    BY <1>9, HoldersLose DEF Kill, n, m
  <2>2. LockFiles' = LockFiles /\ reclaims' = reclaims /\ LockFiles \in {0, 1}
    BY <1>9 DEF Kill, LockFiles, Exists
  <2>3. QED
    BY <1>b, <1>t, <2>1, <2>2
<1>10. ASSUME Tick PROVE m <= LockFiles' + reclaims'
  <2>1. Holders' = Holders /\ LockFiles' = LockFiles /\ reclaims' = reclaims
    BY <1>10 DEF Tick, Holders, LockFiles, Exists, TypeOK
  <2>2. QED
    BY <1>b, <2>1 DEF n, m
<1>11. ASSUME UNCHANGED vars PROVE m <= LockFiles' + reclaims'
  <2>1. Holders' = Holders /\ LockFiles' = LockFiles /\ reclaims' = reclaims
    BY <1>11 DEF vars, Holders, LockFiles, Exists
  <2>2. QED
    BY <1>b, <2>1 DEF n, m
<1>12. m <= LockFiles' + reclaims'
  BY <1>1, <1>2, <1>3, <1>4, <1>5, <1>6, <1>7, <1>8, <1>9, <1>10, <1>11
  DEF Next, Step
<1>13. QED
  BY <1>12 DEF m

-----------------------------------------------------------------------------
\* Every reachable state satisfies the inductive invariant of OutputLock.
THEOREM IInvariant == Spec => []IInv
<1>1. IInv /\ [Next]_vars => IInv'
  BY TypeStep, HeldStep, BoundStep DEF IInv
<1>2. QED
  BY InitIInv, <1>1, PTL DEF Spec

\* acquire() and release(), interleaved in any way: a holder too many costs a
\* reclaim of a stale file, whatever the number of processes and of kills.
THEOREM HoldersBounded == Spec => []HoldersBoundedByReclaims
<1>1. IInv => HoldersBoundedByReclaims
  BY DEF IInv
<1>2. QED
  BY IInvariant, <1>1, PTL

\* As long as no stale file was ever reclaimed, O_EXCL makes the lock exclusive.
THEOREM ExclusiveUntilReclaim ==
  Spec => [](reclaims = 0 /\ 0 < MaxReclaims => MutualExclusion)
<1>1. IInv => (reclaims = 0 /\ 0 < MaxReclaims => MutualExclusion)
  <2> SUFFICES ASSUME IInv, reclaims = 0, 0 < MaxReclaims,
                      NEW p \in Holders, NEW q \in Holders, p # q
               PROVE  FALSE
    BY DEF MutualExclusion
  <2>1. Cardinality(Holders) <= 1
    BY HoldersFinite DEF IInv, HoldersBoundedByReclaims, LockFiles
  <2>2. /\ IsFiniteSet(Holders \ {p})
        /\ Cardinality(Holders \ {p}) = Cardinality(Holders) - 1
    BY HoldersFinite, FS_RemoveElement
  <2>3. Cardinality(Holders \ {p}) = 0
    BY <2>1, <2>2, HoldersFinite, FS_CardinalityType
  <2>4. Holders \ {p} = {}
    BY <2>2, <2>3, FS_EmptySet
  <2>5. QED
    BY <2>4
<1>2. QED
  BY IInvariant, <1>1, PTL
=============================================================================
