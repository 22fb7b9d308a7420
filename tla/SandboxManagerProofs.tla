------------------------ MODULE SandboxManagerProofs ------------------------
(***************************************************************************)
(* For every set of callers and allocations: the safety invariants of the  *)
(* sandbox manager, and that it implements SharedSandbox.                  *)
(***************************************************************************)
EXTENDS SandboxManager, FiniteSetTheorems, TLAPS

\* The inductive invariant.  The counter alone is not inductive: that the last
\* reference really was the last needs the mutex, and that a dropped entry had
\* no user needs the entries and the callers inside a critical section.
SMInv ==
    /\ SMTypeOK
    /\ MutexHeld
    /\ RefCountExact
    /\ EntryIffUsed
    /\ CriticalIsAlone

-----------------------------------------------------------------------------
(* Facts about one step of one caller.                                     *)

\* The callers that hold a sandbox are finitely many, so they can be counted.
LEMMA HoldersFinite ==
    ASSUME NEW a PROVE IsFiniteSet(Holders(a)) /\ Cardinality(Holders(a)) \in Nat
<1>1. Holders(a) \subseteq Callers
  BY DEF Holders
<1>2. IsFiniteSet(Holders(a))
  BY <1>1, CallersAssumption, FS_Subset
<1> QED
  BY <1>2, FS_CardinalityType

\* A step moves its own caller only; the holders of its allocation gain it,
\* lose it or stay the same, and so do their number.
LEMMA StepFacts ==
    ASSUME SMTypeOK, NEW c \in Callers, NEW from, NEW to \in Stages, Step(c, from, to)
    PROVE  /\ call[c] = from
           /\ call' \in [Callers -> Stages]
           /\ call'[c] = to
           /\ \A d \in Callers : d # c => call'[d] = call[d]
           /\ \A a : a # AllocOf[c] => Holders(a)' = Holders(a)
           /\ (from \in Using <=> to \in Using) =>
                 \A a : Holders(a)' = Holders(a)
           /\ from \notin Using /\ to \in Using =>
                 /\ c \notin Holders(AllocOf[c])
                 /\ Holders(AllocOf[c])' = Holders(AllocOf[c]) \cup {c}
                 /\ Cardinality(Holders(AllocOf[c]))' = Cardinality(Holders(AllocOf[c])) + 1
           /\ from \in Using /\ to \notin Using =>
                 /\ c \in Holders(AllocOf[c])
                 /\ Holders(AllocOf[c])' = Holders(AllocOf[c]) \ {c}
                 /\ Cardinality(Holders(AllocOf[c]))' = Cardinality(Holders(AllocOf[c])) - 1
<1> DEFINE a == AllocOf[c]
<1>1. call[c] = from /\ call' \in [Callers -> Stages] /\ call'[c] = to
      /\ \A d \in Callers : d # c => call'[d] = call[d]
  BY DEF Step, SMTypeOK
<1>2. \A b : b # a => Holders(b)' = Holders(b)
  BY <1>1 DEF Holders
<1>3. (from \in Using <=> to \in Using) => \A b : Holders(b)' = Holders(b)
  BY <1>1 DEF Holders
<1>4. ASSUME from \notin Using, to \in Using
      PROVE  /\ c \notin Holders(a)
             /\ Holders(a)' = Holders(a) \cup {c}
             /\ Cardinality(Holders(a))' = Cardinality(Holders(a)) + 1
  <2>1. c \notin Holders(a) /\ Holders(a)' = Holders(a) \cup {c}
    BY <1>1, <1>4 DEF Holders
  <2> QED
    BY <2>1, HoldersFinite, FS_AddElement
<1>5. ASSUME from \in Using, to \notin Using
      PROVE  /\ c \in Holders(a)
             /\ Holders(a)' = Holders(a) \ {c}
             /\ Cardinality(Holders(a))' = Cardinality(Holders(a)) - 1
  <2>1. c \in Holders(a) /\ Holders(a)' = Holders(a) \ {c}
    BY <1>1, <1>5 DEF Holders
  <2> QED
    BY <2>1, HoldersFinite, FS_RemoveElement
<1> QED
  BY <1>1, <1>2, <1>3, <1>4, <1>5

-----------------------------------------------------------------------------
(* The invariant, by the effect of a step on holders, entry and mutex.     *)

\* A step outside, into or within a critical section, or to the call of
\* Release, that changes neither the holders nor the registry.
LEMMA QuietStep ==
    ASSUME SMInv, NEW c \in Callers, NEW from \in Stages, NEW to \in Stages,
           Step(c, from, to),
           from \in Using <=> to \in Using,
           UNCHANGED <<sandboxes, refCount>>,
           mu' \in Callers \cup {Nobody},
           \/ from \notin Critical /\ to \notin Critical /\ mu' = mu
           \/ from = "lookup" /\ to = "pull" /\ Lock(c) /\ AllocOf[c] \notin sandboxes
           \/ from \in Booting /\ to \in Booting /\ mu' = mu
           \/ from \in Booting /\ to = "out" /\ Unlock(c)
           \/ from \in TearingDown /\ to \in TearingDown /\ mu' = mu
    PROVE  SMInv'
<1>1. /\ call[c] = from /\ call'[c] = to
      /\ call' \in [Callers -> Stages]
      /\ \A d \in Callers : d # c => call'[d] = call[d]
      /\ \A a : Holders(a)' = Holders(a)
  BY StepFacts DEF SMInv
<1>2. SMTypeOK'
  BY <1>1 DEF SMInv, SMTypeOK
<1>3. MutexHeld'
  BY <1>1, CallersAssumption
  DEF SMInv, MutexHeld, Lock, Unlock, Critical, Booting, TearingDown
<1>4. RefCountExact'
  BY <1>1 DEF SMInv, RefCountExact
<1>5. from \in TearingDown <=> to \in TearingDown
  BY DEF Critical, Booting, TearingDown
<1>6. \A a : BeingTornDown(a)' <=> BeingTornDown(a)
  BY <1>1, <1>5 DEF BeingTornDown
<1>7. EntryIffUsed'
  BY <1>1, <1>6 DEF SMInv, EntryIffUsed
<1>8. CriticalIsAlone'
  <2> SUFFICES ASSUME NEW d \in Callers, call'[d] \in Critical
               PROVE  /\ Holders(AllocOf[d])' = {}
                      /\ call'[d] \in Booting <=> AllocOf[d] \notin sandboxes'
    BY DEF CriticalIsAlone
  <2>1. CASE d # c
    BY <2>1, <1>1 DEF SMInv, CriticalIsAlone
  <2>2. CASE d = c /\ from = "lookup"
    <3>1. to = "pull" /\ mu = Nobody /\ AllocOf[c] \notin sandboxes
      BY <1>1, <2>2 DEF Lock, Critical, Booting, TearingDown
    <3>2. AllocOf[c] \in Allocs /\ Holders(AllocOf[c]) = {}
      BY <3>1, AllocOfAssumption DEF SMInv, EntryIffUsed
    <3> QED
      BY <1>1, <2>2, <3>1, <3>2 DEF Booting
  <2>3. CASE d = c /\ from # "lookup"
    BY <1>1, <2>3 DEF SMInv, CriticalIsAlone, Critical, Booting, TearingDown
  <2> QED
    BY <2>1, <2>2, <2>3
<1> QED
  BY <1>2, <1>3, <1>4, <1>7, <1>8 DEF SMInv

\* A caller is handed a sandbox: its entry exists afterwards and counts it.
LEMMA JoinStep ==
    ASSUME SMInv, NEW c \in Callers, NEW from \in {"out", "lookup", "start"},
           Step(c, from, "in"),
           mu' = Nobody,
           mu = IF from = "start" THEN c ELSE Nobody,
           sandboxes' = sandboxes \cup {AllocOf[c]},
           CountOf(AllocOf[c], IF AllocOf[c] \in sandboxes
                               THEN refCount[AllocOf[c]] + 1 ELSE 1)
    PROVE  SMInv'
<1> DEFINE a == AllocOf[c]
<1>a. a \in Allocs
  BY AllocOfAssumption
<1>1. /\ call[c] = from /\ call'[c] = "in"
      /\ call' \in [Callers -> Stages]
      /\ \A d \in Callers : d # c => call'[d] = call[d]
      /\ \A b : b # a => Holders(b)' = Holders(b)
      /\ Holders(a)' = Holders(a) \cup {c}
      /\ Cardinality(Holders(a))' = Cardinality(Holders(a)) + 1
  BY StepFacts DEF SMInv, Stages, Using
<1>2. SMTypeOK'
  BY <1>1, <1>a DEF SMInv, SMTypeOK, CountOf
<1>3. \A d \in Callers : call'[d] \notin Critical
  BY <1>1, CallersAssumption DEF SMInv, MutexHeld, Critical, Booting, TearingDown
<1>4. MutexHeld'
  BY <1>3, CallersAssumption DEF MutexHeld
<1>5. a \in sandboxes <=> Holders(a) # {}
  <2>1. \A d \in Callers : call[d] \notin TearingDown
    BY <1>1, CallersAssumption DEF SMInv, MutexHeld, Critical, Booting, TearingDown
  <2> QED
    BY <2>1, <1>a DEF SMInv, EntryIffUsed, BeingTornDown
<1>6. a \notin sandboxes => Cardinality(Holders(a)) = 0
  BY <1>5, FS_EmptySet
<1>7. RefCountExact'
  BY <1>1, <1>6, <1>a DEF SMInv, SMTypeOK, RefCountExact, CountOf
<1>8. \A b : ~BeingTornDown(b)'
  BY <1>3 DEF BeingTornDown, Critical
<1>9. \A b \in Allocs : b # a => (b \in sandboxes <=> Holders(b) # {})
  <2>1. \A b : b # a => ~BeingTornDown(b)
    BY <1>1, CallersAssumption DEF SMInv, MutexHeld, BeingTornDown, Critical, Booting, TearingDown
  <2> QED
    BY <2>1 DEF SMInv, EntryIffUsed
<1>10. EntryIffUsed'
  BY <1>1, <1>8, <1>9 DEF EntryIffUsed
<1>11. CriticalIsAlone'
  BY <1>3 DEF CriticalIsAlone
<1> QED
  BY <1>2, <1>4, <1>7, <1>10, <1>11 DEF SMInv

\* A caller is counted out; if it was the last, it goes on to the teardown.
LEMMA LeaveStep ==
    ASSUME SMInv, NEW c \in Callers, NEW to \in {"out", "kill"},
           Step(c, "release", to),
           mu = Nobody,
           mu' = IF to = "kill" THEN c ELSE Nobody,
           UNCHANGED sandboxes,
           CountOf(AllocOf[c], refCount[AllocOf[c]] - 1),
           refCount[AllocOf[c]] - 1 > 0 <=> to = "out"
    PROVE  SMInv'
<1> DEFINE a == AllocOf[c]
<1>a. a \in Allocs
  BY AllocOfAssumption
<1>1. /\ call[c] = "release" /\ call'[c] = to
      /\ call' \in [Callers -> Stages]
      /\ \A d \in Callers : d # c => call'[d] = call[d]
      /\ \A b : b # a => Holders(b)' = Holders(b)
      /\ c \in Holders(a)
      /\ Holders(a)' = Holders(a) \ {c}
      /\ Cardinality(Holders(a))' = Cardinality(Holders(a)) - 1
  BY StepFacts DEF SMInv, Stages, Using, Critical, Booting, TearingDown
<1>2. Cardinality(Holders(a)) \in Nat /\ Cardinality(Holders(a)) # 0
  BY <1>1, HoldersFinite, FS_EmptySet
<1>3. SMTypeOK'
  BY <1>1, <1>2, <1>a DEF SMInv, SMTypeOK, RefCountExact, CountOf
<1>4. RefCountExact'
  BY <1>1, <1>a DEF SMInv, SMTypeOK, RefCountExact, CountOf
<1>5. IsFiniteSet(Holders(a)') /\ (Cardinality(Holders(a)') = 0 <=> Holders(a)' = {})
  <2>1. IsFiniteSet(Holders(a) \ {c})
    BY HoldersFinite, FS_RemoveElement
  <2> QED
    BY <1>1, <2>1, FS_EmptySet
<1>6. Holders(a)' = {} <=> to = "kill"
  BY <1>1, <1>2, <1>5, <1>a DEF SMInv, RefCountExact
<1>7. \A d \in Callers : call[d] \notin Critical
  BY CallersAssumption DEF SMInv, MutexHeld
<1>8. \A d \in Callers : d # c => call'[d] \notin Critical
  BY <1>1, <1>7
<1>9. MutexHeld'
  BY <1>1, <1>8, CallersAssumption DEF MutexHeld, Critical, Booting, TearingDown
<1>10. \A b \in Allocs : b \in sandboxes <=> Holders(b) # {}
  BY <1>7 DEF SMInv, EntryIffUsed, BeingTornDown, Critical
<1>11. a \in sandboxes
  BY <1>1, <1>10, <1>a
<1>12. \A b : b # a => ~BeingTornDown(b)'
  BY <1>1, <1>8 DEF BeingTornDown, Critical
<1>13. BeingTornDown(a)' <=> to = "kill"
  BY <1>1, <1>8 DEF BeingTornDown, Critical, TearingDown
<1>14. EntryIffUsed'
  BY <1>1, <1>6, <1>10, <1>11, <1>12, <1>13 DEF EntryIffUsed
<1>15. CriticalIsAlone'
  BY <1>1, <1>6, <1>8, <1>11 DEF CriticalIsAlone, Critical, Booting, TearingDown
<1> QED
  BY <1>3, <1>4, <1>9, <1>14, <1>15 DEF SMInv

\* The end of a teardown: the entry goes, and its count of zero with it.
LEMMA ForgetEntryStep ==
    ASSUME SMInv, NEW c \in Callers, DeleteMeta(c)
    PROVE  SMInv'
<1> DEFINE a == AllocOf[c]
<1>a. a \in Allocs
  BY AllocOfAssumption
<1>1. /\ call[c] = "deleteMeta" /\ call'[c] = "out"
      /\ call' \in [Callers -> Stages]
      /\ \A d \in Callers : d # c => call'[d] = call[d]
      /\ \A b : Holders(b)' = Holders(b)
  BY StepFacts DEF SMInv, DeleteMeta, Stages, Using, Critical, Booting, TearingDown
<1>2. mu = c /\ mu' = Nobody /\ sandboxes' = sandboxes \ {a} /\ CountOf(a, 0)
  BY DEF DeleteMeta, Unlock
<1>3. Holders(a) = {} /\ Cardinality(Holders(a)) = 0
  BY <1>1, FS_EmptySet DEF SMInv, CriticalIsAlone, Critical, TearingDown
<1>4. SMTypeOK'
  BY <1>1, <1>2, <1>a DEF SMInv, SMTypeOK, CountOf
<1>5. RefCountExact'
  BY <1>1, <1>2, <1>3 DEF SMInv, SMTypeOK, RefCountExact, CountOf
<1>6. \A d \in Callers : call'[d] \notin Critical
  BY <1>1, <1>2 DEF SMInv, MutexHeld, Critical, Booting, TearingDown
<1>7. MutexHeld'
  BY <1>2, <1>6, CallersAssumption DEF MutexHeld
<1>8. \A b : b # a => ~BeingTornDown(b)
  BY <1>2 DEF SMInv, MutexHeld, BeingTornDown, Critical
<1>9. \A b : ~BeingTornDown(b)'
  BY <1>6 DEF BeingTornDown, Critical
<1>10. EntryIffUsed'
  BY <1>1, <1>2, <1>3, <1>8, <1>9 DEF SMInv, EntryIffUsed
<1>11. CriticalIsAlone'
  BY <1>6 DEF CriticalIsAlone
<1> QED
  BY <1>4, <1>5, <1>7, <1>10, <1>11 DEF SMInv

-----------------------------------------------------------------------------
(* The invariant, one step per action.                                     *)

\* A manager that has just started has no entry and no caller.
LEMMA InitInv == SMInit => SMInv
<1> SUFFICES ASSUME SMInit PROVE SMInv
  OBVIOUS
<1>1. SMTypeOK /\ MutexHeld /\ CriticalIsAlone
  BY CallersAssumption
  DEF SMInit, SMTypeOK, MutexHeld, CriticalIsAlone, Stages, Critical, Booting, TearingDown
<1>2. \A a : Holders(a) = {} /\ Cardinality(Holders(a)) = 0
  BY FS_EmptySet DEF SMInit, Holders, Using
<1>3. RefCountExact
  BY <1>2 DEF SMInit, RefCountExact
<1>4. EntryIffUsed
  BY <1>2 DEF SMInit, EntryIffUsed, BeingTornDown, TearingDown
<1> QED
  BY <1>1, <1>3, <1>4 DEF SMInv

\* A crash brings the manager back to such a state.
LEMMA CrashInv == SMCrash => SMInv'
<1> SUFFICES ASSUME SMCrash PROVE SMInv'
  OBVIOUS
<1>1. SMTypeOK' /\ MutexHeld' /\ CriticalIsAlone'
  BY CallersAssumption
  DEF SMCrash, SMTypeOK, MutexHeld, CriticalIsAlone, Stages, Critical, Booting, TearingDown
<1>2. \A a : Holders(a)' = {} /\ Cardinality(Holders(a)') = 0
  BY FS_EmptySet DEF SMCrash, Holders, Using
<1>3. RefCountExact'
  BY <1>2 DEF SMCrash, RefCountExact
<1>4. EntryIffUsed'
  BY <1>2 DEF SMCrash, EntryIffUsed, BeingTornDown, TearingDown
<1> QED
  BY <1>1, <1>3, <1>4 DEF SMInv

\* Every step of every caller, inside GetOrCreate, Release and Recover, preserves
\* the invariant.
LEMMA CallerInv ==
    ASSUME SMInv, NEW c \in Callers, CallerStep(c)
    PROVE  SMInv'
<1> USE DEF Stages, Using, Critical, Booting, TearingDown
<1>t. mu \in Callers \cup {Nobody}
  BY DEF SMInv, SMTypeOK
<1>1. CASE GetOrCreateCall(c)
  BY <1>1, <1>t, QuietStep DEF GetOrCreateCall
<1>2. CASE ReleaseCall(c)
  BY <1>2, <1>t, QuietStep DEF ReleaseCall
<1>3. CASE Recover(c)
  BY <1>3, JoinStep DEF Recover
<1>4. CASE Reuse(c)
  <2>1. sandboxes' = sandboxes \cup {AllocOf[c]}
    BY <1>4 DEF Reuse
  <2> QED
    BY <1>4, <2>1, JoinStep DEF Reuse
<1>5. CASE Boot(c)
  <2>1. mu' \in Callers \cup {Nobody}
    BY <1>5 DEF Boot, Lock
  <2> QED
    BY <1>5, <2>1, QuietStep DEF Boot
<1>6. ASSUME NEW from \in Booting, NEW to \in Booting, BootStage(c, from, to)
      PROVE  SMInv'
  BY <1>6, <1>t, QuietStep DEF BootStage, Holding
<1>7. ASSUME NEW from \in Booting, BootFails(c, from)
      PROVE  SMInv'
  <2>1. mu' \in Callers \cup {Nobody}
    BY <1>7 DEF BootFails, Unlock
  <2> QED
    BY <1>7, <2>1, QuietStep DEF BootFails
<1>8. ASSUME NEW from \in TearingDown, NEW to \in TearingDown, TeardownStage(c, from, to)
      PROVE  SMInv'
  BY <1>8, <1>t, QuietStep DEF TeardownStage, Holding
<1>9. CASE PullStep(c)
  BY <1>6, <1>7, <1>9 DEF PullStep, EnsurePauseImage
<1>10. ASSUME NEW ok \in BOOLEAN, CreatePause(c, ok) \/ CreateMeta(c, ok)
       PROVE  SMInv'
  BY <1>6, <1>7, <1>10 DEF CreatePause, CreateMeta
<1>11. ASSUME NEW ok \in BOOLEAN, StartPause(c, ok)
       PROVE  SMInv'
  <2>1. CASE ~ok
    BY <1>6, <1>11, <2>1 DEF StartPause
  <2>2. CASE ok
    <3>1. Step(c, "start", "in") /\ mu = c /\ mu' = Nobody
          /\ sandboxes' = sandboxes \cup {AllocOf[c]} /\ CountOf(AllocOf[c], 1)
      BY <1>11, <2>2 DEF StartPause, Unlock
    <3>2. AllocOf[c] \notin sandboxes
      BY <3>1 DEF SMInv, CriticalIsAlone, Step
    <3> QED
      BY <3>1, <3>2, JoinStep
  <2> QED
    BY <2>1, <2>2
<1>12. CASE UndoMeta(c) \/ UndoCreate(c)
  BY <1>6, <1>7, <1>12 DEF UndoMeta, UndoCreate
<1>13. CASE ReleaseShared(c) \/ ReleaseLast(c)
  <2>1. call[c] = "release"
    BY <1>13 DEF ReleaseShared, ReleaseLast, Step
  <2>2. c \in Holders(AllocOf[c]) /\ AllocOf[c] \in Allocs
    BY <2>1, AllocOfAssumption DEF Holders
  <2>3. AllocOf[c] \in sandboxes
    BY <2>2 DEF SMInv, EntryIffUsed
  <2>4. refCount[AllocOf[c]] \in Nat
    BY <2>2 DEF SMInv, SMTypeOK
  <2>5. CASE ReleaseShared(c)
    BY <2>3, <2>4, <2>5, LeaveStep DEF ReleaseShared
  <2>6. CASE ReleaseLast(c)
    BY <2>3, <2>4, <2>6, LeaveStep DEF ReleaseLast, Lock
  <2> QED
    BY <1>13, <2>5, <2>6
<1>14. CASE KillPause(c) \/ DeletePauseTask(c) \/ DeletePauseContainer(c)
  BY <1>8, <1>14 DEF KillPause, DeletePauseTask, DeletePauseContainer
<1>15. CASE DeleteMeta(c)
  BY <1>15, ForgetEntryStep
<1> QED
  BY <1>1, <1>2, <1>3, <1>4, <1>5, <1>9, <1>10, <1>11, <1>12, <1>13, <1>14, <1>15
  DEF CallerStep, TakeLock, BootStep, TeardownStep

\* The invariant is about the manager's variables only.
LEMMA StutterInv == SMInv /\ UNCHANGED smVars => SMInv'
BY DEF SMInv, smVars, SMTypeOK, MutexHeld, RefCountExact, EntryIffUsed, CriticalIsAlone,
       Holders, BeingTornDown

\* The invariant is inductive.
LEMMA NextInv == SMInv /\ [SMNext]_smVars => SMInv'
BY CallerInv, CrashInv, StutterInv DEF SMNext

\* Every reachable state of the manager satisfies the inductive invariant.
THEOREM ManagerInvariant == SMSpec => []SMInv
BY InitInv, NextInv, PTL DEF SMSpec

\* The variables keep their types; the counter of an entry is never negative.
THEOREM ManagerTypes == SMSpec => []SMTypeOK
<1>1. SMInv => SMTypeOK
  BY DEF SMInv
<1> QED
  BY <1>1, ManagerInvariant, PTL

\* Whoever is inside a boot or a teardown owns the mutex, and nobody else does:
\* boots and teardowns of all allocations happen one after the other.
THEOREM ManagerMutex == SMSpec => []MutexHeld
<1>1. SMInv => MutexHeld
  BY DEF SMInv
<1> QED
  BY <1>1, ManagerInvariant, PTL

\* The reference count of every allocation is exactly the number of callers
\* that hold its sandbox.
THEOREM ManagerRefCount == SMSpec => []RefCountExact
<1>1. SMInv => RefCountExact
  BY DEF SMInv
<1> QED
  BY <1>1, ManagerInvariant, PTL

\* An entry of the map is in use or being dismantled, and nothing is in use
\* without an entry.
THEOREM ManagerEntries == SMSpec => []EntryIffUsed
<1>1. SMInv => EntryIffUsed
  BY DEF SMInv
<1> QED
  BY <1>1, ManagerInvariant, PTL

\* Boots and teardowns have their allocation to themselves.
THEOREM ManagerCritical == SMSpec => []CriticalIsAlone
<1>1. SMInv => CriticalIsAlone
  BY DEF SMInv
<1> QED
  BY <1>1, ManagerInvariant, PTL

-----------------------------------------------------------------------------
(* Refinement.                                                             *)

\* Init maps to Init.
LEMMA AbstractInit == SMInit => Abstract!Init
BY DEF SMInit, Abstract!Init, Using

\* A caller that is handed a sandbox acquires it: the sandbox is new or has
\* users.
LEMMA JoinRefines ==
    ASSUME SMInv, NEW c \in Callers, NEW from \in {"out", "lookup", "start"},
           Step(c, from, "in"),
           mu = IF from = "start" THEN c ELSE Nobody,
           sandboxes' = sandboxes \cup {AllocOf[c]}
    PROVE  Abstract!Acquire(c)
<1> DEFINE a == AllocOf[c]
<1>a. a \in Allocs
  BY AllocOfAssumption
<1>1. /\ call[c] = from /\ call'[c] = "in"
      /\ \A d \in Callers : d # c => call'[d] = call[d]
  BY StepFacts DEF SMInv, Stages, Using
<1>2. \A d \in Callers : call[d] \notin TearingDown
  BY <1>1, CallersAssumption DEF SMInv, MutexHeld, Critical, Booting, TearingDown
<1>3. a \in sandboxes => Holders(a) # {}
  BY <1>a, <1>2 DEF SMInv, EntryIffUsed, BeingTornDown
<1>4. Abstract!UsersOf(a) = Holders(a)
  BY DEF Abstract!UsersOf, Holders
<1>5. c \notin {d \in Callers : call[d] \in Using}
  BY <1>1 DEF Using
<1>6. {d \in Callers : call[d] \in Using}' = {d \in Callers : call[d] \in Using} \cup {c}
  BY <1>1 DEF Using
<1> QED
  BY <1>3, <1>4, <1>5, <1>6 DEF Abstract!Acquire

\* A step that changes neither the entries nor who holds one is a stutter.
LEMMA QuietRefines ==
    ASSUME SMInv, NEW c \in Callers, NEW from \in Stages, NEW to \in Stages,
           Step(c, from, to), from \in Using <=> to \in Using, UNCHANGED sandboxes
    PROVE  UNCHANGED Abstract!sandboxVars
<1>1. /\ call[c] = from /\ call'[c] = to
      /\ \A d \in Callers : d # c => call'[d] = call[d]
  BY StepFacts DEF SMInv
<1>2. {d \in Callers : call[d] \in Using}' = {d \in Callers : call[d] \in Using}
  BY <1>1
<1> QED
  BY <1>2 DEF Abstract!sandboxVars

\* A caller's step joins, leaves or tears down the abstract sandbox, or is a
\* stutter.
LEMMA CallerRefines ==
    ASSUME SMInv, NEW c \in Callers, CallerStep(c)
    PROVE  [Abstract!Next]_Abstract!sandboxVars
<1> USE DEF Stages, Using, Critical, Booting, TearingDown
<1>1. CASE GetOrCreateCall(c) \/ ReleaseCall(c) \/ Boot(c)
  BY <1>1, QuietRefines DEF GetOrCreateCall, ReleaseCall, Boot
<1>2. CASE Reuse(c) \/ Recover(c)
  <2>1. sandboxes' = sandboxes \cup {AllocOf[c]}
    BY <1>2 DEF Reuse, Recover
  <2> QED
    BY <1>2, <2>1, JoinRefines DEF Reuse, Recover, Abstract!Next
<1>3. ASSUME NEW from \in Booting, NEW to \in Booting \cup {"out"},
             BootStage(c, from, to) \/ BootFails(c, from)
      PROVE  UNCHANGED Abstract!sandboxVars
  BY <1>3, QuietRefines DEF BootStage, BootFails
<1>4. CASE PullStep(c)
  BY <1>3, <1>4 DEF PullStep, EnsurePauseImage
<1>5. ASSUME NEW ok \in BOOLEAN, CreatePause(c, ok) \/ CreateMeta(c, ok)
      PROVE  UNCHANGED Abstract!sandboxVars
  BY <1>3, <1>5 DEF CreatePause, CreateMeta
<1>6. ASSUME NEW ok \in BOOLEAN, StartPause(c, ok)
      PROVE  [Abstract!Next]_Abstract!sandboxVars
  <2>1. CASE ~ok
    BY <1>3, <1>6, <2>1 DEF StartPause
  <2>2. CASE ok
    BY <1>6, <2>2, JoinRefines DEF StartPause, Unlock, Abstract!Next
  <2> QED
    BY <2>1, <2>2
<1>7. CASE UndoMeta(c) \/ UndoCreate(c)
  BY <1>3, <1>7 DEF UndoMeta, UndoCreate
<1>8. CASE ReleaseShared(c) \/ ReleaseLast(c)
  <2>1. PICK to \in {"out", "kill"} : Step(c, "release", to) /\ UNCHANGED sandboxes
    BY <1>8 DEF ReleaseShared, ReleaseLast
  <2>2. /\ call[c] = "release" /\ call'[c] = to
        /\ \A d \in Callers : d # c => call'[d] = call[d]
    BY <2>1, StepFacts DEF SMInv
  <2>3. Abstract!Release(c)
    BY <2>1, <2>2 DEF Abstract!Release
  <2> QED
    BY <2>3 DEF Abstract!Next
<1>9. CASE KillPause(c) \/ DeletePauseTask(c) \/ DeletePauseContainer(c)
  BY <1>9, QuietRefines DEF KillPause, DeletePauseTask, DeletePauseContainer, TeardownStage
<1>10. CASE DeleteMeta(c)
  <2> DEFINE a == AllocOf[c]
  <2>1. /\ call[c] = "deleteMeta" /\ call'[c] = "out"
        /\ \A d \in Callers : d # c => call'[d] = call[d]
        /\ sandboxes' = sandboxes \ {a}
    BY <1>10, StepFacts DEF SMInv, DeleteMeta
  <2>2. {d \in Callers : call[d] \in Using}' = {d \in Callers : call[d] \in Using}
    BY <2>1
  <2>3. a \in Allocs /\ a \in sandboxes /\ Holders(a) = {}
    BY <2>1, AllocOfAssumption DEF SMInv, CriticalIsAlone
  <2>4. Abstract!UsersOf(a) = {}
    BY <2>3 DEF Abstract!UsersOf, Holders
  <2>5. Abstract!Teardown(a)
    BY <2>1, <2>2, <2>3, <2>4 DEF Abstract!Teardown
  <2> QED
    BY <2>3, <2>5 DEF Abstract!Next
<1> QED
  BY <1>1, <1>2, <1>4, <1>5, <1>6, <1>7, <1>8, <1>9, <1>10
  DEF CallerStep, TakeLock, BootStep, TeardownStep

\* Every step of the manager, a crash included, is one of the shared sandbox.
LEMMA NextRefines == SMInv /\ [SMNext]_smVars => [Abstract!Next]_Abstract!sandboxVars
<1> SUFFICES ASSUME SMInv, [SMNext]_smVars PROVE [Abstract!Next]_Abstract!sandboxVars
  OBVIOUS
<1>1. CASE \E c \in Callers : CallerStep(c)
  BY <1>1, CallerRefines
<1>2. CASE SMCrash
  BY <1>2 DEF SMCrash, Abstract!Next, Abstract!Forget, Using
<1>3. CASE UNCHANGED smVars
  BY <1>3 DEF smVars, Abstract!sandboxVars
<1> QED
  BY <1>1, <1>2, <1>3 DEF SMNext

\* The lock, the counter and the containerd calls implement the abstract
\* sandbox: no user ever joins an idle sandbox on its way out, and none is
\* dismantled under a user.  (Its liveness is model-checked.)
THEOREM ManagerRefines == SMSpec => Abstract!Safety
BY ManagerInvariant, AbstractInit, NextRefines, PTL DEF SMSpec, Abstract!Safety
=============================================================================
