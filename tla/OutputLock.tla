----------------------------- MODULE OutputLock -----------------------------
(***************************************************************************)
(* The exclusive lock file <out>/.normocontrol.lock of cache.py, taken and *)
(* given back by every `normocontrol run` (orchestrator.py).  Several      *)
(* processes start a run on the same --out.  Each system call of acquire() *)
(* and release() is a step of its own: exists, stat, unlink,               *)
(* open(O_CREAT|O_EXCL), write, unlink.                                    *)
(*                                                                         *)
(* Only the file's modification time is ever read back (its text holds a   *)
(* pid that no code looks at), so the file is its creator, a history value *)
(* that no guard of acquire() reads, and its age in clock ticks.           *)
(***************************************************************************)
EXTENDS Naturals, FiniteSets

CONSTANTS
    Proc,          \* processes that start a run on the same output directory
    NoOwner,       \* not a process: there is no lock file
    StaleAfter,    \* stale_after_s, in clock ticks
    Relaunch,      \* TRUE: a process that has ended may be started again
    LongRuns,      \* TRUE: a run may hold its lock for StaleAfter ticks or more
    MaxFaults,     \* bound on kills and failed writes
    MaxReclaims    \* the history counter of reclaims stops counting here

ASSUME ProcAssumption == IsFiniteSet(Proc) /\ NoOwner \notin Proc
ASSUME StaleAssumption == StaleAfter \in Nat \ {0}
ASSUME FlagAssumption == Relaunch \in BOOLEAN /\ LongRuns \in BOOLEAN
ASSUME BoundAssumption == MaxFaults \in Nat /\ MaxReclaims \in Nat

VARIABLES
    lock,      \* [owner, age]; owner = NoOwner: the file does not exist
    pc,        \* what each process does next
    held,      \* OutputLock._held of each process
    faults,    \* kills and failed writes so far
    reclaims   \* history: stale files removed so far, up to MaxReclaims

vars == <<lock, pc, held, faults, reclaims>>

NoLock == [owner |-> NoOwner, age |-> 0]
Exists == lock.owner # NoOwner

\* "idle" before the run, "exists" .. "write" inside acquire(), "run" between
\* acquire() and release(), "refused" after LockError or a failed write, with
\* release() of the finally block still to come, "ended" after it.
Stages == {"idle", "exists", "stat", "unlink", "create", "write",
           "run", "refused", "ended"}

Ages == 0 .. StaleAfter

TypeOK ==
    /\ lock \in [owner : Proc \cup {NoOwner}, age : Ages]
    /\ pc \in [Proc -> Stages]
    /\ held \in [Proc -> BOOLEAN]
    /\ faults \in 0 .. MaxFaults
    /\ reclaims \in 0 .. MaxReclaims

Init ==
    /\ lock = NoLock
    /\ pc = [p \in Proc |-> "idle"]
    /\ held = [p \in Proc |-> FALSE]
    /\ faults = 0
    /\ reclaims = 0

-----------------------------------------------------------------------------
(* acquire()                                                               *)

Goto(p, stage) == pc' = [pc EXCEPT ![p] = stage]

\* A run begins: `lock = OutputLock(out_dir); lock.acquire()`.
Start(p) ==
    /\ pc[p] = "idle" \/ (Relaunch /\ pc[p] = "ended")
    /\ Goto(p, "exists")
    /\ held' = [held EXCEPT ![p] = FALSE]
    /\ UNCHANGED <<lock, faults, reclaims>>

\* `if self.lock_path.exists():`
CheckExists(p) ==
    /\ pc[p] = "exists"
    /\ Goto(p, IF Exists THEN "stat" ELSE "create")
    /\ UNCHANGED <<lock, held, faults, reclaims>>

\* Faulty variant: a lock is never considered stale.
NeverStale == FALSE

\* _is_stale(): a file that vanished since exists() counts as stale too.
IsStale == Exists => lock.age >= StaleAfter

\* Stale: go on to remove the file.  Fresh: LockError.
CheckStale(p) ==
    /\ pc[p] = "stat"
    /\ Goto(p, IF IsStale THEN "unlink" ELSE "refused")
    /\ UNCHANGED <<lock, held, faults, reclaims>>

\* `self.lock_path.unlink(missing_ok=True)`: whatever file is there now.
Unlink(p) ==
    /\ pc[p] = "unlink"
    /\ Goto(p, "create")
    /\ lock' = NoLock
    /\ reclaims' = IF Exists /\ reclaims < MaxReclaims THEN reclaims + 1
                                                       ELSE reclaims
    /\ UNCHANGED <<held, faults>>

\* Faulty variant: the file is opened without O_EXCL.
CreateShared(p) ==
    /\ pc[p] = "create"
    /\ Goto(p, "write") /\ lock' = [owner |-> p, age |-> 0]
    /\ UNCHANGED <<held, faults, reclaims>>

\* open(O_CREAT | O_EXCL): creates the file, or raises LockError.
Create(p) ==
    /\ pc[p] = "create"
    /\ IF Exists
         THEN Goto(p, "refused") /\ UNCHANGED lock
         ELSE Goto(p, "write") /\ lock' = [owner |-> p, age |-> 0]
    /\ UNCHANGED <<held, faults, reclaims>>

\* The pid is written: the file, if it is still this one, is as young as new.
Write(p) ==
    /\ pc[p] = "write"
    /\ Goto(p, "run")
    /\ held' = [held EXCEPT ![p] = TRUE]
    /\ lock' = IF lock.owner = p THEN [lock EXCEPT !.age = 0] ELSE lock
    /\ UNCHANGED <<faults, reclaims>>

\* The write fails (OSError): the file stays, and _held stays FALSE.
WriteFails(p) ==
    /\ pc[p] = "write" /\ faults < MaxFaults
    /\ Goto(p, "refused")
    /\ faults' = faults + 1
    /\ UNCHANGED <<lock, held, reclaims>>

-----------------------------------------------------------------------------
(* release(), reached from the finally block of Orchestrator.run whether   *)
(* or not acquire() succeeded, and what the environment does.              *)

\* Faulty variant: release() does not look at _held.
ReleaseAlways(p) ==
    /\ pc[p] \in {"run", "refused"}
    /\ Goto(p, "ended")
    /\ lock' = NoLock
    /\ held' = [held EXCEPT ![p] = FALSE]
    /\ UNCHANGED <<faults, reclaims>>

Release(p) ==
    /\ pc[p] \in {"run", "refused"}
    /\ Goto(p, "ended")
    /\ lock' = IF held[p] THEN NoLock ELSE lock
    /\ held' = [held EXCEPT ![p] = FALSE]
    /\ UNCHANGED <<faults, reclaims>>

\* The process is killed, at any point: nothing of its finally block runs.
Kill(p) ==
    /\ pc[p] \notin {"idle", "ended"} /\ faults < MaxFaults
    /\ Goto(p, "ended")
    /\ held' = [held EXCEPT ![p] = FALSE]
    /\ faults' = faults + 1
    /\ UNCHANGED <<lock, reclaims>>

\* Processes that have created a lock file and not yet given it up.
Holders == {p \in Proc : pc[p] \in {"write", "run"}}

\* Time passes.  No heartbeat renews the file while a run goes on.  Unless
\* LongRuns, a run ends before its own file is StaleAfter ticks old.
Tick ==
    /\ Exists /\ lock.age < StaleAfter
    /\ LongRuns \/ lock.owner \notin Holders \/ lock.age + 1 < StaleAfter
    /\ lock' = [lock EXCEPT !.age = @ + 1]
    /\ UNCHANGED <<pc, held, faults, reclaims>>

-----------------------------------------------------------------------------
Step(p) ==
    \/ CheckExists(p) \/ CheckStale(p) \/ Unlink(p) \/ Create(p)
    \/ Write(p) \/ Release(p)

Next ==
    \/ \E p \in Proc : Start(p) \/ Step(p) \/ WriteFails(p) \/ Kill(p)
    \/ Tick

Spec == Init /\ [][Next]_vars

\* A live process takes its steps and time passes; nobody has to start a run,
\* no write has to fail and no process has to be killed.
FairSpec == Spec /\ WF_vars(Tick) /\ \A p \in Proc : WF_vars(Step(p))

-----------------------------------------------------------------------------
(* Properties                                                              *)

\* At most one process at a time believes that the output directory is its
\* own: what OutputLock is for.
MutualExclusion == \A p, q \in Holders : p = q

\* Every reclaim of a stale file lets in at most one holder too many: beyond
\* the one whose file is there, holders are never more than the reclaims.
LockFiles == IF Exists THEN 1 ELSE 0

HoldersBoundedByReclaims ==
    reclaims < MaxReclaims => Cardinality(Holders) <= LockFiles + reclaims

\* The inductive form: _held is set exactly between acquire() and release(),
\* so that a release() always takes a holder away with the file.
HeldWhileRunning == \A p \in Proc : held[p] <=> pc[p] = "run"

IInv == TypeOK /\ HeldWhileRunning /\ HoldersBoundedByReclaims

\* A file left behind by a killed run does not close the directory for ever:
\* as long as runs keep being started, some run gets the lock again and again.
NotLockedOut ==
    ([]<> \E p \in Proc : pc[p] = "exists") => ([]<> \E p \in Proc : pc[p] = "run")
=============================================================================
