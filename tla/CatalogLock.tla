---------------------------- MODULE CatalogLock ----------------------------
(***************************************************************************)
(* The write lock of the catalog store (Store.withWriteLock): a mutex kept *)
(* by the process for the catalog root, then an advisory lock (flock) on   *)
(* <root>/.catalog.lock that excludes the other processes.  The mutex      *)
(* waits for ever, the file lock is polled until a deadline.  A process    *)
(* may be killed at any step: its goroutines vanish, its mutexes with      *)
(* them, and the kernel closes its files and so drops its file lock.       *)
(*                                                                         *)
(* Time is abstracted: a poll that finds the file locked may be the last   *)
(* one before the deadline (TryTimesOut) or not (a stuttering step).       *)
(***************************************************************************)
CONSTANTS
    Threads,     \* goroutines that write the catalog, of all processes
    Procs,       \* the operating system processes
    ProcOf,      \* the process a goroutine runs in
    FileLocking, \* TRUE on linux and darwin; FALSE with lock_stub.go
    NONE

ASSUME LockAssumption ==
    /\ ProcOf \in [Threads -> Procs]
    /\ FileLocking \in BOOLEAN
    /\ NONE \notin Threads

VARIABLES
    mutex,    \* per process: the goroutine that holds the root's mutex
    flock,    \* the goroutine whose open file holds the advisory lock
    lpc,      \* where each goroutine stands in withWriteLock
    lres      \* how its last acquisition ended

lockVars == <<mutex, flock, lpc, lres>>

LockPCs == {"idle", "mutex", "poll", "held", "release"}

LockTypeOK ==
    /\ mutex \in [Procs -> Threads \cup {NONE}]
    /\ flock \in Threads \cup {NONE}
    /\ lpc \in [Threads -> LockPCs]
    /\ lres \in [Threads -> {"none", "ok", "timeout", "failed"}]

LockInit ==
    /\ mutex = [p \in Procs |-> NONE]
    /\ flock = NONE
    /\ lpc = [t \in Threads |-> "idle"]
    /\ lres = [t \in Threads |-> "none"]

Goto(t, from, to) == lpc[t] = from /\ lpc' = [lpc EXCEPT ![t] = to]

Ends(t, how) == lres' = [lres EXCEPT ![t] = how]

-----------------------------------------------------------------------------

(* withWriteLock is entered. *)
Request(t) ==
    /\ Goto(t, "idle", "mutex")
    /\ Ends(t, "none")
    /\ UNCHANGED <<mutex, flock>>

(* Mutant: the goroutine goes on without waiting for the mutex. *)
MutexLockUnguarded(t) ==
    /\ Goto(t, "mutex", "poll")
    /\ mutex' = [mutex EXCEPT ![ProcOf[t]] = t]
    /\ UNCHANGED <<flock, lres>>

(* mu.Lock() returns: no other goroutine of this process is inside. *)
MutexLock(t) ==
    /\ Goto(t, "mutex", "poll")
    /\ mutex[ProcOf[t]] = NONE
    /\ mutex' = [mutex EXCEPT ![ProcOf[t]] = t]
    /\ UNCHANGED <<flock, lres>>

(* Mutant: LOCK_SH where LOCK_EX is meant: the lock is shared. *)
TryLockShared(t) ==
    /\ Goto(t, "poll", "held")
    /\ flock' = IF FileLocking THEN t ELSE flock
    /\ Ends(t, "ok")
    /\ UNCHANGED mutex

(* flock(LOCK_EX | LOCK_NB) succeeds.  The stub for other systems locks    *)
(* nothing.                                                                *)
TryLock(t) ==
    /\ Goto(t, "poll", "held")
    /\ FileLocking => flock = NONE
    /\ flock' = IF FileLocking THEN t ELSE flock
    /\ Ends(t, "ok")
    /\ UNCHANGED mutex

(* A poll finds the file locked and the deadline is over.                  *)
TryTimesOut(t) ==
    /\ Goto(t, "poll", "release")
    /\ flock # NONE
    /\ Ends(t, "timeout")
    /\ UNCHANGED <<mutex, flock>>

(* The lock file cannot be opened, or flock returns another error.         *)
TryFails(t) ==
    /\ FileLocking
    /\ Goto(t, "poll", "release")
    /\ Ends(t, "failed")
    /\ UNCHANGED <<mutex, flock>>

(* Mutant: the lock file is never unlocked nor closed. *)
FileUnlockForgotten(t) ==
    /\ Goto(t, "held", "release")
    /\ Ends(t, "ok")
    /\ UNCHANGED <<mutex, flock>>

(* fn has returned: Unlock.  Should LOCK_UN fail, closing the descriptor   *)
(* drops the lock all the same, and the caller gets an error.              *)
FileUnlock(t) ==
    /\ Goto(t, "held", "release")
    /\ flock' = IF FileLocking THEN NONE ELSE flock
    /\ \E how \in IF FileLocking THEN {"ok", "failed"} ELSE {"ok"} : Ends(t, how)
    /\ UNCHANGED mutex

(* Mutant: an early return that skips mu.Unlock(). *)
MutexUnlockForgotten(t) ==
    /\ Goto(t, "release", "idle")
    /\ UNCHANGED <<mutex, flock, lres>>

(* The deferred mu.Unlock(). *)
MutexUnlock(t) ==
    /\ Goto(t, "release", "idle")
    /\ mutex' = [mutex EXCEPT ![ProcOf[t]] = NONE]
    /\ UNCHANGED <<flock, lres>>

(* Process p is killed; a new one may take its place.                      *)
Kill(p) ==
    /\ mutex' = [mutex EXCEPT ![p] = NONE]
    /\ flock' = IF flock # NONE /\ ProcOf[flock] = p THEN NONE ELSE flock
    /\ lpc' = [t \in Threads |-> IF ProcOf[t] = p THEN "idle" ELSE lpc[t]]
    /\ lres' = [t \in Threads |-> IF ProcOf[t] = p THEN "none" ELSE lres[t]]

LockNext ==
    \/ \E t \in Threads :
          \/ Request(t) \/ MutexLock(t)
          \/ TryLock(t) \/ TryTimesOut(t) \/ TryFails(t)
          \/ FileUnlock(t) \/ MutexUnlock(t)
    \/ \E p \in Procs : Kill(p)

LockSafeSpec == LockInit /\ [][LockNext]_lockVars

-----------------------------------------------------------------------------

Inside(t) == lpc[t] = "held"

(* With file locking, the function given to withWriteLock runs in one      *)
(* goroutine at a time, over all processes; without it, the mutex alone    *)
(* still serialises the goroutines of one process.                         *)
MutualExclusion ==
    \A t, u \in Threads :
        Inside(t) /\ Inside(u) /\ t # u => ~FileLocking /\ ProcOf[t] # ProcOf[u]

(* The file lock is never left behind: whoever holds it is a live          *)
(* goroutine inside the critical section that also holds its mutex, so     *)
(* neither an error path nor a crash can lock the catalog for good.        *)
NoOrphanedLock ==
    flock # NONE => Inside(flock) /\ mutex[ProcOf[flock]] = flock

(* ErrCatalogFileLockTimeout blames another process: a goroutine never     *)
(* gives up because of a sibling, which only the mutex holds up.           *)
TimeoutMeansOtherProcess ==
    [][\A t \in Threads :
          lres'[t] = "timeout" /\ lres[t] # "timeout"
              => flock # NONE /\ ProcOf[flock] # ProcOf[t]]_lockVars

=============================================================================
