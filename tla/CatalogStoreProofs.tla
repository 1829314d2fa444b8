------------------------- MODULE CatalogStoreProofs -------------------------
(***************************************************************************)
(* What withWriteLock guarantees for any number of processes and           *)
(* goroutines, with file locking and with the stub that does none, and the *)
(* catalog store for any processes, goroutines, cookbooks, versions,       *)
(* contents and requests, and any number of faults.                        *)
(*                                                                         *)
(* StoreInv is the inductive invariant: the types, the lock's invariant,   *)
(* what each program counter says of the call (CallShape), and that the    *)
(* two program counters of a goroutine, its call's and the lock's, agree   *)
(* (PcMatch).  NoSilentOverwrite needs WriteDue besides: a verdict taken   *)
(* under the lock is still good when the file is written.                  *)
(***************************************************************************)
EXTENDS CatalogStore, TLAPS

-----------------------------------------------------------------------------
(* The lock                                                                *)

(* The goroutine between mu.Lock() and mu.Unlock() is the one the mutex    *)
(* of its process names, and the goroutine inside the critical section is  *)
(* the one that holds the file lock, if files are locked at all.           *)
MutexMatches ==
    \A t \in Threads :
        lpc[t] \in {"poll", "held", "release"} <=> mutex[ProcOf[t]] = t

FlockMatches ==
    IF FileLocking
    THEN \A t \in Threads : lpc[t] = "held" <=> flock = t
    ELSE flock = NONE

LockInv == LockTypeOK /\ MutexMatches /\ FlockMatches

(* The lock is free to begin with. *)
LEMMA LockInitInv == LockInit => LockInv
BY LockAssumption
   DEF LockInit, LockInv, LockTypeOK, MutexMatches, FlockMatches, LockPCs

(* Every step keeps the types: one step of the proof per action.           *)
LEMMA LockTypeStep == LockTypeOK /\ [LockNext]_lockVars => LockTypeOK'
<1> SUFFICES ASSUME LockTypeOK, [LockNext]_lockVars PROVE LockTypeOK'
  OBVIOUS
<1> USE LockAssumption DEF LockTypeOK, LockPCs, Goto, Ends
<1>1. ASSUME NEW t \in Threads, Request(t) PROVE LockTypeOK'
  BY <1>1 DEF Request
<1>2. ASSUME NEW t \in Threads, MutexLock(t) PROVE LockTypeOK'
  BY <1>2 DEF MutexLock
<1>3. ASSUME NEW t \in Threads, TryLock(t) PROVE LockTypeOK'
  BY <1>3 DEF TryLock
<1>4. ASSUME NEW t \in Threads, TryTimesOut(t) PROVE LockTypeOK'
  BY <1>4 DEF TryTimesOut
<1>5. ASSUME NEW t \in Threads, TryFails(t) PROVE LockTypeOK'
  BY <1>5 DEF TryFails
<1>6. ASSUME NEW t \in Threads, FileUnlock(t) PROVE LockTypeOK'
  BY <1>6 DEF FileUnlock
<1>7. ASSUME NEW t \in Threads, MutexUnlock(t) PROVE LockTypeOK'
  BY <1>7 DEF MutexUnlock
<1>8. ASSUME NEW p \in Procs, Kill(p) PROVE LockTypeOK'
  BY <1>8 DEF Kill
<1>9. CASE UNCHANGED lockVars
  BY <1>9 DEF lockVars
<1>10. QED
  BY <1>1, <1>2, <1>3, <1>4, <1>5, <1>6, <1>7, <1>8, <1>9 DEF LockNext

(* The mutex of a process changes hands only with the goroutine it names.  *)
LEMMA MutexStep == LockTypeOK /\ MutexMatches /\ [LockNext]_lockVars => MutexMatches'
<1> SUFFICES ASSUME LockTypeOK, MutexMatches, [LockNext]_lockVars
             PROVE  MutexMatches'
  OBVIOUS
<1> USE LockAssumption DEF LockTypeOK, LockPCs, MutexMatches, Goto
<1>1. ASSUME NEW t \in Threads, Request(t) PROVE MutexMatches'
  BY <1>1 DEF Request
<1>2. ASSUME NEW t \in Threads, MutexLock(t) PROVE MutexMatches'
  BY <1>2 DEF MutexLock
<1>3. ASSUME NEW t \in Threads,
             TryLock(t) \/ TryTimesOut(t) \/ TryFails(t) \/ FileUnlock(t)
      PROVE  MutexMatches'
  BY <1>3 DEF TryLock, TryTimesOut, TryFails, FileUnlock
<1>4. ASSUME NEW t \in Threads, MutexUnlock(t) PROVE MutexMatches'
  BY <1>4 DEF MutexUnlock
<1>5. ASSUME NEW p \in Procs, Kill(p) PROVE MutexMatches'
  BY <1>5 DEF Kill
<1>6. CASE UNCHANGED lockVars
  BY <1>6 DEF lockVars
<1>7. QED
  BY <1>1, <1>2, <1>3, <1>4, <1>5, <1>6 DEF LockNext

(* The file lock is taken on entering the critical section and dropped on  *)
(* leaving it, the death of the process included.                          *)
LEMMA FlockStep == LockTypeOK /\ FlockMatches /\ [LockNext]_lockVars => FlockMatches'
<1> SUFFICES ASSUME LockTypeOK, FlockMatches, [LockNext]_lockVars
             PROVE  FlockMatches'
  OBVIOUS
<1> USE LockAssumption DEF LockTypeOK, LockPCs, FlockMatches, Goto
<1>1. ASSUME NEW t \in Threads,
             Request(t) \/ MutexLock(t) \/ TryTimesOut(t) \/ TryFails(t) \/ MutexUnlock(t)
      PROVE  FlockMatches'
  BY <1>1 DEF Request, MutexLock, TryTimesOut, TryFails, MutexUnlock
<1>2. ASSUME NEW t \in Threads, TryLock(t) PROVE FlockMatches'
  BY <1>2 DEF TryLock
<1>3. ASSUME NEW t \in Threads, FileUnlock(t) PROVE FlockMatches'
  BY <1>3 DEF FileUnlock
<1>4. ASSUME NEW p \in Procs, Kill(p) PROVE FlockMatches'
  BY <1>4 DEF Kill
<1>5. CASE UNCHANGED lockVars
  BY <1>5 DEF lockVars
<1>6. QED
  BY <1>1, <1>2, <1>3, <1>4, <1>5 DEF LockNext

(* The three parts together are inductive. *)
THEOREM LockInvariant == LockSafeSpec => []LockInv
<1>1. LockInv /\ [LockNext]_lockVars => LockInv'
  BY LockTypeStep, MutexStep, FlockStep DEF LockInv
<1>2. QED
  BY LockInitInv, <1>1, PTL DEF LockSafeSpec

(* Type correctness of the lock. *)
THEOREM LockTypeCorrect == LockSafeSpec => []LockTypeOK
<1>1. LockInv => LockTypeOK
  BY DEF LockInv
<1>2. QED
  BY LockInvariant, <1>1, PTL

(* The function given to withWriteLock runs in one goroutine at a time.    *)
THEOREM LockMutualExclusion == LockSafeSpec => []MutualExclusion
<1>1. LockInv => MutualExclusion
  BY LockAssumption
     DEF LockInv, LockTypeOK, MutexMatches, FlockMatches, MutualExclusion, Inside
<1>2. QED
  BY LockInvariant, <1>1, PTL

(* No error path and no crash leaves the catalog locked.                   *)
THEOREM LockNeverOrphaned == LockSafeSpec => []NoOrphanedLock
<1>1. LockInv => NoOrphanedLock
  BY LockAssumption
     DEF LockInv, LockTypeOK, MutexMatches, FlockMatches, NoOrphanedLock, Inside
<1>2. QED
  BY LockInvariant, <1>1, PTL

(* A goroutine times out only because of another process.                  *)
THEOREM LockTimeoutCause == LockSafeSpec => TimeoutMeansOtherProcess
<1> DEFINE Cause ==
      \A t \in Threads :
          lres'[t] = "timeout" /\ lres[t] # "timeout"
              => flock # NONE /\ ProcOf[flock] # ProcOf[t]
<1>1. ASSUME LockInv, LockNext PROVE Cause
  <2> SUFFICES ASSUME NEW t \in Threads,
                      lres'[t] = "timeout", lres[t] # "timeout"
               PROVE  flock # NONE /\ ProcOf[flock] # ProcOf[t]
    OBVIOUS
  <2>1. TryTimesOut(t)
    BY <1>1 DEF LockNext, LockInv, LockTypeOK, Ends, Request, MutexLock, TryLock,
                TryTimesOut, TryFails, FileUnlock, MutexUnlock, Kill
  <2>2. lpc[t] = "poll" /\ flock \in Threads
    BY <1>1, <2>1 DEF TryTimesOut, Goto, LockInv, LockTypeOK
  <2>3. mutex[ProcOf[t]] = t /\ lpc[flock] = "held"
    BY <1>1, <2>2, LockAssumption DEF LockInv, MutexMatches, FlockMatches
  <2>4. mutex[ProcOf[flock]] = flock /\ flock # t
    BY <1>1, <2>2, <2>3 DEF LockInv, MutexMatches
  <2>5. QED
    BY <2>2, <2>3, <2>4, LockAssumption
<1>2. LockInv /\ [LockNext]_lockVars => [Cause]_lockVars
  BY <1>1
<1>3. QED
  BY LockInvariant, <1>2, PTL DEF LockSafeSpec, TimeoutMeansOtherProcess

-----------------------------------------------------------------------------
(* The inductive invariant                                                 *)

(* Where a call holds no lock, and where it holds it.                      *)
Outer == {"ready", "resolve", "read", "return", "list", "reload"}
Inner == {"body", "write", "cleanup", "load", "rebuild", "save", "leave"}
BundleOps == {"upsert", "delete", "get"}

(* What a call in a given place has in hand.                               *)
CallShape(c) ==
    /\ c.pc # "ready" => c.req \in Requests
    /\ c.pc = "ready" => c = Ready
    /\ c.pc \notin {"ready", "resolve", "return"} /\ c.req.op \in BundleOps => c.ver \in Versions
    /\ c.pc \in {"list", "reload"} => c.req.op = "list"
    /\ c.pc = "resolve" => c.req.op \in {"delete", "get"}
    /\ c.pc = "read" => c.req.op = "get"
    /\ c.pc \in {"load", "save"} => c.req.op \in {"upsert", "delete"}
    /\ c.pc = "rebuild" => c.req.op \in {"upsert", "delete", "list"}
    /\ c.pc = "write" => c.req.op = "upsert"
    /\ c.pc = "cleanup" => c.req.op = "delete"
    /\ c.out = "repaired" => c.req.op = "list"
    /\ c.pc \in {"rebuild", "save"} => c.rows \in Rows

(* The call of t stands where withWriteLock says it does.                  *)
PcMatch(t) ==
    /\ call[t].pc \in Outer <=> lpc[t] = "idle"
    /\ call[t].pc = "enter" <=> lpc[t] \in {"mutex", "poll"}
    /\ call[t].pc \in Inner <=> lpc[t] = "held"
    /\ call[t].pc = "exit" <=> lpc[t] = "release"

StoreInv ==
    /\ StoreTypeOK
    /\ LockInv
    /\ \A t \in Threads : CallShape(call[t]) /\ PcMatch(t)

-----------------------------------------------------------------------------
(* Operators                                                               *)

(* The fields of a request, by its operation.                              *)
LEMMA RequestShape ==
  ASSUME NEW r \in AllRequests
  PROVE  /\ r.op = "upsert" => r.id \in Cookbooks /\ r.ver \in Versions /\ r.content \in Contents
         /\ r.op \in BundleOps => r.id \in Cookbooks /\ r.ver \in Versions \cup {NONE}
         /\ r.ver \in Versions \cup {NONE}
         /\ r.op \in {"upsert", "delete", "get", "list", "open"}
BY DEF AllRequests, BundleOps

(* The latest of some versions is one of them.                             *)
LEMMA LatestStored ==
  ASSUME NEW S \in SUBSET Versions, S # {}
  PROVE  Max(S) \in S
BY StoreAssumption DEF Max

(* Every step of the store is a step of the lock, or leaves it alone.      *)
LEMMA LockMoves == Next => [LockNext]_lockVars
<1> SUFFICES ASSUME Next PROVE LockNext \/ UNCHANGED lockVars
  OBVIOUS
<1>1. ASSUME NEW t \in Threads, NEW r \in Requests, Call(t, r) \/ Open(t, r)
      PROVE LockNext \/ UNCHANGED lockVars
  BY <1>1 DEF Call, Open, LockNext
<1>2. ASSUME NEW t \in Threads, Unlocked(t)
      PROVE LockNext \/ UNCHANGED lockVars
  BY <1>2 DEF Unlocked, Resolve, Read, List, Reload, Return, LockNext
<1>3. ASSUME NEW t \in Threads, AwaitMutex(t) \/ Enter(t) \/ GiveUp(t) \/ Leave(t) \/ Exit(t)
      PROVE LockNext \/ UNCHANGED lockVars
  BY <1>3 DEF AwaitMutex, Enter, GiveUp, Leave, Exit, LockNext
<1>4. ASSUME NEW t \in Threads, Body(t)
      PROVE LockNext \/ UNCHANGED lockVars
  BY <1>4 DEF Body, UpsertDecides, RemoveBundle, RepairBody, EnsureLayout, WriteBundle, Cleanup, LoadIndex, SaveRebuilt, SaveIndex
<1>5. ASSUME NEW p \in Procs, Quit(p) \/ Crash(p)
      PROVE LockNext \/ UNCHANGED lockVars
  BY <1>5 DEF Quit, Crash, LockNext
<1>6. CASE Damage
  BY <1>6 DEF Damage
<1>7. QED
  BY <1>1, <1>2, <1>3, <1>4, <1>5, <1>6 DEF Next

(* t moves on and only its outcome may change.                             *)
Keeps(t) ==
    /\ call' \in [Threads -> Calls]
    /\ \A u \in Threads \ {t} : call'[u] = call[u]
    /\ call'[t].req = call[t].req /\ call'[t].ver = call[t].ver
    /\ call'[t].item = call[t].item /\ call'[t].rows = call[t].rows

(* A move that keeps the outcome.                                          *)
LEMMA StepFacts ==
  ASSUME call \in [Threads -> Calls], NEW t \in Threads, NEW from, NEW to \in CallPCs,
         Step(t, from, to)
  PROVE  call[t].pc = from /\ call'[t].pc = to /\ call'[t].out = call[t].out /\ Keeps(t)
BY DEF Step, Calls, Keeps

(* A move that settles the outcome.                                        *)
LEMMA StepOutFacts ==
  ASSUME call \in [Threads -> Calls], NEW t \in Threads, NEW from, NEW to \in CallPCs,
         NEW out \in Outcomes, StepOut(t, from, to, out)
  PROVE  call[t].pc = from /\ call'[t].pc = to /\ call'[t].out = out /\ Keeps(t)
BY DEF StepOut, Calls, Keeps

(* t decides to write the bundle it has in hand. *)
Decides(t) ==
    /\ UNCHANGED files
    /\ call'[t].req = call[t].req /\ call'[t].ver = call[t].ver
    /\ Verdict(files[Target(t)], call[t].req.content, call[t].req.policy) = "write"

(* Where a call that changes the catalog has begun to. *)
Busy == {"cleanup", "load", "rebuild", "save", "leave"}

(* A step of t that is no work on the catalog. *)
Quiet(t) ==
    /\ call'[t] = Ready \/ call'[t].item = call[t].item
    /\ call'[t] = Ready \/ call[t] = Ready \/ call'[t].req = call[t].req
    /\ call'[t].pc \in {"resolve", "list", "enter", "body"} =>
          call[t].pc \in {"ready", "resolve", "list", "enter"} /\ call'[t].out = call[t].out

(* What a step of t does to the calls: only its own changes, and rightly.  *)
GoodStep(t) ==
    /\ call' \in [Threads -> Calls]
    /\ \A u \in Threads \ {t} : call'[u] = call[u]
    /\ CallShape(call'[t])
    /\ call[t].pc \in Inner \ {"leave"} => call'[t].pc \in Inner
    /\ call'[t].pc = "write" => Decides(t)
    /\ call'[t].pc \notin Busy => Quiet(t)

-----------------------------------------------------------------------------
(* Steps of the calls                                                      *)

(* A goroutine that is in no call.                                         *)
LEMMA ReadyFacts == Ready \in Calls /\ CallShape(Ready)
BY DEF Ready, Calls, CallPCs, Outcomes, CallShape

(* A call that settles without the lock.                                   *)
LEMMA GoodReturn ==
  ASSUME StoreInv, NEW t \in Threads, NEW from \in Outer \ {"ready"},
         NEW out \in Outcomes \ {"repaired"}, StepOut(t, from, "return", out)
  PROVE  GoodStep(t)
<1>1. call \in [Threads -> Calls] /\ CallShape(call[t]) /\ "return" \in CallPCs
  BY DEF StoreInv, StoreTypeOK, CallPCs
<1>2. call[t].pc = from /\ call'[t].pc = "return" /\ call'[t].out = out /\ Keeps(t)
  BY <1>1, StepOutFacts
<1>3. from \notin Inner
  BY DEF Inner, Outer
<1>4. QED
  BY <1>1, <1>2, <1>3 DEF GoodStep, CallShape, Keeps, Outer, Quiet

(* The calls that run without the lock.                                    *)
LEMMA GoodUnlocked ==
  ASSUME StoreInv, NEW t \in Threads, Unlocked(t)
  PROVE  GoodStep(t)
<1> call \in [Threads -> Calls] /\ CallShape(call[t]) /\ call[t] \in Calls
  BY DEF StoreInv, StoreTypeOK
<1>o. {"not_found", "error", "found", "listed"} \subseteq Outcomes
  BY DEF Outcomes
<1>p. {"return", "enter", "read"} \subseteq CallPCs /\ {"read", "list", "reload"} \subseteq Outer
  BY DEF CallPCs, Outer
<1>1. CASE Resolve(t)
  <2> DEFINE latest == IF call[t].req.ver = NONE THEN Max(StoredVersions(call[t].req.id))
                                                  ELSE call[t].req.ver
  <2>1. CASE StepOut(t, "resolve", "return", "not_found")
    BY <2>1, <1>o, <1>p, StepOutFacts DEF GoodStep, Inner, Busy, Quiet, CallShape, Keeps
  <2>2. CASE ~StepOut(t, "resolve", "return", "not_found")
    <3>1. /\ call[t].pc = "resolve"
          /\ call' = [call EXCEPT ![t].ver = latest,
                                  ![t].pc = IF Op(t) = "get" THEN "read" ELSE "enter"]
          /\ call[t].req.ver = NONE => StoredVersions(call[t].req.id) # {}
      BY <1>1, <2>2 DEF Resolve, At
    <3>2. call[t].req \in AllRequests /\ Op(t) \in {"get", "delete"}
      BY <3>1, StoreAssumption DEF CallShape, Op
    <3>3. latest \in Versions
      BY <3>1, <3>2, RequestShape, LatestStored DEF StoredVersions
    <3>4. call' \in [Threads -> Calls]
      BY <3>1, <3>3 DEF Calls, CallPCs
    <3>5. /\ \A u \in Threads \ {t} : call'[u] = call[u]
          /\ call'[t].ver = latest /\ call'[t].pc \in {"read", "enter"}
          /\ call'[t].pc = "read" => Op(t) = "get"
          /\ call'[t].req = call[t].req /\ call'[t].out = call[t].out
      BY <3>1 DEF Calls
    <3> HIDE DEF latest
    <3>6. QED
      BY <3>1, <3>3, <3>4, <3>5 DEF GoodStep, Inner, Busy, Quiet, CallShape, Op
  <2>3. QED
    BY <2>1, <2>2
<1>2. CASE Read(t)
  <2> DEFINE out == CASE files[Target(t)] = NONE -> "not_found"
                      [] files[Target(t)] = CORRUPT -> "error"
                      [] OTHER -> "found"
  <2>1. out \in {"not_found", "error", "found"}
    BY Zenon
  <2>2. StepOut(t, "read", "return", out)
    BY <1>2 DEF Read
  <2> HIDE DEF out
  <2>3. QED
    BY <2>1, <2>2, <1>o, <1>p, GoodReturn
<1>3. CASE List(t)
  <2>1. StepOut(t, "list", "return", "listed") \/ Step(t, "list", "enter")
    BY <1>3 DEF List
  <2>2. call[t].pc = "list" => call[t].req.op \notin BundleOps
    BY DEF CallShape, BundleOps
  <2>3. CASE StepOut(t, "list", "return", "listed")
    <3>1. "listed" \in Outcomes \ {"repaired"} /\ "list" \in Outer \ {"ready"}
      BY DEF Outcomes, Outer
    <3>2. QED
      BY <2>3, <3>1, GoodReturn
  <2>4. CASE Step(t, "list", "enter")
    <3>1. call[t].pc = "list" /\ call'[t].pc = "enter" /\ call'[t].out = call[t].out /\ Keeps(t)
      BY <2>4, <1>p, StepFacts
    <3>2. QED
      BY <2>2, <3>1 DEF GoodStep, Inner, Busy, Quiet, CallShape, Keeps
  <2>5. QED
    BY <2>1, <2>3, <2>4
<1>4. CASE Reload(t)
  <2>1. StepOut(t, "reload", "return", "listed") \/ StepOut(t, "reload", "return", "error")
    BY <1>4 DEF Reload
  <2>2. QED
    BY <2>1, <1>o, <1>p, GoodReturn
<1>5. CASE Return(t)
  <2>1. call[t].pc = "return" /\ call' = [call EXCEPT ![t] = Ready]
    BY <1>5 DEF Return, At
  <2>2. QED
    BY <2>1, ReadyFacts DEF GoodStep, Inner, Busy, Quiet, Ready
<1>6. QED
  BY <1>1, <1>2, <1>3, <1>4, <1>5 DEF Unlocked

(* The start of a call.                                                    *)
LEMMA GoodStart ==
  ASSUME StoreInv, NEW t \in Threads, NEW r \in Requests, Call(t, r) \/ Open(t, r)
  PROVE  GoodStep(t)
<1> call \in [Threads -> Calls] /\ CallShape(call[t]) /\ call[t] \in Calls
  BY DEF StoreInv, StoreTypeOK
<1> r \in AllRequests
  BY StoreAssumption
<1>1. CASE Call(t, r)
  <2> DEFINE to == CASE r.op = "upsert" -> "enter"
                     [] r.op = "list" -> "list"
                     [] OTHER -> "resolve"
  <2>1. /\ to \in {"enter", "list", "resolve"}
        /\ to = "enter" => r.op = "upsert"
        /\ to = "list" => r.op = "list"
        /\ to = "resolve" => r.op \notin {"upsert", "list"}
    BY Zenon
  <2>2. /\ call[t].pc = "ready" /\ r.op # "open"
        /\ call' = [call EXCEPT ![t].req = r, ![t].ver = r.ver, ![t].pc = to]
    BY <1>1 DEF Call, At
  <2> HIDE DEF to
  <2>3. /\ \A u \in Threads \ {t} : call'[u] = call[u]
        /\ call'[t].ver = r.ver /\ call'[t].pc = to
        /\ call'[t].req = r /\ call'[t].out = call[t].out
    BY <2>2 DEF Calls
  <2>4. call' \in [Threads -> Calls]
    BY <2>1, <2>2, RequestShape DEF Calls, CallPCs
  <2>5. r.op \in {"upsert", "delete", "get", "list"} /\ (to = "enter" => r.ver \in Versions)
    BY <2>1, <2>2, RequestShape
  <2>6. call'[t].out # "repaired"
    BY <2>2, <2>3 DEF CallShape, Ready
  <2>7. QED
    BY <2>1, <2>2, <2>3, <2>4, <2>5, <2>6 DEF GoodStep, Inner, Busy, Quiet, CallShape, BundleOps
<1>2. CASE Open(t, r)
  <2>1. /\ call[t] = Ready /\ r.op = "open"
        /\ call' = [call EXCEPT ![t].req = r, ![t].pc = "enter"]
    BY <1>2 DEF Open, At, CallShape
  <2>2. /\ \A u \in Threads \ {t} : call'[u] = call[u]
        /\ call'[t].pc = "enter" /\ call'[t].req = r /\ call'[t].out = "none"
    BY <2>1 DEF Calls, Ready
  <2>3. call' \in [Threads -> Calls]
    BY <2>1 DEF Calls, CallPCs
  <2>4. QED
    BY <2>1, <2>2, <2>3 DEF GoodStep, Inner, Busy, Quiet, Ready, CallShape, BundleOps
<1>3. QED
  BY <1>1, <1>2

(* The steps of withWriteLock.                                             *)
LEMMA GoodLocked ==
  ASSUME StoreInv, NEW t \in Threads, Enter(t) \/ GiveUp(t) \/ Leave(t) \/ Exit(t)
  PROVE  GoodStep(t)
<1> call \in [Threads -> Calls] /\ CallShape(call[t]) /\ call[t] \in Calls
  BY DEF StoreInv, StoreTypeOK
<1>o. "error" \in Outcomes
  BY DEF Outcomes
<1>p. {"body", "exit", "reload"} \subseteq CallPCs
  BY DEF CallPCs
<1>1. CASE Enter(t)
  <2>1. Step(t, "enter", "body")
    BY <1>1 DEF Enter
  <2>2. QED
    BY <2>1, <1>p, StepFacts DEF GoodStep, Inner, Busy, Quiet, CallShape, Keeps
<1>2. CASE GiveUp(t)
  <2>1. StepOut(t, "enter", "exit", "error")
    BY <1>2 DEF GiveUp
  <2>2. QED
    BY <2>1, <1>o, <1>p, StepOutFacts DEF GoodStep, Inner, Busy, Quiet, CallShape, Keeps
<1>3. CASE Leave(t)
  <2>1. CASE Step(t, "leave", "exit")
    BY <2>1, <1>p, StepFacts DEF GoodStep, Inner, Busy, Quiet, CallShape, Keeps
  <2>2. CASE StepOut(t, "leave", "exit", "error")
    BY <2>2, <1>o, <1>p, StepOutFacts DEF GoodStep, Inner, Busy, Quiet, CallShape, Keeps
  <2>3. QED
    BY <1>3, <2>1, <2>2 DEF Leave
<1>4. CASE Exit(t)
  <2>1. CASE call[t].out = "repaired"
    <3>1. Step(t, "exit", "reload")
      BY <1>4, <2>1 DEF Exit
    <3>2. call[t].req.op = "list"
      BY <2>1 DEF CallShape
    <3>3. QED
      BY <3>1, <3>2, <1>p, StepFacts DEF GoodStep, Inner, Busy, Quiet, CallShape, Keeps, BundleOps
  <2>2. CASE call[t].out # "repaired"
    <3>1. call[t].pc = "exit" /\ call' = [call EXCEPT ![t] = Ready]
      BY <1>4, <2>2 DEF Exit, At
    <3>2. QED
      BY <3>1, ReadyFacts DEF GoodStep, Inner, Busy, Quiet, Ready
  <2>3. QED
    BY <2>1, <2>2
<1>5. QED
  BY <1>1, <1>2, <1>3, <1>4

(* A body that settles and leaves.                                         *)
LEMMA GoodLeave ==
  ASSUME StoreInv, NEW t \in Threads, NEW from \in Inner,
         NEW out \in Outcomes \ {"repaired"}, StepOut(t, from, "leave", out)
  PROVE  GoodStep(t)
<1>1. call \in [Threads -> Calls] /\ CallShape(call[t]) /\ "leave" \in CallPCs
  BY DEF StoreInv, StoreTypeOK, CallPCs
<1>2. call[t].pc = from /\ call'[t].pc = "leave" /\ call'[t].out = out /\ Keeps(t)
  BY <1>1, StepOutFacts
<1>3. QED
  BY <1>1, <1>2 DEF GoodStep, Inner, Busy, Quiet, CallShape, Keeps

(* What UpsertBundle may decide about the bundle in place.                 *)
LEMMA VerdictShape ==
  ASSUME NEW old \in Contents \cup {NONE, CORRUPT}, NEW new \in Contents, NEW policy
  PROVE  /\ Verdict(old, new, policy) \in {"error", "write", "unchanged", "conflict"}
         /\ Verdict(old, new, policy) = "unchanged" =>
                old \in Contents /\ (old = new \/ policy = "SKIP_IF_EXISTS")
         /\ Verdict(old, new, policy) = "conflict" =>
                old \in Contents /\ old # new /\ policy = "FAIL"
         /\ Verdict(old, new, policy) = "write" =>
                /\ old # CORRUPT
                /\ old \in Contents => old # new /\ policy # "FAIL" /\ policy # "SKIP_IF_EXISTS"
<1> NONE \notin Contents /\ CORRUPT \notin Contents /\ NONE # CORRUPT
  BY StoreAssumption
<1>1. CASE old = CORRUPT
  <2>1. Verdict(old, new, policy) = "error"
    BY <1>1, Zenon DEF Verdict
  <2>2. QED
    BY <2>1
<1>2. CASE old = NONE
  <2>1. Verdict(old, new, policy) = "write"
    BY <1>2, Zenon DEF Verdict
  <2>2. QED
    BY <2>1, <1>2
<1>3. CASE old \in Contents
  <2> old # NONE /\ old # CORRUPT
    BY <1>3
  <2>1. CASE old = new \/ policy = "SKIP_IF_EXISTS"
    <3>1. Verdict(old, new, policy) = "unchanged"
      BY <2>1, Zenon DEF Verdict
    <3>2. QED
      BY <3>1, <2>1, <1>3
  <2>2. CASE ~(old = new \/ policy = "SKIP_IF_EXISTS") /\ policy = "FAIL"
    <3>1. Verdict(old, new, policy) = "conflict"
      BY <2>2, Zenon DEF Verdict
    <3>2. QED
      BY <3>1, <2>2, <1>3
  <2>3. CASE ~(old = new \/ policy = "SKIP_IF_EXISTS") /\ policy # "FAIL"
    <3>1. Verdict(old, new, policy) = "write"
      BY <2>3, Zenon DEF Verdict
    <3>2. QED
      BY <3>1, <2>3
  <2>4. QED
    BY <2>1, <2>2, <2>3
<1>4. QED
  BY <1>1, <1>2, <1>3

(* A call under the lock that is about a bundle knows which.               *)
LEMMA TargetKnown ==
  ASSUME StoreInv, NEW t \in Threads, call[t].pc \notin {"ready", "resolve", "return"},
         Op(t) \in BundleOps
  PROVE  Target(t) \in Key
<1>1. call[t].req \in AllRequests /\ call[t].ver \in Versions
  BY StoreAssumption DEF StoreInv, CallShape, Op
<1>2. QED
  BY <1>1, RequestShape DEF Target, Key, Op

(* UpsertBundle writes, refreshes the row, or leaves with nothing done.    *)
LEMMA UpsertMoves ==
  ASSUME StoreInv, NEW t \in Threads, At(t, "body"), UpsertDecides(t)
  PROVE  \/ /\ Step(t, "body", "write") /\ UNCHANGED files
            /\ Verdict(files[Target(t)], call[t].req.content, call[t].req.policy) = "write"
         \/ /\ files[Target(t)] \in Contents
            /\ Verdict(files[Target(t)], call[t].req.content, call[t].req.policy) = "unchanged"
            /\ call' = [call EXCEPT ![t].pc = "load", ![t].item = files[Target(t)],
                                    ![t].out = "unchanged"]
         \/ \E out \in {"error", "conflict"} :
              /\ Verdict(files[Target(t)], call[t].req.content, call[t].req.policy) = out
              /\ StepOut(t, "body", "leave", out)
<1> DEFINE old == files[Target(t)]
           verdict == Verdict(old, call[t].req.content, call[t].req.policy)
<1>1. CallShape(call[t]) /\ call[t].pc = "body" /\ Op(t) = "upsert"
  BY DEF StoreInv, At, UpsertDecides
<1>2. call[t].req \in AllRequests
  BY <1>1, StoreAssumption DEF CallShape
<1>3. call[t].req.content \in Contents
  BY <1>1, <1>2, RequestShape DEF Op
<1>4. old \in Contents \cup {NONE, CORRUPT}
  BY <1>1, TargetKnown DEF BundleOps, StoreInv, StoreTypeOK, Files
<1>5. verdict \in {"error", "write", "unchanged", "conflict"} /\ (verdict = "unchanged" => old \in Contents)
  BY <1>3, <1>4, VerdictShape
<1>6. CASE verdict = "write"
  BY <1>6, Zenon DEF UpsertDecides
<1>7. CASE verdict = "unchanged"
  <2>1. call' = [call EXCEPT ![t].pc = "load", ![t].item = old, ![t].out = "unchanged"]
    BY <1>7, "write" # "unchanged", Zenon DEF UpsertDecides
  <2>2. QED
    BY <1>5, <1>7, <2>1
<1>8. CASE verdict \in {"error", "conflict"}
  <2>1. verdict # "write" /\ verdict # "unchanged"
    BY <1>8
  <2>2. StepOut(t, "body", "leave", verdict)
    BY <2>1, Zenon DEF UpsertDecides
  <2>3. QED
    BY <1>8, <2>2
<1>9. QED
  BY <1>5, <1>6, <1>7, <1>8

(* The decision of UpsertBundle.                                           *)
LEMMA GoodUpsert ==
  ASSUME StoreInv, NEW t \in Threads, At(t, "body"), UpsertDecides(t)
  PROVE  GoodStep(t)
<1>1. /\ call \in [Threads -> Calls] /\ CallShape(call[t]) /\ call[t] \in Calls
      /\ call[t].pc = "body" /\ call[t].req.op = "upsert"
  BY DEF StoreInv, StoreTypeOK, At, UpsertDecides, Op
<1>2. CASE /\ Step(t, "body", "write") /\ UNCHANGED files
           /\ Verdict(files[Target(t)], call[t].req.content, call[t].req.policy) = "write"
  <2>1. call[t].pc = "body" /\ call'[t].pc = "write" /\ call'[t].out = call[t].out /\ Keeps(t)
    BY <1>1, <1>2, StepFacts DEF CallPCs
  <2>2. Decides(t)
    BY <1>2, <2>1 DEF Decides, Keeps
  <2>3. QED
    BY <1>1, <2>1, <2>2 DEF GoodStep, Inner, Busy, Quiet, CallShape, Keeps
<1>3. CASE /\ files[Target(t)] \in Contents
           /\ call' = [call EXCEPT ![t].pc = "load", ![t].item = files[Target(t)],
                                   ![t].out = "unchanged"]
  <2>1. call' \in [Threads -> Calls]
    BY <1>1, <1>3 DEF Calls, CallPCs, Outcomes
  <2>2. /\ \A u \in Threads \ {t} : call'[u] = call[u]
        /\ call'[t].pc = "load" /\ call'[t].out = "unchanged"
        /\ call'[t].req = call[t].req /\ call'[t].ver = call[t].ver
    BY <1>1, <1>3 DEF Calls
  <2>3. QED
    BY <1>1, <2>1, <2>2 DEF GoodStep, Inner, Busy, CallShape
<1>4. CASE \E out \in {"error", "conflict"} : StepOut(t, "body", "leave", out)
  <2>1. {"error", "conflict"} \subseteq Outcomes \ {"repaired"} /\ "body" \in Inner
    BY DEF Outcomes, Inner
  <2>2. QED
    BY <1>4, <2>1, GoodLeave
<1>5. QED
  BY <1>2, <1>3, <1>4, UpsertMoves

(* The steps that write and remove bundle files.                           *)
LEMMA GoodFileChange ==
  ASSUME StoreInv, NEW t \in Threads,
         WriteBundle(t) \/ Cleanup(t) \/ (At(t, "body") /\ RemoveBundle(t))
  PROVE  GoodStep(t)
<1>1. call \in [Threads -> Calls] /\ CallShape(call[t]) /\ call[t] \in Calls
  BY DEF StoreInv, StoreTypeOK
<1>o. {"error", "changed", "deleted", "absent"} \subseteq Outcomes \ {"repaired"}
  BY DEF Outcomes
<1>p. {"load", "cleanup"} \subseteq CallPCs /\ {"write", "body", "cleanup"} \subseteq Inner
  BY DEF CallPCs, Inner
<1>2. CASE StepOut(t, "write", "leave", "error") \/ StepOut(t, "cleanup", "leave", "error")
           \/ StepOut(t, "body", "leave", "error")
  BY <1>2, <1>o, <1>p, GoodLeave
<1>3. CASE /\ call[t].pc = "write"
           /\ call' = [call EXCEPT ![t].pc = "load", ![t].out = "changed",
                                   ![t].item = call[t].req.content]
  <2>1. call[t].req \in AllRequests /\ call[t].req.op = "upsert"
    BY <1>1, <1>3, StoreAssumption DEF CallShape
  <2>2. call[t].req.content \in Contents
    BY <2>1, RequestShape
  <2>3. call' \in [Threads -> Calls]
    BY <1>1, <1>3, <2>2 DEF Calls, CallPCs, Outcomes
  <2>4. /\ \A u \in Threads \ {t} : call'[u] = call[u]
        /\ call'[t].pc = "load" /\ call'[t].out = "changed"
        /\ call'[t].req = call[t].req /\ call'[t].ver = call[t].ver
    BY <1>1, <1>3 DEF Calls
  <2>5. QED
    BY <1>1, <1>3, <2>1, <2>3, <2>4 DEF GoodStep, Inner, Busy, Quiet, CallShape
<1>4. CASE Op(t) = "delete" /\ (\/ StepOut(t, "body", "load", "absent")
                                \/ StepOut(t, "body", "cleanup", "deleted"))
  <2>1. CASE StepOut(t, "body", "load", "absent")
    BY <1>1, <1>4, <2>1, <1>o, <1>p, StepOutFacts DEF GoodStep, Inner, Busy, Quiet, CallShape, Keeps, Op
  <2>2. CASE StepOut(t, "body", "cleanup", "deleted")
    BY <1>1, <1>4, <2>2, <1>o, <1>p, StepOutFacts DEF GoodStep, Inner, Busy, Quiet, CallShape, Keeps, Op
  <2>3. QED
    BY <1>4, <2>1, <2>2
<1>5. CASE Step(t, "cleanup", "load")
  BY <1>1, <1>5, <1>p, StepFacts DEF GoodStep, Inner, Busy, Quiet, CallShape, Keeps
<1>6. CASE WriteBundle(t)
  BY <1>2, <1>3, <1>6 DEF WriteBundle, At
<1>7. CASE Cleanup(t)
  BY <1>2, <1>5, <1>7 DEF Cleanup
<1>8. CASE RemoveBundle(t)
  BY <1>2, <1>4, <1>8 DEF RemoveBundle
<1>9. QED
  BY <1>6, <1>7, <1>8

(* The start of a rebuild of the index.                                    *)
LEMMA GoodRebuilds ==
  ASSUME StoreInv, NEW t \in Threads, NEW from \in {"body", "load"}, Rebuilds(t, from),
         Op(t) \in {"upsert", "delete", "list"}
  PROVE  GoodStep(t)
<1>1. call \in [Threads -> Calls] /\ CallShape(call[t]) /\ call[t] \in Calls
  BY DEF StoreInv, StoreTypeOK
<1>2. CASE StepOut(t, from, "leave", IndexError(t))
  <2>1. IndexError(t) \in Outcomes \ {"repaired"} /\ from \in Inner
    BY DEF IndexError, Outcomes, Inner
  <2>2. QED
    BY <1>2, <2>1, GoodLeave
<1>3. CASE ~StepOut(t, from, "leave", IndexError(t))
  <2>1. /\ call[t].pc = from /\ CORRUPT \notin {files[k] : k \in Key}
        /\ call' = [call EXCEPT ![t].pc = "rebuild", ![t].rows = files]
    BY <1>3 DEF Rebuilds
  <2>2. files \in Rows
    BY <2>1 DEF StoreInv, StoreTypeOK, Files, Rows
  <2>3. call' \in [Threads -> Calls]
    BY <1>1, <2>1, <2>2 DEF Calls, CallPCs
  <2>4. /\ \A u \in Threads \ {t} : call'[u] = call[u]
        /\ call'[t].pc = "rebuild" /\ call'[t].rows = files /\ call'[t].out = call[t].out
        /\ call'[t].req = call[t].req /\ call'[t].ver = call[t].ver
    BY <1>1, <2>1 DEF Calls
  <2>5. QED
    BY <1>1, <2>1, <2>2, <2>3, <2>4 DEF GoodStep, Inner, Busy, Quiet, CallShape, Op
<1>4. QED
  BY <1>2, <1>3

(* The bodies of loadIndex and NewStore.                                   *)
LEMMA GoodRepair ==
  ASSUME StoreInv, NEW t \in Threads, At(t, "body"), RepairBody(t) \/ EnsureLayout(t)
  PROVE  GoodStep(t)
<1>1. call \in [Threads -> Calls] /\ CallShape(call[t]) /\ call[t] \in Calls
  BY DEF StoreInv, StoreTypeOK
<1>o. {"opened", "error"} \subseteq Outcomes \ {"repaired"} /\ "repaired" \in Outcomes /\ "body" \in Inner
  BY DEF Outcomes, Inner
<1>2. CASE EnsureLayout(t)
  <2>1. StepOut(t, "body", "leave", "opened") \/ StepOut(t, "body", "leave", "error")
    BY <1>2 DEF EnsureLayout
  <2>2. QED
    BY <2>1, <1>o, GoodLeave
<1>3. CASE Op(t) = "list" /\ StepOut(t, "body", "leave", "repaired")
  <2>1. "leave" \in CallPCs
    BY DEF CallPCs
  <2>2. QED
    BY <1>1, <1>3, <2>1, <1>o, StepOutFacts DEF GoodStep, Inner, Busy, Quiet, CallShape, Keeps, Op
<1>4. CASE Op(t) = "list" /\ Rebuilds(t, "body")
  BY <1>4, GoodRebuilds
<1>5. QED
  BY <1>2, <1>3, <1>4 DEF RepairBody

(* The steps that load and save the index.                                 *)
LEMMA GoodIndex ==
  ASSUME StoreInv, NEW t \in Threads, LoadIndex(t) \/ SaveRebuilt(t) \/ SaveIndex(t)
  PROVE  GoodStep(t)
<1>1. call \in [Threads -> Calls] /\ CallShape(call[t]) /\ call[t] \in Calls
  BY DEF StoreInv, StoreTypeOK
<1>o. IndexError(t) \in Outcomes \ {"repaired"} /\ "repaired" \in Outcomes
  BY DEF IndexError, Outcomes
<1>2. CASE LoadIndex(t)
  <2>1. call[t].pc = "load" /\ Op(t) \in {"upsert", "delete"}
    BY <1>1, <1>2 DEF LoadIndex, At, CallShape, Op
  <2>2. CASE Rebuilds(t, "load")
    BY <2>1, <2>2, GoodRebuilds
  <2>3. CASE ~Rebuilds(t, "load")
    <3>1. /\ IndexValid
          /\ call' = [call EXCEPT ![t].pc = "save",
                                  ![t].rows = [index EXCEPT ![Target(t)] = call[t].item]]
      BY <1>2, <2>3 DEF LoadIndex
    <3> DEFINE rows == [index EXCEPT ![Target(t)] = call[t].item]
    <3>2. index \in Rows /\ call[t].item \in Contents \cup {NONE}
      BY <1>1, <3>1 DEF IndexValid, StoreInv, StoreTypeOK, Calls
    <3>3. rows \in Rows
      BY <3>2 DEF Rows
    <3>4. call' = [call EXCEPT ![t].pc = "save", ![t].rows = rows]
      BY <3>1
    <3> HIDE DEF rows
    <3>5. call' \in [Threads -> Calls]
      BY <1>1, <3>3, <3>4 DEF Calls, CallPCs
    <3>6. /\ \A u \in Threads \ {t} : call'[u] = call[u]
          /\ call'[t].pc = "save" /\ call'[t].rows = rows /\ call'[t].out = call[t].out
          /\ call'[t].req = call[t].req /\ call'[t].ver = call[t].ver
      BY <1>1, <3>4 DEF Calls
    <3>7. QED
      BY <1>1, <2>1, <3>3, <3>5, <3>6 DEF GoodStep, Inner, Busy, Quiet, CallShape, Op
  <2>4. QED
    BY <2>2, <2>3
<1>3. CASE SaveRebuilt(t) \/ SaveIndex(t)
  <2>1. PICK to \in {"leave", "load"}, out \in Outcomes :
          /\ call[t].pc \in {"rebuild", "save"}
          /\ to = "load" => call[t].pc = "rebuild" /\ Op(t) # "list"
          /\ out = "repaired" => Op(t) = "list"
          /\ call' = [call EXCEPT ![t].rows = NONE, ![t].pc = to, ![t].out = out]
    <3>1. CASE SaveRebuilt(t)
      <4>1. CASE call' = [call EXCEPT ![t].rows = NONE, ![t].pc = "leave",
                                      ![t].out = IndexError(t)]
        BY <1>o, <3>1, <4>1 DEF SaveRebuilt, At
      <4>2. CASE Op(t) = "list" /\ call' = [call EXCEPT ![t].rows = NONE, ![t].pc = "leave",
                                      ![t].out = "repaired"]
        BY <1>o, <3>1, <4>2 DEF SaveRebuilt, At
      <4>3. CASE Op(t) # "list" /\ call' = [call EXCEPT ![t].rows = NONE, ![t].pc = "load",
                                      ![t].out = call[t].out]
        BY <1>1, <3>1, <4>3 DEF SaveRebuilt, At, CallShape, Op, Calls
      <4>4. QED
        BY <1>1, <3>1, <4>1, <4>2, <4>3 DEF SaveRebuilt, Calls
    <3>2. CASE SaveIndex(t)
      <4>1. CASE call' = [call EXCEPT ![t].rows = NONE, ![t].pc = "leave",
                                      ![t].out = IndexError(t)]
        BY <1>o, <3>2, <4>1 DEF SaveIndex, At
      <4>2. CASE call' = [call EXCEPT ![t].rows = NONE, ![t].pc = "leave"]
        <5>1. call' = [call EXCEPT ![t].rows = NONE, ![t].pc = "leave", ![t].out = call[t].out]
          BY <1>1, <4>2 DEF Calls
        <5>2. QED
          BY <1>1, <3>2, <5>1 DEF SaveIndex, At, CallShape, Op, Calls
      <4>3. QED
        BY <3>2, <4>1, <4>2 DEF SaveIndex
    <3>3. QED
      BY <1>3, <3>1, <3>2
  <2>2. call' \in [Threads -> Calls]
    BY <1>1, <2>1 DEF Calls, CallPCs
  <2>3. /\ \A u \in Threads \ {t} : call'[u] = call[u]
        /\ call'[t].pc = to /\ call'[t].out = out
        /\ call'[t].req = call[t].req /\ call'[t].ver = call[t].ver
    BY <1>1, <2>1 DEF Calls
  <2>4. QED
    BY <1>1, <2>1, <2>2, <2>3 DEF GoodStep, Inner, Busy, Quiet, CallShape, Op
<1>4. QED
  BY <1>2, <1>3

-----------------------------------------------------------------------------
(* The invariant is inductive                                              *)

(* The part of StoreInv about the calls.                                   *)
CallsOK == call \in [Threads -> Calls] /\ \A t \in Threads : CallShape(call[t])

(* Every step keeps the calls well formed.                                 *)
LEMMA CallsStep ==
  ASSUME StoreInv, Next
  PROVE  CallsOK'
<1>1. ASSUME NEW t \in Threads, GoodStep(t) PROVE CallsOK'
  BY <1>1 DEF GoodStep, CallsOK, StoreInv
<1>2. ASSUME UNCHANGED call PROVE CallsOK'
  BY <1>2 DEF CallsOK, StoreInv, StoreTypeOK
<1>3. ASSUME NEW t \in Threads, NEW r \in Requests, Call(t, r) \/ Open(t, r) PROVE CallsOK'
  BY <1>1, <1>3, GoodStart
<1>4. ASSUME NEW t \in Threads, Unlocked(t) PROVE CallsOK'
  BY <1>1, <1>4, GoodUnlocked
<1>5. ASSUME NEW t \in Threads, AwaitMutex(t) PROVE CallsOK'
  BY <1>2, <1>5 DEF AwaitMutex, storeVars
<1>6. ASSUME NEW t \in Threads, Enter(t) \/ GiveUp(t) \/ Leave(t) \/ Exit(t) PROVE CallsOK'
  BY <1>1, <1>6, GoodLocked
<1>7. ASSUME NEW t \in Threads, Body(t) PROVE CallsOK'
  BY <1>1, <1>7, GoodUpsert, GoodFileChange, GoodRepair, GoodIndex DEF Body
<1>8. ASSUME NEW p \in Procs, Quit(p) PROVE CallsOK'
  BY <1>2, <1>8 DEF Quit
<1>9. ASSUME NEW p \in Procs, Crash(p) PROVE CallsOK'
  <2>1. Ready \in Calls /\ CallShape(Ready)
    BY ReadyFacts
  <2>2. call' = [t \in Threads |-> IF t \in {u \in Threads : ProcOf[u] = p} THEN Ready ELSE call[t]]
    BY <1>9 DEF Crash
  <2>3. \A t \in Threads : call'[t] = Ready \/ call'[t] = call[t]
    BY <2>2
  <2>4. call' \in [Threads -> Calls]
    BY <2>1, <2>2 DEF StoreInv, StoreTypeOK
  <2>5. QED
    BY <2>1, <2>3, <2>4 DEF CallsOK, StoreInv
<1>10. CASE Damage
  BY <1>2, <1>10 DEF Damage
<1>11. QED
  BY <1>3, <1>4, <1>5, <1>6, <1>7, <1>8, <1>9, <1>10 DEF Next

(* The part of StoreInv about the files and the processes.                 *)
WorldOK ==
    /\ files \in Files
    /\ index \in Rows \cup {ABSENT, DAMAGED}
    /\ opened \subseteq Procs
    /\ stale \in [Key -> {"no", "interrupted", "blanked"}]
    /\ faults \in 0 .. MaxFaults

(* Every step keeps the types of the files and the processes.              *)
LEMMA WorldStep ==
  ASSUME StoreInv, Next
  PROVE  WorldOK'
<1>1. WorldOK
  BY DEF StoreInv, StoreTypeOK, WorldOK
<1>2. ASSUME Fault \/ UNCHANGED faults PROVE faults' \in 0 .. MaxFaults
  BY <1>1, <1>2, StoreAssumption DEF WorldOK, Fault
<1>3. ASSUME NEW k, Interrupted(k) PROVE stale' \in [Key -> {"no", "interrupted", "blanked"}]
  BY <1>1, <1>3 DEF WorldOK, Interrupted
<1>4. ASSUME UNCHANGED storeVars \/ UNCHANGED <<files, index, opened, stale, faults>> PROVE WorldOK'
  BY <1>1, <1>4 DEF WorldOK, storeVars
<1>5. ASSUME NEW t \in Threads, NEW r \in Requests, Call(t, r) \/ Open(t, r) PROVE WorldOK'
  BY <1>4, <1>5 DEF Call, Open
<1>6. ASSUME NEW t \in Threads, Unlocked(t) PROVE WorldOK'
  BY <1>4, <1>6 DEF Unlocked, Resolve, Read, List, Reload, Return
<1>7. ASSUME NEW t \in Threads, AwaitMutex(t) \/ Enter(t) PROVE WorldOK'
  BY <1>4, <1>7 DEF AwaitMutex, Enter
<1>8. ASSUME NEW t \in Threads, GiveUp(t) \/ Leave(t) PROVE WorldOK'
  BY <1>1, <1>2, <1>8 DEF GiveUp, Leave, WorldOK
<1>9. ASSUME NEW t \in Threads, Exit(t) PROVE WorldOK'
  BY <1>1, <1>9, LockAssumption DEF Exit, WorldOK
<1>10. ASSUME NEW t \in Threads, UpsertDecides(t) \/ RepairBody(t) \/ LoadIndex(t) PROVE WorldOK'
  BY <1>4, <1>10 DEF UpsertDecides, RepairBody, LoadIndex
<1>11. ASSUME NEW t \in Threads, WriteBundle(t) PROVE WorldOK'
  <2>1. call[t].req.content \in Contents
    BY <1>11, RequestShape, StoreAssumption DEF WriteBundle, At, StoreInv, CallShape
  <2>2. files' \in Files
    BY <1>1, <1>11, <2>1 DEF WriteBundle, WorldOK, Files
  <2>3. faults' \in 0 .. MaxFaults
    BY <1>2, <1>11 DEF WriteBundle
  <2>4. stale' \in [Key -> {"no", "interrupted", "blanked"}]
    BY <1>1, <1>3, <1>11 DEF WriteBundle, WorldOK
  <2>5. QED
    BY <1>1, <1>11, <2>2, <2>3, <2>4 DEF WriteBundle, WorldOK
<1>12. ASSUME NEW t \in Threads, RemoveBundle(t) PROVE WorldOK'
  <2>1. files' \in Files
    BY <1>1, <1>12 DEF RemoveBundle, WorldOK, Files
  <2>2. faults' \in 0 .. MaxFaults
    BY <1>2, <1>12 DEF RemoveBundle
  <2>3. QED
    BY <1>1, <1>12, <2>1, <2>2 DEF RemoveBundle, WorldOK
<1>13. ASSUME NEW t \in Threads, Cleanup(t) PROVE WorldOK'
  <2>1. faults' \in 0 .. MaxFaults
    BY <1>2, <1>13 DEF Cleanup
  <2>2. stale' \in [Key -> {"no", "interrupted", "blanked"}]
    BY <1>1, <1>3, <1>13 DEF Cleanup, WorldOK
  <2>3. QED
    BY <1>1, <1>13, <2>1, <2>2 DEF Cleanup, WorldOK
<1>14. ASSUME NEW t \in Threads, EnsureLayout(t) PROVE WorldOK'
  <2>1. faults' \in 0 .. MaxFaults
    BY <1>2, <1>14 DEF EnsureLayout
  <2>2. /\ index' \in Rows \cup {ABSENT, DAMAGED}
        /\ stale' \in [Key -> {"no", "interrupted", "blanked"}]
    BY <1>1, <1>14 DEF EnsureLayout, WorldOK, Rows
  <2>3. QED
    BY <1>1, <1>14, <2>1, <2>2 DEF EnsureLayout, WorldOK
<1>15. ASSUME NEW t \in Threads, SaveRebuilt(t) \/ SaveIndex(t) PROVE WorldOK'
  <2>1. call[t].rows \in Rows
    BY <1>15 DEF SaveRebuilt, SaveIndex, At, StoreInv, CallShape
  <2>2. faults' \in 0 .. MaxFaults
    BY <1>2, <1>15 DEF SaveRebuilt, SaveIndex
  <2>3. index' \in Rows \cup {ABSENT, DAMAGED}
    BY <1>1, <1>15, <2>1 DEF SaveRebuilt, SaveIndex, WorldOK
  <2>4. stale' \in [Key -> {"no", "interrupted", "blanked"}]
    BY <1>1, <1>3, <1>15 DEF SaveRebuilt, SaveIndex, WorldOK
  <2>5. QED
    BY <1>1, <1>15, <2>2, <2>3, <2>4 DEF SaveRebuilt, SaveIndex, WorldOK
<1>16. ASSUME NEW p \in Procs, Quit(p) PROVE WorldOK'
  BY <1>1, <1>16 DEF Quit, WorldOK
<1>17. ASSUME NEW p \in Procs, Crash(p) PROVE WorldOK'
  <2>1. faults' \in 0 .. MaxFaults
    BY <1>2, <1>17 DEF Crash
  <2>2. stale' \in [Key -> {"no", "interrupted", "blanked"}]
    BY <1>1, <1>17 DEF Crash, WorldOK
  <2>3. QED
    BY <1>1, <1>17, <2>1, <2>2 DEF Crash, WorldOK
<1>18. CASE Damage
  <2>1. faults' \in 0 .. MaxFaults
    BY <1>2, <1>18 DEF Damage
  <2>2. files' \in Files
    BY <1>1, <1>18 DEF Damage, WorldOK, Files
  <2>3. QED
    BY <1>1, <1>18, <2>1, <2>2 DEF Damage, WorldOK
<1>19. QED
  BY <1>5, <1>6, <1>7, <1>8, <1>9, <1>10, <1>11, <1>12, <1>13, <1>14, <1>15, <1>16, <1>17, <1>18
     DEF Next, Body

(* The part of StoreInv about the two program counters.                    *)
Matching == \A t \in Threads : PcMatch(t)

(* Every step moves the two program counters of a goroutine together.      *)
LEMMA MatchStep ==
  ASSUME StoreInv, Next
  PROVE  Matching'
<1>1. /\ call \in [Threads -> Calls] /\ call' \in [Threads -> Calls]
      /\ lpc \in [Threads -> LockPCs]
      /\ \A t \in Threads : call[t].pc \in CallPCs /\ call'[t].pc \in CallPCs
  BY CallsStep DEF StoreInv, StoreTypeOK, LockTypeOK, CallsOK, Calls
<1>2. \A t \in Threads : PcMatch(t)
  BY DEF StoreInv
<1>3. ASSUME NEW t \in Threads, \A u \in Threads \ {t} : call'[u] = call[u],
             \A u \in Threads \ {t} : lpc'[u] = lpc[u], PcMatch(t)'
      PROVE  Matching'
  BY <1>2, <1>3 DEF Matching, PcMatch
<1>4. ASSUME NEW t \in Threads, \A u \in Threads \ {t} : call'[u] = call[u],
             UNCHANGED lockVars, PcMatch(t)'
      PROVE  Matching'
  BY <1>3, <1>4 DEF lockVars
<1>5. ASSUME NEW t \in Threads, NEW from, NEW to, Goto(t, from, to)
      PROVE  lpc[t] = from /\ lpc'[t] = to /\ \A u \in Threads \ {t} : lpc'[u] = lpc[u]
  BY <1>1, <1>5 DEF Goto
<1> USE DEF CallPCs, LockPCs
<1>6. ASSUME NEW t \in Threads, NEW r \in Requests, Call(t, r) \/ Open(t, r) PROVE Matching'
  <2> r \in AllRequests
    BY StoreAssumption
  <2>1. GoodStep(t)
    BY <1>6, GoodStart
  <2>2. CASE Request(t) /\ call'[t].pc = "enter"
    <3>1. Goto(t, "idle", "mutex")
      BY <2>2 DEF Request
    <3>2. PcMatch(t)'
      BY <1>5, <2>2, <3>1 DEF PcMatch, Outer, Inner
    <3>3. QED
      BY <1>3, <1>5, <2>1, <3>1, <3>2 DEF GoodStep
  <2>3. CASE UNCHANGED lockVars /\ call[t].pc = "ready" /\ call'[t].pc \in {"list", "resolve"}
    <3>1. PcMatch(t)'
      BY <1>1, <1>2, <2>3 DEF PcMatch, Outer, Inner, lockVars
    <3>2. QED
      BY <1>4, <2>1, <2>3, <3>1 DEF GoodStep
  <2>4. CASE Open(t, r)
    <3>1. call' = [call EXCEPT ![t].req = r, ![t].pc = "enter"] /\ Request(t)
      BY <2>4 DEF Open
    <3>2. call'[t].pc = "enter"
      BY <1>1, <3>1 DEF Calls
    <3>3. QED
      BY <2>2, <3>1, <3>2
  <2>5. CASE Call(t, r)
    <3> DEFINE to == CASE r.op = "upsert" -> "enter"
                       [] r.op = "list" -> "list"
                       [] OTHER -> "resolve"
    <3>1. (r.op = "upsert" => to = "enter") /\ (r.op # "upsert" => to \in {"list", "resolve"})
      BY "upsert" # "list", Zenon
    <3>2. /\ call[t].pc = "ready"
          /\ call' = [call EXCEPT ![t].req = r, ![t].ver = r.ver, ![t].pc = to]
          /\ IF r.op = "upsert" THEN Request(t) ELSE UNCHANGED lockVars
      BY <2>5 DEF Call, At
    <3> HIDE DEF to
    <3>3. call'[t].pc = to
      BY <1>1, <3>2 DEF Calls
    <3>4. QED
      BY <2>2, <2>3, <3>1, <3>2, <3>3
  <2>6. QED
    BY <1>6, <2>4, <2>5
<1>7. ASSUME NEW t \in Threads, Unlocked(t) PROVE Matching'
  <2>1. GoodStep(t)
    BY <1>7, GoodUnlocked
  <2>2. CASE Request(t) /\ call'[t].pc = "enter"
    <3>1. Goto(t, "idle", "mutex")
      BY <2>2 DEF Request
    <3>2. PcMatch(t)'
      BY <1>5, <2>2, <3>1 DEF PcMatch, Outer, Inner
    <3>3. QED
      BY <1>3, <1>5, <2>1, <3>1, <3>2 DEF GoodStep
  <2>3. CASE UNCHANGED lockVars /\ call[t].pc \in Outer /\ call'[t].pc \in Outer
    <3>1. PcMatch(t)'
      BY <1>1, <1>2, <2>3 DEF PcMatch, Outer, Inner, lockVars
    <3>2. QED
      BY <1>4, <2>1, <2>3, <3>1 DEF GoodStep
  <2>4. ASSUME NEW from, NEW to \in CallPCs, NEW out \in Outcomes, StepOut(t, from, to, out)
        PROVE  call[t].pc = from /\ call'[t].pc = to
    <3>1. call \in [Threads -> Calls]
      BY <1>1
    <3> HIDE DEF CallPCs
    <3>2. QED
      BY <2>4, <3>1, StepOutFacts
  <2>5. CASE Resolve(t)
    <3>1. CASE UNCHANGED lockVars /\ StepOut(t, "resolve", "return", "not_found")
      BY <2>3, <2>4, <3>1 DEF Outer, Outcomes
    <3>2. CASE ~(UNCHANGED lockVars /\ StepOut(t, "resolve", "return", "not_found"))
      <4>1. PICK latest :
              /\ call[t].pc = "resolve"
              /\ call' = [call EXCEPT ![t].ver = latest,
                                      ![t].pc = IF Op(t) = "get" THEN "read" ELSE "enter"]
              /\ IF Op(t) = "get" THEN UNCHANGED lockVars ELSE Request(t)
        BY <2>5, <3>2 DEF Resolve, At
      <4>2. call'[t].pc = IF Op(t) = "get" THEN "read" ELSE "enter"
        BY <1>1, <4>1 DEF Calls
      <4>3. QED
        BY <2>2, <2>3, <4>1, <4>2 DEF Outer
    <3>3. QED
      BY <3>1, <3>2
  <2>6. CASE Read(t) \/ List(t) \/ Reload(t) \/ Return(t)
    <3>1. CASE Read(t)
      <4> DEFINE out == CASE files[Target(t)] = NONE -> "not_found"
                          [] files[Target(t)] = CORRUPT -> "error"
                          [] OTHER -> "found"
      <4>1. out \in {"not_found", "error", "found"}
        BY Zenon
      <4>2. StepOut(t, "read", "return", out) /\ UNCHANGED lockVars
        BY <3>1 DEF Read
      <4> HIDE DEF out
      <4>3. out \in Outcomes
        BY <4>1 DEF Outcomes
      <4>4. QED
        BY <2>3, <2>4, <4>2, <4>3 DEF Outer
    <3>2. CASE List(t)
      <4>1. CASE StepOut(t, "list", "return", "listed") /\ UNCHANGED lockVars
        BY <2>3, <2>4, <4>1 DEF Outer, Outcomes
      <4>2. CASE Step(t, "list", "enter") /\ Request(t)
        BY <1>1, <2>2, <4>2, StepFacts
      <4>3. QED
        BY <3>2, <4>1, <4>2 DEF List
    <3>3. CASE Reload(t)
      BY <2>3, <2>4, <3>3 DEF Reload, Outer, Outcomes
    <3>4. CASE Return(t)
      <4>1. call[t].pc = "return" /\ call' = [call EXCEPT ![t] = Ready] /\ UNCHANGED lockVars
        BY <3>4 DEF Return, At
      <4>2. call'[t].pc = "ready"
        BY <1>1, <4>1 DEF Ready
      <4>3. QED
        BY <2>3, <4>1, <4>2 DEF Outer
    <3>5. QED
      BY <2>6, <3>1, <3>2, <3>3, <3>4
  <2>7. QED
    BY <1>7, <2>5, <2>6 DEF Unlocked
<1>8. ASSUME NEW t \in Threads, AwaitMutex(t) PROVE Matching'
  <2>1. call' = call /\ Goto(t, "mutex", "poll")
    BY <1>8 DEF AwaitMutex, storeVars, MutexLock
  <2>2. PcMatch(t)'
    BY <2>1, <1>1, <1>2, <1>5 DEF PcMatch
  <2>3. QED
    BY <2>1, <2>2, <1>3, <1>5
<1>9. ASSUME NEW t \in Threads, Enter(t) PROVE Matching'
  <2>1. Step(t, "enter", "body") /\ Goto(t, "poll", "held")
    BY <1>9 DEF Enter, TryLock
  <2>2. PcMatch(t)'
    BY <2>1, <1>1, <1>5, StepFacts DEF PcMatch, Outer, Inner
  <2>3. QED
    BY <2>1, <2>2, <1>1, <1>3, <1>5, StepFacts DEF Keeps
<1>10. ASSUME NEW t \in Threads, GiveUp(t) PROVE Matching'
  <2>1. StepOut(t, "enter", "exit", "error") /\ Goto(t, "poll", "release")
    BY <1>10 DEF GiveUp, TryTimesOut, TryFails
  <2>2. call'[t].pc = "exit" /\ Keeps(t)
    BY <2>1, <1>1, StepOutFacts DEF Outcomes
  <2>3. PcMatch(t)'
    BY <2>1, <2>2, <1>5 DEF PcMatch, Outer, Inner
  <2>4. QED
    BY <2>1, <2>2, <2>3, <1>3, <1>5 DEF Keeps
<1>11. ASSUME NEW t \in Threads, Leave(t) PROVE Matching'
  <2>1. /\ Step(t, "leave", "exit") \/ StepOut(t, "leave", "exit", "error")
        /\ Goto(t, "held", "release")
    BY <1>11 DEF Leave, FileUnlock
  <2>2. call'[t].pc = "exit" /\ Keeps(t)
    BY <2>1, <1>1, StepFacts, StepOutFacts DEF Outcomes
  <2>3. PcMatch(t)'
    BY <2>1, <2>2, <1>5 DEF PcMatch, Outer, Inner
  <2>4. QED
    BY <2>1, <2>2, <2>3, <1>3, <1>5 DEF Keeps
<1>12. ASSUME NEW t \in Threads, Exit(t) PROVE Matching'
  <2>1. /\ Step(t, "exit", "reload") \/ call' = [call EXCEPT ![t] = Ready]
        /\ Goto(t, "release", "idle")
    BY <1>12 DEF Exit, MutexUnlock
  <2>2. call'[t].pc \in {"reload", "ready"}
    BY <2>1, <1>1, StepFacts DEF Ready
  <2>3. PcMatch(t)'
    BY <2>1, <2>2, <1>5 DEF PcMatch, Outer, Inner
  <2>4. GoodStep(t)
    BY <1>12, GoodLocked
  <2>5. QED
    BY <2>1, <2>3, <2>4, <1>3, <1>5 DEF GoodStep
<1>13. ASSUME NEW t \in Threads, Body(t) PROVE Matching'
  <2>1. GoodStep(t)
    BY <1>13, GoodUpsert, GoodFileChange, GoodRepair, GoodIndex DEF Body
  <2>2. call[t].pc \in Inner \ {"leave"} /\ UNCHANGED lockVars
    BY <1>13 DEF Body, At, UpsertDecides, RemoveBundle, RepairBody, EnsureLayout, WriteBundle,
       Cleanup, Step, StepOut, LoadIndex, SaveRebuilt, SaveIndex, Inner
  <2>3. PcMatch(t)'
    BY <2>1, <2>2, <1>1, <1>2 DEF GoodStep, PcMatch, Outer, Inner, lockVars
  <2>4. QED
    BY <1>4, <2>1, <2>2, <2>3 DEF GoodStep
<1>14. ASSUME NEW p \in Procs, Quit(p) PROVE Matching'
  BY <1>2, <1>14 DEF Quit, lockVars, Matching, PcMatch
<1>15. ASSUME NEW p \in Procs, Crash(p) PROVE Matching'
  <2>1. /\ call' = [t \in Threads |-> IF t \in {u \in Threads : ProcOf[u] = p} THEN Ready ELSE call[t]]
        /\ lpc' = [t \in Threads |-> IF ProcOf[t] = p THEN "idle" ELSE lpc[t]]
    BY <1>15 DEF Crash, Kill
  <2>2. QED
    BY <2>1, <1>2 DEF Matching, PcMatch, Ready, Outer, Inner
<1>16. CASE Damage
  BY <1>2, <1>16 DEF Damage, lockVars, Matching, PcMatch
<1>17. QED
  BY <1>6, <1>7, <1>8, <1>9, <1>10, <1>11, <1>12, <1>13, <1>14, <1>15, <1>16 DEF Next

(* The invariant holds at the start.                                       *)
LEMMA StoreInvInit == Init => StoreInv
<1> SUFFICES ASSUME Init PROVE StoreInv
  OBVIOUS
<1>1. LockInv /\ LockTypeOK
  BY LockInitInv DEF Init, LockInv
<1>2. CallsOK
  BY ReadyFacts DEF Init, CallsOK
<1>3. WorldOK
  BY StoreAssumption DEF Init, WorldOK, Files
<1>4. \A t \in Threads : PcMatch(t)
  BY DEF Init, LockInit, PcMatch, Ready, Outer, Inner
<1>5. QED
  BY <1>1, <1>2, <1>3, <1>4 DEF StoreInv, StoreTypeOK, CallsOK, WorldOK

(* The invariant is inductive.                                             *)
LEMMA StoreInvStep == StoreInv /\ [Next]_vars => StoreInv'
<1> SUFFICES ASSUME StoreInv, [Next]_vars PROVE StoreInv'
  OBVIOUS
<1>1. CASE Next
  <2>1. LockInv' /\ LockTypeOK'
    BY <1>1, LockMoves, LockTypeStep, MutexStep, FlockStep DEF StoreInv, LockInv
  <2>2. QED
    BY <1>1, <2>1, CallsStep, WorldStep, MatchStep
       DEF StoreInv, StoreTypeOK, CallsOK, WorldOK, Matching
<1>2. CASE UNCHANGED vars
  <2>1. LockInv'
    BY <1>2, LockTypeStep, MutexStep, FlockStep DEF StoreInv, LockInv, vars
  <2>2. QED
    BY <1>2, <2>1 DEF vars, lockVars, storeVars, StoreInv, StoreTypeOK, LockTypeOK, PcMatch
<1>3. QED
  BY <1>1, <1>2

(* The inductive invariant of the store.                                   *)
THEOREM StoreInvariant == SafeSpec => []StoreInv
<1>1. QED
  BY StoreInvInit, StoreInvStep, PTL DEF SafeSpec

(* Type correctness of the store.                                          *)
THEOREM StoreTypeCorrect == SafeSpec => []StoreTypeOK
<1>1. StoreInv => StoreTypeOK
  BY DEF StoreInv
<1>2. QED
  BY StoreInvariant, <1>1, PTL

(* The bodies of upsert, delete, repair and ensureLayout run one at a time. *)
THEOREM StoreMutualExclusion == SafeSpec => []MutualExclusion
<1>1. StoreInv => MutualExclusion
  BY LockAssumption
     DEF StoreInv, LockInv, LockTypeOK, MutexMatches, FlockMatches, MutualExclusion, Inside
<1>2. QED
  BY StoreInvariant, <1>1, PTL

-----------------------------------------------------------------------------
(* No silent overwrite                                                     *)

(* A goroutine about to write has a verdict that is still good.            *)
WriteDue ==
    \A t \in Threads : call[t].pc = "write" =>
        Verdict(files[Target(t)], call[t].req.content, call[t].req.policy) = "write"

(* Bundle files change under the lock, or by damage from outside.          *)
LEMMA FilesMove ==
  ASSUME StoreInv, Next
  PROVE  \/ UNCHANGED files
         \/ \E t \in Threads :
              /\ Inside(t) /\ GoodStep(t)
              /\ WriteBundle(t) \/ (At(t, "body") /\ RemoveBundle(t))
         \/ Damage
<1>1. ASSUME NEW t \in Threads, WriteBundle(t) \/ (At(t, "body") /\ RemoveBundle(t))
      PROVE  Inside(t) /\ GoodStep(t)
  <2>1. call[t].pc \in Inner
    BY <1>1 DEF WriteBundle, At, Inner
  <2>2. QED
    BY <1>1, <2>1, GoodFileChange DEF StoreInv, PcMatch, Inside
<1>2. ASSUME NEW t \in Threads, NEW r \in Requests, Call(t, r) \/ Open(t, r) PROVE UNCHANGED files
  BY <1>2 DEF Call, Open
<1>3. ASSUME NEW t \in Threads,
             Unlocked(t) \/ AwaitMutex(t) \/ Enter(t) \/ GiveUp(t) \/ Leave(t) \/ Exit(t)
      PROVE  UNCHANGED files
  BY <1>3 DEF Unlocked, Resolve, Read, List, Reload, Return, AwaitMutex, storeVars, Enter,
              GiveUp, Leave, Exit
<1>5. ASSUME NEW p \in Procs, Quit(p) \/ Crash(p) PROVE UNCHANGED files
  BY <1>5 DEF Quit, Crash
<1>6. ASSUME NEW t \in Threads, Body(t)
      PROVE  UNCHANGED files \/ WriteBundle(t) \/ (At(t, "body") /\ RemoveBundle(t))
  BY <1>6 DEF Body, UpsertDecides, RepairBody, EnsureLayout, Cleanup, LoadIndex, SaveRebuilt, SaveIndex
<1>7. QED
  BY <1>1, <1>2, <1>3, <1>5, <1>6 DEF Next

(* A goroutine comes to write only by a verdict.                           *)
LEMMA CallMoves ==
  ASSUME StoreInv, Next, NEW t \in Threads, call'[t].pc = "write"
  PROVE  call'[t] = call[t] \/ Decides(t)
<1>1. ASSUME NEW u \in Threads, GoodStep(u) PROVE call'[t] = call[t] \/ Decides(t)
  BY <1>1 DEF GoodStep
<1>2. ASSUME NEW u \in Threads, NEW r \in Requests, Call(u, r) \/ Open(u, r)
      PROVE  call'[t] = call[t] \/ Decides(t)
  BY <1>1, <1>2, GoodStart
<1>3. ASSUME NEW u \in Threads,
             Unlocked(u) \/ Enter(u) \/ GiveUp(u) \/ Leave(u) \/ Exit(u) \/ Body(u)
      PROVE  call'[t] = call[t] \/ Decides(t)
  BY <1>1, <1>3, GoodUnlocked, GoodLocked, GoodUpsert, GoodFileChange, GoodRepair, GoodIndex DEF Body
<1>4. ASSUME NEW p \in Procs, Crash(p) PROVE call'[t] = call[t]
  <2>1. call'[t] = Ready \/ call'[t] = call[t]
    BY <1>4 DEF Crash
  <2>2. QED
    BY <2>1 DEF Ready
<1>5. QED
  BY <1>2, <1>3, <1>4 DEF Next, AwaitMutex, storeVars, Quit, Damage

(* Nothing changes the file between the verdict and the write.             *)
LEMMA WriteDueStep ==
  ASSUME FileLocking, StoreInv, WriteDue, Next
  PROVE  WriteDue'
<1> SUFFICES ASSUME NEW t \in Threads, call'[t].pc = "write"
             PROVE  Verdict(files'[Target(t)'], call'[t].req.content, call'[t].req.policy) = "write"
  BY DEF WriteDue
<1>1. CASE Decides(t)
  BY <1>1 DEF Decides, Target
<1>2. CASE call'[t] = call[t]
  <2>1. Target(t)' = Target(t) /\ Inside(t)
    BY <1>2 DEF Target, StoreInv, PcMatch, Inner, Inside
  <2>2. files'[Target(t)] = files[Target(t)]
    <3>1. CASE Damage
      BY <2>1, <3>1 DEF Damage, Inside
    <3>2. ASSUME NEW u \in Threads, Inside(u), GoodStep(u),
                 WriteBundle(u) \/ (At(u, "body") /\ RemoveBundle(u))
          PROVE  files'[Target(t)] = files[Target(t)]
      <4>1. u = t
        BY <2>1, <3>2, LockAssumption DEF StoreInv, LockInv, FlockMatches, Inside
      <4>2. ~WriteBundle(u)
        <5>1. ASSUME WriteBundle(u) PROVE call'[u].pc # "write"
          <6>1. \/ StepOut(u, "write", "leave", "error")
                \/ call' = [call EXCEPT ![u].pc = "load", ![u].out = "changed",
                                        ![u].item = call[u].req.content]
            BY <5>1 DEF WriteBundle
          <6>2. QED
            BY <6>1, StepOutFacts DEF StoreInv, StoreTypeOK, Calls, CallPCs, Outcomes
        <5>2. QED
          BY <4>1, <5>1
      <4>3. call[u].pc = "body"
        BY <3>2, <4>2 DEF At
      <4>4. QED
        BY <1>2, <4>1, <4>3
    <3>3. QED
      BY <3>1, <3>2, FilesMove
  <2>3. QED
    BY <1>2, <2>1, <2>2 DEF WriteDue
<1>3. QED
  BY <1>1, <1>2, CallMoves

(* A step that replaces or removes a bundle was asked to.                  *)
LEMMA OverwriteStep ==
  ASSUME FileLocking, StoreInv, WriteDue, Next, NEW k \in Key,
         files[k] \in Contents, files'[k] \in Contents \cup {NONE}, files'[k] # files[k]
  PROVE  \E t \in Threads :
            /\ Inside(t) /\ Target(t) = k
            /\ Op(t) = "delete" \/ call[t].req.policy = "OVERWRITE"
<1>1. files \in Files
  BY DEF StoreInv, StoreTypeOK
<1>2. ASSUME Damage PROVE FALSE
  <2>1. files'[k] = CORRUPT
    BY <1>1, <1>2 DEF Damage, Files
  <2>2. QED
    BY <2>1, StoreAssumption
<1>3. PICK t \in Threads : Inside(t) /\ (WriteBundle(t) \/ (At(t, "body") /\ RemoveBundle(t)))
  BY <1>2, FilesMove
<1>4. Target(t) = k
  BY <1>1, <1>3 DEF WriteBundle, RemoveBundle, Files
<1>5. CASE RemoveBundle(t)
  BY <1>3, <1>4, <1>5 DEF RemoveBundle
<1>6. CASE WriteBundle(t)
  <2>1. call[t].pc = "write" /\ call[t].req \in AllRequests /\ call[t].req.op = "upsert"
    BY <1>6, StoreAssumption DEF WriteBundle, At, StoreInv, CallShape
  <2>2. call[t].req.content \in Contents /\ call[t].req.policy \in Policies
    BY <2>1 DEF AllRequests
  <2>3. Verdict(files[k], call[t].req.content, call[t].req.policy) = "write"
    BY <1>4, <2>1 DEF WriteDue
  <2>4. call[t].req.policy = "OVERWRITE"
    BY <2>2, <2>3, VerdictShape DEF Policies
  <2>5. QED
    BY <1>3, <1>4, <2>4
<1>7. QED
  BY <1>3, <1>5, <1>6

(* With file locks, an upsert replaces a bundle only under OVERWRITE,      *)
(* whatever the other processes do between its read and its write.         *)
THEOREM StoreNoSilentOverwrite == FileLocking /\ SafeSpec => NoSilentOverwrite
<1> SUFFICES ASSUME FileLocking PROVE SafeSpec => NoSilentOverwrite
  OBVIOUS
<1> DEFINE Justified ==
      \A k \in Key :
          files[k] \in Contents /\ files'[k] \in Contents \cup {NONE} /\ files'[k] # files[k]
              => \E t \in Threads :
                    /\ Inside(t) /\ Target(t) = k
                    /\ Op(t) = "delete" \/ call[t].req.policy = "OVERWRITE"
<1>1. Init => WriteDue
  BY DEF Init, WriteDue, Ready
<1>2. StoreInv /\ WriteDue /\ [Next]_vars => WriteDue'
  <2>1. ASSUME WriteDue, UNCHANGED vars PROVE WriteDue'
    BY <2>1 DEF vars, storeVars, WriteDue, Target
  <2>2. QED
    BY <2>1, WriteDueStep
<1>3. StoreInv /\ WriteDue /\ [Next]_vars => [Justified]_vars
  BY OverwriteStep
<1>4. QED
  BY <1>1, <1>2, <1>3, StoreInvariant, PTL DEF SafeSpec, NoSilentOverwrite

-----------------------------------------------------------------------------
(***************************************************************************)
(* index.json agrees with the bundle files.  A row may differ from its     *)
(* bundle while a writer is between the two files.  Explained says that no *)
(* row differs for any other reason but a recorded fault, and Work what    *)
(* that writer has in hand to put it right: the row it will write and the  *)
(* index it loaded, which nothing has changed since.  Only the lock makes  *)
(* the second of these last.                                               *)
(***************************************************************************)
(* The outcomes by which a writer says that the catalog is as asked.       *)
Succeeded == {"changed", "unchanged", "deleted"}

(* What the call of t has in hand agrees with the files.                   *)
Work(t) ==
    /\ call[t].pc = "ready" \/ Op(t) # "upsert" => call[t].item = NONE
    /\ call[t].pc \in {"resolve", "list", "enter", "body"} => call[t].out = "none"
    /\ call[t].pc \in {"cleanup", "load", "rebuild", "save"} /\ Op(t) # "list" =>
          call[t].item = files[Target(t)]
    /\ call[t].pc = "rebuild" => ~IndexValid /\ call[t].rows = files
    /\ call[t].pc = "save" =>
          IndexValid /\ call[t].rows = [index EXCEPT ![Target(t)] = call[t].item]
    /\ call[t].pc \in {"cleanup", "load", "rebuild", "save", "leave"} =>
          /\ call[t].out = "changed" => files[Target(t)] = call[t].req.content
          /\ call[t].out = "unchanged" => files[Target(t)] \in Contents
          /\ call[t].out = "deleted" => files[Target(t)] = NONE
    /\ call[t].pc = "leave" /\ call[t].out \in Succeeded =>
          IndexValid /\ index[Target(t)] = files[Target(t)]

(* The row of k agrees with its bundle, or a fault is to blame.            *)
Coherent(k) == files[k] = CORRUPT \/ stale[k] # "no" \/ index[k] = files[k]

(* A row that differs belongs to a writer that is under way.               *)
Explained ==
    IndexValid => \A k \in Key : Coherent(k) \/ \E t \in Threads : Parted(t) /\ Target(t) = k

(* The inductive invariant of the index, given that of the store.          *)
IndexInv == Explained /\ \A t \in Threads : Work(t)

-----------------------------------------------------------------------------
(* The calls                                                               *)

(* A step that is no work on the catalog.                                  *)
LEMMA WorkQuiet ==
  ASSUME StoreInv, NEW t \in Threads, Work(t), GoodStep(t), call'[t].pc \notin Busy
  PROVE  Work(t)'
<1>1. Quiet(t)
  BY DEF GoodStep
<1>2. CASE call'[t] = Ready
  BY <1>2 DEF Work, Ready
<1>3. CASE call'[t] # Ready
  <2>1. /\ call'[t].item = call[t].item
        /\ call[t] = Ready \/ call'[t].req = call[t].req
    BY <1>1, <1>3 DEF Quiet
  <2>2. call[t] = Ready => call[t].item = NONE /\ call[t].out = "none"
    BY DEF Ready
  <2>3. (call'[t].pc = "ready" \/ Op(t)' # "upsert") => call'[t].item = NONE
    <3>1. CASE call'[t].pc = "ready"
      BY <1>3, <3>1 DEF GoodStep, CallShape
    <3>2. CASE Op(t)' # "upsert"
      BY <2>1, <2>2, <3>2 DEF Op, Work
    <3>3. QED
      BY <3>1, <3>2
  <2>4. call'[t].pc \in {"resolve", "list", "enter", "body"} => call'[t].out = "none"
    <3>1. call[t].pc = "ready" => call[t] = Ready
      BY DEF StoreInv, CallShape
    <3>2. QED
      BY <1>1, <2>2, <3>1 DEF Quiet, Work
  <2>5. QED
    BY <2>3, <2>4 DEF Work, Busy
<1>4. QED
  BY <1>2, <1>3

(* A writer that leaves without success promises nothing.                  *)
LEMMA WorkLeaves ==
  ASSUME NEW t \in Threads, Work(t), Keeps(t), call'[t].pc = "leave",
         call'[t].out \notin Succeeded
  PROVE  Work(t)'
BY DEF Work, Keeps, Succeeded, Op

(* The call of t is as good as before when another goroutine moves.        *)
LEMMA WorkFrame ==
  ASSUME NEW t \in Threads, StoreInv, Work(t), call'[t] = call[t],
         UNCHANGED <<files, index>> \/ ~Inside(t)
  PROVE  Work(t)'
<1>1. CASE UNCHANGED <<files, index>>
  BY <1>1 DEF Work, Op, Target, IndexValid
<1>2. CASE ~Inside(t)
  <2>1. call[t].pc \notin Busy
    BY <1>2 DEF StoreInv, PcMatch, Inside, Inner, Busy
  <2>2. QED
    BY <2>1 DEF Work, Op, Busy
<1>3. QED
  BY <1>1, <1>2

(* Explained, for one bundle.                                              *)
Cause(k) == Coherent(k) \/ \E t \in Threads : Parted(t) /\ Target(t) = k

(* Only the call of t changes.                                             *)
OthersWait(t) == \A u \in Threads \ {t} : call'[u] = call[u]

(* A bundle and a row that a step leaves alone.                            *)
LEMMA CauseCarries ==
  ASSUME Explained, IndexValid, NEW k \in Key, NEW t \in Threads, OthersWait(t),
         files'[k] = files[k], index'[k] = index[k], stale'[k] = stale[k],
         ~Parted(t) \/ Target(t) # k \/ (Parted(t)' /\ Target(t)' = Target(t))
  PROVE  Cause(k)'
<1>1. CASE Coherent(k)
  BY <1>1 DEF Cause, Coherent
<1>2. ASSUME NEW u \in Threads, Parted(u), Target(u) = k PROVE Cause(k)'
  <2>1. CASE u = t
    BY <1>2, <2>1 DEF Cause
  <2>2. CASE u # t
    BY <1>2, <2>2 DEF Cause, OthersWait, Parted, Target
  <2>3. QED
    BY <2>1, <2>2
<1>3. QED
  BY <1>1, <1>2 DEF Explained

(* A step that changes no file.                                            *)
LEMMA ExplainedQuiet ==
  ASSUME Explained, NEW t \in Threads, OthersWait(t), UNCHANGED <<files, index, stale>>,
         \/ ~Parted(t)
         \/ Parted(t)' /\ Target(t)' = Target(t)
         \/ ~IndexValid
  PROVE  Explained'
<1> SUFFICES ASSUME IndexValid', NEW k \in Key PROVE Cause(k)'
  BY DEF Explained, Cause
<1>1. IndexValid
  BY DEF IndexValid
<1>2. QED
  BY <1>1, CauseCarries

-----------------------------------------------------------------------------
(* The steps under the lock                                                *)

(* The decision of UpsertBundle.                                           *)
LEMMA IndexUpsert ==
  ASSUME StoreInv, IndexInv, NEW t \in Threads, At(t, "body"), UpsertDecides(t)
  PROVE  Work(t)' /\ Explained'
<1>1. /\ call \in [Threads -> Calls] /\ call[t] \in Calls /\ call[t].pc = "body"
      /\ UNCHANGED <<files, index, stale>> /\ GoodStep(t) /\ Op(t) = "upsert" /\ Work(t)
  BY GoodUpsert DEF StoreInv, StoreTypeOK, At, UpsertDecides, IndexInv
<1>2. Explained'
  BY <1>1, ExplainedQuiet DEF IndexInv, Parted, GoodStep, OthersWait
<1>3. CASE Step(t, "body", "write")
  <2>1. call'[t].pc = "write"
    BY <1>1, <1>3, StepFacts DEF CallPCs
  <2>2. QED
    BY <1>1, <1>2, <2>1, WorkQuiet DEF Busy
<1>4. CASE /\ files[Target(t)] \in Contents
           /\ call' = [call EXCEPT ![t].pc = "load", ![t].item = files[Target(t)],
                                   ![t].out = "unchanged"]
  <2>1. /\ call'[t].pc = "load" /\ call'[t].out = "unchanged" /\ call'[t].item = files[Target(t)]
        /\ Op(t)' = Op(t) /\ Target(t)' = Target(t)
    BY <1>1, <1>4 DEF Calls, Op, Target
  <2>2. files'[Target(t)'] = files[Target(t)]
    BY <1>1, <2>1
  <2>3. QED
    BY <1>1, <1>2, <1>4, <2>1, <2>2 DEF Work
<1>5. CASE \E out \in {"error", "conflict"} : StepOut(t, "body", "leave", out)
  <2>1. PICK out \in {"error", "conflict"} : StepOut(t, "body", "leave", out)
    BY <1>5
  <2>2. out \in Outcomes /\ out \notin Succeeded /\ "leave" \in CallPCs
    BY DEF CallPCs, Outcomes, Succeeded
  <2>3. call'[t].pc = "leave" /\ call'[t].out = out /\ Keeps(t)
    BY <1>1, <2>1, <2>2, StepOutFacts
  <2>4. QED
    BY <1>1, <1>2, <2>2, <2>3, WorkLeaves
<1>6. QED
  BY <1>2, <1>3, <1>4, <1>5, UpsertMoves

(* The bundle is written: its row is owed.                                 *)
LEMMA IndexWrite ==
  ASSUME StoreInv, IndexInv, NEW t \in Threads, WriteBundle(t)
  PROVE  Work(t)' /\ Explained'
<1>1. /\ call \in [Threads -> Calls] /\ call[t] \in Calls /\ call[t].pc = "write"
      /\ UNCHANGED index /\ OthersWait(t) /\ ~Parted(t) /\ Work(t) /\ Explained
      /\ call[t].req.op = "upsert" /\ files \in Files /\ Target(t) \in Key
      /\ stale \in [Key -> {"no", "interrupted", "blanked"}]
  BY GoodFileChange, TargetKnown
     DEF StoreInv, StoreTypeOK, At, WriteBundle, IndexInv, Parted, GoodStep, OthersWait,
         CallShape, BundleOps, Op
<1>2. CASE /\ files' = [files EXCEPT ![Target(t)] = call[t].req.content]
           /\ call' = [call EXCEPT ![t].pc = "load", ![t].out = "changed",
                                   ![t].item = call[t].req.content]
           /\ UNCHANGED stale
  <2>1. /\ call'[t].pc = "load" /\ call'[t].out = "changed" /\ call'[t].item = call[t].req.content
        /\ call'[t].req = call[t].req /\ Target(t)' = Target(t) /\ Op(t)' = "upsert"
    BY <1>1, <1>2 DEF Calls, Target, Op
  <2>2. files'[Target(t)] = call[t].req.content
    BY <1>1, <1>2 DEF Files
  <2>3. Work(t)'
    BY <1>1, <2>1, <2>2 DEF Work
  <2>4. Explained'
    <3> SUFFICES ASSUME IndexValid', NEW k \in Key PROVE Cause(k)'
      BY DEF Explained, Cause
    <3>1. IndexValid
      BY <1>1 DEF IndexValid
    <3>2. CASE k = Target(t)
      BY <2>1, <3>2 DEF Cause, Parted
    <3>3. CASE k # Target(t)
      <4>1. files'[k] = files[k]
        BY <1>1, <1>2, <3>3 DEF Files
      <4>2. QED
        BY <1>1, <1>2, <3>1, <4>1, CauseCarries
    <3>4. QED
      BY <3>2, <3>3
  <2>5. QED
    BY <2>3, <2>4
<1>3. CASE /\ StepOut(t, "write", "leave", "error")
           /\ \/ UNCHANGED <<files, stale>>
              \/ /\ files' = [files EXCEPT ![Target(t)] = call[t].req.content]
                 /\ Interrupted(Target(t))
  <2>1. Work(t)'
    BY <1>1, <1>3, StepOutFacts, WorkLeaves DEF CallPCs, Outcomes, Succeeded
  <2>2. CASE UNCHANGED <<files, stale>>
    BY <1>1, <2>1, <2>2, ExplainedQuiet
  <2>3. CASE /\ files' = [files EXCEPT ![Target(t)] = call[t].req.content]
             /\ Interrupted(Target(t))
    <3> SUFFICES ASSUME IndexValid', NEW k \in Key PROVE Cause(k)'
      BY <2>1 DEF Explained, Cause
    <3>1. IndexValid
      BY <1>1 DEF IndexValid
    <3>2. CASE k = Target(t)
      BY <1>1, <2>3, <3>2 DEF Cause, Coherent, Interrupted
    <3>3. CASE k # Target(t)
      <4>1. files'[k] = files[k] /\ stale'[k] = stale[k]
        BY <1>1, <2>3, <3>3 DEF Files, Interrupted
      <4>2. QED
        BY <1>1, <3>1, <4>1, CauseCarries
    <3>4. QED
      BY <3>2, <3>3
  <2>4. QED
    BY <1>3, <2>1, <2>2, <2>3
<1>4. QED
  BY <1>1, <1>2, <1>3 DEF WriteBundle

(* The bundle is removed: its row is owed.                                 *)
LEMMA IndexRemove ==
  ASSUME StoreInv, IndexInv, NEW t \in Threads, At(t, "body"), RemoveBundle(t)
  PROVE  Work(t)' /\ Explained'
<1>1. /\ call \in [Threads -> Calls] /\ call[t].pc = "body" /\ UNCHANGED <<index, stale>>
      /\ OthersWait(t) /\ ~Parted(t) /\ Work(t) /\ Explained
      /\ Op(t) = "delete" /\ files \in Files /\ Target(t) \in Key
  BY GoodFileChange, TargetKnown
     DEF StoreInv, StoreTypeOK, At, RemoveBundle, IndexInv, Parted, GoodStep, OthersWait, BundleOps
<1>2. ASSUME NEW to \in {"load", "cleanup", "leave"}, NEW out \in {"absent", "deleted", "error"},
             StepOut(t, "body", to, out)
      PROVE  /\ call'[t].pc = to /\ call'[t].out = out /\ Keeps(t)
             /\ Target(t)' = Target(t) /\ Op(t)' = "delete" /\ call'[t].item = NONE
  <2>1. call'[t].pc = to /\ call'[t].out = out /\ Keeps(t)
    BY <1>1, <1>2, StepOutFacts DEF CallPCs, Outcomes
  <2>2. QED
    BY <1>1, <2>1 DEF Keeps, Target, Op, Work
<1>3. CASE /\ files[Target(t)] = NONE /\ StepOut(t, "body", "load", "absent")
           /\ UNCHANGED files
  <2>1. /\ call'[t].pc = "load" /\ call'[t].out = "absent"
        /\ Target(t)' = Target(t) /\ Op(t)' = "delete" /\ call'[t].item = NONE
    BY <1>2, <1>3
  <2>2. Work(t)'
    BY <1>3, <2>1 DEF Work
  <2>3. QED
    BY <1>1, <1>3, <2>2, ExplainedQuiet
<1>4. CASE /\ StepOut(t, "body", "cleanup", "deleted")
           /\ files' = [files EXCEPT ![Target(t)] = NONE]
  <2>1. /\ call'[t].pc = "cleanup" /\ call'[t].out = "deleted"
        /\ Target(t)' = Target(t) /\ Op(t)' = "delete" /\ call'[t].item = NONE
    BY <1>2, <1>4
  <2>2. files'[Target(t)] = NONE
    BY <1>1, <1>4 DEF Files
  <2>3. Work(t)'
    BY <2>1, <2>2 DEF Work
  <2>4. Explained'
    <3> SUFFICES ASSUME IndexValid', NEW k \in Key PROVE Cause(k)'
      BY DEF Explained, Cause
    <3>1. IndexValid
      BY <1>1 DEF IndexValid
    <3>2. CASE k = Target(t)
      BY <2>1, <3>2 DEF Cause, Parted
    <3>3. CASE k # Target(t)
      <4>1. files'[k] = files[k]
        BY <1>1, <1>4, <3>3 DEF Files
      <4>2. QED
        BY <1>1, <3>1, <4>1, CauseCarries
    <3>4. QED
      BY <3>2, <3>3
  <2>5. QED
    BY <2>3, <2>4
<1>5. CASE StepOut(t, "body", "leave", "error") /\ UNCHANGED files
  <2>1. call'[t].pc = "leave" /\ call'[t].out = "error" /\ Keeps(t)
    BY <1>2, <1>5
  <2>2. QED
    BY <1>1, <1>5, <2>1, WorkLeaves, ExplainedQuiet DEF Succeeded
<1>6. QED
  BY <1>3, <1>4, <1>5 DEF RemoveBundle

(* The directory is cleaned, or the row stays behind on record.            *)
LEMMA IndexCleanup ==
  ASSUME StoreInv, IndexInv, NEW t \in Threads, Cleanup(t)
  PROVE  Work(t)' /\ Explained'
<1>1. /\ call \in [Threads -> Calls] /\ call[t].pc = "cleanup" /\ UNCHANGED <<files, index>>
      /\ OthersWait(t) /\ Work(t) /\ Explained /\ Op(t) = "delete"
      /\ stale \in [Key -> {"no", "interrupted", "blanked"}]
  BY GoodFileChange
     DEF StoreInv, StoreTypeOK, Cleanup, Step, StepOut, IndexInv, GoodStep, OthersWait, CallShape, Op
<1>2. CASE Step(t, "cleanup", "load") /\ UNCHANGED stale
  <2>1. call'[t].pc = "load" /\ call'[t].out = call[t].out /\ Keeps(t)
    BY <1>1, <1>2, StepFacts DEF CallPCs
  <2>2. Target(t)' = Target(t) /\ Op(t)' = "delete" /\ (Parted(t) => Parted(t)')
    BY <1>1, <2>1 DEF Keeps, Target, Op, Parted
  <2>3. Work(t)'
    BY <1>1, <2>1, <2>2 DEF Work, Keeps
  <2>4. QED
    BY <1>1, <1>2, <2>2, <2>3, ExplainedQuiet
<1>3. CASE StepOut(t, "cleanup", "leave", "error") /\ Interrupted(Target(t))
  <2>1. call'[t].pc = "leave" /\ call'[t].out = "error" /\ Keeps(t)
    BY <1>1, <1>3, StepOutFacts DEF CallPCs, Outcomes
  <2>2. Work(t)'
    BY <1>1, <2>1, WorkLeaves DEF Succeeded
  <2>3. Explained'
    <3> SUFFICES ASSUME IndexValid', NEW k \in Key PROVE Cause(k)'
      BY DEF Explained, Cause
    <3>1. IndexValid
      BY <1>1 DEF IndexValid
    <3>2. CASE k = Target(t)
      BY <1>1, <1>3, <3>2 DEF Cause, Coherent, Interrupted
    <3>3. CASE k # Target(t)
      <4>1. stale'[k] = stale[k]
        BY <1>1, <1>3, <3>3 DEF Interrupted
      <4>2. QED
        BY <1>1, <3>1, <3>3, <4>1, CauseCarries
    <3>4. QED
      BY <3>2, <3>3
  <2>4. QED
    BY <2>2, <2>3
<1>4. QED
  BY <1>2, <1>3 DEF Cleanup

(* A rebuild begins on an index that cannot be read.                       *)
LEMMA IndexRebuilds ==
  ASSUME StoreInv, IndexInv, NEW t \in Threads, NEW from \in {"body", "load"},
         Rebuilds(t, from), ~IndexValid, UNCHANGED <<files, index, stale>>,
         from = "body" => Op(t) = "list", GoodStep(t)
  PROVE  Work(t)' /\ Explained'
<1>1. /\ call \in [Threads -> Calls] /\ call[t] \in Calls /\ OthersWait(t)
      /\ Work(t) /\ Explained
  BY DEF StoreInv, StoreTypeOK, IndexInv, GoodStep, OthersWait
<1>2. Explained'
  BY <1>1, ExplainedQuiet
<1>3. CASE StepOut(t, from, "leave", IndexError(t))
  <2>1. IndexError(t) \in Outcomes /\ IndexError(t) \notin Succeeded /\ "leave" \in CallPCs
    BY DEF IndexError, Outcomes, Succeeded, CallPCs
  <2>2. call'[t].pc = "leave" /\ call'[t].out = IndexError(t) /\ Keeps(t)
    BY <1>1, <1>3, <2>1, StepOutFacts
  <2>3. QED
    BY <1>1, <1>2, <2>1, <2>2, WorkLeaves
<1>4. CASE /\ call[t].pc = from
           /\ call' = [call EXCEPT ![t].pc = "rebuild", ![t].rows = files]
  <2>1. /\ call'[t].pc = "rebuild" /\ call'[t].rows = files /\ call'[t].out = call[t].out
        /\ call'[t].item = call[t].item /\ call'[t].req = call[t].req
        /\ Target(t)' = Target(t) /\ Op(t)' = Op(t)
    BY <1>1, <1>4 DEF Calls, Target, Op
  <2>2. IndexValid' = IndexValid
    BY DEF IndexValid
  <2>3. CASE from = "body"
    BY <1>1, <1>2, <1>4, <2>1, <2>2, <2>3 DEF Work
  <2>4. CASE from = "load"
    BY <1>1, <1>2, <1>4, <2>1, <2>2, <2>4 DEF Work
  <2>5. QED
    BY <2>3, <2>4
<1>5. QED
  BY <1>3, <1>4 DEF Rebuilds

(* The bodies of loadIndex and NewStore.                                   *)
LEMMA IndexRepair ==
  ASSUME StoreInv, IndexInv, NEW t \in Threads, At(t, "body"), RepairBody(t) \/ EnsureLayout(t)
  PROVE  Work(t)' /\ Explained'
<1>1. /\ call \in [Threads -> Calls] /\ call[t].pc = "body" /\ OthersWait(t) /\ GoodStep(t)
      /\ Work(t) /\ Explained /\ ~Parted(t) /\ UNCHANGED files /\ files \in Files
  BY GoodRepair
     DEF StoreInv, StoreTypeOK, At, IndexInv, GoodStep, OthersWait, Parted, RepairBody, EnsureLayout
<1>2. ASSUME NEW out \in {"opened", "error", "repaired"}, StepOut(t, "body", "leave", out)
      PROVE  Work(t)'
  <2>1. call'[t].pc = "leave" /\ call'[t].out = out /\ Keeps(t)
    BY <1>1, <1>2, StepOutFacts DEF CallPCs, Outcomes
  <2>2. QED
    BY <1>1, <2>1, WorkLeaves DEF Succeeded
<1>3. CASE RepairBody(t)
  <2>1. Op(t) = "list" /\ UNCHANGED <<index, stale>>
    BY <1>3 DEF RepairBody
  <2>2. CASE StepOut(t, "body", "leave", "repaired")
    BY <1>1, <1>2, <2>1, <2>2, ExplainedQuiet
  <2>3. CASE ~IndexValid /\ Rebuilds(t, "body")
    BY <1>1, <2>1, <2>3, IndexRebuilds
  <2>4. QED
    BY <1>3, <2>2, <2>3 DEF RepairBody
<1>4. CASE EnsureLayout(t)
  <2>1. Work(t)'
    BY <1>2, <1>4 DEF EnsureLayout
  <2>2. CASE UNCHANGED <<index, stale>>
    BY <1>1, <2>1, <2>2, ExplainedQuiet
  <2>3. CASE /\ index' = [k \in Key |-> NONE]
             /\ stale' = [k \in Key |-> IF files[k] = NONE THEN "no" ELSE "blanked"]
    BY <1>1, <2>1, <2>3 DEF Explained, Coherent
  <2>4. QED
    BY <1>4, <2>2, <2>3 DEF EnsureLayout
<1>5. QED
  BY <1>3, <1>4

(* The index is loaded and one row of it changed in memory.                *)
LEMMA IndexLoad ==
  ASSUME StoreInv, IndexInv, NEW t \in Threads, LoadIndex(t)
  PROVE  Work(t)' /\ Explained'
<1>1. /\ call \in [Threads -> Calls] /\ call[t] \in Calls /\ call[t].pc = "load"
      /\ OthersWait(t) /\ GoodStep(t) /\ Work(t) /\ Explained
      /\ UNCHANGED <<files, index, stale>>
  BY GoodIndex DEF StoreInv, StoreTypeOK, At, IndexInv, GoodStep, OthersWait, LoadIndex
<1>2. CASE ~IndexValid /\ Rebuilds(t, "load")
  BY <1>1, <1>2, IndexRebuilds
<1>3. CASE /\ IndexValid
           /\ call' = [call EXCEPT ![t].pc = "save",
                                   ![t].rows = [index EXCEPT ![Target(t)] = call[t].item]]
  <2> DEFINE rows == [index EXCEPT ![Target(t)] = call[t].item]
  <2>1. call' = [call EXCEPT ![t].pc = "save", ![t].rows = rows]
    BY <1>3
  <2> HIDE DEF rows
  <2>2. /\ call'[t].pc = "save" /\ call'[t].rows = rows /\ call'[t].out = call[t].out
        /\ call'[t].item = call[t].item /\ call'[t].req = call[t].req
        /\ Target(t)' = Target(t) /\ Op(t)' = Op(t)
    BY <1>1, <2>1 DEF Calls, Target, Op
  <2> USE DEF rows
  <2>3. IndexValid' /\ rows = [index' EXCEPT ![Target(t)'] = call'[t].item]
    BY <1>1, <1>3, <2>2 DEF IndexValid
  <2> HIDE DEF rows
  <2>4. Work(t)'
    BY <1>1, <2>2, <2>3 DEF Work
  <2>5. Parted(t) => Parted(t)'
    BY <2>2 DEF Parted
  <2>6. QED
    BY <1>1, <2>2, <2>4, <2>5, ExplainedQuiet
<1>4. QED
  BY <1>2, <1>3 DEF LoadIndex

(* The rebuilt index is saved: every row agrees.                           *)
LEMMA IndexSaveRebuilt ==
  ASSUME StoreInv, IndexInv, NEW t \in Threads, SaveRebuilt(t)
  PROVE  Work(t)' /\ Explained'
<1>1. /\ call \in [Threads -> Calls] /\ call[t] \in Calls /\ call[t].pc = "rebuild"
      /\ OthersWait(t) /\ Work(t) /\ Explained /\ UNCHANGED files /\ files \in Files
      /\ ~IndexValid /\ call[t].rows = files /\ call[t].rows \in Rows
  BY GoodIndex
     DEF StoreInv, StoreTypeOK, At, IndexInv, GoodStep, OthersWait, SaveRebuilt, Work, CallShape
<1>2. CASE index' = call[t].rows /\ stale' = [k \in Key |-> "no"]
  <2>1. /\ call' = [call EXCEPT ![t].rows = NONE,
                                ![t].pc = IF Op(t) = "list" THEN "leave" ELSE "load",
                                ![t].out = IF Op(t) = "list" THEN "repaired" ELSE @]
        \/ call' = [call EXCEPT ![t].rows = NONE, ![t].pc = "leave", ![t].out = IndexError(t)]
    BY <1>2 DEF SaveRebuilt
  <2>2. Explained'
    BY <1>1, <1>2 DEF Explained, Coherent
  <2>3. CASE Op(t) = "list" /\ call' = [call EXCEPT ![t].rows = NONE, ![t].pc = "leave",
                                                    ![t].out = "repaired"]
    <3>1. /\ call'[t].pc = "leave" /\ call'[t].out \notin Succeeded
          /\ call'[t].req = call[t].req /\ call'[t].item = call[t].item
      BY <1>1, <2>3 DEF Calls, Succeeded
    <3>2. QED
      BY <1>1, <2>2, <3>1 DEF Work, Op, Succeeded
  <2>4. CASE Op(t) # "list" /\ call' = [call EXCEPT ![t].rows = NONE, ![t].pc = "load"]
    <3>1. /\ call'[t].pc = "load" /\ call'[t].out = call[t].out
          /\ call'[t].req = call[t].req /\ call'[t].item = call[t].item
          /\ Target(t)' = Target(t) /\ Op(t)' = Op(t)
      BY <1>1, <2>4 DEF Calls, Target, Op
    <3>2. QED
      BY <1>1, <2>2, <2>4, <3>1 DEF Work
  <2>5. CASE call' = [call EXCEPT ![t].rows = NONE, ![t].pc = "leave", ![t].out = IndexError(t)]
    <3>1. /\ call'[t].pc = "leave" /\ call'[t].out = IndexError(t)
          /\ call'[t].req = call[t].req /\ call'[t].item = call[t].item
      BY <1>1, <2>5 DEF Calls
    <3>2. IndexError(t) \notin Succeeded
      BY DEF IndexError, Succeeded
    <3>3. QED
      BY <1>1, <2>2, <3>1, <3>2 DEF Work, Op, Succeeded
  <2>6. QED
    BY <1>1, <2>1, <2>3, <2>4, <2>5 DEF Calls
<1>3. CASE /\ UNCHANGED <<index, stale>>
           /\ call' = [call EXCEPT ![t].rows = NONE, ![t].pc = "leave", ![t].out = IndexError(t)]
  <2>1. /\ call'[t].pc = "leave" /\ call'[t].out = IndexError(t)
        /\ call'[t].req = call[t].req /\ call'[t].item = call[t].item
    BY <1>1, <1>3 DEF Calls
  <2>2. IndexError(t) \notin Succeeded
    BY DEF IndexError, Succeeded
  <2>3. Work(t)'
    BY <1>1, <2>1, <2>2 DEF Work, Op, Succeeded
  <2>4. QED
    BY <1>1, <1>3, <2>3, ExplainedQuiet
<1>4. QED
  BY <1>2, <1>3 DEF SaveRebuilt

(* The index is saved: the row that was owed is paid.                      *)
LEMMA IndexSave ==
  ASSUME StoreInv, IndexInv, FileLocking, NEW t \in Threads, SaveIndex(t)
  PROVE  Work(t)' /\ Explained'
<1>1. /\ call \in [Threads -> Calls] /\ call[t] \in Calls /\ call[t].pc = "save"
      /\ OthersWait(t) /\ Work(t) /\ Explained /\ UNCHANGED files
      /\ index \in Rows /\ IndexValid /\ call[t].rows = [index EXCEPT ![Target(t)] = call[t].item]
      /\ call[t].rows \in Rows /\ call[t].req.op \in {"upsert", "delete"}
      /\ stale \in [Key -> {"no", "interrupted", "blanked"}]
  BY GoodIndex DEF StoreInv, StoreTypeOK, At, IndexInv, GoodStep, OthersWait, SaveIndex, Work,
                   CallShape, IndexValid
<1>2. Target(t) \in Key /\ call[t].item = files[Target(t)]
  BY <1>1, TargetKnown DEF BundleOps, Op, Work
<1>3. CASE index' = call[t].rows /\ stale' = [stale EXCEPT ![Target(t)] = "no"]
  <2>1. index'[Target(t)] = files[Target(t)] /\ \A k \in Key \ {Target(t)} : index'[k] = index[k]
    BY <1>1, <1>2, <1>3 DEF Rows
  <2>2. Explained'
    <3> SUFFICES ASSUME NEW k \in Key PROVE Cause(k)'
      BY DEF Explained, Cause
    <3>1. CASE k = Target(t)
      BY <1>1, <2>1, <3>1 DEF Cause, Coherent
    <3>2. CASE k # Target(t)
      BY <1>1, <1>3, <2>1, <3>2, CauseCarries
    <3>3. QED
      BY <3>1, <3>2
  <2>3. call'[t].pc = "leave" /\ call'[t].req = call[t].req /\ call'[t].item = call[t].item
        /\ Target(t)' = Target(t)
    BY <1>1 DEF SaveIndex, Calls, Target
  <2>4. IndexValid'
    BY <1>1, <1>3, StoreAssumption DEF IndexValid
  <2>5. CASE call' = [call EXCEPT ![t].rows = NONE, ![t].pc = "leave"]
    <3>1. call'[t].out = call[t].out
      BY <1>1, <2>5 DEF Calls
    <3>2. QED
      BY <1>1, <2>1, <2>2, <2>3, <2>4, <3>1 DEF Work, Op
  <2>6. CASE call' = [call EXCEPT ![t].rows = NONE, ![t].pc = "leave", ![t].out = IndexError(t)]
    <3>1. call'[t].out = IndexError(t)
      BY <1>1, <2>6 DEF Calls
    <3>2. IndexError(t) \notin Succeeded
      BY DEF IndexError, Succeeded
    <3>3. QED
      BY <1>1, <2>2, <2>3, <3>1, <3>2 DEF Work, Op, Succeeded
  <2>7. QED
    BY <2>5, <2>6 DEF SaveIndex
<1>4. CASE /\ UNCHANGED index
           /\ IF Parted(t) THEN Interrupted(Target(t)) ELSE UNCHANGED stale
           /\ call' = [call EXCEPT ![t].rows = NONE, ![t].pc = "leave", ![t].out = IndexError(t)]
  <2>1. /\ call'[t].pc = "leave" /\ call'[t].out = IndexError(t)
        /\ call'[t].req = call[t].req /\ call'[t].item = call[t].item
    BY <1>1, <1>4 DEF Calls
  <2>2. IndexError(t) \notin Succeeded
    BY DEF IndexError, Succeeded
  <2>3. Work(t)'
    BY <1>1, <2>1, <2>2 DEF Work, Op, Succeeded
  <2>4. CASE ~Parted(t)
    BY <1>1, <1>4, <2>3, <2>4, ExplainedQuiet
  <2>5. CASE Parted(t)
    <3>1. stale' = [stale EXCEPT ![Target(t)] = "interrupted"]
      BY <1>4, <2>5 DEF Interrupted
    <3> SUFFICES ASSUME NEW k \in Key PROVE Cause(k)'
      BY <2>3 DEF Explained, Cause
    <3>2. CASE k = Target(t)
      BY <1>1, <3>1, <3>2 DEF Cause, Coherent
    <3>3. CASE k # Target(t)
      BY <1>1, <1>4, <3>1, <3>3, CauseCarries
    <3>4. QED
      BY <3>2, <3>3
  <2>6. QED
    BY <2>4, <2>5
<1>5. QED
  BY <1>3, <1>4 DEF SaveIndex

(* A step under the lock.                                                  *)
LEMMA BodyStep ==
  ASSUME StoreInv, IndexInv, FileLocking, NEW t \in Threads, Body(t)
  PROVE  Work(t)' /\ Explained' /\ Inside(t) /\ OthersWait(t)
<1>1. Work(t)' /\ Explained'
  BY IndexUpsert, IndexWrite, IndexRemove, IndexCleanup, IndexRepair, IndexLoad,
     IndexSaveRebuilt, IndexSave DEF Body
<1>2. OthersWait(t)
  BY GoodUpsert, GoodFileChange, GoodRepair, GoodIndex DEF Body, GoodStep, OthersWait
<1>3. call[t].pc \in Inner
  BY DEF Body, At, WriteBundle, Cleanup, Step, StepOut, LoadIndex, SaveRebuilt, SaveIndex, Inner
<1>4. QED
  BY <1>1, <1>2, <1>3 DEF StoreInv, PcMatch, Inside

(* A step of a call outside the body.                                      *)
LEMMA PlainStep ==
  ASSUME StoreInv, IndexInv, NEW t \in Threads,
         \/ \E r \in Requests : Call(t, r) \/ Open(t, r)
         \/ Unlocked(t) \/ Enter(t) \/ GiveUp(t) \/ Leave(t) \/ Exit(t)
  PROVE  Work(t)' /\ Explained' /\ UNCHANGED <<files, index>> /\ OthersWait(t)
<1>1. GoodStep(t) /\ OthersWait(t) /\ Work(t)
  BY GoodStart, GoodUnlocked, GoodLocked DEF GoodStep, OthersWait, IndexInv
<1>2. UNCHANGED <<files, index, stale>>
  BY DEF Call, Open, Unlocked, Resolve, Read, List, Reload, Return, Enter, GiveUp, Leave, Exit
<1>3. call[t].pc \in {"ready", "resolve", "read", "list", "reload", "return", "enter", "leave", "exit"}
  BY DEF Call, Open, Unlocked, Resolve, Read, List, Reload, Return, Enter, GiveUp, Leave, Exit,
         At, Step, StepOut
<1>4. ~Parted(t)
  BY <1>3 DEF Parted
<1>5. Explained'
  BY <1>1, <1>2, <1>4, ExplainedQuiet DEF IndexInv
<1>6. call'[t].pc \notin Busy
  <2>1. CASE Enter(t)
    <3>1. Step(t, "enter", "body")
      BY <2>1 DEF Enter
    <3>2. call'[t].pc = "body"
      BY <3>1, StepFacts DEF StoreInv, StoreTypeOK, CallPCs
    <3>3. QED
      BY <3>2 DEF Busy
  <2>2. CASE ~Enter(t)
    <3>1. \/ \E from, to \in {"idle", "mutex", "poll", "release", "held"} :
                Goto(t, from, to) /\ to # "held"
          \/ UNCHANGED lockVars /\ call[t].pc \in Outer
      <4>1. CASE \E r \in Requests : Call(t, r) \/ Open(t, r)
        BY <4>1 DEF Call, Open, Request, At, Outer
      <4>2. CASE Unlocked(t)
        BY <4>2 DEF Unlocked, Resolve, Read, List, Reload, Return, Request, At, Step, StepOut, Outer
      <4>3. CASE GiveUp(t) \/ Leave(t) \/ Exit(t)
        BY <4>3 DEF GiveUp, Leave, Exit, TryTimesOut, TryFails, FileUnlock, MutexUnlock
      <4>4. QED
        BY <2>2, <4>1, <4>2, <4>3
    <3>2. lpc'[t] # "held"
      BY <3>1 DEF Goto, StoreInv, StoreTypeOK, LockTypeOK, PcMatch, lockVars, Outer
    <3>3. Next
      BY DEF Next
    <3>4. QED
      BY <3>2, <3>3, MatchStep DEF Matching, PcMatch, Inner, Busy
  <2>3. QED
    BY <2>1, <2>2
<1>7. QED
  BY <1>1, <1>2, <1>5, <1>6, WorkQuiet

(* A process dies: what its writer owed is on record.                      *)
LEMMA CrashStep ==
  ASSUME StoreInv, IndexInv, NEW p \in Procs, Crash(p)
  PROVE  IndexInv'
<1>1. /\ call' = [t \in Threads |-> IF t \in {u \in Threads : ProcOf[u] = p} THEN Ready ELSE call[t]]
      /\ stale' = [k \in Key |-> IF \E t \in {u \in Threads : ProcOf[u] = p} : Parted(t) /\ Target(t) = k
                                 THEN "interrupted" ELSE stale[k]]
      /\ UNCHANGED <<files, index>>
  BY DEF Crash
<1>2. ASSUME NEW t \in Threads PROVE Work(t)'
  <2>1. CASE call'[t] = Ready
    BY <2>1 DEF Work, Ready
  <2>2. CASE call'[t] = call[t]
    BY <1>1, <2>2, WorkFrame DEF IndexInv
  <2>3. QED
    BY <1>1, <2>1, <2>2
<1>3. ASSUME IndexValid', NEW k \in Key PROVE Cause(k)'
  <2>1. Coherent(k) \/ \E t \in Threads : Parted(t) /\ Target(t) = k
    BY <1>1, <1>3 DEF IndexInv, Explained, IndexValid
  <2>2. CASE Coherent(k)
    BY <1>1, <2>2 DEF Cause, Coherent
  <2>3. ASSUME NEW t \in Threads, Parted(t), Target(t) = k PROVE Cause(k)'
    <3>1. CASE ProcOf[t] = p
      BY <1>1, <2>3, <3>1 DEF Cause, Coherent
    <3>2. CASE ProcOf[t] # p
      <4>1. call'[t] = call[t]
        BY <1>1, <3>2
      <4>2. QED
        BY <2>3, <4>1 DEF Cause, Parted, Target
    <3>3. QED
      BY <3>1, <3>2
  <2>4. QED
    BY <2>1, <2>2, <2>3
<1>4. QED
  BY <1>2, <1>3 DEF IndexInv, Explained, Cause

-----------------------------------------------------------------------------
(* The invariant and its theorems                                          *)

(* The invariant holds at the start.                                       *)
LEMMA IndexInvInit == Init => IndexInv
BY DEF Init, IndexInv, Explained, Coherent, IndexValid, Work, Ready

(* The invariant is inductive when files can be locked.                    *)
LEMMA IndexInvStep ==
  ASSUME FileLocking, StoreInv, IndexInv, [Next]_vars
  PROVE  IndexInv'
<1>1. ASSUME NEW t \in Threads, Work(t)', Explained', OthersWait(t),
             UNCHANGED <<files, index>> \/ Inside(t)
      PROVE  IndexInv'
  <2>1. ASSUME NEW u \in Threads, u # t PROVE Work(u)'
    <3>1. call'[u] = call[u]
      BY <1>1, <2>1 DEF OthersWait
    <3>2. UNCHANGED <<files, index>> \/ ~Inside(u)
      BY <1>1, <2>1, LockAssumption DEF StoreInv, LockInv, FlockMatches, Inside
    <3>3. QED
      BY <3>1, <3>2, WorkFrame DEF IndexInv
  <2>2. QED
    BY <1>1, <2>1 DEF IndexInv
<1>2. ASSUME UNCHANGED <<files, index, stale, call>> PROVE IndexInv'
  <2>1. ASSUME NEW u \in Threads PROVE Work(u)'
    BY <1>2, WorkFrame DEF IndexInv
  <2>2. Explained'
    BY <1>2 DEF IndexInv, Explained, Coherent, Parted, Target, IndexValid
  <2>3. QED
    BY <2>1, <2>2 DEF IndexInv
<1>3. ASSUME NEW t \in Threads, Body(t) PROVE IndexInv'
  BY <1>1, <1>3, BodyStep
<1>4. ASSUME NEW t \in Threads,
             \/ \E r \in Requests : Call(t, r) \/ Open(t, r)
             \/ Unlocked(t) \/ Enter(t) \/ GiveUp(t) \/ Leave(t) \/ Exit(t)
      PROVE  IndexInv'
  BY <1>1, <1>4, PlainStep
<1>5. ASSUME NEW t \in Threads, AwaitMutex(t) PROVE IndexInv'
  BY <1>2, <1>5 DEF AwaitMutex, storeVars
<1>6. ASSUME NEW p \in Procs, Quit(p) PROVE IndexInv'
  BY <1>2, <1>6 DEF Quit
<1>7. ASSUME Damage PROVE IndexInv'
  <2>1. ASSUME NEW u \in Threads PROVE Work(u)'
    BY <1>7, WorkFrame DEF Damage, Inside, IndexInv
  <2>2. Explained'
    <3>1. CASE UNCHANGED <<index, stale, call>> /\ \E k \in Key : files' = [files EXCEPT ![k] = CORRUPT]
      <4> SUFFICES ASSUME IndexValid', NEW k \in Key PROVE Cause(k)'
        BY DEF Explained, Cause
      <4>1. files'[k] = files[k] \/ files'[k] = CORRUPT
        BY <3>1 DEF StoreInv, StoreTypeOK, Files
      <4>2. Cause(k)
        BY <3>1 DEF IndexInv, Explained, Cause, IndexValid
      <4>3. QED
        BY <3>1, <4>1, <4>2 DEF Cause, Coherent, Parted, Target
    <3>2. CASE index' \in {ABSENT, DAMAGED}
      BY <3>2 DEF Explained, IndexValid
    <3>3. QED
      BY <1>7, <3>1, <3>2 DEF Damage
  <2>3. QED
    BY <2>1, <2>2 DEF IndexInv
<1>8. CASE Next
  BY <1>3, <1>4, <1>5, <1>6, <1>7, <1>8, CrashStep DEF Next
<1>9. CASE UNCHANGED vars
  BY <1>2, <1>9 DEF vars, storeVars
<1>10. QED
  BY <1>8, <1>9

(* No interleaving of calls parts an index row from its bundle.            *)
THEOREM StoreIndexCoherent == FileLocking /\ SafeSpec => []IndexCoherent
<1> SUFFICES ASSUME FileLocking PROVE SafeSpec => []IndexCoherent
  OBVIOUS
<1>1. StoreInv /\ IndexInv /\ [Next]_vars => IndexInv'
  BY IndexInvStep
<1>2. ASSUME StoreInv, IndexInv PROVE IndexCoherent
  <2> SUFFICES ASSUME flock = NONE, IndexValid, NEW k \in Key PROVE Coherent(k)
    BY DEF IndexCoherent, Coherent
  <2>1. \A t \in Threads : lpc[t] # "held"
    BY <1>2, LockAssumption DEF StoreInv, LockInv, FlockMatches
  <2>2. \A t \in Threads : ~Parted(t)
    BY <1>2, <2>1 DEF StoreInv, PcMatch, Parted, Inner
  <2>3. QED
    BY <1>2, <2>2 DEF IndexInv, Explained
<1>3. StoreInv /\ IndexInv => IndexCoherent
  BY <1>2
<1>4. QED
  BY IndexInvInit, <1>1, <1>3, StoreInvariant, PTL DEF SafeSpec

(* A writer that reports success leaves its bundle and its row as it says. *)
THEOREM StoreSuccessIsIndexed == FileLocking /\ SafeSpec => []SuccessIsIndexed
<1> SUFFICES ASSUME FileLocking PROVE SafeSpec => []SuccessIsIndexed
  OBVIOUS
<1>1. StoreInv /\ IndexInv /\ [Next]_vars => IndexInv'
  BY IndexInvStep
<1>2. IndexInv => SuccessIsIndexed
  BY DEF IndexInv, Work, SuccessIsIndexed, At, Succeeded
<1>3. QED
  BY IndexInvInit, <1>1, <1>2, StoreInvariant, PTL DEF SafeSpec

-----------------------------------------------------------------------------
(***************************************************************************)
(* The store implements CatalogSpec: a call takes effect at one instant or *)
(* not at all, and its answer is the one that instant calls for.           *)
(*                                                                         *)
(* The effect is the write or the removal of the bundle file; the answer   *)
(* is settled in the same step, or before when there is nothing to write,  *)
(* and then only an error can replace it.  Settled says which, by the      *)
(* program counter; WriteDue, that the verdict under which a bundle is     *)
(* written still holds in the step that writes it.                         *)
(***************************************************************************)
(* Where a call has no outcome yet, and where it has one.                  *)
Unsettled == {"ready", "resolve", "read", "list", "enter", "body", "write"}
HasOutcome == {"cleanup", "load", "save", "leave", "exit", "return", "reload"}

SettledCall(c) ==
    /\ c.pc \in Unsettled => c.out = "none"
    /\ c.pc \in HasOutcome => c.out # "none"
    /\ c.pc = "rebuild" /\ c.req.op # "list" => c.out # "none"
    /\ c.pc = "resolve" => c.ver = c.req.ver
    /\ c.pc = "return" => c.req.op # "upsert"

Settled == \A t \in Threads : SettledCall(call[t])

(* What the refinement needs of the state.                                 *)
Ground == StoreInv /\ WriteDue /\ Settled

-----------------------------------------------------------------------------
(* The mapping                                                             *)

(* A call that asks about a bundle maps to a request of the specification. *)
LEMMA AskShape ==
  ASSUME NEW c \in Calls, CallShape(c), SettledCall(c)
  PROVE  /\ Asking(c) <=> c.pc # "ready" /\ c.req.op \in BundleOps
         /\ Asking(c) => /\ c.req \in AllRequests
                         /\ AskOf(c) # NONE
                         /\ AskOf(c).op = c.req.op /\ AskOf(c).id = c.req.id
                         /\ AskOf(c).ver = c.ver
                         /\ AskOf(c).content = c.req.content /\ AskOf(c).policy = c.req.policy
                         /\ AnswerOf(c) = c.out
         /\ ~Asking(c) => AskOf(c) = NONE /\ AnswerOf(c) = "none"
<1>1. c.pc # "ready" => c.req \in AllRequests /\ c.req # NONE
  BY StoreAssumption DEF CallShape
<1>2. c.pc = "ready" => c.req = NONE
  BY DEF CallShape, Ready
<1>3. Asking(c) <=> c.pc # "ready" /\ c.req.op \in BundleOps
  BY <1>1, <1>2 DEF Asking, BundleOps
<1>4. ASSUME Asking(c)
      PROVE  /\ AskOf(c) \in AllRequests
             /\ AskOf(c).op = c.req.op /\ AskOf(c).id = c.req.id
             /\ AskOf(c).ver = c.ver
             /\ AskOf(c).content = c.req.content /\ AskOf(c).policy = c.req.policy
  <2>1. AskOf(c) = [c.req EXCEPT !.ver = c.ver]
    BY <1>4 DEF AskOf
  <2>2. c.ver \in Versions \cup {NONE}
    BY DEF Calls
  <2>3. c.req.op = "upsert" => c.ver \in Versions
    BY <1>3, <1>4 DEF CallShape, SettledCall, BundleOps
  <2>4. c.req \in AllRequests /\ c.req.op \in BundleOps
    BY <1>1, <1>3, <1>4
  <2>5. QED
    BY <2>1, <2>2, <2>3, <2>4 DEF AllRequests, BundleOps
<1>5. QED
  BY <1>1, <1>3, <1>4, StoreAssumption DEF AskOf, AnswerOf

(* A step of one goroutine changes its own request and answer only.        *)
LEMMA MapsTo ==
  ASSUME NEW t \in Threads, \A u \in Threads \ {t} : call'[u] = call[u]
  PROVE  /\ Asks' = [Asks EXCEPT ![t] = AskOf(call'[t])]
         /\ Answers' = [Answers EXCEPT ![t] = AnswerOf(call'[t])]
         /\ Asks[t] = AskOf(call[t]) /\ Answers[t] = AnswerOf(call[t])
<1>1. \A u \in Threads : /\ Asks'[u] = AskOf(call'[u]) /\ Answers'[u] = AnswerOf(call'[u])
                         /\ Asks[u] = AskOf(call[u]) /\ Answers[u] = AnswerOf(call[u])
  BY DEF Asks, Answers, AskOf, AnswerOf, Asking
<1>2. Asks = [u \in Threads |-> Asks[u]] /\ Asks' = [u \in Threads |-> Asks'[u]]
  BY DEF Asks
<1>3. Answers = [u \in Threads |-> Answers[u]] /\ Answers' = [u \in Threads |-> Answers'[u]]
  BY DEF Answers
<1>4. QED
  BY <1>1, <1>2, <1>3

(* What the specification sees of a goroutine that asks about a bundle.    *)
LEMMA AskView ==
  ASSUME Ground, NEW t \in Threads, Asking(call[t])
  PROVE  /\ Asks[t] # NONE
         /\ Asks[t].op = Op(t) /\ Asks[t].id = call[t].req.id /\ Asks[t].ver = call[t].ver
         /\ Asks[t].content = call[t].req.content /\ Asks[t].policy = call[t].req.policy
         /\ Abstract!AskKey(t) = Target(t)
         /\ Answers[t] = call[t].out
         /\ call[t].pc # "ready" /\ Op(t) \in BundleOps /\ call[t].req \in AllRequests
<1>1. call[t] \in Calls /\ CallShape(call[t]) /\ SettledCall(call[t])
  BY DEF Ground, StoreInv, StoreTypeOK, Settled
<1>2. Asks[t] = AskOf(call[t]) /\ Answers[t] = AnswerOf(call[t])
  BY DEF Asks, Answers
<1>3. QED
  BY <1>1, <1>2, AskShape DEF Op, Target, Abstract!AskKey

(* The step of t leaves its request and its version alone.                 *)
SameAsk(t) ==
    /\ \A u \in Threads \ {t} : call'[u] = call[u]
    /\ call'[t].req = call[t].req /\ call'[t].ver = call[t].ver

(* What such a step is to the specification.                               *)
LEMMA OnlyAnswers ==
  ASSUME NEW t \in Threads, SameAsk(t)
  PROVE  /\ Asks' = Asks
         /\ Asking(call[t]) => Answers' = [Answers EXCEPT ![t] = call'[t].out]
         /\ ~Asking(call[t]) => Answers' = Answers
         /\ call'[t].out = call[t].out => Answers' = Answers
<1>1. /\ Asks' = [Asks EXCEPT ![t] = AskOf(call'[t])]
      /\ Answers' = [Answers EXCEPT ![t] = AnswerOf(call'[t])]
      /\ Asks[t] = AskOf(call[t]) /\ Answers[t] = AnswerOf(call[t])
  BY MapsTo DEF SameAsk
<1>2. AskOf(call'[t]) = AskOf(call[t]) /\ (Asking(call'[t]) <=> Asking(call[t]))
  BY DEF SameAsk, AskOf, Asking
<1>3. /\ Asking(call[t]) => AnswerOf(call'[t]) = call'[t].out /\ AnswerOf(call[t]) = call[t].out
      /\ ~Asking(call[t]) => AnswerOf(call'[t]) = AnswerOf(call[t])
  BY <1>2 DEF AnswerOf
<1>4. Asks = [u \in Threads |-> Asks[u]] /\ Answers = [u \in Threads |-> Answers[u]]
  BY DEF Asks, Answers
<1>5. QED
  BY <1>1, <1>2, <1>3, <1>4

(* A step of t is one of the specification, or none, and settles rightly.  *)
AbstractStep == Abstract!Next \/ UNCHANGED <<files, Asks, Answers>>

Simulates(t) == AbstractStep /\ SettledCall(call'[t])

(* A step that leaves the bundles and the outcome alone is none.           *)
LEMMA Stutters ==
  ASSUME NEW t \in Threads, SameAsk(t), UNCHANGED files,
         call'[t].out = call[t].out \/ ~Asking(call[t])
  PROVE  AbstractStep
BY OnlyAnswers DEF AbstractStep

(* A step that turns the outcome into an error is a refusal, or an error   *)
(* that hides the effect.                                                  *)
LEMMA Refuses ==
  ASSUME Ground, NEW t \in Threads, SameAsk(t), UNCHANGED files, call'[t].out = "error"
  PROVE  AbstractStep
<1>1. CASE ~Asking(call[t])
  BY <1>1, Stutters
<1>2. CASE Asking(call[t])
  <2>1. Asks' = Asks /\ Answers' = [Answers EXCEPT ![t] = "error"] /\ Asks[t] # NONE
    BY <1>2, OnlyAnswers, AskView
  <2>2. Abstract!Refuse(t) \/ Abstract!FailLate(t)
    BY <2>1 DEF Abstract!Refuse, Abstract!FailLate, Abstract!Waiting, Abstract!Settle
  <2>3. QED
    BY <2>2 DEF AbstractStep, Abstract!Next
<1>3. QED
  BY <1>1, <1>2

-----------------------------------------------------------------------------
(* Steps that run without the lock                                         *)

(* A goroutine in a call before the lock, and what its place says.         *)
LEMMA GroundFacts ==
  ASSUME Ground, NEW t \in Threads
  PROVE  /\ call \in [Threads -> Calls] /\ call[t] \in Calls
         /\ CallShape(call[t]) /\ SettledCall(call[t]) /\ StoreInv
         /\ files \in Files
BY DEF Ground, StoreInv, StoreTypeOK, Settled

(* A move that settles the outcome keeps the request.                      *)
LEMMA SettlesAsk ==
  ASSUME Ground, NEW t \in Threads, NEW from, NEW to \in CallPCs, NEW out \in Outcomes,
         StepOut(t, from, to, out)
  PROVE  SameAsk(t) /\ call[t].pc = from /\ call'[t].pc = to /\ call'[t].out = out
<1>1. call \in [Threads -> Calls]
  BY GroundFacts
<1>2. QED
  BY <1>1, StepOutFacts DEF Keeps, SameAsk

(* The version is resolved, or there is none.                              *)
LEMMA ResolveSimulates ==
  ASSUME Ground, NEW t \in Threads, Resolve(t)
  PROVE  Simulates(t)
<1> DEFINE stored == StoredVersions(call[t].req.id)
           latest == IF call[t].req.ver = NONE THEN Max(stored) ELSE call[t].req.ver
<1>1. /\ call \in [Threads -> Calls] /\ call[t] \in Calls
      /\ CallShape(call[t]) /\ SettledCall(call[t]) /\ UNCHANGED files
  BY GroundFacts DEF Resolve
<1>2. call[t].pc = "resolve" /\ call[t].out = "none" /\ call[t].ver = call[t].req.ver
  BY <1>1 DEF Resolve, At, SettledCall, Unsettled
<1>3. Asking(call[t]) /\ Op(t) \in {"delete", "get"}
  BY <1>1, <1>2, AskShape DEF CallShape, BundleOps, Op
<1>4. Abstract!Waiting(t)
  BY <1>2, <1>3, AskView DEF Abstract!Waiting
<1>5. Abstract!Stored(files, Asks[t].id) = stored
  BY <1>3, AskView DEF Abstract!Stored, StoredVersions
<1>6. CASE call[t].req.ver = NONE /\ stored = {}
  <2>1. StepOut(t, "resolve", "return", "not_found")
    BY <1>6 DEF Resolve
  <2>2. call'[t].pc = "return" /\ call'[t].out = "not_found" /\ SameAsk(t)
    BY <1>1, <2>1, StepOutFacts DEF CallPCs, Outcomes, Keeps, SameAsk
  <2>3. Asks' = Asks /\ Answers' = [Answers EXCEPT ![t] = "not_found"]
    BY <1>3, <2>2, OnlyAnswers
  <2>4. Abstract!Pin(t)
    BY <1>1, <1>2, <1>3, <1>4, <1>5, <1>6, <2>3, AskView DEF Abstract!Pin, Abstract!Settle
  <2>5. SettledCall(call'[t])
    BY <1>3, <2>2 DEF SettledCall, SameAsk, Unsettled, Op
  <2>6. QED
    BY <2>4, <2>5 DEF Simulates, AbstractStep, Abstract!Next
<1>7. CASE ~(call[t].req.ver = NONE /\ stored = {})
  <2>1. call' = [call EXCEPT ![t].ver = latest,
                             ![t].pc = IF Op(t) = "get" THEN "read" ELSE "enter"]
    BY <1>7 DEF Resolve
  <2>2. /\ call'[t].pc \in {"read", "enter"} /\ call'[t].out = "none"
        /\ call'[t].req = call[t].req /\ call'[t].ver = latest
        /\ \A u \in Threads \ {t} : call'[u] = call[u]
    BY <1>1, <1>2, <2>1 DEF Calls
  <2> HIDE DEF latest
  <2>3. SettledCall(call'[t])
    BY <2>2 DEF SettledCall, Unsettled, HasOutcome
  <2>4. CASE call[t].req.ver = NONE
    <3>1. latest = Max(stored)
      BY <2>4 DEF latest
    <3>2. AskOf(call'[t]) = [AskOf(call[t]) EXCEPT !.ver = latest]
      BY <1>3, <2>2 DEF AskOf, Asking
    <3>3. Asks' = [Asks EXCEPT ![t].ver = latest]
      BY <2>2, <3>2, MapsTo
    <3>4. AnswerOf(call'[t]) = Answers[t]
      BY <1>2, <1>3, <2>2, AskView DEF AnswerOf
    <3>5. Answers' = Answers
      BY <2>2, <3>4, MapsTo DEF Answers
    <3>6. Abstract!Max(stored) = Max(stored)
      BY DEF Max, Abstract!Max
    <3>7. Abstract!Pin(t)
      BY <1>1, <1>2, <1>3, <1>4, <1>5, <1>7, <2>4, <3>1, <3>3, <3>5, <3>6, AskView DEF Abstract!Pin
    <3>8. QED
      BY <2>3, <3>7 DEF Simulates, AbstractStep, Abstract!Next
  <2>5. CASE call[t].req.ver # NONE
    <3>1. SameAsk(t)
      BY <1>2, <2>2, <2>5 DEF SameAsk, latest
    <3>2. QED
      BY <1>1, <1>2, <2>2, <2>3, <3>1, Stutters DEF Simulates
  <2>6. QED
    BY <2>4, <2>5
<1>8. QED
  BY <1>6, <1>7

LEMMA ReadSimulates ==
  ASSUME Ground, NEW t \in Threads, Read(t)
  PROVE  Simulates(t)
<1> DEFINE out == CASE files[Target(t)] = NONE -> "not_found"
                    [] files[Target(t)] = CORRUPT -> "error"
                    [] OTHER -> "found"
<1>1. /\ call \in [Threads -> Calls] /\ call[t] \in Calls
      /\ CallShape(call[t]) /\ SettledCall(call[t]) /\ UNCHANGED files
  BY GroundFacts DEF Read
<1>2. /\ out \in {"not_found", "error", "found"}
      /\ files[Target(t)] = CORRUPT => out = "error"
      /\ files[Target(t)] = NONE => out = "not_found"
      /\ files[Target(t)] \notin {NONE, CORRUPT} => out = "found"
  BY StoreAssumption
<1>3. StepOut(t, "read", "return", out)
  BY DEF Read
<1> HIDE DEF out
<1>4. call[t].pc = "read" /\ call'[t].pc = "return" /\ call'[t].out = out /\ SameAsk(t)
  BY <1>1, <1>2, <1>3, StepOutFacts DEF CallPCs, Outcomes, Keeps, SameAsk
<1>5. Op(t) = "get" /\ Asking(call[t]) /\ call[t].out = "none" /\ call[t].ver \in Versions
  BY <1>1, <1>4, AskShape DEF CallShape, BundleOps, Op, SettledCall, Unsettled
<1>6. SettledCall(call'[t])
  BY <1>2, <1>4, <1>5 DEF SettledCall, SameAsk, Unsettled, Op
<1>7. CASE out = "error"
  BY <1>1, <1>4, <1>6, <1>7, Refuses DEF Simulates
<1>8. CASE out # "error"
  <2>1. Asks' = Asks /\ Answers' = [Answers EXCEPT ![t] = out]
    BY <1>4, <1>5, OnlyAnswers
  <2>2. /\ Abstract!Waiting(t) /\ Asks[t].op = "get" /\ Asks[t].ver # NONE
        /\ Abstract!AskKey(t) = Target(t)
    BY <1>5, AskView, StoreAssumption DEF Abstract!Waiting
  <2>3. files[Target(t)] # CORRUPT /\ out = (IF files[Target(t)] = NONE THEN "not_found" ELSE "found")
    BY <1>2, <1>8
  <2>4. Abstract!Get(t)
    BY <1>1, <2>1, <2>2, <2>3 DEF Abstract!Get, Abstract!Settle
  <2>5. QED
    BY <1>6, <2>4 DEF Simulates, AbstractStep, Abstract!Next
<1>9. QED
  BY <1>7, <1>8

(* The calls that read the index.                                          *)
LEMMA ListingSimulates ==
  ASSUME Ground, NEW t \in Threads, List(t) \/ Reload(t)
  PROVE  Simulates(t)
<1>1. /\ call \in [Threads -> Calls] /\ call[t] \in Calls
      /\ CallShape(call[t]) /\ SettledCall(call[t]) /\ UNCHANGED files
  BY GroundFacts DEF List, Reload
<1>2. \/ StepOut(t, "list", "return", "listed")
      \/ Step(t, "list", "enter")
      \/ \E out \in {"listed", "error"} : StepOut(t, "reload", "return", out)
  BY DEF List, Reload
<1>3. /\ call[t].pc \in {"list", "reload"} /\ SameAsk(t)
      /\ \/ call'[t].pc = "return" /\ call'[t].out # "none"
         \/ call'[t].pc = "enter" /\ call'[t].out = call[t].out /\ call[t].pc = "list"
  <2>1. {"list", "return", "enter", "reload"} \subseteq CallPCs /\ {"listed", "error"} \subseteq Outcomes
    BY DEF CallPCs, Outcomes
  <2>2. ASSUME NEW from, NEW out \in {"listed", "error"}, StepOut(t, from, "return", out)
        PROVE  call[t].pc = from /\ call'[t].pc = "return" /\ call'[t].out # "none" /\ SameAsk(t)
    <3>1. call[t].pc = from /\ call'[t].pc = "return" /\ call'[t].out = out /\ Keeps(t)
      BY <1>1, <2>1, <2>2, StepOutFacts
    <3>2. QED
      BY <2>2, <3>1 DEF Keeps, SameAsk
  <2>3. ASSUME Step(t, "list", "enter")
        PROVE  call[t].pc = "list" /\ call'[t].pc = "enter" /\ call'[t].out = call[t].out /\ SameAsk(t)
    BY <1>1, <2>1, <2>3, StepFacts DEF Keeps, SameAsk
  <2>4. QED
    BY <1>2, <2>2, <2>3
<1>4. call[t].req.op = "list" /\ ~Asking(call[t])
  BY <1>1, <1>3 DEF CallShape, Asking
<1>5. SettledCall(call'[t])
  BY <1>1, <1>3, <1>4 DEF SettledCall, SameAsk, Unsettled, HasOutcome
<1>6. QED
  BY <1>1, <1>3, <1>4, <1>5, Stutters DEF Simulates

(* A call that returns forgets its request.                                *)
LEMMA BackToReady ==
  ASSUME Ground, NEW t \in Threads, call' = [call EXCEPT ![t] = Ready], UNCHANGED files,
         call[t].out # "none" \/ ~Asking(call[t])
  PROVE  Simulates(t)
<1>1. call'[t] = Ready /\ \A u \in Threads \ {t} : call'[u] = call[u]
  BY GroundFacts
<1>2. SettledCall(Ready)
  BY DEF SettledCall, Ready, Unsettled, HasOutcome
<1>3. AskOf(Ready) = NONE /\ AnswerOf(Ready) = "none"
  BY DEF AskOf, AnswerOf, Asking, Ready
<1>4. Asks' = [Asks EXCEPT ![t] = NONE] /\ Answers' = [Answers EXCEPT ![t] = "none"]
  BY <1>1, <1>3, MapsTo
<1>5. CASE Asking(call[t])
  <2>1. Answers[t] # "none"
    BY <1>5, AskView
  <2>2. Abstract!Return(t)
    BY <1>4, <2>1 DEF Abstract!Return, Abstract!Settle
  <2>3. QED
    BY <1>1, <1>2, <2>2 DEF Simulates, AbstractStep, Abstract!Next
<1>6. CASE ~Asking(call[t])
  <2>1. AskOf(call[t]) = NONE /\ AnswerOf(call[t]) = "none"
    BY <1>6 DEF AskOf, AnswerOf
  <2>2. Asks' = Asks /\ Answers' = Answers
    BY <1>4, <2>1, MapsTo, <1>1 DEF Asks, Answers
  <2>3. QED
    BY <1>1, <1>2, <2>2 DEF Simulates, AbstractStep
<1>7. QED
  BY <1>5, <1>6

(* The start of a call.                                                    *)
LEMMA StartSimulates ==
  ASSUME Ground, NEW t \in Threads, NEW r \in Requests, Call(t, r) \/ Open(t, r)
  PROVE  Simulates(t)
<1>1. /\ call[t] = Ready /\ call[t] \in Calls /\ r \in AllRequests /\ r # NONE /\ UNCHANGED files
      /\ call \in [Threads -> Calls]
  BY GroundFacts, StoreAssumption DEF Call, Open, At, CallShape, Ground, StoreInv, StoreTypeOK
<1>2. GoodStep(t)
  BY GoodStart DEF Ground
<1>3. /\ call'[t].req = r /\ call'[t].out = "none" /\ call'[t].pc \in {"enter", "list", "resolve"}
      /\ Call(t, r) => call'[t].ver = r.ver
      /\ Open(t, r) => call'[t].pc = "enter"
      /\ \A u \in Threads \ {t} : call'[u] = call[u]
  <2>1. CASE Call(t, r)
    <3> DEFINE to == CASE r.op = "upsert" -> "enter"
                       [] r.op = "list" -> "list"
                       [] OTHER -> "resolve"
    <3>1. to \in {"enter", "list", "resolve"}
      BY Zenon
    <3>2. call' = [call EXCEPT ![t].req = r, ![t].ver = r.ver, ![t].pc = to]
      BY <2>1 DEF Call
    <3> HIDE DEF to
    <3>3. call'[t].req = r /\ call'[t].out = "none" /\ call'[t].pc = to /\ call'[t].ver = r.ver
      BY <1>1, <3>2 DEF Calls, Ready
    <3>4. ~Open(t, r)
      BY <2>1 DEF Call, Open
    <3>5. QED
      BY <1>2, <3>1, <3>3, <3>4 DEF GoodStep
  <2>2. CASE Open(t, r)
    <3>1. call' = [call EXCEPT ![t].req = r, ![t].pc = "enter"] /\ ~Call(t, r)
      BY <2>2 DEF Call, Open
    <3>2. QED
      BY <1>1, <1>2, <3>1 DEF GoodStep, Calls, Ready
  <2>3. QED
    BY <2>1, <2>2
<1>4. SettledCall(call'[t])
  BY <1>3 DEF SettledCall, Unsettled, HasOutcome, Open
<1>5. AskOf(call[t]) = NONE /\ AnswerOf(call'[t]) = "none" /\ AnswerOf(call[t]) = "none"
  BY <1>1, <1>3 DEF AskOf, AnswerOf, Asking, Ready
<1>6. Answers' = Answers
  BY <1>3, <1>5, MapsTo DEF Answers
<1>7. CASE Asking(call'[t])
  <2>1. Call(t, r) /\ r.op \in BundleOps
    BY <1>3, <1>7 DEF Open, Asking, BundleOps
  <2>2. AskOf(call'[t]) = r
    BY <1>1, <1>3, <1>7, <2>1 DEF AskOf, AllRequests
  <2>3. r \in Abstract!BundleRequests
    BY <1>1, <2>1 DEF AllRequests, Abstract!BundleRequests, Abstract!Policies, Policies, BundleOps
  <2>4. Abstract!Ask(t, r)
    BY <1>1, <1>3, <1>5, <1>6, <2>2, MapsTo DEF Abstract!Ask
  <2>5. QED
    BY <1>4, <2>3, <2>4 DEF Simulates, AbstractStep, Abstract!Next
<1>8. CASE ~Asking(call'[t])
  <2>1. AskOf(call'[t]) = NONE
    BY <1>8 DEF AskOf
  <2>2. Asks' = Asks
    BY <1>3, <1>5, <2>1, MapsTo DEF Asks
  <2>3. QED
    BY <1>1, <1>4, <1>6, <2>2 DEF Simulates, AbstractStep
<1>9. QED
  BY <1>7, <1>8

(* The steps of withWriteLock.                                             *)
LEMMA LockedSimulates ==
  ASSUME Ground, NEW t \in Threads, Enter(t) \/ GiveUp(t) \/ Leave(t) \/ Exit(t)
  PROVE  Simulates(t)
<1>1. /\ call \in [Threads -> Calls] /\ call[t] \in Calls
      /\ CallShape(call[t]) /\ SettledCall(call[t]) /\ UNCHANGED files
  BY GroundFacts DEF Enter, GiveUp, Leave, Exit
<1>2. CASE Enter(t) \/ GiveUp(t) \/ Leave(t)
  <2>1. \/ Step(t, "enter", "body") \/ StepOut(t, "enter", "exit", "error")
        \/ Step(t, "leave", "exit") \/ StepOut(t, "leave", "exit", "error")
    BY <1>2 DEF Enter, GiveUp, Leave
  <2>2. /\ SameAsk(t) /\ call[t].pc \in {"enter", "leave"} /\ call'[t].pc \in {"body", "exit"}
        /\ call'[t].out \in {call[t].out, "error"}
        /\ call'[t].pc = "body" => call[t].pc = "enter" /\ call'[t].out = call[t].out
        /\ call[t].pc = "enter" /\ call'[t].pc = "exit" => call'[t].out = "error"
    <3>1. {"body", "exit"} \subseteq CallPCs /\ "error" \in Outcomes
      BY DEF CallPCs, Outcomes
    <3>2. ASSUME NEW from, NEW to \in {"body", "exit"}, Step(t, from, to)
          PROVE  call[t].pc = from /\ call'[t].pc = to /\ call'[t].out = call[t].out /\ SameAsk(t)
      BY <1>1, <3>1, <3>2, StepFacts DEF Keeps, SameAsk
    <3>3. ASSUME NEW from, StepOut(t, from, "exit", "error")
          PROVE  call[t].pc = from /\ call'[t].pc = "exit" /\ call'[t].out = "error" /\ SameAsk(t)
      BY <1>1, <3>1, <3>3, StepOutFacts DEF Keeps, SameAsk
    <3>4. QED
      BY <2>1, <3>2, <3>3
  <2>3. SettledCall(call'[t])
    BY <1>1, <2>2 DEF SettledCall, Unsettled, HasOutcome
  <2>4. QED
    BY <1>1, <2>2, <2>3, Stutters, Refuses DEF Simulates
<1>3. CASE Exit(t) /\ call[t].out = "repaired"
  <2>1. Step(t, "exit", "reload")
    BY <1>3 DEF Exit
  <2>2. SameAsk(t) /\ call'[t].pc = "reload" /\ call'[t].out = call[t].out
    BY <1>1, <2>1, StepFacts DEF CallPCs, Keeps, SameAsk
  <2>3. SettledCall(call'[t])
    BY <1>3, <2>2 DEF SettledCall, Unsettled, HasOutcome
  <2>4. QED
    BY <1>1, <2>2, <2>3, Stutters DEF Simulates
<1>4. CASE Exit(t) /\ call[t].out # "repaired"
  <2>1. call[t].pc = "exit" /\ call' = [call EXCEPT ![t] = Ready]
    BY <1>4 DEF Exit, At
  <2>2. call[t].out # "none"
    BY <1>1, <2>1 DEF SettledCall, HasOutcome
  <2>3. QED
    BY <1>1, <2>1, <2>2, BackToReady
<1>5. QED
  BY <1>2, <1>3, <1>4

LEMMA UnlockedSimulates ==
  ASSUME Ground, NEW t \in Threads, Unlocked(t)
  PROVE  Simulates(t)
<1>1. CASE Return(t)
  <2>1. call[t].pc = "return" /\ call' = [call EXCEPT ![t] = Ready] /\ UNCHANGED files
    BY <1>1 DEF Return, At
  <2>2. call[t].out # "none"
    BY <2>1, GroundFacts DEF SettledCall, HasOutcome
  <2>3. QED
    BY <2>1, <2>2, BackToReady
<1>2. QED
  BY <1>1, ResolveSimulates, ReadSimulates, ListingSimulates DEF Unlocked

-----------------------------------------------------------------------------
(* Steps that run under the lock                                           *)

(* Where the call of t is about a bundle, and which bundle that is.        *)
LEMMA BodyView ==
  ASSUME Ground, NEW t \in Threads, call[t].pc \in Inner, Op(t) \in BundleOps
  PROVE  /\ Asking(call[t]) /\ Target(t) \in Key
         /\ Asks[t] # NONE /\ Asks[t].op = Op(t) /\ Asks[t].ver # NONE
         /\ Asks[t].content = call[t].req.content /\ Asks[t].policy = call[t].req.policy
         /\ Abstract!AskKey(t) = Target(t) /\ Answers[t] = call[t].out
         /\ call[t].req \in AllRequests
<1>1. call[t].pc \notin {"ready", "resolve", "return"}
  BY DEF Inner
<1>2. Asking(call[t])
  BY <1>1, GroundFacts, AskShape DEF Op
<1>3. call[t].ver \in Versions
  BY <1>1, GroundFacts DEF CallShape, Op
<1>4. Target(t) \in Key
  BY <1>1, TargetKnown DEF Ground
<1>5. QED
  BY <1>2, <1>3, <1>4, AskView, StoreAssumption

(* An answer that the present state of the bundle calls for.               *)
LEMMA UpsertSimulates ==
  ASSUME Ground, NEW t \in Threads, At(t, "body"), UpsertDecides(t)
  PROVE  Simulates(t)
<1> DEFINE old == files[Target(t)]
           req == call[t].req
<1>1. /\ call \in [Threads -> Calls] /\ call[t] \in Calls
      /\ CallShape(call[t]) /\ SettledCall(call[t]) /\ UNCHANGED files
      /\ call[t].pc = "body" /\ call[t].out = "none" /\ Op(t) = "upsert"
  BY GroundFacts DEF UpsertDecides, At, SettledCall, Unsettled
<1>2. /\ Asking(call[t]) /\ Target(t) \in Key
      /\ Asks[t] # NONE /\ Asks[t].op = "upsert" /\ Answers[t] = "none"
      /\ Asks[t].content = req.content /\ Asks[t].policy = req.policy
      /\ Abstract!AskKey(t) = Target(t) /\ req \in AllRequests
  BY <1>1, BodyView DEF Inner, BundleOps
<1>3. req.content \in Contents /\ req.policy \in Policies
  BY <1>1, <1>2 DEF AllRequests, Op
<1>4. old \in Contents \cup {NONE, CORRUPT}
  BY <1>2, GroundFacts DEF Files
<1>5. CASE Step(t, "body", "write")
  <2>1. SameAsk(t) /\ call'[t].pc = "write" /\ call'[t].out = call[t].out
    BY <1>1, <1>5, StepFacts DEF CallPCs, Keeps, SameAsk
  <2>2. SettledCall(call'[t])
    BY <1>1, <2>1 DEF SettledCall, Unsettled, HasOutcome
  <2>3. QED
    BY <1>1, <2>1, <2>2, Stutters DEF Simulates
<1>6. ASSUME call' = [call EXCEPT ![t].pc = "load", ![t].item = old, ![t].out = "unchanged"],
             old \in Contents, Verdict(old, req.content, req.policy) = "unchanged"
      PROVE  Simulates(t)
  <2>1. SameAsk(t) /\ call'[t].pc = "load" /\ call'[t].out = "unchanged"
    BY <1>1, <1>6 DEF Calls, SameAsk
  <2>2. SettledCall(call'[t])
    BY <2>1 DEF SettledCall, Unsettled, HasOutcome
  <2>3. Asks' = Asks /\ Answers' = [Answers EXCEPT ![t] = "unchanged"]
    BY <1>2, <2>1, OnlyAnswers
  <2>4. old # NONE /\ old # CORRUPT
    BY <1>6, StoreAssumption
  <2>5. old = req.content \/ req.policy = "SKIP_IF_EXISTS"
    BY <1>3, <1>6, VerdictShape DEF Policies
  <2>6. Abstract!Upsert(t)
    <3>1. CASE old = req.content
      BY <1>1, <1>2, <2>3, <2>4, <3>1 DEF Abstract!Upsert, Abstract!Waiting, Abstract!Settle
    <3>2. CASE old # req.content
      <4>1. req.policy = "SKIP_IF_EXISTS" /\ req.policy # "OVERWRITE" /\ req.policy # "FAIL"
        BY <2>5, <3>2
      <4>2. QED
        BY <1>1, <1>2, <2>3, <2>4, <3>2, <4>1 DEF Abstract!Upsert, Abstract!Waiting, Abstract!Settle
    <3>3. QED
      BY <3>1, <3>2
  <2>7. QED
    BY <2>2, <2>6 DEF Simulates, AbstractStep, Abstract!Next
<1>7. ASSUME NEW out \in {"error", "conflict"}, StepOut(t, "body", "leave", out),
             Verdict(old, req.content, req.policy) = out
      PROVE  Simulates(t)
  <2>1. SameAsk(t) /\ call'[t].pc = "leave" /\ call'[t].out = out
    <3>1. "leave" \in CallPCs /\ out \in Outcomes
      BY DEF CallPCs, Outcomes
    <3>2. QED
      BY <1>1, <1>7, <3>1, StepOutFacts DEF Keeps, SameAsk
  <2>2. SettledCall(call'[t])
    BY <2>1 DEF SettledCall, Unsettled, HasOutcome
  <2>3. CASE out = "error"
    BY <1>1, <2>1, <2>2, <2>3, Refuses DEF Simulates
  <2>4. CASE out = "conflict"
    <3>1. old \in Contents /\ old # NONE /\ old # CORRUPT /\ old # req.content /\ req.policy = "FAIL"
      BY <1>3, <1>4, <1>7, <2>4, VerdictShape, StoreAssumption DEF Policies
    <3>2. Asks' = Asks /\ Answers' = [Answers EXCEPT ![t] = "conflict"]
      BY <1>2, <2>1, <2>4, OnlyAnswers
    <3>3. Abstract!Upsert(t)
      BY <1>1, <1>2, <3>1, <3>2 DEF Abstract!Upsert, Abstract!Waiting, Abstract!Settle
    <3>4. QED
      BY <2>2, <3>3 DEF Simulates, AbstractStep, Abstract!Next
  <2>5. QED
    BY <2>3, <2>4
<1>8. \/ Step(t, "body", "write")
      \/ /\ old \in Contents /\ Verdict(old, req.content, req.policy) = "unchanged"
         /\ call' = [call EXCEPT ![t].pc = "load", ![t].item = old, ![t].out = "unchanged"]
      \/ \E out \in {"error", "conflict"} :
           Verdict(old, req.content, req.policy) = out /\ StepOut(t, "body", "leave", out)
  BY UpsertMoves DEF Ground
<1> HIDE DEF old, req
<1>9. QED
  BY <1>5, <1>6, <1>7, <1>8

(* The bundle is written: the instant at which an upsert takes effect.     *)
LEMMA WriteSimulates ==
  ASSUME Ground, NEW t \in Threads, WriteBundle(t)
  PROVE  Simulates(t)
<1> DEFINE old == files[Target(t)]
           req == call[t].req
           written == [files EXCEPT ![Target(t)] = req.content]
<1>1. /\ call \in [Threads -> Calls] /\ call[t] \in Calls
      /\ CallShape(call[t]) /\ SettledCall(call[t])
      /\ call[t].pc = "write" /\ call[t].out = "none" /\ Op(t) = "upsert"
  BY GroundFacts DEF WriteBundle, At, SettledCall, Unsettled, CallShape, Op
<1>2. /\ Asking(call[t]) /\ Target(t) \in Key
      /\ Asks[t] # NONE /\ Asks[t].op = "upsert" /\ Asks[t].ver # NONE /\ Answers[t] = "none"
      /\ Asks[t].content = req.content /\ Asks[t].policy = req.policy
      /\ Abstract!AskKey(t) = Target(t) /\ req \in AllRequests
  BY <1>1, BodyView DEF Inner, BundleOps
<1>3. req.content \in Contents /\ req.policy \in Policies
  BY <1>1, <1>2 DEF AllRequests, Op
<1>4. old \in Contents \cup {NONE, CORRUPT}
  BY <1>2, GroundFacts DEF Files
<1>5. Verdict(old, req.content, req.policy) = "write"
  BY <1>1 DEF Ground, WriteDue
<1>6. old # CORRUPT /\ (old # NONE => old # req.content /\ req.policy = "OVERWRITE")
  BY <1>3, <1>4, <1>5, VerdictShape DEF Policies
<1>7. CASE /\ files' = written
           /\ call' = [call EXCEPT ![t].pc = "load", ![t].out = "changed",
                                   ![t].item = req.content]
  <2>1. SameAsk(t) /\ call'[t].pc = "load" /\ call'[t].out = "changed"
    BY <1>1, <1>7 DEF Calls, SameAsk
  <2>2. SettledCall(call'[t])
    BY <2>1 DEF SettledCall, Unsettled, HasOutcome
  <2>3. Asks' = Asks /\ Answers' = [Answers EXCEPT ![t] = "changed"]
    BY <1>2, <2>1, OnlyAnswers
  <2>4. old # req.content
    BY <1>3, <1>6, StoreAssumption
  <2>5. old = NONE \/ (old # req.content /\ req.policy = "OVERWRITE")
    BY <1>6
  <2>6. Abstract!Upsert(t)
    BY <1>2, <1>6, <1>7, <2>3, <2>4, <2>5 DEF Abstract!Upsert, Abstract!Waiting, Abstract!Settle
  <2>7. QED
    BY <2>2, <2>6 DEF Simulates, AbstractStep, Abstract!Next
<1>8. CASE StepOut(t, "write", "leave", "error") /\ files' \in {files, written}
  <2>1. SameAsk(t) /\ call'[t].pc = "leave" /\ call'[t].out = "error"
    BY ZenonT(40), <1>1, <1>8, StepOutFacts DEF CallPCs, Outcomes, Keeps, SameAsk
  <2>2. SettledCall(call'[t])
    BY <2>1 DEF SettledCall, Unsettled, HasOutcome
  <2>3. Asks' = Asks /\ Answers' = [Answers EXCEPT ![t] = "error"]
    BY <1>2, <2>1, OnlyAnswers
  <2>4. CASE files' = files
    BY <2>1, <2>2, <2>4, Refuses DEF Simulates
  <2>5. CASE files' = written
    <3>1. Abstract!FailLate(t)
      BY <1>2, <1>6, <2>3, <2>5 DEF Abstract!FailLate, Abstract!Settle
    <3>2. QED
      BY <2>2, <3>1 DEF Simulates, AbstractStep, Abstract!Next
  <2>6. QED
    BY <1>8, <2>4, <2>5
<1>9. QED
  BY <1>7, <1>8 DEF WriteBundle

(* The bundle is removed: the instant at which a deletion takes effect.    *)
LEMMA RemoveSimulates ==
  ASSUME Ground, NEW t \in Threads, At(t, "body"), RemoveBundle(t)
  PROVE  Simulates(t)
<1> DEFINE removed == [files EXCEPT ![Target(t)] = NONE]
<1>1. /\ call \in [Threads -> Calls] /\ call[t] \in Calls
      /\ CallShape(call[t]) /\ SettledCall(call[t])
      /\ call[t].pc = "body" /\ call[t].out = "none" /\ Op(t) = "delete"
  BY GroundFacts DEF RemoveBundle, At, SettledCall, Unsettled
<1>2. /\ Asking(call[t]) /\ Target(t) \in Key
      /\ Asks[t] # NONE /\ Asks[t].op = "delete" /\ Asks[t].ver # NONE /\ Answers[t] = "none"
      /\ Abstract!AskKey(t) = Target(t)
  BY <1>1, BodyView DEF Inner, BundleOps
<1>3. CASE StepOut(t, "body", "leave", "error") /\ UNCHANGED files
  <2>1. SameAsk(t) /\ call'[t].pc = "leave" /\ call'[t].out = "error"
    BY <1>1, <1>3, StepOutFacts DEF CallPCs, Outcomes, Keeps, SameAsk
  <2>2. SettledCall(call'[t])
    BY <2>1 DEF SettledCall, Unsettled, HasOutcome
  <2>3. QED
    BY <1>3, <2>1, <2>2, Refuses DEF Simulates
<1>4. ASSUME NEW to \in {"load", "cleanup"}, NEW out \in {"absent", "deleted"},
             StepOut(t, "body", to, out), files' = removed,
             out = IF files[Target(t)] = NONE THEN "absent" ELSE "deleted"
      PROVE  Simulates(t)
  <2>1. SameAsk(t) /\ call'[t].pc = to /\ call'[t].out = out
    <3>1. to \in CallPCs /\ out \in Outcomes
      BY DEF CallPCs, Outcomes
    <3>2. QED
      BY <1>4, <3>1, SettlesAsk
  <2>2. SettledCall(call'[t])
    BY <2>1 DEF SettledCall, Unsettled, HasOutcome
  <2>3. Asks' = Asks /\ Answers' = [Answers EXCEPT ![t] = out]
    BY <1>2, <2>1, OnlyAnswers
  <2>4. Abstract!Delete(t)
    BY <1>2, <1>4, <2>3 DEF Abstract!Delete, Abstract!Waiting, Abstract!Settle
  <2>5. QED
    BY <2>2, <2>4 DEF Simulates, AbstractStep, Abstract!Next
<1>5. files[Target(t)] = NONE => files = removed
  BY GroundFacts DEF Files
<1>6. QED
  BY <1>3, <1>4, <1>5 DEF RemoveBundle

(* The rest of a body works on the index, and may fail.                    *)
LEMMA RebuildsKeepsAsk ==
  ASSUME Ground, NEW t \in Threads, NEW from, Rebuilds(t, from)
  PROVE  /\ SameAsk(t) /\ call[t].pc = from
         /\ call'[t].pc \in {"leave", "rebuild"}
         /\ call'[t].pc = "leave" => call'[t].out \in {"absent", "error"}
         /\ call'[t].pc = "rebuild" => call'[t].out = call[t].out
         /\ call'[t].out \in {call[t].out, "error"}
<1>1. call \in [Threads -> Calls] /\ call[t] \in Calls
  BY GroundFacts
<1>2. CASE CORRUPT \in {files[k] : k \in Key}
  <2>1. StepOut(t, from, "leave", IndexError(t))
    BY <1>2 DEF Rebuilds
  <2>2. /\ IndexError(t) \in {"absent", "error"} /\ IndexError(t) \in {call[t].out, "error"}
        /\ IndexError(t) \in Outcomes /\ "leave" \in CallPCs
    BY DEF IndexError, Outcomes, CallPCs
  <2>3. QED
    BY <2>1, <2>2, SettlesAsk
<1>3. CASE CORRUPT \notin {files[k] : k \in Key}
  <2>1. call[t].pc = from /\ call' = [call EXCEPT ![t].pc = "rebuild", ![t].rows = files]
    BY <1>3 DEF Rebuilds
  <2>2. QED
    BY <1>1, <2>1 DEF Calls, SameAsk
<1>4. QED
  BY <1>2, <1>3

LEMMA IndexWorkSimulates ==
  ASSUME Ground, NEW t \in Threads,
         \/ At(t, "body") /\ (RepairBody(t) \/ EnsureLayout(t))
         \/ Cleanup(t) \/ LoadIndex(t) \/ SaveRebuilt(t) \/ SaveIndex(t)
  PROVE  Simulates(t)
<1>1. /\ call \in [Threads -> Calls] /\ call[t] \in Calls
      /\ CallShape(call[t]) /\ SettledCall(call[t]) /\ UNCHANGED files
  BY GroundFacts DEF RepairBody, EnsureLayout, Cleanup, LoadIndex, SaveRebuilt, SaveIndex
<1>2. ASSUME SameAsk(t), call'[t].out \in {call[t].out, "error"} \/ ~Asking(call[t]),
             SettledCall(call'[t])
      PROVE  Simulates(t)
  BY <1>1, <1>2, Stutters, Refuses DEF Simulates
<1>3. "leave" \in CallPCs /\ "load" \in CallPCs /\ {"repaired", "opened", "error"} \subseteq Outcomes
  BY DEF CallPCs, Outcomes
<1>4. ASSUME NEW from, NEW out \in {"repaired", "opened", "error"}, StepOut(t, from, "leave", out)
      PROVE  SameAsk(t) /\ call[t].pc = from /\ call'[t].out = out /\ SettledCall(call'[t])
  <2>1. SameAsk(t) /\ call[t].pc = from /\ call'[t].pc = "leave" /\ call'[t].out = out
    BY <1>3, <1>4, SettlesAsk
  <2>2. QED
    BY <1>4, <2>1 DEF SettledCall, Unsettled, HasOutcome
<1>5. CASE At(t, "body") /\ RepairBody(t)
  <2>1. ~Asking(call[t]) /\ Op(t) = "list"
    BY <1>5 DEF RepairBody, Asking, Op
  <2>2. CASE StepOut(t, "body", "leave", "repaired")
    BY <1>2, <1>4, <2>1, <2>2
  <2>3. CASE Rebuilds(t, "body")
    <3>1. SettledCall(call'[t])
      BY <2>1, <2>3, RebuildsKeepsAsk DEF SettledCall, SameAsk, Unsettled, HasOutcome, Op
    <3>2. QED
      BY <1>2, <2>1, <2>3, <3>1, RebuildsKeepsAsk
  <2>4. QED
    BY <1>5, <2>2, <2>3 DEF RepairBody
<1>6. CASE At(t, "body") /\ EnsureLayout(t)
  <2>1. ~Asking(call[t])
    BY <1>6 DEF EnsureLayout, Asking, Op
  <2>2. \E out \in {"opened", "error"} : StepOut(t, "body", "leave", out)
    BY <1>6 DEF EnsureLayout
  <2>3. QED
    BY <1>2, <1>4, <2>1, <2>2
<1>7. CASE Cleanup(t)
  <2>1. CASE StepOut(t, "cleanup", "leave", "error")
    BY <1>2, <1>4, <2>1
  <2>2. CASE Step(t, "cleanup", "load")
    <3>1. SameAsk(t) /\ call[t].pc = "cleanup" /\ call'[t].pc = "load" /\ call'[t].out = call[t].out
      BY <1>1, <1>3, <2>2, StepFacts DEF Keeps, SameAsk
    <3>2. SettledCall(call'[t])
      BY <1>1, <3>1 DEF SettledCall, Unsettled, HasOutcome
    <3>3. QED
      BY <1>2, <3>1, <3>2
  <2>3. QED
    BY <1>7, <2>1, <2>2 DEF Cleanup
<1>8. CASE LoadIndex(t)
  <2>1. call[t].pc = "load" /\ call[t].out # "none"
    BY <1>1, <1>8 DEF LoadIndex, At, SettledCall, HasOutcome
  <2>2. CASE IndexValid
    <3>1. SameAsk(t) /\ call'[t].pc = "save" /\ call'[t].out = call[t].out
      BY <1>1, <1>8, <2>2 DEF LoadIndex, Calls, SameAsk
    <3>2. SettledCall(call'[t])
      BY <2>1, <3>1 DEF SettledCall, Unsettled, HasOutcome
    <3>3. QED
      BY <1>2, <3>1, <3>2
  <2>3. CASE ~IndexValid
    <3>1. Rebuilds(t, "load")
      BY <1>8, <2>3 DEF LoadIndex
    <3>2. SettledCall(call'[t])
      BY <2>1, <3>1, RebuildsKeepsAsk DEF SettledCall, Unsettled, HasOutcome
    <3>3. QED
      BY <1>2, <3>1, <3>2, RebuildsKeepsAsk
  <2>4. QED
    BY <2>2, <2>3
<1>9. CASE SaveRebuilt(t)
  <2>1. call[t].pc = "rebuild" /\ (Op(t) # "list" => call[t].out # "none")
    BY <1>1, <1>9 DEF SaveRebuilt, At, SettledCall, Op
  <2>2. /\ SameAsk(t)
        /\ \/ /\ call'[t].pc = IF Op(t) = "list" THEN "leave" ELSE "load"
              /\ call'[t].out = IF Op(t) = "list" THEN "repaired" ELSE call[t].out
           \/ call'[t].pc = "leave" /\ call'[t].out = IndexError(t)
    BY <1>1, <1>9 DEF SaveRebuilt, Calls, SameAsk
  <2>3. IndexError(t) \in {call[t].out, "error"} /\ IndexError(t) \in {"absent", "error"}
    BY DEF IndexError
  <2>4. SettledCall(call'[t])
    BY <2>1, <2>2, <2>3 DEF SettledCall, Unsettled, HasOutcome
  <2>5. Op(t) = "list" => ~Asking(call[t])
    BY DEF Op, Asking
  <2>6. QED
    BY <1>2, <2>2, <2>3, <2>4, <2>5
<1>10. CASE SaveIndex(t)
  <2>1. call[t].pc = "save" /\ call[t].out # "none"
    BY <1>1, <1>10 DEF SaveIndex, At, SettledCall, HasOutcome
  <2>2. SameAsk(t) /\ call'[t].pc = "leave" /\ call'[t].out \in {call[t].out, IndexError(t)}
    BY <1>1, <1>10 DEF SaveIndex, Calls, SameAsk
  <2>3. IndexError(t) \in {call[t].out, "error"} /\ IndexError(t) # "none"
    BY DEF IndexError
  <2>4. SettledCall(call'[t])
    BY <2>1, <2>2, <2>3 DEF SettledCall, Unsettled, HasOutcome
  <2>5. QED
    BY <1>2, <2>2, <2>3, <2>4
<1>11. QED
  BY <1>5, <1>6, <1>7, <1>8, <1>9, <1>10

-----------------------------------------------------------------------------
(* The whole system                                                        *)

(* A killed process takes its calls with it.                               *)
LEMMA CrashSimulates ==
  ASSUME Ground, NEW p \in Procs, Crash(p)
  PROVE  AbstractStep /\ Settled'
<1> DEFINE victims == {t \in Threads : ProcOf[t] = p}
<1>1. call' = [t \in Threads |-> IF t \in victims THEN Ready ELSE call[t]] /\ UNCHANGED files
  BY DEF Crash
<1>2. \A t \in Threads : call'[t] = IF t \in victims THEN Ready ELSE call[t]
  BY <1>1
<1> HIDE DEF victims
<1>3. /\ SettledCall(Ready) /\ AskOf(Ready) = NONE /\ AnswerOf(Ready) = "none"
  BY DEF SettledCall, Ready, Unsettled, HasOutcome, AskOf, AnswerOf, Asking
<1>4. Settled'
  BY <1>2, <1>3 DEF Settled, Ground
<1>5. \A t \in Threads : /\ Asks'[t] = AskOf(call'[t]) /\ Answers'[t] = AnswerOf(call'[t])
                         /\ Asks[t] = AskOf(call[t]) /\ Answers[t] = AnswerOf(call[t])
  BY DEF Asks, Answers, AskOf, AnswerOf, Asking
<1>6. /\ Asks' = [t \in Threads |-> Asks'[t]] /\ Answers' = [t \in Threads |-> Answers'[t]]
  BY DEF Asks, Answers
<1>7. \A t \in Threads : /\ Asks'[t] = IF t \in victims THEN NONE ELSE Asks[t]
                         /\ Answers'[t] = IF t \in victims THEN "none" ELSE Answers[t]
  BY <1>2, <1>3, <1>5
<1>8. victims \in SUBSET Threads
  BY DEF victims
<1>9. Abstract!Die
  BY <1>1, <1>6, <1>7, <1>8 DEF Abstract!Die
<1>10. QED
  BY <1>4, <1>9 DEF AbstractStep, Abstract!Next

(* One step of the store is one of the specification, or none.             *)
LEMMA StepSimulates ==
  ASSUME Ground, [Next]_vars
  PROVE  AbstractStep /\ Settled'
<1>1. ASSUME NEW t \in Threads, GoodStep(t), Simulates(t) PROVE AbstractStep /\ Settled'
  BY <1>1 DEF Simulates, GoodStep, Settled, Ground
<1>2. ASSUME UNCHANGED <<call, files>> PROVE AbstractStep /\ Settled'
  BY <1>2 DEF AbstractStep, Asks, Answers, AskOf, AnswerOf, Asking, Settled, Ground
<1>3. ASSUME NEW t \in Threads, NEW r \in Requests, Call(t, r) \/ Open(t, r)
      PROVE  AbstractStep /\ Settled'
  BY <1>1, <1>3, GoodStart, StartSimulates DEF Ground
<1>4. ASSUME NEW t \in Threads, Unlocked(t) PROVE AbstractStep /\ Settled'
  BY <1>1, <1>4, GoodUnlocked, UnlockedSimulates DEF Ground
<1>5. ASSUME NEW t \in Threads, Enter(t) \/ GiveUp(t) \/ Leave(t) \/ Exit(t)
      PROVE  AbstractStep /\ Settled'
  BY <1>1, <1>5, GoodLocked, LockedSimulates DEF Ground
<1>6. ASSUME NEW t \in Threads, Body(t) PROVE AbstractStep /\ Settled'
  <2>1. GoodStep(t)
    BY <1>6, GoodUpsert, GoodFileChange, GoodRepair, GoodIndex DEF Body, Ground
  <2>2. Simulates(t)
    BY <1>6, UpsertSimulates, WriteSimulates, RemoveSimulates, IndexWorkSimulates DEF Body
  <2>3. QED
    BY <1>1, <2>1, <2>2
<1>7. ASSUME Damage PROVE AbstractStep /\ Settled'
  <2>1. UNCHANGED call
    BY <1>7 DEF Damage
  <2>2. Settled' /\ Asks' = Asks /\ Answers' = Answers
    BY <2>1 DEF Asks, Answers, AskOf, AnswerOf, Asking, Settled, Ground
  <2>3. UNCHANGED files \/ Abstract!Damage
    BY <1>7, <2>2 DEF Damage, Abstract!Damage, Key, Abstract!Key
  <2>4. QED
    BY <2>2, <2>3 DEF AbstractStep, Abstract!Next
<1>8. ASSUME NEW t \in Threads, AwaitMutex(t) PROVE UNCHANGED <<call, files>>
  BY <1>8 DEF AwaitMutex, storeVars
<1>9. ASSUME NEW p \in Procs, Quit(p) PROVE UNCHANGED <<call, files>>
  BY <1>9 DEF Quit
<1>10. UNCHANGED vars => UNCHANGED <<call, files>>
  BY DEF vars, storeVars
<1>11. QED
  BY <1>2, <1>3, <1>4, <1>5, <1>6, <1>7, <1>8, <1>9, <1>10, CrashSimulates DEF Next

LEMMA RefinesInit == Init => Settled /\ WriteDue /\ Abstract!Init
<1>1. Init => Settled /\ WriteDue
  BY DEF Init, Settled, SettledCall, Unsettled, HasOutcome, Ready, WriteDue
<1>2. AskOf(Ready) = NONE /\ AnswerOf(Ready) = "none"
  BY DEF AskOf, AnswerOf, Asking, Ready
<1>3. ASSUME Init PROVE Abstract!Init
  <2>1. files = [k \in Abstract!Key |-> NONE]
    BY <1>3 DEF Init, Key, Abstract!Key
  <2>2. \A t \in Threads : call[t] = Ready
    BY <1>3 DEF Init
  <2>3. Asks = [t \in Threads |-> NONE] /\ Answers = [t \in Threads |-> "none"]
    BY <1>2, <2>2 DEF Asks, Answers
  <2>4. QED
    BY <2>1, <2>3 DEF Abstract!Init
<1>4. QED
  BY <1>1, <1>3

(***************************************************************************)
(* With file locks, the store implements CatalogSpec: to its callers each  *)
(* call on a bundle takes effect at one instant or not at all, answers     *)
(* what that instant calls for, and an error may hide an effect but never  *)
(* invents one, whatever crashes and failures part its file operations.    *)
(***************************************************************************)
THEOREM StoreImplementsCatalogSpec == FileLocking /\ SafeSpec => ImplementsCatalogSpec
<1> SUFFICES ASSUME FileLocking PROVE SafeSpec => ImplementsCatalogSpec
  OBVIOUS
<1>1. WriteDue /\ StoreInv /\ [Next]_vars => WriteDue'
  <2>1. ASSUME WriteDue, UNCHANGED vars PROVE WriteDue'
    BY <2>1 DEF vars, storeVars, WriteDue, Target
  <2>2. QED
    BY <2>1, WriteDueStep
<1>2. Settled /\ WriteDue /\ StoreInv /\ [Next]_vars => Settled'
  BY StepSimulates DEF Ground
<1>3. Settled /\ WriteDue /\ StoreInv /\ [Next]_vars => [Abstract!Next]_(Abstract!specVars)
  BY StepSimulates DEF Ground, AbstractStep, Abstract!specVars
<1>4. QED
  BY <1>1, <1>2, <1>3, RefinesInit, StoreInvariant, PTL
     DEF SafeSpec, ImplementsCatalogSpec, Abstract!Spec
=============================================================================
