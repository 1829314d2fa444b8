---------------------------- MODULE CatalogStore ----------------------------
(***************************************************************************)
(* The cookbook catalog on disk: one file per bundle and an index.json     *)
(* that summarises them, read and written by the goroutines of several     *)
(* processes.  Writers hold the lock of CatalogLock; readers hold none.    *)
(* A step is one file operation.  Bundles and the index are replaced by    *)
(* rename, so a reader sees the old file or the new one; a bundle and its  *)
(* index row are two files, so a crash or an I/O error can part them.      *)
(*                                                                         *)
(* A bundle is reduced to its content hash.  An index row is the content   *)
(* it was computed from.  Recipe search and entry lookup filter what list  *)
(* and get return, and are not told apart from them.                       *)
(***************************************************************************)
EXTENDS CatalogLock, Integers, FiniteSetsExt

CONSTANTS
    Cookbooks, Contents,
    Versions,    \* integers, ordered as compareVersion orders versions
    Requests,    \* the requests callers make, out of AllRequests
    MaxFaults,   \* bound on crashes, I/O errors and damaged files
    CORRUPT,     \* a bundle file that is not valid JSON
    ABSENT,      \* there is no index.json
    DAMAGED      \* index.json is empty or not valid JSON

Policies == {"FAIL", "OVERWRITE", "SKIP_IF_EXISTS"}

AllRequests ==
    [op : {"upsert"}, id : Cookbooks, ver : Versions, content : Contents,
     policy : Policies]
    \cup [op : {"delete", "get"}, id : Cookbooks, ver : Versions \cup {NONE},
          content : {NONE}, policy : {NONE}]
    \cup [op : {"list", "open"}, id : {NONE}, ver : {NONE}, content : {NONE},
          policy : {NONE}]

Key == Cookbooks \X Versions
Files == [Key -> Contents \cup {NONE, CORRUPT}]
Rows == [Key -> Contents \cup {NONE}]

ASSUME StoreAssumption ==
    /\ Versions \subseteq Int
    /\ \A S \in SUBSET Versions : S # {} => \E v \in S : \A w \in S : v >= w
    /\ Requests \subseteq AllRequests
    /\ MaxFaults \in Nat
    /\ {NONE, CORRUPT} \cap Contents = {} /\ NONE # CORRUPT
    /\ NONE \notin Versions /\ NONE \notin AllRequests
    /\ ABSENT # DAMAGED /\ {ABSENT, DAMAGED} \cap Rows = {}

VARIABLES
    files,    \* the bundle files
    index,    \* the rows of index.json, or why it cannot be read
    opened,   \* the processes whose NewStore has succeeded
    call,     \* per goroutine: the call it is making and where it stands
    stale,    \* ghost: why a row may differ from its file, if it may
    faults

storeVars == <<files, index, opened, call, stale, faults>>
vars == <<lockVars, storeVars>>

Outcomes == {"none", "changed", "unchanged", "conflict", "deleted", "absent",
             "found", "not_found", "listed", "repaired", "opened", "error"}

CallPCs == {"ready", "resolve", "read", "return", "list", "reload", "enter",
            "body", "write", "cleanup", "load", "rebuild", "save", "leave", "exit"}

(* req: the request; ver: its version once resolved; out: its outcome once *)
(* settled; item: the row to put in the index, NONE to drop it; rows: the  *)
(* index this call has built in memory, NONE when it has none.             *)
Calls ==
    [pc : CallPCs, req : AllRequests \cup {NONE}, ver : Versions \cup {NONE}, out : Outcomes,
     item : Contents \cup {NONE}, rows : Rows \cup {NONE}]

Ready == [pc |-> "ready", req |-> NONE, ver |-> NONE, out |-> "none",
          item |-> NONE, rows |-> NONE]

StoreTypeOK ==
    /\ LockTypeOK
    /\ files \in Files
    /\ index \in Rows \cup {ABSENT, DAMAGED}
    /\ opened \subseteq Procs
    /\ call \in [Threads -> Calls]
    /\ stale \in [Key -> {"no", "interrupted", "blanked"}]
    /\ faults \in 0 .. MaxFaults

Init ==
    /\ LockInit
    /\ files = [k \in Key |-> NONE]
    /\ index = ABSENT
    /\ opened = {}
    /\ call = [t \in Threads |-> Ready]
    /\ stale = [k \in Key |-> "no"]
    /\ faults = 0

-----------------------------------------------------------------------------
(* Helpers                                                                 *)

IndexValid == index \notin {ABSENT, DAMAGED}

At(t, where) == call[t].pc = where
Op(t) == call[t].req.op
Target(t) == <<call[t].req.id, call[t].ver>>

(* The goroutine moves on, with or without an outcome. *)
Step(t, from, to) ==
    /\ call[t].pc = from
    /\ call' = [call EXCEPT ![t].pc = to]

StepOut(t, from, to, out) ==
    /\ call[t].pc = from
    /\ call' = [call EXCEPT ![t].pc = to, ![t].out = out]

Fault == faults < MaxFaults /\ faults' = faults + 1

StoredVersions(id) == {v \in Versions : files[<<id, v>>] # NONE}

(* This call has changed its bundle file and not yet its index row. *)
Parted(t) ==
    /\ call[t].pc \in {"cleanup", "load", "rebuild", "save"}
    /\ call[t].out \in {"changed", "deleted"}

Interrupted(k) == stale' = [stale EXCEPT ![k] = "interrupted"]

(* deleteIndexItem's error is ignored when the file was already gone. *)
IndexError(t) == IF call[t].out = "absent" THEN "absent" ELSE "error"

-----------------------------------------------------------------------------
(* Calls that begin without the lock                                       *)

(* A goroutine of a process that has its store makes a request. *)
Call(t, r) ==
    /\ At(t, "ready")
    /\ r.op # "open" /\ ProcOf[t] \in opened
    /\ call' = [call EXCEPT ![t].req = r, ![t].ver = r.ver,
                            ![t].pc = CASE r.op = "upsert" -> "enter"
                                        [] r.op = "list" -> "list"
                                        [] OTHER -> "resolve"]
    /\ IF r.op = "upsert" THEN Request(t) ELSE UNCHANGED lockVars
    /\ UNCHANGED <<files, index, opened, stale, faults>>

(* NewStore, before the process serves anything. *)
Open(t, r) ==
    /\ r.op = "open" /\ ProcOf[t] \notin opened
    /\ \A u \in Threads : ProcOf[u] = ProcOf[t] => At(u, "ready")
    /\ call' = [call EXCEPT ![t].req = r, ![t].pc = "enter"]
    /\ Request(t)
    /\ UNCHANGED <<files, index, opened, stale, faults>>

(* resolveVersion, with no lock: the version asked for, or the latest one  *)
(* whose file is in the directory now.                                     *)
Resolve(t) ==
    LET stored == StoredVersions(call[t].req.id)
        latest == IF call[t].req.ver = NONE THEN Max(stored) ELSE call[t].req.ver
    IN
    /\ At(t, "resolve")
    /\ IF call[t].req.ver = NONE /\ stored = {}
       THEN /\ StepOut(t, "resolve", "return", "not_found")
            /\ UNCHANGED lockVars
       ELSE /\ call' = [call EXCEPT ![t].ver = latest,
                                    ![t].pc = IF Op(t) = "get" THEN "read" ELSE "enter"]
            /\ IF Op(t) = "get" THEN UNCHANGED lockVars ELSE Request(t)
    /\ UNCHANGED <<files, index, opened, stale, faults>>

(* GetBundle reads the resolved file. *)
Read(t) ==
    /\ StepOut(t, "read", "return",
               CASE files[Target(t)] = NONE -> "not_found"
                 [] files[Target(t)] = CORRUPT -> "error"
                 [] OTHER -> "found")
    /\ UNCHANGED <<lockVars, files, index, opened, stale, faults>>

(* loadIndex as list and search start it. *)
List(t) ==
    /\ At(t, "list")
    /\ IF IndexValid
       THEN StepOut(t, "list", "return", "listed") /\ UNCHANGED lockVars
       ELSE Step(t, "list", "enter") /\ Request(t)
    /\ UNCHANGED <<files, index, opened, stale, faults>>

(* loadIndex again, after the repair. *)
Reload(t) ==
    /\ StepOut(t, "reload", "return", IF IndexValid THEN "listed" ELSE "error")
    /\ UNCHANGED <<lockVars, files, index, opened, stale, faults>>

(* A call that holds no lock returns to its caller. *)
Return(t) ==
    /\ At(t, "return")
    /\ call' = [call EXCEPT ![t] = Ready]
    /\ UNCHANGED <<lockVars, files, index, opened, stale, faults>>

-----------------------------------------------------------------------------
(* withWriteLock around the operation's body                               *)

AwaitMutex(t) ==
    /\ At(t, "enter")
    /\ MutexLock(t)
    /\ UNCHANGED storeVars

Enter(t) ==
    /\ TryLock(t)
    /\ Step(t, "enter", "body")
    /\ UNCHANGED <<files, index, opened, stale, faults>>

GiveUp(t) ==
    /\ \/ TryTimesOut(t) /\ UNCHANGED faults
       \/ TryFails(t) /\ Fault
    /\ StepOut(t, "enter", "exit", "error")
    /\ UNCHANGED <<files, index, opened, stale>>

(* The body is done.  An error of Unlock replaces a good outcome. *)
Leave(t) ==
    /\ FileUnlock(t)
    /\ \/ /\ lres'[t] = "ok"
          /\ Step(t, "leave", "exit")
          /\ UNCHANGED faults
       \/ /\ lres'[t] = "failed"
          /\ StepOut(t, "leave", "exit", "error")
          /\ Fault
    /\ UNCHANGED <<files, index, opened, stale>>

(* The mutex is released and the call returns, except that loadIndex reads *)
(* the index once more.  A process that fails to open its store exits.     *)
Exit(t) ==
    /\ MutexUnlock(t)
    /\ IF call[t].out = "repaired"
       THEN Step(t, "exit", "reload")
       ELSE At(t, "exit") /\ call' = [call EXCEPT ![t] = Ready]
    /\ opened' = IF call[t].out = "opened" THEN opened \cup {ProcOf[t]} ELSE opened
    /\ UNCHANGED <<files, index, stale, faults>>

-----------------------------------------------------------------------------
(* Bodies, run under the lock                                              *)

(* Mutant: the default policy overwrites. *)
VerdictOverwrite(old, new, policy) ==
    CASE old = CORRUPT -> "error"
      [] old = NONE -> "write"
      [] old \in Contents -> IF old = new \/ policy = "SKIP_IF_EXISTS" THEN "unchanged" ELSE "write"

(* What UpsertBundle does about the bundle that is in place.               *)
Verdict(old, new, policy) ==
    CASE old = CORRUPT -> "error"
      [] old = NONE -> "write"
      [] old \in Contents ->
           IF old = new \/ policy = "SKIP_IF_EXISTS" THEN "unchanged"
           ELSE IF policy = "FAIL" THEN "conflict" ELSE "write"

(* Mutant: a bundle that is in place is taken to be in the index. *)
UpsertDecidesNoHeal(t) ==
    LET verdict == Verdict(files[Target(t)], call[t].req.content, call[t].req.policy) IN
    /\ Op(t) = "upsert"
    /\ IF verdict = "write" THEN Step(t, "body", "write")
                            ELSE StepOut(t, "body", "leave", verdict)
    /\ UNCHANGED <<lockVars, files, index, opened, stale, faults>>

(* UpsertBundle reads the bundle in place and applies the conflict policy. *)
(* When nothing is to be written the index row is refreshed all the same.  *)
UpsertDecides(t) ==
    LET old == files[Target(t)]
        verdict == Verdict(old, call[t].req.content, call[t].req.policy)
    IN
    /\ Op(t) = "upsert"
    /\ CASE verdict = "write" -> Step(t, "body", "write")
         [] verdict = "unchanged" ->
              /\ At(t, "body")
              /\ call' = [call EXCEPT ![t].pc = "load", ![t].item = old,
                                      ![t].out = "unchanged"]
         [] OTHER -> StepOut(t, "body", "leave", verdict)
    /\ UNCHANGED <<lockVars, files, index, opened, stale, faults>>

(* writeBytesAtomic of the bundle: done, or failed before the rename, or   *)
(* failed in the directory sync that follows it.                           *)
WriteBundle(t) ==
    /\ At(t, "write")
    /\ \/ /\ files' = [files EXCEPT ![Target(t)] = call[t].req.content]
          /\ call' = [call EXCEPT ![t].pc = "load", ![t].out = "changed",
                                  ![t].item = call[t].req.content]
          /\ UNCHANGED <<stale, faults>>
       \/ /\ StepOut(t, "write", "leave", "error") /\ Fault
          /\ UNCHANGED <<files, stale>>
       \/ /\ StepOut(t, "write", "leave", "error") /\ Fault
          /\ files' = [files EXCEPT ![Target(t)] = call[t].req.content]
          /\ Interrupted(Target(t))
    /\ UNCHANGED <<lockVars, index, opened>>

(* Mutant: a file that is not there counts as deleted. *)
RemoveBundleBlind(t) ==
    /\ Op(t) = "delete"
    /\ \/ /\ StepOut(t, "body", "cleanup", "deleted")
          /\ files' = [files EXCEPT ![Target(t)] = NONE]
          /\ UNCHANGED faults
       \/ /\ files[Target(t)] # NONE
          /\ StepOut(t, "body", "leave", "error") /\ Fault
          /\ UNCHANGED files
    /\ UNCHANGED <<lockVars, index, opened, stale>>

(* DeleteBundle removes the file, if it is there. *)
RemoveBundle(t) ==
    /\ Op(t) = "delete"
    /\ \/ /\ files[Target(t)] = NONE
          /\ StepOut(t, "body", "load", "absent")
          /\ UNCHANGED <<files, faults>>
       \/ /\ files[Target(t)] # NONE
          /\ StepOut(t, "body", "cleanup", "deleted")
          /\ files' = [files EXCEPT ![Target(t)] = NONE]
          /\ UNCHANGED faults
       \/ /\ files[Target(t)] # NONE
          /\ StepOut(t, "body", "leave", "error") /\ Fault
          /\ UNCHANGED files
    /\ UNCHANGED <<lockVars, index, opened, stale>>

(* cleanupCookbookDir: its failure returns before the row is dropped. *)
Cleanup(t) ==
    /\ \/ Step(t, "cleanup", "load") /\ UNCHANGED <<stale, faults>>
       \/ /\ StepOut(t, "cleanup", "leave", "error") /\ Fault
          /\ Interrupted(Target(t))
    /\ UNCHANGED <<lockVars, files, index, opened>>

(* rebuildIndexLocked reads every bundle; one that is corrupt ends it.     *)
Rebuilds(t, from) ==
    IF CORRUPT \in {files[k] : k \in Key}
    THEN StepOut(t, from, "leave", IndexError(t))
    ELSE /\ call[t].pc = from
         /\ call' = [call EXCEPT ![t].pc = "rebuild", ![t].rows = files]

(* loadIndex's body: the repair is off if another call has done it. *)
RepairBody(t) ==
    /\ Op(t) = "list"
    /\ IF IndexValid THEN StepOut(t, "body", "leave", "repaired")
                     ELSE Rebuilds(t, "body")
    /\ UNCHANGED <<lockVars, files, index, opened, stale, faults>>

(* ensureLayout: a missing index is created, with no rows in it. *)
EnsureLayout(t) ==
    /\ Op(t) = "open"
    /\ \/ /\ index # ABSENT
          /\ StepOut(t, "body", "leave", "opened")
          /\ UNCHANGED <<index, stale, faults>>
       \/ /\ index = ABSENT
          /\ StepOut(t, "body", "leave", "opened")
          /\ index' = [k \in Key |-> NONE]
          /\ stale' = [k \in Key |-> IF files[k] = NONE THEN "no" ELSE "blanked"]
          /\ UNCHANGED faults
       \/ /\ index = ABSENT
          /\ StepOut(t, "body", "leave", "error") /\ Fault
          /\ \/ UNCHANGED <<index, stale>>
             \/ /\ index' = [k \in Key |-> NONE]
                /\ stale' = [k \in Key |-> IF files[k] = NONE THEN "no" ELSE "blanked"]
    /\ UNCHANGED <<lockVars, files, opened>>

(* upsertIndexItem and deleteIndexItem load the index into memory and      *)
(* change one row, after a rebuild when it cannot be read.                 *)
LoadIndex(t) ==
    /\ At(t, "load")
    /\ IF IndexValid
       THEN call' = [call EXCEPT ![t].pc = "save",
                                 ![t].rows = [index EXCEPT ![Target(t)] = call[t].item]]
       ELSE Rebuilds(t, "load")
    /\ UNCHANGED <<lockVars, files, index, opened, stale, faults>>

(* saveIndex of a rebuilt index, that a failure leaves unwritten, or       *)
(* written and not synced.                                                 *)
SaveRebuilt(t) ==
    /\ At(t, "rebuild")
    /\ \/ /\ call' = [call EXCEPT ![t].rows = NONE,
                                  ![t].pc = IF Op(t) = "list" THEN "leave" ELSE "load",
                                  ![t].out = IF Op(t) = "list" THEN "repaired" ELSE @]
          /\ index' = call[t].rows /\ stale' = [k \in Key |-> "no"]
          /\ UNCHANGED faults
       \/ /\ call' = [call EXCEPT ![t].rows = NONE, ![t].pc = "leave",
                                  ![t].out = IndexError(t)]
          /\ \/ UNCHANGED <<index, stale>>
             \/ index' = call[t].rows /\ stale' = [k \in Key |-> "no"]
          /\ Fault
    /\ UNCHANGED <<lockVars, files, opened>>

(* saveIndex of the index with the one row changed. *)
SaveIndex(t) ==
    /\ At(t, "save")
    /\ \/ /\ call' = [call EXCEPT ![t].rows = NONE, ![t].pc = "leave"]
          /\ index' = call[t].rows
          /\ stale' = [stale EXCEPT ![Target(t)] = "no"]
          /\ UNCHANGED faults
       \/ /\ call' = [call EXCEPT ![t].rows = NONE, ![t].pc = "leave",
                                  ![t].out = IndexError(t)]
          /\ \/ index' = call[t].rows /\ stale' = [stale EXCEPT ![Target(t)] = "no"]
             \/ /\ UNCHANGED index
                /\ IF Parted(t) THEN Interrupted(Target(t)) ELSE UNCHANGED stale
          /\ Fault
    /\ UNCHANGED <<lockVars, files, opened>>

-----------------------------------------------------------------------------
(* Processes and the world around them                                     *)

(* A process ends when none of its goroutines is in a call. *)
Quit(p) ==
    /\ p \in opened
    /\ \A t \in Threads : ProcOf[t] = p => At(t, "ready")
    /\ opened' = opened \ {p}
    /\ UNCHANGED <<lockVars, files, index, call, stale, faults>>

(* A process is killed in the middle of its calls. *)
Crash(p) ==
    LET victims == {t \in Threads : ProcOf[t] = p} IN
    /\ \E t \in victims : ~At(t, "ready")
    /\ Kill(p) /\ Fault
    /\ opened' = opened \ {p}
    /\ call' = [t \in Threads |-> IF t \in victims THEN Ready ELSE call[t]]
    /\ stale' = [k \in Key |-> IF \E t \in victims : Parted(t) /\ Target(t) = k
                               THEN "interrupted" ELSE stale[k]]
    /\ UNCHANGED <<files, index>>

(* A file is lost or ruined by something else, while no writer is inside.  *)
Damage ==
    /\ \A t \in Threads : lpc[t] # "held"
    /\ \/ /\ \E how \in {ABSENT, DAMAGED} : index' = how
          /\ UNCHANGED files
       \/ /\ \E k \in Key : files[k] # NONE /\ files' = [files EXCEPT ![k] = CORRUPT]
          /\ UNCHANGED index
    /\ Fault
    /\ UNCHANGED <<lockVars, opened, call, stale>>

Unlocked(t) == Resolve(t) \/ Read(t) \/ List(t) \/ Reload(t) \/ Return(t)

Body(t) ==
    \/ At(t, "body") /\ (UpsertDecides(t) \/ RemoveBundle(t) \/ RepairBody(t) \/ EnsureLayout(t))
    \/ WriteBundle(t) \/ Cleanup(t) \/ LoadIndex(t) \/ SaveRebuilt(t) \/ SaveIndex(t)

Next ==
    \/ \E t \in Threads :
          \/ \E r \in Requests : Call(t, r) \/ Open(t, r)
          \/ Unlocked(t)
          \/ AwaitMutex(t) \/ Enter(t) \/ GiveUp(t) \/ Leave(t) \/ Exit(t)
          \/ Body(t)
    \/ \E p \in Procs : Quit(p) \/ Crash(p)
    \/ Damage

(* sync.Mutex hands itself to a goroutine that has waited for 1 ms, so no  *)
(* waiter starves (strong fairness).  The poll loop sleeps 25 ms at most   *)
(* and ends at the deadline, and what runs under the lock is bounded file  *)
(* work (weak fairness).  Nothing makes a file lock fair between           *)
(* processes, hence the disjunction with GiveUp.  Nobody has to make a     *)
(* request, and faults never have to happen.                               *)
Fairness ==
    \A t \in Threads :
        /\ SF_vars(AwaitMutex(t))
        /\ WF_vars(Enter(t) \/ GiveUp(t))
        /\ WF_vars(Unlocked(t) \/ Leave(t) \/ Exit(t) \/ Body(t))

SafeSpec == Init /\ [][Next]_vars

Spec == SafeSpec /\ Fairness

-----------------------------------------------------------------------------
(* Properties                                                              *)

(* While no writer is inside, an index that can be read has, for every     *)
(* bundle, the row of the file that is there and no row for one that is    *)
(* not, unless a fault cut a writer short on that very bundle or NewStore  *)
(* blanked the index: no interleaving of calls of any processes parts an   *)
(* index row from its bundle.                                              *)
IndexCoherent ==
    flock = NONE /\ IndexValid =>
        \A k \in Key : files[k] = CORRUPT \/ stale[k] # "no" \/ index[k] = files[k]

(* A writer that is about to report success has left its bundle and its    *)
(* row as it reports them, whatever was interrupted on that bundle before: *)
(* repeating a failed call heals the index.                                *)
SuccessIsIndexed ==
    \A t \in Threads :
        At(t, "leave") /\ call[t].out \in {"changed", "unchanged", "deleted"} =>
            /\ IndexValid /\ index[Target(t)] = files[Target(t)]
            /\ call[t].out = "changed" => files[Target(t)] = call[t].req.content
            /\ call[t].out = "unchanged" => files[Target(t)] \in Contents
            /\ call[t].out = "deleted" => files[Target(t)] = NONE

(* A stored bundle is replaced only by an OVERWRITE of that bundle and     *)
(* removed only by its deletion: a FAIL or SKIP_IF_EXISTS upsert never     *)
(* loses what another process stored after it looked.                      *)
NoSilentOverwrite ==
    [][\A k \in Key :
          files[k] \in Contents /\ files'[k] \in Contents \cup {NONE} /\ files'[k] # files[k]
              => \E t \in Threads :
                    /\ Inside(t) /\ Target(t) = k
                    /\ Op(t) = "delete" \/ call[t].req.policy = "OVERWRITE"]_vars

(* Every call returns, or its process dies: lock waits end, and loadIndex  *)
(* repairs at most once.                                                   *)
EveryCallEnds ==
    \A t \in Threads : ~At(t, "ready") ~> At(t, "ready")

(* The catalog as its callers see it: the request of a call, once its      *)
(* version is resolved, and the outcome it has settled on.                 *)
Asking(c) == c.req # NONE /\ c.req.op \in {"upsert", "delete", "get"}
AskOf(c) == IF Asking(c) THEN [c.req EXCEPT !.ver = c.ver] ELSE NONE
AnswerOf(c) == IF Asking(c) THEN c.out ELSE "none"

Asks == [t \in Threads |-> AskOf(call[t])]
Answers == [t \in Threads |-> AnswerOf(call[t])]

Abstract == INSTANCE CatalogSpec WITH bundles <- files, ask <- Asks, answer <- Answers

(* The store does what CatalogSpec promises of the bundles.                *)
ImplementsCatalogSpec == Abstract!Spec
=============================================================================
