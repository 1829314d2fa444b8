--------------------------- MODULE PlanPreflight ---------------------------
(***************************************************************************)
(* How the tools give generic.http requests an unbounded profile before    *)
(* they submit them (internal/orchestration/plan_preflight.go and          *)
(* unbounded_profiles.go, called by tools_plans.go, tools_connectors.go    *)
(* and tools_orchestration.go).  A call goes through the steps of its plan *)
(* and, for each that needs secrets, lists the profiles of the vault,      *)
(* reads them one by one, takes the best that fits or creates one.  The    *)
(* vault is shared by calls and by clients that write profiles of their    *)
(* own; every request to it is a step of its own here, and may fail.       *)
(***************************************************************************)
EXTENDS ProfileMatching

CONSTANTS
    Callers,        \* tool calls; each is made once
    Requests,       \* what each call may bring: sets of [tool, plan, wanted, orchestrate]
    InitialVaults,  \* the profiles the vault may hold first: functions of ids
    Writes,         \* [id, slots] that some other client may upsert
    MaxWrites,      \* how many such writes
    MaxFaults       \* how many requests to the vault go wrong

VARIABLES
    profiles,    \* vault: id -> slots
    keys,        \* vault: the idempotency keys it has accepted (as ids)
    call,        \* the calls
    writes,      \* writes of other clients so far
    faults,      \* requests that went wrong so far
    edited       \* ids another client has written

vars == << profiles, keys, call, writes, faults, edited >>

Tools == {"plan", "preview", "job", "resolve"}
NoId == 0       \* the empty profile_id

(***************************************************************************)
(* A step of a plan: http tells generic.http.request.v1 from the others,   *)
(* bindings is what each request_binding turns out to be ("bound" by a     *)
(* literal or by plan_input, "late" when only the run will know it,        *)
(* "broken"), named is the profile_id of the resolved request, attached    *)
(* its secret_attachments and malformed whether one of those is no object. *)
(* A job is a plan of one step without bindings, so is the argument of     *)
(* vaultclaw_unbounded_profile_resolve, of which only attached counts.     *)
(***************************************************************************)
Step == [http : BOOLEAN, bindings : Seq({"bound", "late", "broken"}), named : Nat,
         attached : Seq(Requirement), malformed : BOOLEAN]

Request == [tool : Tools, plan : Seq(Step), wanted : BOOLEAN, orchestrate : BOOLEAN]

\* The lists of requirements that calls may look for a profile for.
Lists == {NormalizeRequirements(step.attached) :
             step \in UNION {Range(q.plan) : q \in UNION {Requests[c] : c \in Callers}}} \ {<< >>}

\* Jobs and resolutions are of one step without bindings, and only a plan or a
\* job can do without orchestration.  No two lists have one hash.
PreflightAssumption ==
    /\ \A c \in Callers : \A q \in Requests[c] :
        /\ q \in Request
        /\ q.tool \in {"job", "resolve"} => Len(q.plan) = 1 /\ q.plan[1].bindings = << >>
        /\ q.tool = "resolve" => q.plan[1].attached # << >> /\ ~q.plan[1].malformed
        /\ ~q.orchestrate => q.tool \in {"plan", "job"}
    /\ \A a, b \in Lists : AutoId(a) \in Nat \ {NoId} /\ (AutoId(a) = AutoId(b) => a = b)
    /\ \A vault \in InitialVaults : DOMAIN vault \subseteq Nat \ {NoId}
    /\ \A w \in Writes : w.id \in Nat \ {NoId}
    /\ MaxWrites \in Nat /\ MaxFaults \in Nat
ASSUME PreflightAssumption

Underivable(step) ==
    step.malformed \/ \E r \in Range(step.attached) : ~Complete(r)

(* Mutant: an empty list of requirements is taken to the vault too. *)
StepOutcomeNoPlain(step) ==
    IF "broken" \in Range(step.bindings) \/ Underivable(step) THEN "FAILED"
    ELSE IF "late" \in Range(step.bindings) THEN "UNRESOLVED"
    ELSE IF step.named # NoId THEN "NAMED" ELSE "NEEDS"

StepOutcome(step) ==
    IF "broken" \in Range(step.bindings) THEN "FAILED"
    ELSE IF "late" \in Range(step.bindings) THEN "UNRESOLVED"
    ELSE IF step.named # NoId THEN "NAMED"
    ELSE IF Underivable(step) THEN "FAILED"
    ELSE IF step.attached = << >> THEN "PLAIN"
    ELSE "NEEDS"

Idle == [pc |-> "idle", tool |-> "plan", auto |-> FALSE, orchestrate |-> TRUE,
         plan |-> << >>, at |-> 1, reqs |-> << >>, rows |-> {}, read |-> {},
         out |-> << >>, result |-> "none",
         unseen |-> {},    \* profiles this step's reading missed
         changed |-> {},   \* profiles written since this step's list
         moved |-> {}]     \* profiles written since the call began

Init ==
    /\ profiles \in InitialVaults
    /\ keys = {} /\ edited = {}
    /\ call = [c \in Callers |-> Idle]
    /\ writes = 0 /\ faults = 0

Here(c) == call[c].plan[call[c].at]
Strict(c) == call[c].tool # "preview"
Goes(c, new) == call' = [call EXCEPT ![c] = new]
Fault == faults < MaxFaults /\ faults' = faults + 1

VaultSame == UNCHANGED << profiles, keys, writes, edited >>
Local == VaultSame /\ UNCHANGED faults

Advanced(c, status, id) ==
    [call[c] EXCEPT !.pc = "step", !.at = @ + 1, !.read = {},
                    !.out = Append(@, [step |-> call[c].at, status |-> status, id |-> id])]

Ended(rec, result) ==
    [rec EXCEPT !.pc = "done", !.result = result, !.reqs = << >>, !.rows = {}, !.read = {},
                !.unseen = {}, !.changed = {}, !.moved = {}]

\* A step that cannot be resolved ends a strict call; a preview notes it.
GivenUp(c, status) ==
    IF Strict(c) THEN Ended(call[c], "error")
    ELSE Advanced(c, status, NoId)

(***************************************************************************)
(* A call arrives.  The preview never creates; a plan or a job may ask for *)
(* no orchestration at all; the resolve tool brings requirements, drops    *)
(* the incomplete ones and refuses an empty rest.                          *)
(***************************************************************************)
(* Mutant: the preview takes the caller's option. *)
MayCreateIfWanted(tool, wanted) == wanted
MayCreate(tool, wanted) == wanted /\ tool # "preview"

Begin(c) ==
    \E q \in Requests[c] :
        LET resolving == q.tool = "resolve"
            reqs == IF resolving THEN NormalizeRequirements(q.plan[1].attached) ELSE << >>
            new == [call[c] EXCEPT !.tool = q.tool, !.plan = q.plan, !.reqs = reqs,
                                   !.auto = MayCreate(q.tool, q.wanted),
                                   !.orchestrate = q.orchestrate]
        IN  /\ call[c].pc = "idle"
            /\ \/ ~q.orchestrate /\ Goes(c, [new EXCEPT !.pc = "submit"])
               \/ q.orchestrate /\ ~resolving /\ Goes(c, [new EXCEPT !.pc = "step"])
               \/ resolving /\ reqs # << >> /\ Goes(c, [new EXCEPT !.pc = "list"])
               \/ /\ resolving /\ reqs = << >>
                  /\ Goes(c, Ended(new, "error"))
            /\ Local

(***************************************************************************)
(* The loop of PreflightPlan, up to the point where it needs the vault.    *)
(***************************************************************************)
AtStep(c) == call[c].pc = "step" /\ call[c].at <= Len(call[c].plan)

PassStep(c) ==
    /\ AtStep(c) /\ ~Here(c).http
    /\ Goes(c, [call[c] EXCEPT !.at = @ + 1])
    /\ Local

KeepStep(c) ==
    /\ AtStep(c) /\ Here(c).http /\ StepOutcome(Here(c)) \in {"NAMED", "PLAIN"}
    /\ Goes(c, Advanced(c, "RESOLVED", Here(c).named))
    /\ Local

GiveUpStep(c) ==
    /\ AtStep(c) /\ Here(c).http /\ StepOutcome(Here(c)) \in {"FAILED", "UNRESOLVED"}
    /\ Goes(c, GivenUp(c, StepOutcome(Here(c))))
    /\ Local

NeedProfile(c) ==
    /\ AtStep(c) /\ Here(c).http /\ StepOutcome(Here(c)) = "NEEDS"
    /\ Goes(c, [call[c] EXCEPT !.pc = "list", !.reqs = NormalizeRequirements(Here(c).attached)])
    /\ Local

Finish(c) ==
    /\ call[c].pc = "step" /\ call[c].at > Len(call[c].plan)
    /\ IF call[c].tool \in {"plan", "job"} THEN Goes(c, [call[c] EXCEPT !.pc = "submit"])
       ELSE Goes(c, Ended(call[c], "ok"))
    /\ Local

\* The module hash, the validation and the submission that follow; one may fail.
Submit(c) ==
    /\ call[c].pc = "submit"
    /\ \E result \in {"ok", "error"} : Goes(c, Ended(call[c], result))
    /\ Local

(***************************************************************************)
(* ResolveUnboundedProfile.  A list that fails ends it; a list whose reply *)
(* breaks off is an empty list; a profile that cannot be read is skipped.  *)
(***************************************************************************)
ListProfiles(c) ==
    LET new == [call[c] EXCEPT !.pc = "fetch", !.read = {}, !.changed = {}]
    IN  /\ call[c].pc = "list"
        /\ \/ /\ Goes(c, [new EXCEPT !.rows = DOMAIN profiles, !.unseen = {}])
              /\ UNCHANGED faults
           \/ Fault /\ Goes(c, [new EXCEPT !.rows = {}, !.unseen = DOMAIN profiles])
           \/ Fault /\ Goes(c, GivenUp(c, "FAILED"))
        /\ VaultSame

FetchProfile(c) ==
    /\ call[c].pc = "fetch"
    /\ \E id \in call[c].rows :
          LET new == [call[c] EXCEPT !.rows = @ \ {id}]
          IN  \/ /\ Goes(c, [new EXCEPT !.read = @ \cup {[id |-> id, slots |-> profiles[id]]}])
                 /\ UNCHANGED faults
              \/ Fault /\ Goes(c, [new EXCEPT !.unseen = @ \cup {id}])
    /\ VaultSame

Decide(c) ==
    LET matching == Matching(call[c].read, call[c].reqs)
    IN  /\ call[c].pc = "fetch" /\ call[c].rows = {}
        /\ \/ /\ matching # {}
              /\ Goes(c, Advanced(c, "RESOLVED", Best(call[c].read, call[c].reqs).id))
           \/ matching = {} /\ ~call[c].auto /\ Goes(c, GivenUp(c, "FAILED"))
           \/ matching = {} /\ call[c].auto /\ Goes(c, [call[c] EXCEPT !.pc = "upsert"])
        /\ Local

(***************************************************************************)
(* A write in the vault, and the calls that it concerns.                   *)
(***************************************************************************)
Store(id, slots) ==
    profiles' = [i \in DOMAIN profiles \cup {id} |-> IF i = id THEN slots ELSE profiles[i]]
Noticing(calls, id) ==
    [c \in Callers |->
        IF calls[c].pc \in {"idle", "done"} THEN calls[c]
        ELSE [calls[c] EXCEPT !.changed = @ \cup {id}, !.moved = @ \cup {id}]]

(***************************************************************************)
(* The upsert under a key made of the requirements.  A key the vault has   *)
(* seen may be answered without being applied again.  It may be refused    *)
(* (no scope), and its reply may be lost after it was applied.             *)
(***************************************************************************)
UpsertProfile(c) ==
    LET id == AutoId(call[c].reqs)
        minimal == BuildMinimalProfile(call[c].reqs)
        apply(new) == /\ Store(id, minimal)
                      /\ keys' = keys \cup {id}
                      /\ call' = Noticing([call EXCEPT ![c] = new], id)
    IN  /\ call[c].pc = "upsert"
        /\ \/ apply([call[c] EXCEPT !.pc = "fetchback"]) /\ UNCHANGED faults
           \/ /\ id \in keys
              /\ Goes(c, [call[c] EXCEPT !.pc = "fetchback"])
              /\ UNCHANGED << profiles, keys, faults >>
           \/ Fault /\ apply(GivenUp(c, "FAILED"))
           \/ Fault /\ Goes(c, GivenUp(c, "FAILED")) /\ UNCHANGED << profiles, keys >>
        /\ UNCHANGED << writes, edited >>

\* A read that fails leaves the profile as it was built; a reply that breaks
\* off decodes to the empty profile, whose id is empty.
FetchBack(c) ==
    /\ call[c].pc = "fetchback"
    /\ \/ Goes(c, Advanced(c, "CREATED", AutoId(call[c].reqs))) /\ UNCHANGED faults
       \/ Fault /\ Goes(c, Advanced(c, "CREATED", AutoId(call[c].reqs)))
       \/ Fault /\ Goes(c, Advanced(c, "CREATED", NoId))
    /\ VaultSame

\* Another client writes a profile (vaultclaw_unbounded_profiles_upsert or the vault's own UI).
OtherUpsert ==
    /\ writes < MaxWrites /\ writes' = writes + 1
    /\ \E w \in Writes :
          /\ Store(w.id, w.slots)
          /\ edited' = edited \cup {w.id}
          /\ call' = Noticing(call, w.id)
    /\ UNCHANGED << keys, faults >>

\* Every call has been made and answered.
AllDone == (\A c \in Callers : call[c].pc = "done") /\ UNCHANGED vars

CallerStep(c) ==
    \/ PassStep(c) \/ KeepStep(c) \/ GiveUpStep(c) \/ NeedProfile(c)
    \/ ListProfiles(c) \/ FetchProfile(c) \/ Decide(c) \/ UpsertProfile(c)
    \/ FetchBack(c) \/ Finish(c) \/ Submit(c)

Next == (\E c \in Callers : Begin(c) \/ CallerStep(c)) \/ OtherUpsert \/ AllDone

Spec == Init /\ [][Next]_vars

-----------------------------------------------------------------------------
(***************************************************************************)
(* Properties.                                                             *)
(***************************************************************************)
Resolution == [step : Nat, status : {"RESOLVED", "CREATED", "FAILED", "UNRESOLVED"}, id : Nat]

\* The state has its type, and a call reads profiles only while it resolves a step.
PreflightTypeOK ==
    /\ NoId \notin DOMAIN profiles
    /\ keys \cup edited \subseteq DOMAIN profiles
    /\ writes \in 0..MaxWrites /\ faults \in 0..MaxFaults
    /\ \A c \in Callers :
          /\ call[c].pc \in {"idle", "step", "list", "fetch", "upsert", "fetchback", "submit", "done"}
          /\ call[c].tool \in Tools /\ call[c].result \in {"none", "ok", "error"}
          /\ Range(call[c].out) \subseteq Resolution
          /\ call[c].pc \in {"list", "fetch", "upsert", "fetchback"} => call[c].reqs # << >>
          /\ call[c].rows \subseteq DOMAIN profiles

Covers(id, reqs) == id \in DOMAIN profiles /\ Missing(profiles[id], reqs) = {}
Needed(c, i) == NormalizeRequirements(call[c].plan[i].attached)

(***************************************************************************)
(* A plan or a job that reaches the submission, and a resolution that is   *)
(* answered, has for each generic.http step a profile that covers every    *)
(* requirement of that step, over all its steps, readings and lost         *)
(* replies.  The exceptions have a cause outside the call: the profile was *)
(* written since the call began or, when the call created it, some other   *)
(* client wrote it (a repeated idempotency key is not applied again); or   *)
(* the reply that should have returned it broke off.                       *)
(***************************************************************************)
StillCovers(c, r) ==
    \/ Covers(r.id, Needed(c, r.step))
    \/ r.status = "RESOLVED" /\ r.id \in call[c].moved
    \/ r.status = "CREATED" /\ (r.id \in edited \/ r.id = NoId)

StepsAreCovered ==
    \A c \in Callers :
        /\ Strict(c) /\ call[c].orchestrate /\ call[c].pc \in {"step", "submit"}
        /\ call[c].at > Len(call[c].plan)
        => \A i \in DOMAIN call[c].plan :
              call[c].plan[i].http =>
                \E r \in Range(call[c].out) :
                    /\ r.step = i /\ r.status \in {"RESOLVED", "CREATED"}
                    /\ \/ call[c].tool # "resolve" /\ StepOutcome(call[c].plan[i]) \in {"NAMED", "PLAIN"}
                       \/ StillCovers(c, r)

(***************************************************************************)
(* A call creates a profile only when the vault holds none that covers the *)
(* step, and resolves to a profile only when none ranks higher, except for *)
(* profiles it could not read or that were written since it listed them    *)
(* (README, "Pick winner by highest score, then lexical profile_id", "If   *)
(* none matched").                                                         *)
(***************************************************************************)
ChosenJustNow(c, r) ==
    /\ call[c].pc = "step" /\ call[c].tool # "resolve"
    /\ r.step = call[c].at - 1 /\ r.status = "RESOLVED"
    /\ StepOutcome(call[c].plan[r.step]) = "NEEDS"

Entry(id) == [id |-> id, slots |-> profiles[id]]

ChoiceFitsVault ==
    \A c \in Callers :
        LET known == DOMAIN profiles \ (call[c].unseen \cup call[c].changed)
            rivals == {id \in known : Covers(id, call[c].reqs)}
        IN  /\ call[c].pc = "upsert" => rivals = {}
            /\ \A r \in Range(call[c].out) :
                  ChosenJustNow(c, r) /\ r.id \notin call[c].changed
                    => \A id \in rivals : Outranks(Entry(r.id), Entry(id), call[c].reqs)

\* A preview, and a call that was not allowed to create profiles, writes nothing to the vault.
NoWriteWithoutLeave ==
    [][\A c \in Callers : (~call[c].auto \/ call[c].tool = "preview") /\ profiles' # profiles
                            => call'[c].pc = call[c].pc /\ call'[c].at = call[c].at]_vars
=============================================================================
