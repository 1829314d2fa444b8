----------------------------- MODULE ApprovalFlow -----------------------------
(***************************************************************************)
(* Execution with human approval: vaultclaw_connector_execute_job and      *)
(* vaultclaw_plan_execute submit a request to the vault and, when the      *)
(* vault wants a decision, hand the caller a handle; approval_wait polls   *)
(* the handle until the vault has decided; job_get, plan_run_get and       *)
(* pending_get look once.  The vault is external and is modelled by what   *)
(* src/ reads of it.  Requests and replies are lost, replies are cut       *)
(* short, and a caller may stop waiting for its call, whose process dies   *)
(* while the request it has sent may still be served.                      *)
(*                                                                         *)
(* Each execution has a fresh Idempotency-Key, so a repeated call is a new *)
(* job.  A caller wants one execution: it calls again until it has a       *)
(* handle or an answer that is ok.                                         *)
(***************************************************************************)
EXTENDS Naturals, FiniteSets

CONSTANTS
    Callers,    \* callers of the tools, each with one request to execute
    Jobs,       \* the jobs and plan runs that the vault may create
    MaxPolls,   \* bound: the polls that fit into one wait's timeout
    MaxFaults,  \* bound on lost or cut messages, errors and abandoned calls
    Denials,    \* what the vault may leave on its objects when it denies a job
    NONE

(* The error codes of isApprovalRequiredCode, those of isApprovalDenyCode  *)
(* and all others.  An object may show no code.                            *)
Codes == {"REQUIRED", "DENIAL", "OTHER"}

(* A denial is shown by three objects: the job's error, a plan run's       *)
(* last_error_code and the pending item, which has a state of its own.     *)
(* Each may lack the code, but no two of them show different ones.         *)
AgreeOnCode(d) ==
    \A a, b \in {d.code, d.run, d.itemCode} : a = b \/ NONE \in {a, b}

ASSUME FlowAssumption ==
    /\ MaxPolls \in Nat \ {0} /\ MaxFaults \in Nat
    /\ NONE \notin Callers \cup Jobs
    /\ NONE \notin {"PENDING", "READY", "RUNNING", "SUCCEEDED", "FAILED", "DENIED"}
    /\ NONE \notin Codes \cup {"ALLOW", "DENY"}
    /\ Denials \subseteq [code : {NONE, "DENIAL", "OTHER"}, run : {NONE, "DENIAL", "OTHER"},
                          item : {"DENIED", "EXPIRED"}, itemCode : {NONE, "DENIAL", "OTHER"}]
    /\ \A d \in Denials : AgreeOnCode(d)
    /\ NONE \notin {"lost", "cut", "lookup", "abandoned"}

VARIABLES
    kind,    \* per caller: whether it executes a job or a plan (a PLAN_RUN)
    job,     \* the vault's jobs
    call,    \* per caller: the tool call it is making
    orphans, \* requests in flight whose caller has gone
    known,   \* per caller: the jobs it has a handle of
    told,    \* per caller and job: what it has been told of the decision
    missed,  \* ghost, per job: why its caller was not given the handle
    faults

flowVars == <<kind, job, call, orphans, known, told, missed, faults>>

Terminal == {"SUCCEEDED", "FAILED", "DENIED"}

(* by: the caller that asked for it; status: of the job and its run; code, *)
(* run: the codes of the job and the run; item, itemCode: state and code   *)
(* of its pending item; pending: whether pending_approval is shown, that   *)
(* is, there is an item, and with a pending_id.                            *)
JobRecords ==
    [by : Callers \cup {NONE}, status : {NONE, "PENDING", "READY", "RUNNING"} \cup Terminal,
     code : Codes \cup {NONE}, run : Codes \cup {NONE},
     item : {NONE, "WAITING", "READY", "RUNNING", "EXPIRED"} \cup Terminal,
     itemCode : Codes \cup {NONE}, pending : {"none", "no_id", "with_id"}]

NoJob == [by |-> NONE, status |-> NONE, code |-> NONE, run |-> NONE,
          item |-> NONE, itemCode |-> NONE, pending |-> "none"]

Outcomes == {"PENDING", "ALLOW", "DENY", "UNKNOWN"}

(* job: the job the call is about; seen: the last snapshot it was sent.    *)
CallRecords ==
    [pc : {"idle", "preflight", "submit", "posted", "lookup", "poll", "check"},
     job : Jobs \cup {NONE}, seen : JobRecords, polls : 0 .. MaxPolls, ok : BOOLEAN]

Idle == [pc |-> "idle", job |-> NONE, seen |-> NoJob, polls |-> 0, ok |-> FALSE]

FlowTypeOK ==
    /\ kind \in [Callers -> {"JOB", "PLAN_RUN"}]
    /\ job \in [Jobs -> JobRecords]
    /\ call \in [Callers -> CallRecords]
    /\ orphans \subseteq Callers
    /\ known \in [Callers -> SUBSET Jobs]
    /\ told \in [Callers -> [Jobs -> Outcomes \cup {NONE}]]
    /\ missed \in [Jobs -> {NONE, "lost", "cut", "lookup", "abandoned"}]
    /\ faults \in 0 .. MaxFaults

FlowInit ==
    /\ kind \in [Callers -> {"JOB", "PLAN_RUN"}]
    /\ job = [j \in Jobs |-> NoJob]
    /\ call = [c \in Callers |-> Idle]
    /\ orphans = {}
    /\ known = [c \in Callers |-> {}]
    /\ told = [c \in Callers |-> [j \in Jobs |-> NONE]]
    /\ missed = [j \in Jobs |-> NONE]
    /\ faults = 0

-----------------------------------------------------------------------------
(* What the code reads off a snapshot                                      *)

(* The run's last_error_code or, for want of one, that of its job. *)
RunCode(s) == IF s.run # NONE THEN s.run ELSE s.code

(* Mutant: a run that may go on counts as allowed. *)
RunOutcomeEager(s) ==
    CASE s.status = "PENDING" -> "PENDING"
      [] s.status \in {"READY", "RUNNING", "SUCCEEDED"} -> "ALLOW"
      [] s.status = "DENIED" /\ RunCode(s) = "DENIAL" -> "DENY"
      [] OTHER -> "UNKNOWN"

(* DecisionOutcomeFromPlanRun; PENDING stands for PENDING_APPROVAL. *)
RunOutcome(s) ==
    CASE s.status \in {"PENDING", "READY", "RUNNING"} -> "PENDING"
      [] s.status = "SUCCEEDED" -> "ALLOW"
      [] s.status = "DENIED" /\ RunCode(s) = "DENIAL" -> "DENY"
      [] OTHER -> "UNKNOWN"

(* DecisionOutcomeFromJob. *)
JobOutcome(s) ==
    CASE s.status \in {"PENDING", "RUNNING", "READY"} ->
            IF s.pending # "none" \/ s.code = "REQUIRED" THEN "PENDING" ELSE "UNKNOWN"
      [] s.status = "SUCCEEDED" -> "ALLOW"
      [] s.status = "DENIED" /\ s.code = "DENIAL" -> "DENY"
      [] OTHER -> "UNKNOWN"

(* Mutant: whatever ended the item was a denial. *)
ItemOutcomeAnyEnd(s) ==
    CASE s.item \in {"WAITING", "READY", "RUNNING"} -> "PENDING"
      [] s.item = "SUCCEEDED" -> "ALLOW"
      [] OTHER -> "DENY"

(* DecisionOutcomeFromPending.  Unlike the others it takes a denied item   *)
(* that shows no code for a human's denial.                                *)
ItemOutcome(s) ==
    CASE s.item \in {"WAITING", "READY", "RUNNING"} -> "PENDING"
      [] s.item = "SUCCEEDED" -> "ALLOW"
      [] s.item \in {"DENIED", "EXPIRED"} /\ s.itemCode \in {"DENIAL", NONE} -> "DENY"
      [] OTHER -> "UNKNOWN"

(* What approval_wait reads, and job_get or plan_run_get. *)
Outcome(c, s) == IF kind[c] = "JOB" THEN JobOutcome(s) ELSE RunOutcome(s)

(* Mutant: a denial is not an end. *)
IsTerminalUndenied(s) == s.status \in Terminal \ {"DENIED"}

IsTerminal(s) == s.status \in Terminal

(* ExtractExecuteJobApprovalHandoff, ExtractPlanExecuteApprovalHandoff. *)
NeedsApproval(c, s) ==
    /\ s.status = "PENDING"
    /\ s.code = "REQUIRED" \/ s.pending # "none" \/ kind[c] = "PLAN_RUN"

-----------------------------------------------------------------------------
(* The vault and the human behind it                                       *)

Created(j) == job[j].status # NONE

(* A request reaches the vault and becomes a job, perhaps one that waits   *)
(* for a decision.                                                         *)
Accepts(c, j) ==
    /\ ~Created(j)
    /\ \E s \in {[status |-> "RUNNING", code |-> NONE, item |-> NONE, pending |-> "none"],
                 [status |-> "PENDING", code |-> "REQUIRED", item |-> NONE, pending |-> "none"],
                 [status |-> "PENDING", code |-> "REQUIRED", item |-> "WAITING", pending |-> "no_id"],
                 [status |-> "PENDING", code |-> NONE, item |-> "WAITING", pending |-> "with_id"]} :
          job' = [job EXCEPT ![j] = [by |-> c, status |-> s.status, code |-> s.code, run |-> NONE,
                                     item |-> s.item, itemCode |-> NONE, pending |-> s.pending]]

VaultAccept(c, j) ==
    /\ call[c].pc = "posted" /\ call[c].job = NONE
    /\ Accepts(c, j)
    /\ call' = [call EXCEPT ![c].job = j, ![c].seen = job'[j]]
    /\ UNCHANGED <<kind, orphans, known, told, missed, faults>>

VaultAcceptOrphan(c, j) ==
    /\ c \in orphans
    /\ Accepts(c, j)
    /\ orphans' = orphans \ {c}
    /\ missed' = [missed EXCEPT ![j] = "abandoned"]
    /\ UNCHANGED <<kind, call, known, told, faults>>

DropOrphan(c) ==
    /\ c \in orphans
    /\ orphans' = orphans \ {c}
    /\ UNCHANGED <<kind, job, call, known, told, missed, faults>>

(* The job, its run and its item move together, and show what they show.   *)
VaultMoves(j, from, to, shows) ==
    /\ job[j].status = from
    /\ job' = [job EXCEPT ![j] =
                 [by |-> @.by, status |-> to, code |-> shows.code, run |-> shows.run,
                  item |-> IF @.item = NONE THEN NONE ELSE shows.item,
                  itemCode |-> IF @.item = NONE THEN NONE ELSE shows.itemCode,
                  pending |-> @.pending]]
    /\ UNCHANGED <<kind, call, orphans, known, told, missed, faults>>

NoCode(state) == [code |-> NONE, run |-> NONE, item |-> state, itemCode |-> NONE]

(* The decision: allowed, denied, expired, or ended for another reason.    *)
(* Only a plan's job has a run.                                            *)
Decide(j) ==
    \/ VaultMoves(j, "PENDING", "READY", NoCode("READY"))
    \/ \E d \in Denials :
          /\ VaultMoves(j, "PENDING", "DENIED", d)
          /\ d.run # NONE => kind[job[j].by] = "PLAN_RUN"

Proceed(j) ==
    \/ VaultMoves(j, "READY", "RUNNING", NoCode("RUNNING"))
    \/ \E to \in {"SUCCEEDED", "FAILED"} : VaultMoves(j, "RUNNING", to, NoCode(to))

-----------------------------------------------------------------------------
(* A tool call                                                             *)

Goes(c, from, to) == call[c].pc = from /\ call' = [call EXCEPT ![c].pc = to]

Fault == faults < MaxFaults /\ faults' = faults + 1

(* The call is over: an error, a handoff or the end of a wait. *)
Answers(c) == call' = [call EXCEPT ![c] = [Idle EXCEPT !.ok = call[c].ok]]

AnswersOk(c) == call' = [call EXCEPT ![c] = [Idle EXCEPT !.ok = TRUE]]

(* Requests on their way to the vault. *)
InFlight == orphans \cup {c \in Callers : call[c].pc \in {"preflight", "submit", "posted"}
                                          /\ call[c].job = NONE}

(* The caller wants its request executed and has neither handle nor ok,    *)
(* and the vault has a job left for it (the bound of the model).           *)
Execute(c) ==
    /\ known[c] = {} /\ ~call[c].ok
    /\ c \notin orphans
    /\ Cardinality(InFlight) < Cardinality({j \in Jobs : ~Created(j)})
    /\ Goes(c, "idle", "preflight")
    /\ UNCHANGED <<kind, job, orphans, known, told, missed, faults>>

(* Profile selection, module hashes and validation: any of these calls of  *)
(* the vault may fail, and nothing is submitted then.                      *)
Preflight(c) ==
    /\ \/ Goes(c, "preflight", "submit") /\ UNCHANGED faults
       \/ call[c].pc = "preflight" /\ Answers(c) /\ Fault
    /\ UNCHANGED <<kind, job, orphans, known, told, missed>>

(* The POST is sent, or cannot be. *)
Submit(c) ==
    /\ \/ Goes(c, "submit", "posted") /\ UNCHANGED faults
       \/ call[c].pc = "submit" /\ Answers(c) /\ Fault
    /\ UNCHANGED <<kind, job, orphans, known, told, missed>>

Misses(c, why) == missed' = [missed EXCEPT ![call[c].job] = why]

(* The vault refuses, or there is no reply in time: the request or the     *)
(* reply was lost, or the request is still on its way.                     *)
PostFails(c) ==
    /\ call[c].pc = "posted"
    /\ Answers(c) /\ Fault
    /\ IF call[c].job = NONE
       THEN orphans' \in {orphans, orphans \cup {c}} /\ UNCHANGED missed
       ELSE Misses(c, "lost") /\ UNCHANGED orphans
    /\ UNCHANGED <<kind, job, known, told>>

(* The body of the reply breaks off.  Client.do ignores the read error, no *)
(* handoff is found in an empty body, and the call answers ok.             *)
PostReplyCut(c) ==
    /\ call[c].pc = "posted" /\ call[c].job # NONE
    /\ AnswersOk(c) /\ Fault
    /\ Misses(c, "cut")
    /\ UNCHANGED <<kind, job, orphans, known, told>>

GivesHandle(c) == known' = [known EXCEPT ![c] = @ \cup {call[c].job}]

(* The reply.  Without approval the call is ok.  A handoff is answered at  *)
(* once, or after the pending_id it lacks was looked up by challenge_id.   *)
PostReply(c) ==
    LET s == call[c].seen IN
    /\ call[c].pc = "posted" /\ call[c].job # NONE
    /\ CASE ~NeedsApproval(c, s) -> AnswersOk(c) /\ GivesHandle(c)
         [] NeedsApproval(c, s) /\ s.pending = "no_id" ->
              Goes(c, "posted", "lookup") /\ UNCHANGED known
         [] OTHER -> Answers(c) /\ GivesHandle(c)
    /\ UNCHANGED <<kind, job, orphans, told, missed, faults>>

(* Mutant: the handle is not put into an answer that lacks a pending_id. *)
LookupNeedsId(c) ==
    /\ call[c].pc = "lookup"
    /\ Answers(c)
    /\ \/ GivesHandle(c) /\ UNCHANGED faults
       \/ UNCHANGED known /\ UNCHANGED faults
       \/ UNCHANGED known /\ Fault
    /\ UNCHANGED <<kind, job, orphans, told, missed>>

(* ResolvePendingIDByChallengeAndJob: a pending_id, none, or no permission *)
(* to ask, all the same here; any other error is the answer of the call.   *)
Lookup(c) ==
    /\ call[c].pc = "lookup"
    /\ Answers(c)
    /\ \/ GivesHandle(c) /\ UNCHANGED <<missed, faults>>
       \/ Misses(c, "lookup") /\ Fault /\ UNCHANGED known
    /\ UNCHANGED <<kind, job, orphans, told>>

(* approval_wait with a handle. *)
Wait(c, j) ==
    /\ call[c].pc = "idle" /\ j \in known[c]
    /\ call' = [call EXCEPT ![c].pc = "poll", ![c].job = j, ![c].polls = 0]
    /\ UNCHANGED <<kind, job, orphans, known, told, missed, faults>>

Tells(c, outcome) == told' = [told EXCEPT ![c][call[c].job] = outcome]

(* One GET of the loop in WaitForApproval; any error ends the wait. *)
Poll(c) ==
    LET s == job[call[c].job] IN
    /\ call[c].pc = "poll"
    /\ \/ /\ IsTerminal(s)
          /\ Tells(c, IF Outcome(c, s) = "PENDING" THEN "UNKNOWN" ELSE Outcome(c, s))
          /\ Answers(c)
          /\ UNCHANGED faults
       \/ /\ ~IsTerminal(s)
          /\ call' = [call EXCEPT ![c].pc = "check", ![c].polls = @ + 1]
          /\ UNCHANGED <<told, faults>>
       \/ /\ Answers(c)
          /\ Fault
          /\ UNCHANGED told
    /\ UNCHANGED <<kind, job, orphans, known, missed>>

(* Mutant: the deadline is computed anew in every round. *)
CheckDeadlineForgets(c) ==
    /\ call[c].pc = "check"
    /\ call' = [call EXCEPT ![c].pc = "poll", ![c].polls = 0]
    /\ UNCHANGED <<kind, job, orphans, known, told, missed, faults>>

(* After the deadline the wait answers MCP_WAIT_TIMEOUT, with the handle;  *)
(* before, it sleeps and polls again.                                      *)
CheckDeadline(c) ==
    /\ call[c].pc = "check"
    /\ \/ Answers(c)
       \/ call[c].polls < MaxPolls /\ call' = [call EXCEPT ![c].pc = "poll"]
    /\ UNCHANGED <<kind, job, orphans, known, told, missed, faults>>

(* One look, no waiting: plan_run_get, job_get, which the handle of a plan *)
(* serves too, or approvals_pending_get.                                   *)
Look(c, j) ==
    /\ call[c].pc = "idle" /\ j \in known[c]
    /\ \E outcome \in {Outcome(c, job[j]), JobOutcome(job[j])}
                       \cup (IF job[j].item # NONE THEN {ItemOutcome(job[j])} ELSE {}) :
          told' = [told EXCEPT ![c][j] = outcome]
    /\ UNCHANGED <<kind, job, call, orphans, known, missed, faults>>

(* The caller gives up (the bridge's callTimeoutMs, a gateway restart) and *)
(* the process that serves the call is stopped.                            *)
Abandon(c) ==
    /\ call[c].pc # "idle" /\ Fault
    /\ Answers(c)
    /\ orphans' = IF call[c].pc = "posted" /\ call[c].job = NONE THEN orphans \cup {c}
                                                                 ELSE orphans
    /\ IF call[c].pc \in {"posted", "lookup"} /\ call[c].job # NONE
       THEN Misses(c, "abandoned") ELSE UNCHANGED missed
    /\ UNCHANGED <<kind, job, known, told>>

ServerStep(c) ==
    \/ Preflight(c) \/ Submit(c)
    \/ PostFails(c) \/ PostReplyCut(c) \/ PostReply(c) \/ Lookup(c)
    \/ Poll(c) \/ CheckDeadline(c)

FlowNext ==
    \/ \E c \in Callers :
          \/ Execute(c) \/ ServerStep(c) \/ Abandon(c) \/ DropOrphan(c)
          \/ \E j \in Jobs :
                VaultAccept(c, j) \/ VaultAcceptOrphan(c, j) \/ Wait(c, j) \/ Look(c, j)
    \/ \E j \in Jobs : Decide(j) \/ Proceed(j)

(* The server goes on with a call (the HTTP client has a timeout), the     *)
(* vault serves what reaches it, and a caller with a handle keeps waiting  *)
(* on it until it is told an end.  The human need not decide.              *)
FlowFairness ==
    \A c \in Callers :
        /\ WF_flowVars(ServerStep(c))
        /\ WF_flowVars(\E j \in Jobs : VaultAccept(c, j))
        /\ \A j \in Jobs : WF_flowVars(Wait(c, j))

FlowSpec == FlowInit /\ [][FlowNext]_flowVars /\ FlowFairness

-----------------------------------------------------------------------------

(* The pending item is of a denial but shows no code of it. *)
ItemWithoutCode(s) == s.item \in {"DENIED", "EXPIRED"} /\ s.itemCode = NONE

(* A caller told ALLOW has a job that succeeded.  A caller told DENY has   *)
(* one that was denied, and not, as far as the vault shows it, for another *)
(* reason than a decision: unless its pending item lacks the code.         *)
ToldIsTrue ==
    \A c \in Callers, j \in Jobs :
        /\ told[c][j] = "ALLOW" => job[j].status = "SUCCEEDED"
        /\ told[c][j] = "DENY" =>
              /\ job[j].status = "DENIED"
              /\ "DENIAL" \in {job[j].code, job[j].run, job[j].itemCode} \/ ItemWithoutCode(job[j])

(* The vault's jobs are all accounted for: the caller has the handle, or   *)
(* its call is still being answered, or the handle was lost for a known    *)
(* cause.  So a request is executed twice only after such a loss.          *)
JobsAccountedFor ==
    \A j \in Jobs : Created(j) =>
        LET c == job[j].by IN
        /\ \/ known[c] = {j}
           \/ call[c].job = j /\ call[c].pc \in {"posted", "lookup"}
           \/ missed[j] # NONE
        /\ \A k \in Jobs \ {j} : job[k].by = c => missed[j] # NONE \/ missed[k] # NONE

(* job_get, plan_run_get, pending_get and approval_wait read the decision  *)
(* off different objects: once one of them has told the end, no later one  *)
(* tells another.  The exception: a denial may turn into UNKNOWN, never    *)
(* into ALLOW, if the job or the item does not show the code of it.        *)
VerdictIsFinal ==
    [][\A c \in Callers, j \in Jobs :
          told[c][j] \in {"ALLOW", "DENY"} =>
             \/ told'[c][j] = told[c][j]
             \/ /\ told[c][j] = "DENY" /\ told'[c][j] = "UNKNOWN"
                /\ job[j].code = NONE \/ ItemWithoutCode(job[j])]_flowVars

(* Every tool call is answered, although a wait may poll many times and    *)
(* nobody may ever decide.                                                 *)
CallsAreAnswered == \A c \in Callers : call[c].pc # "idle" ~> call[c].pc = "idle"

(* README.md, "Resume flow": SUCCEEDED is ALLOW, DENIED with an approval   *)
(* denial code on the job or its run is DENY, anything else UNKNOWN.       *)
Verdict(s) ==
    CASE s.status = "SUCCEEDED" -> "ALLOW"
      [] s.status = "DENIED" /\ "DENIAL" \in {s.code, s.run} -> "DENY"
      [] OTHER -> "UNKNOWN"

(* A caller that has a handle and keeps calling approval_wait is told the  *)
(* decision once the vault has it, through timeouts and errors, whatever   *)
(* other tools have told it in between.                                    *)
DecisionReachesCaller ==
    \A c \in Callers, j \in Jobs :
        j \in known[c] /\ job[j].status \in Terminal ~> told[c][j] = Verdict(job[j])

(* README.md: the execute tools "return immediate controlled handoff when  *)
(* approval is required", with "pending_id_resolved (best effort)": the    *)
(* look-up of a pending_id never costs the caller its handle.              *)
HandoffIsReturned == \A j \in Jobs : missed[j] # "lookup"
=============================================================================
