-------------------------- MODULE PassportWorkflow --------------------------
(***************************************************************************)
(* vaultclaw_passport_email_workflow: mail a copy of the passport with its *)
(* details in the body.  A call looks up the passport on file, builds a    *)
(* plan and has the vault execute it.  The plan reads the profile; if all  *)
(* details are there it drafts and sends the mail, else it first extracts  *)
(* them from the passport.  A caller that is refused mends what the answer *)
(* names and calls again, with its own arguments or with the ones that the *)
(* answer gives it to resume.                                              *)
(*                                                                         *)
(* The vault and its connectors are external.  A detail is known by where  *)
(* it comes from: the number of a passport, in the order of their upload,  *)
(* or the user (Manual).  A run may stand at any step for as long as a     *)
(* decision takes, while passports are uploaded and other runs go on.      *)
(***************************************************************************)
EXTENDS Naturals, Sequences, FiniteSets

CONSTANTS
    Slots,        \* the details: passportEmailRequiredSlots
    MaxPassports, \* bound on the passports that are uploaded
    MaxRuns,      \* bound on the runs of the plan
    MaxMishaps    \* bound on failed requests and steps, lost and cut replies

ASSUME PassportAssumption ==
    /\ IsFiniteSet(Slots) /\ Slots # {}
    /\ MaxPassports \in Nat \ {0} /\ MaxRuns \in Nat \ {0} /\ MaxMishaps \in Nat

VARIABLES
    latest,   \* the passport last uploaded, 0 if there is none
    profile,  \* the vault's KYC profile: where each detail comes from, 0 if it lacks it
    preview,  \* whether the user has only asked to see what would be sent
    args,     \* the arguments of the call
    work,     \* where the call stands
    passport, \* the document the call has resolved; ghost: the latest one at that time
    told,     \* the last answer
    runs,     \* the runs of the plan, in the order of their creation
    lost,     \* ghost: runs whose call was answered with an error
    mishaps

passportVars == <<latest, profile, preview, args, work, passport, told, runs, lost, mishaps>>

Manual == MaxPassports + 1

(* to: a recipient is named; document: passport_document_id, 0 if it is    *)
(* not given; manual: the details given in manual_fields.                  *)
Arguments ==
    [to : BOOLEAN, document : 0 .. MaxPassports, manual : SUBSET Slots, execute : BOOLEAN,
     resumed : BOOLEAN]

(* resume_arguments of an answer: recipient, subject and style, no more.   *)
ResumeArguments ==
    [to |-> TRUE, document |-> 0, manual |-> {}, execute |-> TRUE, resumed |-> TRUE]

-----------------------------------------------------------------------------
(* The plan                                                                *)

Complete(values) == \A s \in Slots : values[s] # 0

(* Mutant: the draft is written from the profile as it was at first. *)
NextStepNoSecondRead(step, values) ==
    CASE step = "read_existing_profile" ->
            IF Complete(values) THEN "create_draft_from_existing" ELSE "extract_passport_fields"
      [] step = "extract_passport_fields" -> "create_draft_after_extract"
      [] step = "create_draft_from_existing" -> "send_draft_from_existing"
      [] step = "create_draft_after_extract" -> "send_draft_after_extract"
      [] OTHER -> "sent"

(* buildPassportEmailPlan: the step that follows when one has succeeded,   *)
(* values being what was read last.                                        *)
NextStep(step, values) ==
    CASE step = "read_existing_profile" ->
            IF Complete(values) THEN "create_draft_from_existing" ELSE "extract_passport_fields"
      [] step = "extract_passport_fields" -> "read_after_extract_profile"
      [] step = "read_after_extract_profile" -> "create_draft_after_extract"
      [] step = "create_draft_from_existing" -> "send_draft_from_existing"
      [] step = "create_draft_after_extract" -> "send_draft_after_extract"
      [] OTHER -> "sent"

NoValues == [s \in Slots |-> 0]

(* document: the passport to extract from; values, body: what was read     *)
(* last, and what the draft says; attached: the document that goes with    *)
(* it.  The rest are ghosts: named: the caller has named the document;     *)
(* newest: the latest one when the call resolved it; missed: the details   *)
(* that the extraction did not find; crossed: another run has extracted    *)
(* since this one did.                                                     *)
NewRun ==
    [step |-> "read_existing_profile", resumed |-> args.resumed, document |-> passport.id,
     named |-> args.document # 0, newest |-> passport.newest,
     manual |-> args.manual, values |-> NoValues, body |-> NoValues, attached |-> 0,
     missed |-> {}, extracted |-> FALSE, crossed |-> FALSE]

Pending(n) == runs[n].step \notin {"sent", "failed"}

-----------------------------------------------------------------------------

PassportInit ==
    /\ latest = 0 /\ profile = NoValues
    /\ preview = FALSE
    /\ args = [ResumeArguments EXCEPT !.resumed = FALSE]
    /\ work = "none" /\ passport = [id |-> 0, newest |-> 0] /\ told = "none"
    /\ runs = <<>> /\ lost = {} /\ mishaps = 0

Mishap == mishaps < MaxMishaps /\ mishaps' = mishaps + 1

Tells(answer) == told' = answer /\ work' = "idle"

(* A user turns to the workflow, whose vault holds what it holds by then.  *)
Request(to) ==
    /\ work = "none"
    /\ latest' \in 0 .. MaxPassports
    /\ profile' \in [Slots -> {0, latest'}]
    /\ preview' \in BOOLEAN
    /\ \E d \in 0 .. latest', M \in SUBSET Slots :
          args' = [to |-> to, document |-> d, manual |-> M, execute |-> ~preview',
                   resumed |-> FALSE]
    /\ work' = "called"
    /\ UNCHANGED <<passport, told, runs, lost, mishaps>>

(* What the call has resolved its document to.                             *)
Resolves(document) ==
    passport' = [id |-> document, newest |-> latest] /\ work' = "resolved"

(* handlePassportEmailWorkflow begins, and resolvePassportDocumentID with  *)
(* it: an id that is given is not looked up.                               *)
Begin ==
    /\ work = "called"
    /\ \/ ~args.to /\ Tells("RECIPIENT_REQUIRED") /\ UNCHANGED passport
       \/ /\ args.to /\ args.document # 0
          /\ Resolves(args.document) /\ UNCHANGED told
       \/ args.to /\ args.document = 0 /\ work' = "resolving" /\ UNCHANGED <<passport, told>>
    /\ UNCHANGED <<latest, profile, preview, args, runs, lost, mishaps>>

(* Mutant: a document that an earlier call has found is not looked up      *)
(* again.                                                                  *)
LookUpOnce ==
    /\ work = "resolving"
    /\ \/ /\ latest # 0 /\ Resolves(IF passport.id # 0 THEN passport.id ELSE latest)
          /\ UNCHANGED <<told, mishaps>>
       \/ /\ Tells("UPLOAD_REQUIRED") /\ UNCHANGED passport
          /\ IF latest = 0 THEN UNCHANGED mishaps ELSE Mishap
       \/ Mishap /\ Tells("RESOLUTION_FAILED") /\ UNCHANGED passport
    /\ UNCHANGED <<latest, profile, preview, args, runs, lost>>

(* The rest of it.  A reply that is cut off has no document_id.            *)
LookUp ==
    /\ work = "resolving"
    /\ \/ latest # 0 /\ Resolves(latest) /\ UNCHANGED <<told, mishaps>>
       \/ /\ Tells("UPLOAD_REQUIRED") /\ UNCHANGED passport
          /\ IF latest = 0 THEN UNCHANGED mishaps ELSE Mishap
       \/ Mishap /\ Tells("RESOLUTION_FAILED") /\ UNCHANGED passport
    /\ UNCHANGED <<latest, profile, preview, args, runs, lost>>

(* Mutant: execute=false is not looked at. *)
SubmitAlways ==
    /\ work = "resolved"
    /\ \/ /\ Len(runs) < MaxRuns
          /\ runs' = Append(runs, NewRun) /\ work' = "executing"
          /\ UNCHANGED <<told, mishaps>>
       \/ Mishap /\ Tells("FAILED") /\ UNCHANGED runs
    /\ UNCHANGED <<latest, profile, preview, args, passport, lost>>

(* The plan is only shown, or is given to the vault, which may refuse it.  *)
(* Its idempotency key is a fresh one.                                     *)
Submit ==
    /\ work = "resolved"
    /\ \/ ~args.execute /\ Tells("READY") /\ UNCHANGED <<runs, mishaps>>
       \/ /\ args.execute /\ Len(runs) < MaxRuns
          /\ runs' = Append(runs, NewRun) /\ work' = "executing"
          /\ UNCHANGED <<told, mishaps>>
       \/ args.execute /\ Mishap /\ Tells("FAILED") /\ UNCHANGED runs
    /\ UNCHANGED <<latest, profile, preview, args, passport, lost>>

(* Mutant: a pending approval is told as a failure. *)
ReplyWithoutApproval ==
    /\ work = "executing"
    /\ \/ Tells("SENT") /\ UNCHANGED <<lost, mishaps>>
       \/ Pending(Len(runs)) /\ Tells("FAILED") /\ UNCHANGED <<lost, mishaps>>
       \/ Mishap /\ Tells("FAILED") /\ lost' = lost \cup {Len(runs)}
    /\ UNCHANGED <<latest, profile, preview, args, passport, runs>>

(* handlePlanExecute comes back: with the run, whatever its state, told as *)
(* SENT; with a step that waits for a decision; or with an error, though   *)
(* the run exists.                                                         *)
Reply ==
    /\ work = "executing"
    /\ \/ Tells("SENT") /\ UNCHANGED <<lost, mishaps>>
       \/ Pending(Len(runs)) /\ Tells("APPROVAL") /\ UNCHANGED <<lost, mishaps>>
       \/ Mishap /\ Tells("FAILED") /\ lost' = lost \cup {Len(runs)}
    /\ UNCHANGED <<latest, profile, preview, args, passport, runs>>

-----------------------------------------------------------------------------
(* The caller and the user                                                 *)

(* The caller does what the answer says, and calls again.                  *)
CallAgain ==
    /\ work = "idle" /\ work' = "called"
    /\ \/ told = "RECIPIENT_REQUIRED" /\ args' = [args EXCEPT !.to = TRUE]
       \/ told \in {"RESOLUTION_FAILED", "FAILED"} /\ args' = args
       \/ told = "UPLOAD_REQUIRED" /\ latest # 0 /\ args' \in {args, ResumeArguments}
    /\ UNCHANGED <<latest, profile, preview, passport, told, runs, lost, mishaps>>

(* The user has seen what would be sent and wants it sent.                 *)
Confirm ==
    /\ work = "idle" /\ told = "READY"
    /\ preview' = FALSE /\ args' = [args EXCEPT !.execute = TRUE] /\ work' = "called"
    /\ UNCHANGED <<latest, profile, passport, told, runs, lost, mishaps>>

Upload ==
    /\ work # "none" /\ latest < MaxPassports
    /\ latest' = latest + 1
    /\ UNCHANGED <<profile, preview, args, work, passport, told, runs, lost, mishaps>>

-----------------------------------------------------------------------------
(* The vault executes a step of run n: the profile is read, ...            *)
Read(n) ==
    /\ runs[n].step \in {"read_existing_profile", "read_after_extract_profile"}
    /\ runs' = [runs EXCEPT ![n].values = profile, ![n].step = NextStep(@, profile)]
    /\ UNCHANGED <<profile, mishaps>>

(* ... or what the document says is saved in it, but for the details that  *)
(* are given and those it does not find, ...                               *)
Extract(n) ==
    \E M \in SUBSET (Slots \ runs[n].manual) :
        /\ runs[n].step = "extract_passport_fields"
        /\ IF M = {} THEN UNCHANGED mishaps ELSE Mishap
        /\ profile' = [s \in Slots |-> IF s \in runs[n].manual THEN Manual
                                       ELSE IF s \in M THEN profile[s] ELSE runs[n].document]
        /\ runs' = [m \in DOMAIN runs |->
                       IF m = n THEN [runs[n] EXCEPT !.step = NextStep(@, runs[n].values),
                                                     !.missed = M, !.extracted = TRUE]
                       ELSE [runs[m] EXCEPT !.crossed = @ \/ runs[m].extracted]]

(* ... or a draft is made, whose attachment is named by its type, ...      *)
Draft(n) ==
    /\ runs[n].step \in {"create_draft_from_existing", "create_draft_after_extract"}
    /\ runs' = [runs EXCEPT ![n].body = runs[n].values, ![n].attached = latest,
                            ![n].step = NextStep(@, runs[n].values)]
    /\ UNCHANGED <<profile, mishaps>>

(* ... or sent; a step may also fail, or be denied.                        *)
Send(n) ==
    /\ runs[n].step \in {"send_draft_from_existing", "send_draft_after_extract"}
    /\ runs' = [runs EXCEPT ![n].step = NextStep(@, runs[n].values)]
    /\ UNCHANGED <<profile, mishaps>>

Fail(n) ==
    /\ Pending(n) /\ Mishap
    /\ runs' = [runs EXCEPT ![n].step = "failed"]
    /\ UNCHANGED profile

RunStep(n) ==
    /\ Read(n) \/ Extract(n) \/ Draft(n) \/ Send(n) \/ Fail(n)
    /\ UNCHANGED <<latest, preview, args, work, passport, told, lost>>

PassportNext ==
    \/ Begin \/ LookUp \/ Submit \/ Reply \/ CallAgain \/ Confirm \/ Upload
    \/ \E n \in DOMAIN runs : RunStep(n)

-----------------------------------------------------------------------------

(* A user who has only asked to see the mail gets no run of the plan.      *)
(* Exception: the arguments that an answer gives to resume with do not     *)
(* say execute=false any more.                                             *)
PreviewsSendNothing ==
    preview => \A n \in DOMAIN runs : runs[n].resumed

(* A retry gives the vault a second mail only if the reply to the first    *)
(* was lost; a mail that waits for a decision, or that was told to be      *)
(* sent, is not given to it again.                                         *)
SecondMailHasACause ==
    \A n \in DOMAIN runs : n > 1 => n - 1 \in lost

(* Each detail in a mail is the one of the passport attached to it, or the *)
(* one the caller gave, and none is missing; but for these causes.         *)
(* - The profile was complete and was taken as it was, whatever passport   *)
(*   its details are from.                                                 *)
(* - The extraction did not find the detail, or another run has extracted  *)
(*   since.                                                                *)
(* - A passport was uploaded after the call had resolved its own: the      *)
(*   attachment is the new one.                                            *)
(* - The caller named an older passport than the latest: its details are   *)
(*   extracted, and still the latest is attached.                          *)
BodyMatchesAttachment ==
    \A n \in DOMAIN runs :
        LET r == runs[n] IN
        r.attached # 0 =>
            \A s \in Slots :
                \/ r.body[s] = r.attached
                \/ r.extracted /\ s \in r.manual /\ r.body[s] = Manual
                \/ ~r.extracted /\ r.body[s] # 0
                \/ s \in r.missed \/ r.crossed
                \/ r.body[s] = r.document /\ r.newest < r.attached
                \/ r.body[s] = r.document /\ r.named /\ r.document < r.newest
=============================================================================
