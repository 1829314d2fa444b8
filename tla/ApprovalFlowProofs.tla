-------------------------- MODULE ApprovalFlowProofs --------------------------
(***************************************************************************)
(* Theorems of ApprovalFlow, for any number of callers, jobs, polls and    *)
(* faults.                                                                 *)
(***************************************************************************)
EXTENDS ApprovalFlow, TLAPS

(* A call of a caller whose handles are K: the job it is about is known    *)
(* when it is looked at, and an execution is begun without a handle.       *)
CallOK(r, K) ==
    /\ r \in CallRecords
    /\ r.pc = "poll" => r.polls < MaxPolls
    /\ r.pc \in {"lookup", "poll", "check"} => r.job \in Jobs
    /\ r.pc \in {"preflight", "submit", "posted", "lookup"} => K = {}

CallsOK ==
    /\ call \in [Callers -> CallRecords]
    /\ known \in [Callers -> SUBSET Jobs]
    /\ \A c \in Callers : CallOK(call[c], known[c])

(* Only a job that was created has a caller; its objects do not contradict *)
(* each other.                                                             *)
JobOK(s) ==
    /\ s \in JobRecords
    /\ IF s.status = NONE THEN s.by = NONE ELSE s.by \in Callers
    /\ AgreeOnCode(s)
    /\ s.item # NONE => /\ s.status = "SUCCEEDED" <=> s.item = "SUCCEEDED"
                        /\ s.status = "DENIED" <=> s.item \in {"DENIED", "EXPIRED"}

JobsOK == job \in [Jobs -> JobRecords] /\ \A j \in Jobs : JobOK(job[j])

RestOK ==
    /\ kind \in [Callers -> {"JOB", "PLAN_RUN"}]
    /\ orphans \subseteq Callers
    /\ told \in [Callers -> [Jobs -> Outcomes \cup {NONE}]]
    /\ missed \in [Jobs -> {NONE, "lost", "cut", "lookup", "abandoned"}]
    /\ faults \in 0 .. MaxFaults

FlowShape == CallsOK /\ JobsOK /\ RestOK

-----------------------------------------------------------------------------
(* Types                                                                   *)

LEMMA IdleType ==
  ASSUME NEW ok \in BOOLEAN, NEW K
  PROVE  CallOK([Idle EXCEPT !.ok = ok], K) /\ [Idle EXCEPT !.ok = ok].pc = "idle"
         /\ [Idle EXCEPT !.ok = ok].job = NONE
<1>1. NoJob \in JobRecords BY DEF NoJob, JobRecords
<1>2. 0 \in 0 .. MaxPolls BY FlowAssumption
<1>3. [Idle EXCEPT !.ok = ok] =
         [pc |-> "idle", job |-> NONE, seen |-> NoJob, polls |-> 0, ok |-> ok]
  BY DEF Idle
<1> HIDE DEF NoJob
<1> QED BY <1>1, <1>2, <1>3 DEF CallOK, CallRecords

LEMMA FlowInitShape == FlowInit => FlowShape
<1> SUFFICES ASSUME FlowInit PROVE FlowShape OBVIOUS
<1>1. NoJob \in JobRecords /\ JobOK(NoJob)
  BY FlowAssumption DEF NoJob, JobRecords, JobOK, AgreeOnCode
<1>2. \A c \in Callers : CallOK(Idle, {})
  <2>1. 0 \in 0 .. MaxPolls BY FlowAssumption
  <2> HIDE DEF NoJob
  <2> QED BY <1>1, <2>1 DEF Idle, CallOK, CallRecords
<1>3. CallsOK BY <1>2 DEF FlowInit, CallsOK, CallOK
<1>4. JobsOK BY <1>1 DEF FlowInit, JobsOK
<1>5. RestOK BY FlowAssumption DEF FlowInit, RestOK
<1> QED BY <1>3, <1>4, <1>5 DEF FlowShape

(* A step of one call.                                                     *)
LEMMA OneCallKeeps ==
  ASSUME CallsOK, NEW c \in Callers, NEW r, call' = [call EXCEPT ![c] = r],
         NEW K \in SUBSET Jobs, known' = [known EXCEPT ![c] = K], CallOK(r, K)
  PROVE  CallsOK'
<1>1. r \in CallRecords BY DEF CallOK
<1>2. call' \in [Callers -> CallRecords] /\ known' \in [Callers -> SUBSET Jobs]
  BY <1>1 DEF CallsOK
<1>3. \A d \in Callers : CallOK(call'[d], known'[d])
  <2> TAKE d \in Callers
  <2>1. CASE d = c BY <2>1 DEF CallsOK
  <2>2. CASE d # c BY <2>2 DEF CallsOK
  <2> QED BY <2>1, <2>2
<1> QED BY <1>2, <1>3 DEF CallsOK, CallOK

LEMMA SameHandles ==
  ASSUME CallsOK, NEW c \in Callers, UNCHANGED known
  PROVE  known[c] \in SUBSET Jobs /\ known' = [known EXCEPT ![c] = known[c]]
BY DEF CallsOK

LEMMA AnswersKeeps ==
  ASSUME CallsOK, NEW c \in Callers, Answers(c) \/ AnswersOk(c), UNCHANGED known
  PROVE  CallsOK'
<1>1. call[c].ok \in BOOLEAN BY DEF CallsOK, CallRecords
<1>2. PICK ok \in BOOLEAN : call' = [call EXCEPT ![c] = [Idle EXCEPT !.ok = ok]]
  BY <1>1 DEF Answers, AnswersOk
<1>3. CallOK([Idle EXCEPT !.ok = ok], known[c]) BY IdleType
<1> QED BY <1>2, <1>3, SameHandles, OneCallKeeps

LEMMA GivesHandleKeeps ==
  ASSUME CallsOK, NEW c \in Callers, Answers(c) \/ AnswersOk(c), GivesHandle(c),
         call[c].job \in Jobs
  PROVE  CallsOK'
<1>1. call[c].ok \in BOOLEAN BY DEF CallsOK, CallRecords
<1>2. PICK ok \in BOOLEAN : call' = [call EXCEPT ![c] = [Idle EXCEPT !.ok = ok]]
  BY <1>1 DEF Answers, AnswersOk
<1> DEFINE K == known[c] \cup {call[c].job}
<1>3. K \in SUBSET Jobs /\ known' = [known EXCEPT ![c] = K] BY DEF CallsOK, GivesHandle
<1>4. CallOK([Idle EXCEPT !.ok = ok], K) BY IdleType
<1> HIDE DEF K
<1> QED BY <1>2, <1>3, <1>4, OneCallKeeps

LEMMA GoesKeeps ==
  ASSUME CallsOK, NEW c \in Callers, NEW from, NEW to, Goes(c, from, to), UNCHANGED known,
         to \in {"preflight", "submit", "posted", "lookup"}, known[c] = {},
         to = "lookup" => call[c].job \in Jobs
  PROVE  CallsOK'
<1>1. call' = [call EXCEPT ![c] = [call[c] EXCEPT !.pc = to]] BY DEF Goes
<1>2. CallOK([call[c] EXCEPT !.pc = to], known[c])
  <2>1. call[c] \in CallRecords BY DEF CallsOK
  <2> QED BY <2>1 DEF CallOK, CallRecords
<1> QED BY <1>1, <1>2, SameHandles, OneCallKeeps

LEMMA AcceptsKeeps ==
  ASSUME JobsOK, NEW c \in Callers, NEW j \in Jobs, Accepts(c, j)
  PROVE  JobsOK' /\ ~Created(j) /\ job'[j].by = c /\ job'[j].status # NONE /\ job'[j] \in JobRecords
         /\ job'[j].status \notin Terminal
         /\ \A k \in Jobs \ {j} : job'[k] = job[k]
<1> DEFINE r(s) == [by |-> c, status |-> s.status, code |-> s.code, run |-> NONE,
                    item |-> s.item, itemCode |-> NONE, pending |-> s.pending]
<1>1. PICK s \in [status : {"RUNNING", "PENDING"}, code : {NONE, "REQUIRED"},
                   item : {NONE, "WAITING"}, pending : {"none", "no_id", "with_id"}] :
         job' = [job EXCEPT ![j] = r(s)]
  <2> DEFINE Kinds == [status : {"RUNNING", "PENDING"}, code : {NONE, "REQUIRED"},
                       item : {NONE, "WAITING"}, pending : {"none", "no_id", "with_id"}]
  <2>1. /\ [status |-> "RUNNING", code |-> NONE, item |-> NONE, pending |-> "none"] \in Kinds
        /\ [status |-> "PENDING", code |-> "REQUIRED", item |-> NONE, pending |-> "none"] \in Kinds
        /\ [status |-> "PENDING", code |-> "REQUIRED", item |-> "WAITING", pending |-> "no_id"] \in Kinds
        /\ [status |-> "PENDING", code |-> NONE, item |-> "WAITING", pending |-> "with_id"] \in Kinds
    OBVIOUS
  <2> HIDE DEF Kinds
  <2> SUFFICES \E s \in Kinds : job' = [job EXCEPT ![j] = r(s)]
    BY DEF Kinds
  <2> QED BY <2>1, Zenon DEF Accepts
<1>2. /\ s.status \in {"RUNNING", "PENDING"} /\ s.code \in {NONE, "REQUIRED"}
      /\ s.item \in {NONE, "WAITING"} /\ s.pending \in {"none", "no_id", "with_id"}
  OBVIOUS
<1>3. /\ r(s) \in JobRecords /\ r(s).by = c /\ r(s).status = s.status
      /\ r(s).item = s.item /\ r(s).code = s.code /\ r(s).run = NONE /\ r(s).itemCode = NONE
  BY <1>2 DEF JobRecords, Codes
<1> HIDE DEF r
<1>4. JobOK(r(s)) BY <1>3, <1>2, FlowAssumption DEF JobOK, AgreeOnCode
<1>5. job'[j] = r(s) /\ \A k \in Jobs \ {j} : job'[k] = job[k] BY <1>1 DEF JobsOK
<1>6. JobsOK' BY <1>1, <1>3, <1>4, <1>5 DEF JobsOK
<1> QED BY <1>3, <1>5, <1>6, <1>2, FlowAssumption DEF Terminal, Accepts

(* What the objects may show of a job that has come to a state.            *)
Shows(to) ==
    {d \in [code : {NONE, "DENIAL", "OTHER"}, run : {NONE, "DENIAL", "OTHER"},
            item : {"READY", "RUNNING", "SUCCEEDED", "FAILED", "DENIED", "EXPIRED"},
            itemCode : {NONE, "DENIAL", "OTHER"}] :
        /\ AgreeOnCode(d)
        /\ to = "SUCCEEDED" <=> d.item = "SUCCEEDED"
        /\ to = "DENIED" <=> d.item \in {"DENIED", "EXPIRED"}}

(* A job that has ended does not move, and none changes its caller.        *)
LEMMA VaultMovesKeeps ==
  ASSUME JobsOK, NEW j \in Jobs, NEW from \in {"PENDING", "READY", "RUNNING"},
         NEW to \in {"READY", "RUNNING", "SUCCEEDED", "FAILED", "DENIED"},
         NEW shows \in Shows(to), VaultMoves(j, from, to, shows)
  PROVE  /\ JobsOK'
         /\ \A k \in Jobs : /\ job'[k].by = job[k].by
                            /\ job[k].status # NONE <=> job'[k].status # NONE
                            /\ job[k].status \in Terminal => job'[k] = job[k]
<1>1. job[j] \in JobRecords /\ JobOK(job[j]) /\ job \in [Jobs -> JobRecords] BY DEF JobsOK
<1> DEFINE item == IF job[j].item = NONE THEN NONE ELSE shows.item
           itemCode == IF job[j].item = NONE THEN NONE ELSE shows.itemCode
           r == [by |-> job[j].by, status |-> to, code |-> shows.code, run |-> shows.run,
                 item |-> item, itemCode |-> itemCode, pending |-> job[j].pending]
<1>2. job' = [job EXCEPT ![j] = r] /\ job[j].status = from
  BY <1>1 DEF VaultMoves
<1>3. /\ shows.code \in {NONE, "DENIAL", "OTHER"} /\ shows.run \in {NONE, "DENIAL", "OTHER"}
      /\ shows.itemCode \in {NONE, "DENIAL", "OTHER"}
      /\ shows.item \in {"READY", "RUNNING", "SUCCEEDED", "FAILED", "DENIED", "EXPIRED"}
      /\ AgreeOnCode(shows)
      /\ to = "SUCCEEDED" <=> shows.item = "SUCCEEDED"
      /\ to = "DENIED" <=> shows.item \in {"DENIED", "EXPIRED"}
  BY DEF Shows
<1>4. r \in JobRecords /\ r.by = job[j].by /\ r.status = to
  BY <1>1, <1>3 DEF JobRecords, Terminal, Codes
<1>5. from # NONE /\ to # NONE BY FlowAssumption
<1>6. JobOK(r)
  <2>1. AgreeOnCode(r) BY <1>3 DEF AgreeOnCode
  <2>2. item # NONE => item = shows.item OBVIOUS
  <2> HIDE DEF item, itemCode
  <2> QED BY <1>2, <1>1, <1>4, <1>5, <1>3, <2>1, <2>2 DEF JobOK
<1> HIDE DEF r, item, itemCode
<1>7. job'[j] = r /\ \A k \in Jobs \ {j} : job'[k] = job[k] BY <1>2 DEF JobsOK
<1>8. JobsOK' BY <1>2, <1>4, <1>6, <1>7 DEF JobsOK
<1>9. from \notin Terminal BY DEF Terminal
<1>10. ASSUME NEW k \in Jobs
      PROVE  /\ job'[k].by = job[k].by
             /\ job[k].status # NONE <=> job'[k].status # NONE
             /\ job[k].status \in Terminal => job'[k] = job[k]
  <2>1. CASE k = j BY <2>1, <1>2, <1>4, <1>5, <1>7, <1>9
  <2>2. CASE k # j BY <2>2, <1>7
  <2> QED BY <2>1, <2>2
<1> QED BY <1>8, <1>10

LEMMA DecideKeeps ==
  ASSUME JobsOK, NEW j \in Jobs, Decide(j) \/ Proceed(j)
  PROVE  /\ JobsOK' /\ UNCHANGED <<kind, call, orphans, known, told, missed, faults>>
         /\ \A k \in Jobs : /\ job'[k].by = job[k].by
                            /\ job[k].status # NONE <=> job'[k].status # NONE
                            /\ job[k].status \in Terminal => job'[k] = job[k]
<1>1. PICK from \in {"PENDING", "READY", "RUNNING"},
           to \in {"READY", "RUNNING", "SUCCEEDED", "FAILED", "DENIED"} :
         \E shows \in Shows(to) : VaultMoves(j, from, to, shows)
  <2>1. \A to \in {"READY", "RUNNING", "SUCCEEDED", "FAILED"} : NoCode(to) \in Shows(to)
    BY DEF NoCode, Shows, AgreeOnCode
  <2>2. \A d \in Denials : d \in Shows("DENIED")
    BY FlowAssumption DEF Shows
  <2> QED BY <2>1, <2>2 DEF Decide, Proceed
<1>2. PICK shows \in Shows(to) : VaultMoves(j, from, to, shows) BY <1>1
<1>3. UNCHANGED <<kind, call, orphans, known, told, missed, faults>>
  BY <1>2 DEF VaultMoves
<1> QED BY <1>2, <1>3, VaultMovesKeeps

LEMMA OutcomeType ==
  ASSUME NEW c, NEW s
  PROVE  Outcome(c, s) \in Outcomes /\ JobOutcome(s) \in Outcomes /\ ItemOutcome(s) \in Outcomes
<1>1. RunOutcome(s) \in Outcomes BY DEF RunOutcome, Outcomes
<1>2. JobOutcome(s) \in Outcomes BY DEF JobOutcome, Outcomes
<1>3. ItemOutcome(s) \in Outcomes BY DEF ItemOutcome, Outcomes
<1> QED BY <1>1, <1>2, <1>3 DEF Outcome

LEMMA CallsStep ==
  ASSUME FlowShape, FlowNext
  PROVE  CallsOK'
<1>1. CallsOK /\ JobsOK BY DEF FlowShape
<1>2. \A c \in Callers : /\ call[c] \in CallRecords /\ CallOK(call[c], known[c])
                        /\ known[c] \in SUBSET Jobs
  BY <1>1 DEF CallsOK
<1>3. ASSUME NEW c \in Callers, Execute(c) \/ Preflight(c) \/ Submit(c) PROVE CallsOK'
  <2>1. call[c].pc \in {"preflight", "submit"} => known[c] = {} BY <1>2 DEF CallOK
  <2>2. CASE Execute(c) BY <1>1, <2>2, GoesKeeps DEF Execute
  <2>3. CASE Preflight(c)
    <3>1. UNCHANGED known /\ call[c].pc = "preflight" BY <2>3 DEF Preflight, Goes
    <3> QED BY <1>1, <2>1, <2>3, <3>1, GoesKeeps, AnswersKeeps DEF Preflight
  <2>4. CASE Submit(c)
    <3>1. UNCHANGED known /\ call[c].pc = "submit" BY <2>4 DEF Submit, Goes
    <3> QED BY <1>1, <2>1, <2>4, <3>1, GoesKeeps, AnswersKeeps DEF Submit
  <2> QED BY <1>3, <2>2, <2>3, <2>4
<1>4. ASSUME NEW c \in Callers, PostFails(c) \/ PostReplyCut(c) \/ Abandon(c) PROVE CallsOK'
  BY <1>1, <1>4, AnswersKeeps DEF PostFails, PostReplyCut, Abandon
<1>5. ASSUME NEW c \in Callers, PostReply(c) PROVE CallsOK'
  <2>1. call[c].pc = "posted" /\ call[c].job \in Jobs /\ known[c] = {}
    BY <1>2, <1>5 DEF PostReply, CallRecords, CallOK
  <2>2. \/ AnswersOk(c) /\ GivesHandle(c)
        \/ Goes(c, "posted", "lookup") /\ UNCHANGED known
        \/ Answers(c) /\ GivesHandle(c)
    BY <1>5 DEF PostReply
  <2> QED BY <1>1, <2>1, <2>2, GivesHandleKeeps, GoesKeeps
<1>6. ASSUME NEW c \in Callers, Lookup(c) PROVE CallsOK'
  <2>1. call[c].job \in Jobs BY <1>2, <1>6 DEF Lookup, CallOK
  <2> QED BY <1>1, <1>6, <2>1, GivesHandleKeeps, AnswersKeeps DEF Lookup
<1>7. ASSUME NEW c \in Callers, NEW j \in Jobs, VaultAccept(c, j) PROVE CallsOK'
  <2> DEFINE s == job'[j]
             r == [call[c] EXCEPT !.job = j, !.seen = s]
  <2>1. s \in JobRecords BY <1>1, <1>7, AcceptsKeeps DEF VaultAccept
  <2>2. call' = [call EXCEPT ![c] = r] /\ UNCHANGED known /\ call[c].pc = "posted"
    BY <1>7 DEF VaultAccept
  <2> HIDE DEF s
  <2>3. r \in CallRecords /\ r.pc = "posted" BY <1>2, <2>1, <2>2 DEF CallRecords
  <2>4. CallOK(r, known[c]) BY <1>2, <2>2, <2>3 DEF CallOK
  <2> HIDE DEF r
  <2> QED BY <1>1, <2>2, <2>4, SameHandles, OneCallKeeps
<1>8. ASSUME NEW c \in Callers, NEW j \in Jobs, Wait(c, j) PROVE CallsOK'
  <2> DEFINE r == [call[c] EXCEPT !.pc = "poll", !.job = j, !.polls = 0]
  <2>1. call' = [call EXCEPT ![c] = r] /\ UNCHANGED known BY <1>8 DEF Wait
  <2>2. 0 \in 0 .. MaxPolls /\ 0 < MaxPolls BY FlowAssumption
  <2>3. r \in CallRecords /\ r.pc = "poll" /\ r.job = j /\ r.polls = 0
    BY <1>2, <2>2 DEF CallRecords
  <2>4. CallOK(r, known[c]) BY <2>2, <2>3 DEF CallOK
  <2> HIDE DEF r
  <2> QED BY <1>1, <2>1, <2>4, SameHandles, OneCallKeeps
<1>9. ASSUME NEW c \in Callers, Poll(c) PROVE CallsOK'
  <2>1. call[c].pc = "poll" /\ UNCHANGED known BY <1>9 DEF Poll
  <2>2. CASE call' = [call EXCEPT ![c].pc = "check", ![c].polls = @ + 1]
    <3> DEFINE n == call[c].polls + 1
               r == [call[c] EXCEPT !.pc = "check", !.polls = n]
    <3>1. n \in 0 .. MaxPolls
      <4>1. call[c].polls \in 0 .. MaxPolls /\ call[c].polls < MaxPolls
        BY <1>2, <2>1 DEF CallOK, CallRecords
      <4> QED BY <4>1, FlowAssumption
    <3>2. call' = [call EXCEPT ![c] = r] BY <2>2
    <3> HIDE DEF n
    <3>3. r \in CallRecords /\ r.pc = "check" /\ r.job = call[c].job
      BY <1>2, <3>1 DEF CallRecords
    <3>4. CallOK(r, known[c]) BY <1>2, <2>1, <3>3 DEF CallOK
    <3> HIDE DEF r
    <3> QED BY <1>1, <2>1, <3>2, <3>4, SameHandles, OneCallKeeps
  <2>3. CASE Answers(c) BY <1>1, <2>1, <2>3, AnswersKeeps
  <2> QED BY <1>9, <2>2, <2>3 DEF Poll
<1>10. ASSUME NEW c \in Callers, CheckDeadline(c) PROVE CallsOK'
  <2>1. call[c].pc = "check" /\ UNCHANGED known BY <1>10 DEF CheckDeadline
  <2>2. CASE call[c].polls < MaxPolls /\ call' = [call EXCEPT ![c].pc = "poll"]
    <3> DEFINE r == [call[c] EXCEPT !.pc = "poll"]
    <3>1. call' = [call EXCEPT ![c] = r] BY <2>2
    <3>2. /\ r \in CallRecords /\ r.pc = "poll" /\ r.job = call[c].job
          /\ r.polls = call[c].polls
      BY <1>2 DEF CallRecords
    <3>3. CallOK(r, known[c]) BY <1>2, <2>1, <2>2, <3>2 DEF CallOK
    <3> HIDE DEF r
    <3> QED BY <1>1, <2>1, <3>1, <3>3, SameHandles, OneCallKeeps
  <2>3. CASE Answers(c) BY <1>1, <2>1, <2>3, AnswersKeeps
  <2> QED BY <1>10, <2>2, <2>3 DEF CheckDeadline
<1>11. ASSUME UNCHANGED <<call, known>> PROVE CallsOK'
  BY <1>1, <1>11 DEF CallsOK
<1>12. ASSUME NEW j \in Jobs, Decide(j) \/ Proceed(j) PROVE CallsOK'
  BY <1>1, <1>11, <1>12, DecideKeeps
<1> QED
  BY <1>3, <1>4, <1>5, <1>6, <1>7, <1>8, <1>9, <1>10, <1>11, <1>12
     DEF FlowNext, ServerStep, DropOrphan, VaultAcceptOrphan, Look

LEMMA JobsStep ==
  ASSUME FlowShape, FlowNext
  PROVE  JobsOK'
<1>1. JobsOK BY DEF FlowShape
<1>2. ASSUME UNCHANGED job PROVE JobsOK' BY <1>1, <1>2 DEF JobsOK
<1>3. ASSUME NEW c \in Callers, NEW j \in Jobs, Accepts(c, j) PROVE JobsOK'
  BY <1>1, <1>3, AcceptsKeeps
<1> QED
  BY ZenonT(40), <1>1, <1>2, <1>3, DecideKeeps
     DEF FlowNext, ServerStep, Execute, Preflight, Submit, PostFails, PostReplyCut, PostReply,
         Lookup, Poll, CheckDeadline, Abandon, DropOrphan, VaultAccept, VaultAcceptOrphan,
         Wait, Look

LEMMA RestStep ==
  ASSUME FlowShape, FlowNext
  PROVE  RestOK'
<1> DEFINE Whys == {NONE, "lost", "cut", "lookup", "abandoned"}
<1>1. CallsOK /\ JobsOK /\ RestOK BY DEF FlowShape
<1>2. kind' = kind
  BY ZenonT(40), DecideKeeps, <1>1
     DEF FlowNext, ServerStep, Execute, Preflight, Submit, PostFails, PostReplyCut, PostReply,
         Lookup, Poll, CheckDeadline, Abandon, DropOrphan, VaultAccept, VaultAcceptOrphan,
         Wait, Look
<1>3. orphans' \subseteq Callers
  <2>1. orphans \subseteq Callers BY <1>1 DEF RestOK
  <2>2. \A c \in Callers : orphans \cup {c} \subseteq Callers /\ orphans \ {c} \subseteq Callers
    BY <2>1
  <2>3. ASSUME NEW c \in Callers, PostFails(c) \/ Abandon(c) PROVE orphans' \subseteq Callers
    BY <2>1, <2>2, <2>3 DEF PostFails, Abandon
  <2>4. ASSUME NEW c \in Callers, NEW j \in Jobs, VaultAcceptOrphan(c, j)
        PROVE  orphans' \subseteq Callers
    BY <2>2, <2>4 DEF VaultAcceptOrphan
  <2>5. ASSUME NEW c \in Callers, DropOrphan(c) PROVE orphans' \subseteq Callers
    BY <2>2, <2>5 DEF DropOrphan
  <2> QED
    BY ZenonT(40), <2>1, <2>3, <2>4, <2>5, DecideKeeps, <1>1
       DEF FlowNext, ServerStep, Execute, Preflight, Submit, PostReplyCut, PostReply, Lookup,
           Poll, CheckDeadline, VaultAccept, Wait, Look
<1>4. faults' \in 0 .. MaxFaults
  <2>1. faults \in 0 .. MaxFaults BY <1>1 DEF RestOK
  <2>2. Fault => faults' \in 0 .. MaxFaults BY <2>1, FlowAssumption DEF Fault
  <2>3. UNCHANGED faults => faults' \in 0 .. MaxFaults BY <2>1
  <2>4. UNCHANGED faults \/ Fault
    BY ZenonT(40), DecideKeeps, <1>1
       DEF FlowNext, ServerStep, Execute, Preflight, Submit, PostFails, PostReplyCut, PostReply,
           Lookup, Poll, CheckDeadline, Abandon, DropOrphan, VaultAccept, VaultAcceptOrphan,
           Wait, Look
  <2> QED BY <2>2, <2>3, <2>4
<1>5. missed' \in [Jobs -> Whys]
  <2>1. missed \in [Jobs -> Whys] BY <1>1 DEF RestOK
  <2>2. \A c, why : why \in Whys /\ Misses(c, why) => missed' \in [Jobs -> Whys]
    BY <2>1 DEF Misses
  <2>3. ASSUME NEW c \in Callers, NEW j \in Jobs, VaultAcceptOrphan(c, j)
        PROVE  missed' \in [Jobs -> Whys]
    BY <2>1, <2>3 DEF VaultAcceptOrphan
  <2>4. \/ UNCHANGED missed
        \/ \E c \in Callers, why \in Whys : Misses(c, why)
        \/ \E c \in Callers, j \in Jobs : VaultAcceptOrphan(c, j)
    BY ZenonT(40), DecideKeeps, <1>1
       DEF FlowNext, ServerStep, Execute, Preflight, Submit, PostFails, PostReplyCut, PostReply,
           Lookup, Poll, CheckDeadline, Abandon, DropOrphan, VaultAccept, Wait, Look
  <2> HIDE DEF Whys
  <2> QED BY <2>1, <2>2, <2>3, <2>4
<1>6. told' \in [Callers -> [Jobs -> Outcomes \cup {NONE}]]
  <2>1. told \in [Callers -> [Jobs -> Outcomes \cup {NONE}]] BY <1>1 DEF RestOK
  <2>2. ASSUME NEW c \in Callers, NEW outcome \in Outcomes, NEW j,
               told' = [told EXCEPT ![c][j] = outcome]
        PROVE  told' \in [Callers -> [Jobs -> Outcomes \cup {NONE}]]
    <3> DEFINE row == [told[c] EXCEPT ![j] = outcome]
    <3>1. row \in [Jobs -> Outcomes \cup {NONE}] BY <2>1
    <3>2. told' = [told EXCEPT ![c] = row] BY <2>2
    <3> HIDE DEF row
    <3> QED BY <2>1, <3>1, <3>2
  <2>3. ASSUME NEW c \in Callers, Poll(c), told' # told
        PROVE  \E outcome \in Outcomes : \E j : told' = [told EXCEPT ![c][j] = outcome]
    <3>1. "UNKNOWN" \in Outcomes /\ Outcome(c, job[call[c].job]) \in Outcomes
      BY OutcomeType DEF Outcomes
    <3> QED BY <2>3, <3>1, Zenon DEF Poll, Tells
  <2>4. ASSUME NEW c \in Callers, NEW j \in Jobs, Look(c, j)
        PROVE  \E outcome \in Outcomes : told' = [told EXCEPT ![c][j] = outcome]
    <3>1. /\ Outcome(c, job[j]) \in Outcomes /\ JobOutcome(job[j]) \in Outcomes
          /\ ItemOutcome(job[j]) \in Outcomes
      BY OutcomeType
    <3> QED BY <2>4, <3>1 DEF Look
  <2>5. \/ UNCHANGED told
        \/ \E c \in Callers : Poll(c) \/ \E j \in Jobs : Look(c, j)
    BY ZenonT(40), DecideKeeps, <1>1
       DEF FlowNext, ServerStep, Execute, Preflight, Submit, PostFails, PostReplyCut, PostReply,
           Lookup, CheckDeadline, Abandon, DropOrphan, VaultAccept, VaultAcceptOrphan, Wait
  <2> QED BY <2>1, <2>2, <2>3, <2>4, <2>5
<1> QED BY <1>1, <1>2, <1>3, <1>4, <1>5, <1>6 DEF RestOK

LEMMA FlowStepShape ==
  ASSUME FlowShape, [FlowNext]_flowVars
  PROVE  FlowShape'
<1>1. CASE FlowNext BY <1>1, CallsStep, JobsStep, RestStep DEF FlowShape
<1>2. CASE UNCHANGED flowVars
  BY <1>2 DEF flowVars, FlowShape, CallsOK, JobsOK, RestOK
<1> QED BY <1>1, <1>2

(* The state keeps its type, for any number of callers, jobs and polls.    *)
THEOREM FlowTypeCorrect == FlowSpec => []FlowTypeOK
<1>1. FlowShape /\ [FlowNext]_flowVars => FlowShape' BY FlowStepShape
<1>2. FlowShape => FlowTypeOK BY DEF FlowShape, CallsOK, JobsOK, RestOK, FlowTypeOK
<1> QED BY <1>1, <1>2, FlowInitShape, PTL DEF FlowSpec

-----------------------------------------------------------------------------
(* What callers are told                                                   *)

LEMMA JobsEnd ==
  ASSUME FlowShape, FlowNext
  PROVE  \A j \in Jobs :
            /\ job[j].status \in Terminal => job'[j] = job[j]
            /\ Created(j) => Created(j)' /\ job'[j].by = job[j].by
<1>1. JobsOK BY DEF FlowShape
<1>2. ASSUME UNCHANGED job, NEW j \in Jobs
      PROVE  /\ job[j].status \in Terminal => job'[j] = job[j]
             /\ Created(j) => Created(j)' /\ job'[j].by = job[j].by
  BY <1>2 DEF Created
<1>3. ASSUME NEW c \in Callers, NEW k \in Jobs, Accepts(c, k), NEW j \in Jobs
      PROVE  /\ job[j].status \in Terminal => job'[j] = job[j]
             /\ Created(j) => Created(j)' /\ job'[j].by = job[j].by
  <2>1. ~Created(k) /\ (j # k => job'[j] = job[j]) BY <1>1, <1>3, AcceptsKeeps
  <2>2. job[k].status \notin Terminal BY <2>1, FlowAssumption DEF Created, Terminal
  <2> QED BY <2>1, <2>2 DEF Created
<1>4. ASSUME NEW k \in Jobs, Decide(k) \/ Proceed(k), NEW j \in Jobs
      PROVE  /\ job[j].status \in Terminal => job'[j] = job[j]
             /\ Created(j) => Created(j)' /\ job'[j].by = job[j].by
  BY <1>1, <1>4, DecideKeeps DEF Created
<1>5. \/ UNCHANGED job
      \/ \E c \in Callers, k \in Jobs : Accepts(c, k)
      \/ \E k \in Jobs : Decide(k) \/ Proceed(k)
  BY ZenonT(40) DEF FlowNext, ServerStep, Execute, Preflight, Submit, PostFails, PostReplyCut, PostReply,
         Lookup, Poll, CheckDeadline, Abandon, DropOrphan, VaultAccept, VaultAcceptOrphan,
         Wait, Look
<1> QED BY <1>2, <1>3, <1>4, <1>5

(* A denial that the job and, if there is one, the item show with a code.  *)
Coded(s) == s.code # NONE /\ ~ItemWithoutCode(s)

Denied(s) ==
    /\ s.status = "DENIED"
    /\ "DENIAL" \in {s.code, s.run, s.itemCode} \/ ItemWithoutCode(s)

(* What o says of the end of s, whatever it was read off.                  *)
Reads(s, o) ==
    /\ o = "ALLOW" <=> s.status = "SUCCEEDED"
    /\ o = "DENY" => Denied(s)
    /\ s.status = "DENIED" => o \in {"DENY", "UNKNOWN"}
    /\ s.status = "DENIED" /\ Coded(s) => (o = "DENY" <=> s.code = "DENIAL")

(* The three readings of a job agree on the end it has come to, but for a  *)
(* denial without a code.                                                  *)
LEMMA ReadingsAgree ==
  ASSUME NEW s, JobOK(s), NEW c,
         NEW o \in {Outcome(c, s), JobOutcome(s)}
                   \cup (IF s.item # NONE THEN {ItemOutcome(s)} ELSE {})
  PROVE  Reads(s, o)
<1>1. AgreeOnCode(s) BY DEF JobOK
<1>2. Reads(s, RunOutcome(s))
  <2>1. RunCode(s) \in {s.run, s.code} BY DEF RunCode
  <2>2. s.code # NONE => RunCode(s) = s.code BY <1>1 DEF RunCode, AgreeOnCode
  <2>3. /\ RunOutcome(s) = "ALLOW" <=> s.status = "SUCCEEDED"
        /\ RunOutcome(s) = "DENY" <=> s.status = "DENIED" /\ RunCode(s) = "DENIAL"
        /\ s.status = "DENIED" => RunOutcome(s) \in {"DENY", "UNKNOWN"}
    BY DEF RunOutcome
  <2> QED BY <2>1, <2>2, <2>3 DEF Reads, Denied, Coded
<1>3. Reads(s, JobOutcome(s))
  <2>1. /\ JobOutcome(s) = "ALLOW" <=> s.status = "SUCCEEDED"
        /\ JobOutcome(s) = "DENY" <=> s.status = "DENIED" /\ s.code = "DENIAL"
        /\ s.status = "DENIED" => JobOutcome(s) \in {"DENY", "UNKNOWN"}
    BY DEF JobOutcome
  <2> QED BY <2>1 DEF Reads, Denied, Coded
<1>4. ASSUME s.item # NONE PROVE Reads(s, ItemOutcome(s))
  <2>1. /\ s.status = "SUCCEEDED" <=> s.item = "SUCCEEDED"
        /\ s.status = "DENIED" <=> s.item \in {"DENIED", "EXPIRED"}
    BY <1>4 DEF JobOK
  <2>2. /\ ItemOutcome(s) = "ALLOW" <=> s.item = "SUCCEEDED"
        /\ ItemOutcome(s) = "DENY" <=>
              s.item \in {"DENIED", "EXPIRED"} /\ s.itemCode \in {"DENIAL", NONE}
        /\ s.item \in {"DENIED", "EXPIRED"} => ItemOutcome(s) \in {"DENY", "UNKNOWN"}
    BY DEF ItemOutcome
  <2>3. s.status = "DENIED" /\ Coded(s) => s.itemCode = s.code
    BY <1>1, <2>1 DEF Coded, ItemWithoutCode, AgreeOnCode
  <2> QED BY <2>1, <2>2, <2>3 DEF Reads, Denied, Coded, ItemWithoutCode
<1> QED BY <1>2, <1>3, <1>4 DEF Outcome

(* A step tells one caller of one job, if any, and tells what the job is.  *)
LEMMA TellingStep ==
  ASSUME FlowShape, FlowNext, told' # told
  PROVE  \E c \in Callers, j \in Jobs, o \in Outcomes :
            told' = [told EXCEPT ![c][j] = o] /\ UNCHANGED job /\ Reads(job[j], o)
<1>1. CallsOK /\ JobsOK BY DEF FlowShape
<1>2. ASSUME NEW c \in Callers, Poll(c)
      PROVE  \E j \in Jobs, o \in Outcomes :
                told' = [told EXCEPT ![c][j] = o] /\ UNCHANGED job /\ Reads(job[j], o)
  <2> DEFINE j == call[c].job
             s == job[j]
             o == IF Outcome(c, s) = "PENDING" THEN "UNKNOWN" ELSE Outcome(c, s)
  <2>1. j \in Jobs BY <1>1, <1>2 DEF Poll, CallsOK, CallOK
  <2>2. IsTerminal(s) /\ Tells(c, o) /\ UNCHANGED job
    BY <1>2, Zenon DEF Poll
  <2>3. o \in Outcomes BY OutcomeType DEF Outcomes
  <2>4. JobOK(s) BY <1>1, <2>1 DEF JobsOK
  <2>5. Reads(s, Outcome(c, s)) BY <2>4, ReadingsAgree
  <2>6. Reads(s, o) BY <2>5 DEF Reads
  <2>7. told' = [told EXCEPT ![c][j] = o] BY <2>2 DEF Tells
  <2> HIDE DEF o
  <2> QED BY <2>1, <2>2, <2>3, <2>6, <2>7
<1>3. ASSUME NEW c \in Callers, NEW j \in Jobs, Look(c, j)
      PROVE  \E o \in Outcomes :
                told' = [told EXCEPT ![c][j] = o] /\ UNCHANGED job /\ Reads(job[j], o)
  <2>1. PICK o \in {Outcome(c, job[j]), JobOutcome(job[j])}
                   \cup (IF job[j].item # NONE THEN {ItemOutcome(job[j])} ELSE {}) :
           told' = [told EXCEPT ![c][j] = o]
    BY <1>3 DEF Look
  <2>2. JobOK(job[j]) BY <1>1 DEF JobsOK
  <2>3. o \in Outcomes BY OutcomeType
  <2>4. UNCHANGED job BY <1>3 DEF Look
  <2>5. Reads(job[j], o) BY <2>2, ReadingsAgree
  <2> QED BY <2>1, <2>3, <2>4, <2>5
<1>4. \E c \in Callers : Poll(c) \/ \E j \in Jobs : Look(c, j)
  BY ZenonT(40), DecideKeeps, <1>1
     DEF FlowNext, ServerStep, Execute, Preflight, Submit, PostFails, PostReplyCut, PostReply,
         Lookup, CheckDeadline, Abandon, DropOrphan, VaultAccept, VaultAcceptOrphan, Wait
<1> QED BY <1>2, <1>3, <1>4

(* told[c][j] afterwards, of a job whose end was told before or not.       *)
LEMMA ToldStep ==
  ASSUME FlowShape, ToldIsTrue, FlowNext, NEW c \in Callers, NEW j \in Jobs
  PROVE  /\ told'[c][j] = "ALLOW" => job'[j].status = "SUCCEEDED"
         /\ told'[c][j] = "DENY" => Denied(job'[j])
         /\ told[c][j] \in {"ALLOW", "DENY"} =>
               \/ told'[c][j] = told[c][j]
               \/ /\ told[c][j] = "DENY" /\ told'[c][j] = "UNKNOWN"
                  /\ job[j].code = NONE \/ ItemWithoutCode(job[j])
<1>1. /\ told \in [Callers -> [Jobs -> Outcomes \cup {NONE}]]
      /\ JobOK(job[j])
  BY DEF FlowShape, RestOK, JobsOK
<1>2. job[j].status \in Terminal => job'[j] = job[j] BY JobsEnd
<1>3. /\ told[c][j] = "ALLOW" => job[j].status = "SUCCEEDED"
      /\ told[c][j] = "DENY" => Denied(job[j])
  BY DEF ToldIsTrue, Denied
<1>4. CASE told'[c][j] = told[c][j]
  BY <1>2, <1>3, <1>4 DEF Terminal, Denied
<1>5. CASE told'[c][j] # told[c][j]
  <2>1. told' # told BY <1>5
  <2>2. PICK d \in Callers, k \in Jobs, o \in Outcomes :
           told' = [told EXCEPT ![d][k] = o] /\ UNCHANGED job /\ Reads(job[k], o)
    BY <2>1, TellingStep
  <2>3. d = c /\ k = j /\ told'[c][j] = o BY <1>1, <1>5, <2>2
  <2>4. /\ o = "ALLOW" => job'[j].status = "SUCCEEDED"
        /\ o = "DENY" => Denied(job'[j])
    BY <2>2, <2>3 DEF Reads
  <2>5. told[c][j] # "ALLOW" BY <1>3, <1>5, <2>2, <2>3 DEF Reads
  <2>6. ASSUME told[c][j] = "DENY"
        PROVE  o = "UNKNOWN" /\ (job[j].code = NONE \/ ItemWithoutCode(job[j]))
    <3>1. Denied(job[j]) /\ o = "UNKNOWN" BY <1>3, <1>5, <2>2, <2>3, <2>6 DEF Reads, Denied
    <3>2. Coded(job[j]) => job[j].code = "DENIAL"
      <4>1. AgreeOnCode(job[j]) BY <1>1 DEF JobOK
      <4>2. NONE # "DENIAL" BY FlowAssumption DEF Codes
      <4> QED BY <3>1, <4>1, <4>2 DEF Coded, Denied, AgreeOnCode
    <3>3. ~Coded(job[j]) BY <2>2, <2>3, <3>1, <3>2 DEF Reads, Denied
    <3> QED BY <3>1, <3>3 DEF Coded
  <2> QED BY <2>3, <2>4, <2>5, <2>6
<1> QED BY <1>4, <1>5

ToldInv == FlowShape /\ ToldIsTrue

LEMMA ToldInit == FlowInit => ToldInv
<1>1. FlowInit => FlowShape BY FlowInitShape
<1>2. ASSUME FlowInit PROVE ToldIsTrue
  <2>1. \A c \in Callers, j \in Jobs : told[c][j] = NONE BY <1>2 DEF FlowInit
  <2> QED BY <2>1, FlowAssumption DEF ToldIsTrue
<1> QED BY <1>1, <1>2 DEF ToldInv

LEMMA ToldInvStep ==
  ASSUME ToldInv, [FlowNext]_flowVars
  PROVE  ToldInv'
<1>1. FlowShape' BY FlowStepShape DEF ToldInv
<1>2. CASE FlowNext
  <2>1. FlowShape /\ ToldIsTrue BY DEF ToldInv
  <2>2. \A c \in Callers, j \in Jobs :
           /\ told'[c][j] = "ALLOW" => job'[j].status = "SUCCEEDED"
           /\ told'[c][j] = "DENY" => Denied(job'[j])
    BY <1>2, <2>1, ToldStep
  <2> QED BY <1>1, <2>2 DEF ToldInv, ToldIsTrue, Denied, ItemWithoutCode
<1>3. CASE UNCHANGED flowVars
  <2>1. UNCHANGED <<job, told>> /\ ToldIsTrue BY <1>3 DEF flowVars, ToldInv
  <2> QED BY <1>1, <2>1 DEF ToldInv, ToldIsTrue, ItemWithoutCode
<1> QED BY <1>1, <1>2, <1>3 DEF ToldInv

(* For every number of callers and jobs: a caller told ALLOW has a job     *)
(* that succeeded, and one told DENY a job that was denied, with the code  *)
(* of a decision or with an item that has none, by whichever tool.         *)
THEOREM FlowToldIsTrue == FlowSpec => []ToldIsTrue
<1>1. ToldInv /\ [FlowNext]_flowVars => ToldInv' BY ToldInvStep
<1>2. ToldInv => ToldIsTrue BY DEF ToldInv
<1> QED BY <1>1, <1>2, ToldInit, PTL DEF FlowSpec

(* A verdict once told stands, whichever tool looks again and whenever;    *)
(* but a denial that the job or the item shows without a code may be told  *)
(* as UNKNOWN by another tool, though never as ALLOW.                      *)
THEOREM FlowVerdictIsFinal == FlowSpec => VerdictIsFinal
<1> DEFINE Stands == \A c \in Callers, j \in Jobs :
                        told[c][j] \in {"ALLOW", "DENY"} =>
                           \/ told'[c][j] = told[c][j]
                           \/ /\ told[c][j] = "DENY" /\ told'[c][j] = "UNKNOWN"
                              /\ job[j].code = NONE \/ ItemWithoutCode(job[j])
<1>1. ToldInv /\ [FlowNext]_flowVars => ToldInv' BY ToldInvStep
<1>2. ToldInv /\ [FlowNext]_flowVars => [Stands]_flowVars
  BY ToldStep DEF ToldInv
<1>3. VerdictIsFinal <=> [][Stands]_flowVars BY DEF VerdictIsFinal
<1> HIDE DEF Stands
<1> QED BY <1>1, <1>2, <1>3, ToldInit, PTL DEF FlowSpec

-----------------------------------------------------------------------------
(* What has become of the vault's jobs                                     *)

Accounted(j) ==
    LET c == job[j].by IN
    \/ known[c] = {j}
    \/ call[c].job = j /\ call[c].pc \in {"posted", "lookup"}
    \/ missed[j] # NONE

AccountInv == FlowShape /\ \A j \in Jobs : Created(j) => Accounted(j)

(* Misses only ever grow.                                                  *)
LEMMA MissedStays ==
  ASSUME FlowShape, FlowNext, NEW j \in Jobs, missed[j] # NONE
  PROVE  missed'[j] # NONE
<1> DEFINE Whys == {"lost", "cut", "lookup", "abandoned"}
<1>1. missed \in [Jobs -> Whys \cup {NONE}] /\ CallsOK /\ JobsOK BY DEF FlowShape, RestOK
<1>2. ASSUME NEW c, NEW why \in Whys, Misses(c, why) PROVE missed'[j] # NONE
  BY <1>1, <1>2, FlowAssumption DEF Misses
<1>3. ASSUME NEW c \in Callers, NEW k \in Jobs, VaultAcceptOrphan(c, k)
      PROVE  missed'[j] # NONE
  BY <1>1, <1>3, FlowAssumption DEF VaultAcceptOrphan
<1>4. \/ UNCHANGED missed
      \/ \E c \in Callers, why \in Whys : Misses(c, why)
      \/ \E c \in Callers, k \in Jobs : VaultAcceptOrphan(c, k)
  BY ZenonT(40), DecideKeeps, <1>1
     DEF FlowNext, ServerStep, Execute, Preflight, Submit, PostFails, PostReplyCut, PostReply,
         Lookup, Poll, CheckDeadline, Abandon, DropOrphan, VaultAccept, Wait, Look
<1> QED BY <1>2, <1>3, <1>4

(* A caller that has its handle keeps it, and gets no other.               *)
LEMMA HandlesStay ==
  ASSUME FlowShape, FlowNext, NEW c \in Callers, known[c] # {}
  PROVE  known'[c] = known[c]
<1>1. /\ known \in [Callers -> SUBSET Jobs] /\ JobsOK
      /\ \A d \in Callers : call[d].pc \in {"posted", "lookup"} => known[d] = {}
  BY DEF FlowShape, CallsOK, CallOK
<1>2. ASSUME NEW d \in Callers, GivesHandle(d), call[d].pc \in {"posted", "lookup"}
      PROVE  known'[c] = known[c]
  BY <1>1, <1>2 DEF GivesHandle
<1>3. \/ UNCHANGED known
      \/ \E d \in Callers : GivesHandle(d) /\ call[d].pc \in {"posted", "lookup"}
  BY ZenonT(40), DecideKeeps, <1>1
     DEF FlowNext, ServerStep, Execute, Preflight, Submit, PostFails, PostReplyCut, PostReply,
         Lookup, Poll, CheckDeadline, Abandon, DropOrphan, VaultAccept, VaultAcceptOrphan,
         Wait, Look
<1> QED BY <1>2, <1>3

(* What ends a call whose job is there, before the handle is given.        *)
LEMMA PostedStep ==
  ASSUME FlowShape, FlowNext, NEW c \in Callers, NEW j \in Jobs,
         call[c].job = j, call[c].pc \in {"posted", "lookup"}
  PROVE  \/ call'[c].job = j /\ call'[c].pc \in {"posted", "lookup"}
         \/ known'[c] = {j}
         \/ missed'[j] # NONE
<1>1. /\ call \in [Callers -> CallRecords] /\ known \in [Callers -> SUBSET Jobs] /\ JobsOK
      /\ missed \in [Jobs -> {NONE, "lost", "cut", "lookup", "abandoned"}] /\ known[c] = {}
  BY DEF FlowShape, CallsOK, RestOK, CallOK
<1>2. j # NONE BY FlowAssumption
<1>3. GivesHandle(c) => known'[c] = {j} BY <1>1 DEF GivesHandle
<1>4. \A why \in {"lost", "cut", "lookup", "abandoned"} : Misses(c, why) => missed'[j] # NONE
  BY <1>1, FlowAssumption DEF Misses
<1>5. CASE call'[c] = call[c] BY <1>5
<1>6. CASE PostFails(c) \/ PostReplyCut(c) \/ Lookup(c) \/ Abandon(c)
  BY <1>2, <1>3, <1>4, <1>6 DEF PostFails, PostReplyCut, Lookup, Abandon
<1>7. CASE PostReply(c)
  <2>1. GivesHandle(c) \/ Goes(c, "posted", "lookup") BY <1>7 DEF PostReply
  <2>2. Goes(c, "posted", "lookup") => call'[c].job = j /\ call'[c].pc = "lookup"
    BY <1>1 DEF Goes, CallRecords
  <2> QED BY <1>3, <2>1, <2>2
<1>8. \/ call'[c] = call[c]
      \/ PostFails(c) \/ PostReplyCut(c) \/ PostReply(c) \/ Lookup(c) \/ Abandon(c)
  <2>1. ASSUME NEW d \in Callers \ {c}, NEW r, call' = [call EXCEPT ![d] = r]
        PROVE  call'[c] = call[c]
    BY <1>1, <2>1
  <2>2. ASSUME NEW d \in Callers, d # c, Execute(d) \/ ServerStep(d) \/ Abandon(d)
        PROVE  call'[c] = call[c]
    BY <1>1, <2>2
       DEF Execute, ServerStep, Preflight, Submit, PostFails, PostReplyCut, PostReply, Lookup,
           Poll, CheckDeadline, Abandon, Answers, AnswersOk, Goes
  <2>3. ASSUME NEW d \in Callers, d # c, NEW k \in Jobs, VaultAccept(d, k) \/ Wait(d, k)
        PROVE  call'[c] = call[c]
    BY <1>1, <2>3 DEF VaultAccept, Wait
  <2>4. ~Execute(c) /\ ~Preflight(c) /\ ~Submit(c) /\ ~Poll(c) /\ ~CheckDeadline(c)
        /\ \A k \in Jobs : ~VaultAccept(c, k) /\ ~Wait(c, k)
    BY <1>2 DEF Execute, Preflight, Submit, Poll, CheckDeadline, VaultAccept, Wait, Goes
  <2>5. \/ UNCHANGED call
        \/ \E d \in Callers : \/ Execute(d) \/ ServerStep(d) \/ Abandon(d)
                             \/ \E k \in Jobs : VaultAccept(d, k) \/ Wait(d, k)
    BY DecideKeeps, <1>1 DEF FlowNext, DropOrphan, VaultAcceptOrphan, Look
  <2> QED BY <2>2, <2>3, <2>4, <2>5 DEF ServerStep
<1> QED BY <1>5, <1>6, <1>7, <1>8

LEMMA AccountedStep ==
  ASSUME AccountInv, FlowNext, NEW j \in Jobs, Created(j)'
  PROVE  Accounted(j)'
<1>1. FlowShape /\ JobsOK /\ call \in [Callers -> CallRecords] BY DEF AccountInv, FlowShape, CallsOK
<1>2. CASE missed[j] # NONE BY <1>1, <1>2, MissedStays DEF Accounted
<1>3. CASE missed[j] = NONE /\ Created(j)
  <2> DEFINE c == job[j].by
  <2>1. c \in Callers /\ job'[j].by = c BY <1>1, <1>3, JobsEnd DEF JobsOK, JobOK, Created
  <2>2. Accounted(j) BY <1>3 DEF AccountInv
  <2>3. CASE known[c] = {j}
    <3>1. known'[c] = {j} BY <1>1, <2>1, <2>3, HandlesStay
    <3> QED BY <2>1, <3>1 DEF Accounted
  <2>4. CASE call[c].job = j /\ call[c].pc \in {"posted", "lookup"}
    <3>1. \/ call'[c].job = j /\ call'[c].pc \in {"posted", "lookup"}
          \/ known'[c] = {j}
          \/ missed'[j] # NONE
      BY <1>1, <2>1, <2>4, PostedStep
    <3> QED BY <2>1, <3>1 DEF Accounted
  <2> QED BY <1>3, <2>2, <2>3, <2>4 DEF Accounted
<1>4. CASE ~Created(j)
  <2>1. \E c \in Callers : VaultAccept(c, j) \/ VaultAcceptOrphan(c, j)
    <3>1. job'[j] # job[j] BY <1>4 DEF Created
    <3>2. ASSUME NEW c \in Callers, NEW k \in Jobs, VaultAccept(c, k) \/ VaultAcceptOrphan(c, k)
          PROVE  k = j
      BY <1>1, <3>1, <3>2, AcceptsKeeps DEF VaultAccept, VaultAcceptOrphan
    <3>3. ASSUME NEW k \in Jobs, Decide(k) \/ Proceed(k) PROVE FALSE
      BY <1>1, <1>4, <3>3, DecideKeeps DEF Created
    <3>4. \/ UNCHANGED job
          \/ \E c \in Callers, k \in Jobs : VaultAccept(c, k) \/ VaultAcceptOrphan(c, k)
          \/ \E k \in Jobs : Decide(k) \/ Proceed(k)
      BY DEF FlowNext, ServerStep, Execute, Preflight, Submit, PostFails, PostReplyCut,
             PostReply, Lookup, Poll, CheckDeadline, Abandon, DropOrphan, Wait, Look
    <3> QED BY <3>1, <3>2, <3>3, <3>4
  <2>2. PICK c \in Callers : VaultAccept(c, j) \/ VaultAcceptOrphan(c, j) BY <2>1
  <2>3. job'[j].by = c BY <1>1, <2>2, AcceptsKeeps DEF VaultAccept, VaultAcceptOrphan
  <2>4. CASE VaultAccept(c, j)
    <3>1. /\ call[c].pc = "posted"
          /\ call' = [call EXCEPT ![c] = [call[c] EXCEPT !.job = j, !.seen = job'[j]]]
      BY <2>4 DEF VaultAccept
    <3>2. call'[c].job = j /\ call'[c].pc = "posted" BY <1>1, <3>1 DEF CallRecords
    <3> QED BY <2>3, <3>2 DEF Accounted
  <2>5. CASE VaultAcceptOrphan(c, j)
    <3>1. missed'[j] = "abandoned" BY <2>5, <1>1 DEF VaultAcceptOrphan, FlowShape, RestOK
    <3>2. missed'[j] # NONE BY <3>1, FlowAssumption
    <3> QED BY <3>2 DEF Accounted
  <2> QED BY <2>2, <2>4, <2>5
<1> QED BY <1>2, <1>3, <1>4

LEMMA AccountMeans == AccountInv => JobsAccountedFor
<1> SUFFICES ASSUME AccountInv, NEW j \in Jobs, Created(j)
             PROVE  /\ Accounted(j)
                    /\ \A k \in Jobs \ {j} :
                          job[k].by = job[j].by => missed[j] # NONE \/ missed[k] # NONE
  BY DEF JobsAccountedFor, Accounted
<1>1. Accounted(j) BY DEF AccountInv
<1>2. job[j].by \in Callers BY DEF AccountInv, FlowShape, JobsOK, JobOK, Created
<1>3. ASSUME NEW k \in Jobs \ {j}, job[k].by = job[j].by
      PROVE  missed[j] # NONE \/ missed[k] # NONE
  <2>1. Created(k)
    <3>1. job[k].by # NONE BY <1>2, <1>3, FlowAssumption
    <3> QED BY <3>1 DEF AccountInv, FlowShape, JobsOK, JobOK, Created
  <2>2. Accounted(k) BY <2>1 DEF AccountInv
  <2>3. \A c \in Callers : call[c].pc \in {"posted", "lookup"} => known[c] = {}
    BY DEF AccountInv, FlowShape, CallsOK, CallOK
  <2> QED BY <1>1, <1>2, <1>3, <2>2, <2>3 DEF Accounted
<1> QED BY <1>1, <1>3

(* However calls are cut off, refused or repeated: the vault has no job    *)
(* whose caller neither has the handle nor lost it for a cause that is     *)
(* named, so no request is executed twice without such a cause.            *)
THEOREM FlowJobsAccountedFor == FlowSpec => []JobsAccountedFor
<1>1. FlowInit => AccountInv
  <2>1. ASSUME FlowInit, NEW j \in Jobs PROVE ~Created(j) BY <2>1 DEF FlowInit, NoJob, Created
  <2> QED BY <2>1, FlowInitShape DEF AccountInv
<1>2. AccountInv /\ [FlowNext]_flowVars => AccountInv'
  <2> SUFFICES ASSUME AccountInv, [FlowNext]_flowVars PROVE AccountInv' OBVIOUS
  <2>1. FlowShape' BY FlowStepShape DEF AccountInv
  <2>2. CASE FlowNext BY <2>1, <2>2, AccountedStep DEF AccountInv
  <2>3. CASE UNCHANGED flowVars
    <3>1. UNCHANGED <<job, call, known, missed>> BY <2>3 DEF flowVars
    <3> QED BY <2>1, <3>1 DEF AccountInv, Created, Accounted
  <2> QED BY <2>2, <2>3
<1> QED BY <1>1, <1>2, AccountMeans, PTL DEF FlowSpec
=============================================================================
