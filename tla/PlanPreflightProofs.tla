------------------------ MODULE PlanPreflightProofs ------------------------
(***************************************************************************)
(* What holds, for every number of calls, plans, profiles, writes of other *)
(* clients and failures: of the profiles BuildMinimalProfile makes; of the *)
(* calls that may not create one; and, from the invariant PreflightInv,    *)
(* of what the vault holds for a plan that is submitted.                   *)
(***************************************************************************)
EXTENDS PlanPreflight, FiniteSetTheorems, WellFoundedInduction, TLAPS

(***************************************************************************)
(* A created profile misses none of the requirements it was built from:    *)
(* ResolveUnboundedProfile returns it without looking at its match.        *)
(***************************************************************************)
THEOREM MinimalProfileCovers ==
    ASSUME NEW reqs
    PROVE  Missing(BuildMinimalProfile(reqs), reqs) = {}
<1> DEFINE slots == BuildMinimalProfile(reqs)
<1>1. ASSUME NEW r \in Range(reqs)
      PROVE  r.slot \in DOMAIN slots /\ Meets(slots[r.slot], r)
  <2> DEFINE mine == {q \in Range(reqs) : q.slot = r.slot}
             slot == [intents |-> {q.intent : q \in mine} \ {0},
                      types   |-> UNION {q.types : q \in mine},
                      modes   |-> {q.mode : q \in mine},
                      targets |-> {q.target : q \in mine}]
  <2>1. r \in mine
    OBVIOUS
  <2>2. r.slot \in DOMAIN slots /\ slots[r.slot] = slot
    BY Zenon DEF BuildMinimalProfile
  <2>3. r.intent # 0 => ContainsName(slot.intents, r.intent)
    BY <2>1 DEF ContainsName
  <2>4. r.types # {} => Overlap(r.types, slot.types)
    <3>1. ASSUME NEW t \in r.types PROVE ContainsName(slot.types, t)
      BY <2>1, <3>1 DEF ContainsName
    <3> QED BY <3>1 DEF Overlap
  <2>5. ContainsName(slot.modes, r.mode) /\ ContainsName(slot.targets, r.target)
    BY <2>1 DEF ContainsName
  <2>6. Meets(slot, r)
    BY <2>3, <2>4, <2>5 DEF Meets
  <2> QED BY <2>2, <2>6
<1> QED BY <1>1 DEF Missing

(***************************************************************************)
(* No profile that covers the same requirements allows less: whatever a    *)
(* slot of the created profile allows, a covering profile that restricts   *)
(* that slot allows too (README, "Auto-create minimal constrained          *)
(* profile").                                                              *)
(***************************************************************************)
THEOREM MinimalProfileIsLeast ==
    ASSUME NEW reqs, NEW p, Missing(p, reqs) = {},
           NEW s \in DOMAIN BuildMinimalProfile(reqs)
    PROVE  LET slot == BuildMinimalProfile(reqs)[s]
           IN  /\ s \in DOMAIN p
               /\ p[s].modes # {} => \A n \in slot.modes : ContainsName(p[s].modes, n)
               /\ p[s].targets # {} => \A n \in slot.targets : ContainsName(p[s].targets, n)
               /\ p[s].intents # {} => \A n \in slot.intents : ContainsName(p[s].intents, n)
<1> DEFINE mine == {q \in Range(reqs) : q.slot = s}
           slot == [intents |-> {q.intent : q \in mine} \ {0},
                    types   |-> UNION {q.types : q \in mine},
                    modes   |-> {q.mode : q \in mine},
                    targets |-> {q.target : q \in mine}]
<1>1. s \in {q.slot : q \in Range(reqs)} /\ BuildMinimalProfile(reqs)[s] = slot
  BY Zenon DEF BuildMinimalProfile
<1>2. \A q \in mine : s \in DOMAIN p /\ Meets(p[s], q)
  BY DEF Missing
<1>3. s \in DOMAIN p
  BY <1>1, <1>2
<1>4. p[s].modes # {} => \A n \in slot.modes : ContainsName(p[s].modes, n)
  BY <1>2 DEF Meets
<1>5. p[s].targets # {} => \A n \in slot.targets : ContainsName(p[s].targets, n)
  BY <1>2 DEF Meets
<1>6. p[s].intents # {} => \A n \in slot.intents : ContainsName(p[s].intents, n)
  BY <1>2 DEF Meets
<1> QED BY <1>1, <1>3, <1>4, <1>5, <1>6

-----------------------------------------------------------------------------
(***************************************************************************)
(* Leave to create.  The inductive invariant says what a call carries: a   *)
(* record of the fields of Idle, that reaches the upsert only when it may  *)
(* create, and that may not when it is a preview.                          *)
(***************************************************************************)
IsCall(r) ==
    r \in [pc : {r.pc}, tool : {r.tool}, auto : {r.auto}, orchestrate : {r.orchestrate},
            plan : {r.plan}, at : {r.at}, reqs : {r.reqs}, rows : {r.rows}, read : {r.read},
            out : {r.out}, result : {r.result}, unseen : {r.unseen},
            changed : {r.changed}, moved : {r.moved}]

HasLeave(r) ==
    /\ IsCall(r)
    /\ r.pc = "upsert" => r.auto
    /\ r.tool = "preview" => ~r.auto

Leave ==
    /\ call = [c \in Callers |-> call[c]]
    /\ \A c \in Callers : HasLeave(call[c])

\* The records that end a call or a step carry what the call carried.
LEMMA EndedKeepsLeave ==
    ASSUME NEW r, HasLeave(r), NEW result
    PROVE  HasLeave(Ended(r, result))
BY DEF HasLeave, IsCall, Ended

LEMMA AdvancedKeepsLeave ==
    ASSUME NEW c, HasLeave(call[c]), NEW status, NEW id
    PROVE  HasLeave(Advanced(c, status, id))
<1> DEFINE entry == Append(call[c].out, [step |-> call[c].at, status |-> status, id |-> id])
<1> SUFFICES \A o : HasLeave([call[c] EXCEPT !.pc = "step", !.at = @ + 1, !.read = {}, !.out = o])
  BY Zenon DEF Advanced
<1> QED BY DEF HasLeave, IsCall

LEMMA GivenUpKeepsLeave ==
    ASSUME NEW c, HasLeave(call[c]), NEW status
    PROVE  HasLeave(GivenUp(c, status))
<1>1. HasLeave(Ended(call[c], "error"))
  BY EndedKeepsLeave
<1>2. HasLeave(Advanced(c, status, NoId))
  BY AdvancedKeepsLeave
<1> QED BY <1>1, <1>2, Zenon DEF GivenUp

\* Replacing the record of one call keeps the invariant; so does noticing a write.
LEMMA GoesKeepsLeave ==
    ASSUME Leave, NEW c \in Callers, NEW new, HasLeave(new), Goes(c, new)
    PROVE  Leave'
BY DEF Leave, Goes

LEMMA NoticingKeepsLeave ==
    ASSUME NEW calls, NEW id, \A c \in Callers : HasLeave(calls[c]), call' = Noticing(calls, id)
    PROVE  Leave'
<1>1. \A c \in Callers : HasLeave(Noticing(calls, id)[c])
  <2> TAKE c \in Callers
  <2>1. HasLeave([calls[c] EXCEPT !.changed = @ \cup {id}, !.moved = @ \cup {id}])
    BY DEF HasLeave, IsCall
  <2> QED BY <2>1 DEF Noticing
<1>2. Noticing(calls, id) = [c \in Callers |-> Noticing(calls, id)[c]]
  BY DEF Noticing
<1> QED BY <1>1, <1>2 DEF Leave

LEMMA InitHasLeave == ASSUME Init PROVE Leave
BY DEF Init, Leave, HasLeave, IsCall, Idle

\* One step per action; what an action writes into a record is named `new'.
LEMMA BeginKeepsLeave == ASSUME Leave, NEW c \in Callers, Begin(c) PROVE Leave'
<1>1. PICK q \in Requests[c] :
        LET resolving == q.tool = "resolve"
            reqs == IF resolving THEN NormalizeRequirements(q.plan[1].attached) ELSE << >>
            new == [call[c] EXCEPT !.tool = q.tool, !.plan = q.plan, !.reqs = reqs,
                                   !.auto = MayCreate(q.tool, q.wanted),
                                   !.orchestrate = q.orchestrate]
        IN  /\ call[c].pc = "idle"
            /\ \/ Goes(c, [new EXCEPT !.pc = "submit"])
               \/ Goes(c, [new EXCEPT !.pc = "step"])
               \/ Goes(c, [new EXCEPT !.pc = "list"])
               \/ Goes(c, Ended(new, "error"))
  BY Zenon DEF Begin
<1> DEFINE reqs == IF q.tool = "resolve" THEN NormalizeRequirements(q.plan[1].attached) ELSE << >>
           new == [call[c] EXCEPT !.tool = q.tool, !.plan = q.plan, !.reqs = reqs,
                                  !.auto = MayCreate(q.tool, q.wanted),
                                  !.orchestrate = q.orchestrate]
<1>2. HasLeave(call[c])
  BY DEF Leave
<1>3. MayCreate(q.tool, q.wanted) => q.tool # "preview"
  BY DEF MayCreate
<1>4. HasLeave(new)
  <2> HIDE DEF reqs
  <2>1. \A may : (q.tool = "preview" => ~may) =>
          HasLeave([call[c] EXCEPT !.tool = q.tool, !.plan = q.plan, !.reqs = reqs,
                                   !.auto = may, !.orchestrate = q.orchestrate])
    BY <1>1, <1>2 DEF HasLeave, IsCall
  <2> QED BY <1>3, <2>1
<1> HIDE DEF new
<1>5. \A pc \in {"submit", "step", "list"} : HasLeave([new EXCEPT !.pc = pc])
  BY <1>4 DEF HasLeave, IsCall
<1>6. HasLeave(Ended(new, "error"))
  BY <1>4, EndedKeepsLeave
<1>7. \E next : HasLeave(next) /\ Goes(c, next)
  BY <1>1, <1>5, <1>6 DEF new
<1> QED BY <1>7, GoesKeepsLeave

LEMMA CallerStepKeepsLeave == ASSUME Leave, NEW c \in Callers, CallerStep(c) PROVE Leave'
<1>1. HasLeave(call[c])
  BY DEF Leave
<1>2. \A status, id : HasLeave(Advanced(c, status, id))
  BY <1>1, AdvancedKeepsLeave
<1>3. \A status : HasLeave(GivenUp(c, status))
  BY <1>1, GivenUpKeepsLeave
<1>4. \A result : HasLeave(Ended(call[c], result))
  BY <1>1, EndedKeepsLeave
<1>5. ASSUME NEW new, HasLeave(new), Goes(c, new) PROVE Leave'
  BY <1>5, GoesKeepsLeave
<1>6. CASE PassStep(c)
  <2>1. HasLeave([call[c] EXCEPT !.at = @ + 1])
    BY <1>1 DEF HasLeave, IsCall
  <2> QED BY <1>5, <1>6, <2>1 DEF PassStep
<1>7. CASE KeepStep(c)
  BY <1>2, <1>5, <1>7, Zenon DEF KeepStep
<1>8. CASE GiveUpStep(c)
  BY <1>3, <1>5, <1>8, Zenon DEF GiveUpStep
<1>9. CASE NeedProfile(c)
  <2>1. \A reqs : HasLeave([call[c] EXCEPT !.pc = "list", !.reqs = reqs])
    BY <1>1 DEF HasLeave, IsCall
  <2> QED BY <1>5, <1>9, <2>1, Zenon DEF NeedProfile
<1>10. CASE ListProfiles(c)
  <2> DEFINE new == [call[c] EXCEPT !.pc = "fetch", !.read = {}, !.changed = {}]
  <2>1. \A rows, unseen : HasLeave([new EXCEPT !.rows = rows, !.unseen = unseen])
    BY ZenonT(40), <1>1 DEF HasLeave, IsCall
  <2> QED BY <1>3, <1>5, <1>10, <2>1, Zenon DEF ListProfiles
<1>11. CASE FetchProfile(c)
  <2>1. PICK id \in call[c].rows :
          \/ Goes(c, [[call[c] EXCEPT !.rows = @ \ {id}]
                        EXCEPT !.read = @ \cup {[id |-> id, slots |-> profiles[id]]}])
          \/ Goes(c, [[call[c] EXCEPT !.rows = @ \ {id}] EXCEPT !.unseen = @ \cup {id}])
    BY <1>11, Zenon DEF FetchProfile
  <2>2. HasLeave([call[c] EXCEPT !.rows = @ \ {id}])
    BY <1>1 DEF HasLeave, IsCall
  <2>3. \A r, x : HasLeave(r) => /\ HasLeave([r EXCEPT !.read = @ \cup {x}])
                                /\ HasLeave([r EXCEPT !.unseen = @ \cup {x}])
    BY DEF HasLeave, IsCall
  <2> QED BY <1>5, <2>1, <2>2, <2>3, Zenon
<1>12. CASE Decide(c)
  <2>1. call[c].auto => HasLeave([call[c] EXCEPT !.pc = "upsert"])
    BY <1>1 DEF HasLeave, IsCall
  <2> QED BY <1>2, <1>3, <1>5, <1>12, <2>1, Zenon DEF Decide
<1>13. CASE UpsertProfile(c)
  <2> DEFINE id == AutoId(call[c].reqs)
             back == [call[c] EXCEPT !.pc = "fetchback"]
  <2>1. HasLeave(back)
    BY <1>1 DEF HasLeave, IsCall
  <2>2. \E new : HasLeave(new) /\ (Goes(c, new) \/ call' = Noticing([call EXCEPT ![c] = new], id))
    BY <1>3, <1>13, <2>1, Zenon DEF UpsertProfile
  <2>3. PICK new : HasLeave(new) /\ (Goes(c, new) \/ call' = Noticing([call EXCEPT ![c] = new], id))
    BY <2>2
  <2>4. \A d \in Callers : HasLeave([call EXCEPT ![c] = new][d])
    BY <2>3 DEF Leave
  <2> QED BY <1>5, <2>3, <2>4, NoticingKeepsLeave
<1>14. CASE FetchBack(c)
  BY <1>2, <1>5, <1>14, Zenon DEF FetchBack
<1>15. CASE Finish(c)
  <2>1. HasLeave([call[c] EXCEPT !.pc = "submit"])
    BY <1>1 DEF HasLeave, IsCall
  <2> QED BY <1>4, <1>5, <1>15, <2>1, Zenon DEF Finish
<1>16. CASE Submit(c)
  BY <1>4, <1>5, <1>16, Zenon DEF Submit
<1> QED BY <1>6, <1>7, <1>8, <1>9, <1>10, <1>11, <1>12, <1>13, <1>14, <1>15, <1>16 DEF CallerStep

LEMMA NextKeepsLeave == ASSUME Leave, [Next]_vars PROVE Leave'
<1>1. CASE OtherUpsert
  BY <1>1, NoticingKeepsLeave DEF OtherUpsert, Leave
<1>2. CASE UNCHANGED vars
  BY <1>2 DEF Leave, HasLeave, IsCall, vars
<1> QED BY <1>1, <1>2, BeginKeepsLeave, CallerStepKeepsLeave DEF Next, AllDone

(***************************************************************************)
(* Who writes: only another client and a call that may create, and neither *)
(* moves a call on that may not.                                           *)
(***************************************************************************)
LEMMA OnlyLeaveWrites ==
    ASSUME Leave, Next, profiles' # profiles,
           NEW c \in Callers, ~call[c].auto \/ call[c].tool = "preview"
    PROVE  call'[c].pc = call[c].pc /\ call'[c].at = call[c].at
<1>1. ~call[c].auto /\ HasLeave(call[c])
  BY DEF Leave, HasLeave
<1>2. ASSUME NEW calls, NEW id, IsCall(calls[c]), calls[c] = call[c], call' = Noticing(calls, id)
      PROVE  call'[c].pc = call[c].pc /\ call'[c].at = call[c].at
  BY <1>2 DEF Noticing, IsCall
<1>3. CASE OtherUpsert
  BY <1>1, <1>2, <1>3 DEF OtherUpsert, HasLeave
<1>4. ASSUME NEW d \in Callers, UpsertProfile(d)
      PROVE  call'[c].pc = call[c].pc /\ call'[c].at = call[c].at
  <2>1. call[d].pc = "upsert"
    BY <1>4, Zenon DEF UpsertProfile
  <2>2. c # d
    BY <1>1, <2>1 DEF HasLeave
  <2>3. \E new : \/ Goes(d, new) /\ profiles' = profiles
                 \/ call' = Noticing([call EXCEPT ![d] = new], AutoId(call[d].reqs))
    BY <1>4, Zenon DEF UpsertProfile
  <2>4. \A new : [call EXCEPT ![d] = new][c] = call[c]
    BY <2>2 DEF Leave
  <2> QED BY <1>1, <1>2, <2>3, <2>4 DEF HasLeave
<1>5. ASSUME NEW d \in Callers, Begin(d) \/ CallerStep(d) PROVE UpsertProfile(d)
  BY <1>5, Zenon DEF Begin, CallerStep, PassStep, KeepStep, GiveUpStep, NeedProfile, ListProfiles,
     FetchProfile, Decide, FetchBack, Finish, Submit, Local, VaultSame
<1> QED BY <1>3, <1>4, <1>5 DEF Next, AllDone, vars

\* A preview, and a call that was not allowed to create profiles, writes nothing to the vault.
THEOREM PreflightNoWriteWithoutLeave == Spec => NoWriteWithoutLeave
<1>1. Leave /\ [Next]_vars =>
        [\A c \in Callers : (~call[c].auto \/ call[c].tool = "preview") /\ profiles' # profiles
            => call'[c].pc = call[c].pc /\ call'[c].at = call[c].at]_vars
  BY OnlyLeaveWrites
<1>2. Spec => []Leave
  BY InitHasLeave, NextKeepsLeave, PTL DEF Spec
<1> QED BY <1>1, <1>2, PTL DEF Spec, NoWriteWithoutLeave

-----------------------------------------------------------------------------
(***************************************************************************)
(* The invariant behind StepsAreCovered and ChoiceFitsVault.  RecordOK     *)
(* says what the record r of a call holds while the vault has the profiles *)
(* p and the keys k.                                                       *)
(***************************************************************************)
PCs == {"idle", "step", "list", "fetch", "upsert", "fetchback", "submit", "done"}
Resolving == {"list", "fetch", "upsert", "fetchback"}

Asked(c, r) ==
    \E q \in Requests[c] : r.tool = q.tool /\ r.plan = q.plan /\ r.orchestrate = q.orchestrate

NeedsOf(r, i) == NormalizeRequirements(r.plan[i].attached)
Meeting(p, id, reqs) == id \in DOMAIN p /\ Missing(p[id], reqs) = {}
EntryOf(p, id) == [id |-> id, slots |-> p[id]]

\* The profiles that a call can have judged: it has read them, and nobody has written them since.
Known(r, p) == DOMAIN p \ (r.unseen \cup r.changed)

RecordType(c, r, p) ==
    /\ IsCall(r)
    /\ r.pc \in PCs /\ r.tool \in Tools /\ r.result \in {"none", "ok", "error"}
    /\ r.at \in Nat \ {0} /\ r.out \in Seq(Resolution)
    /\ r.rows \subseteq DOMAIN p /\ r.changed \subseteq r.moved
    /\ r.pc = "idle" => r.at = 1 /\ r.out = << >> /\ r.rows = {}
    /\ r.pc # "idle" => Asked(c, r)
    /\ \A x \in Range(r.out) : x.step < r.at

\* What a call looks for, while it does.
Purpose(r) ==
    /\ r.pc \in Resolving =>
          /\ r.at \in DOMAIN r.plan /\ r.reqs = NeedsOf(r, r.at) /\ r.reqs # << >>
          /\ r.tool # "resolve" => r.plan[r.at].http /\ StepOutcome(r.plan[r.at]) = "NEEDS"
    /\ r.pc = "step" /\ r.tool = "resolve" => r.at > Len(r.plan)

\* What it has read, and what it has concluded from that.
Reading(r, p, k) ==
    /\ r.pc = "fetch" =>
          /\ \A x \in r.read : x.id \in DOMAIN p /\ (x.id \in r.changed \/ x = EntryOf(p, x.id))
          /\ \A id \in Known(r, p) \ r.rows : EntryOf(p, id) \in r.read
    /\ r.pc = "upsert" => \A id \in Known(r, p) : ~Meeting(p, id, r.reqs)
    /\ r.pc = "fetchback" => AutoId(r.reqs) \in k
    /\ r.pc = "step" => \A x \in Range(r.out) :
          /\ x.step = r.at - 1 /\ x.status = "RESOLVED" /\ r.tool # "resolve"
          /\ StepOutcome(r.plan[x.step]) = "NEEDS" /\ x.id \notin r.changed
          => /\ x.id \in DOMAIN p
             /\ \A id \in Known(r, p) : Meeting(p, id, r.reqs)
                  => Outranks(EntryOf(p, x.id), EntryOf(p, id), r.reqs)

\* What the resolutions it has noted still mean.
Served(r, i, x, p) ==
    /\ x.step = i /\ x.status \in {"RESOLVED", "CREATED"}
    /\ \/ r.tool # "resolve" /\ StepOutcome(r.plan[i]) \in {"NAMED", "PLAIN"}
       \/ x.status = "CREATED"
       \/ x.id \in r.moved \/ Meeting(p, x.id, NeedsOf(r, i))

Noted(r, p, k) ==
    /\ \A x \in Range(r.out) : x.status = "CREATED" /\ x.id # NoId =>
          /\ x.step \in DOMAIN r.plan /\ NeedsOf(r, x.step) # << >>
          /\ x.id = AutoId(NeedsOf(r, x.step)) /\ x.id \in k
    /\ r.tool # "preview" /\ r.orchestrate /\ r.pc \notin {"idle", "done"} =>
          \A i \in DOMAIN r.plan : i < r.at /\ r.plan[i].http =>
              \E x \in Range(r.out) : Served(r, i, x, p)

RecordOK(c, r, p, k) == RecordType(c, r, p) /\ Purpose(r) /\ Reading(r, p, k) /\ Noted(r, p, k)

\* A profile made for a list still covers it, unless another client wrote it.
VaultOK ==
    /\ DOMAIN profiles \subseteq Nat \ {NoId}
    /\ keys \cup edited \subseteq DOMAIN profiles
    /\ writes \in 0..MaxWrites /\ faults \in 0..MaxFaults
    /\ \A l \in Lists : AutoId(l) \in keys \ edited => Missing(profiles[AutoId(l)], l) = {}

PreflightInv ==
    /\ VaultOK
    /\ call = [c \in Callers |-> call[c]]
    /\ \A c \in Callers : RecordOK(c, call[c], profiles, keys)

-----------------------------------------------------------------------------
(***************************************************************************)
(* Numbers: a least and, if there is a bound, a greatest.                  *)
(***************************************************************************)
\* A set of natural numbers has a least element, by well-foundedness.
LEMMA LeastExists ==
  ASSUME NEW S \in SUBSET Nat, S # {}
  PROVE  \E m \in S : \A n \in S : m <= n
<1> DEFINE R == {ss \in Nat \X Nat : ss[1] < ss[2]}
<1>1. IsWellFoundedOn(R, Nat)
  BY NatLessThanWellFounded DEF OpToRel
<1>2. \A n, m \in S : n < m => <<n, m>> \in R
  OBVIOUS
<1> HIDE DEF R
<1>3. PICK m \in S : \A n \in S : <<n, m>> \notin R
  BY <1>1, WFMin
<1>4. \A n \in S : m \in Nat /\ n \in Nat /\ ~(n < m)
  BY <1>2, <1>3
<1> QED BY <1>4

LEMMA GreatestExists ==
  ASSUME NEW S \in SUBSET Nat, S # {}, NEW bound \in Nat, \A n \in S : n <= bound
  PROVE  \E m \in S : \A n \in S : n <= m
<1> DEFINE gaps == {bound - n : n \in S}
<1>1. gaps \in SUBSET Nat /\ gaps # {}
  <2>1. \A n \in S : n \in Nat /\ n <= bound
    OBVIOUS
  <2>2. \A n \in S : bound - n \in Nat
    BY <2>1
  <2>3. \A g \in gaps : g \in Nat
    BY <2>2
  <2>4. gaps # {}
    OBVIOUS
  <2> HIDE DEF gaps
  <2> QED BY <2>3, <2>4
<1>2. PICK g \in gaps : \A h \in gaps : g <= h
  BY <1>1, LeastExists
<1>3. PICK m \in S : g = bound - m
  BY <1>2
<1>4. ASSUME NEW n \in S PROVE n <= m
  <2>1. g <= bound - n /\ n \in Nat /\ m \in Nat
    BY <1>2
  <2> QED BY <1>3, <2>1
<1> QED BY <1>4

(***************************************************************************)
(* A normalised list is a list, and is empty only if no requirement is     *)
(* complete.                                                               *)
(***************************************************************************)
IsList(l) == \E n \in Nat : DOMAIN l = 1..n /\ Len(l) = n

LEMMA NormalizedList ==
  ASSUME NEW reqs \in Seq(Requirement)
  PROVE  /\ IsList(NormalizeRequirements(reqs))
         /\ \A i \in DOMAIN reqs : Complete(reqs[i]) => NormalizeRequirements(reqs) # << >>
<1> DEFINE kept == {i \in DOMAIN reqs : Complete(reqs[i])}
           n == Cardinality(kept)
<1>1. IsFiniteSet(kept) /\ n \in Nat /\ (kept # {} => n # 0)
  <2>1. DOMAIN reqs = 1..Len(reqs) /\ Len(reqs) \in Nat
    OBVIOUS
  <2>2. IsFiniteSet(1..Len(reqs))
    BY <2>1, FS_Interval
  <2> QED BY <2>1, <2>2, FS_Subset, FS_CardinalityType, FS_EmptySet
<1> DEFINE clean(i) == [reqs[i] EXCEPT !.types = @ \ {0}]
           precedes(i, j) == \/ Less(reqs[i], reqs[j])
                             \/ i < j /\ ~Less(reqs[j], reqs[i])
           rank(i) == 1 + Cardinality({j \in kept : precedes(j, i)})
           at(k) == clean(CHOOSE i \in kept : rank(i) = k)
<1>2. NormalizeRequirements(reqs) = [k \in 1..n |-> at(k)]
  BY Zenon DEF NormalizeRequirements
<1> HIDE DEF at
<1> HIDE DEF n
<1>4. DOMAIN NormalizeRequirements(reqs) = 1..n /\ Len(NormalizeRequirements(reqs)) = n
  BY <1>1, <1>2
<1>5. n # 0 => NormalizeRequirements(reqs) # << >>
  BY <1>1, <1>4
<1> QED BY <1>1, <1>4, <1>5 DEF IsList

(***************************************************************************)
(* Among profiles that fit there is a best one: scores are bounded, and    *)
(* ids decide between equal scores.                                        *)
(***************************************************************************)
LEMMA ScoreBound ==
  ASSUME NEW reqs, IsList(reqs), NEW slots
  PROVE  Score(slots, reqs) \in 0..(5 * Len(reqs))
<1> DEFINE intents == {i \in DOMAIN reqs : reqs[i].intent # 0}
           types == {i \in DOMAIN reqs : reqs[i].types # {} /\ slots[reqs[i].slot].types # {}}
<1>1. Len(reqs) \in Nat /\ DOMAIN reqs = 1..Len(reqs)
  BY DEF IsList
<1>2. IsFiniteSet(DOMAIN reqs) /\ Cardinality(DOMAIN reqs) = Len(reqs)
  <2>1. \A n \in Nat : IsFiniteSet(1..n) /\ Cardinality(1..n) = n
    BY FS_Interval
  <2> QED BY <1>1, <2>1
<1>3. /\ Cardinality(intents) \in Nat /\ Cardinality(intents) <= Len(reqs)
      /\ Cardinality(types) \in Nat /\ Cardinality(types) <= Len(reqs)
  <2>1. intents \subseteq DOMAIN reqs /\ types \subseteq DOMAIN reqs
    OBVIOUS
  <2> HIDE DEF intents, types
  <2> QED BY <1>2, <2>1, FS_Subset, FS_CardinalityType
<1>4. Score(slots, reqs) = 3 * Len(reqs) + Cardinality(intents) + Cardinality(types)
  BY Zenon DEF Score
<1> HIDE DEF intents, types
<1> QED BY <1>1, <1>3, <1>4

LEMMA BestOutranks ==
  ASSUME NEW reqs, IsList(reqs), NEW read, \A x \in read : x.id \in Nat,
         Matching(read, reqs) # {}
  PROVE  /\ Best(read, reqs) \in Matching(read, reqs)
         /\ \A q \in Matching(read, reqs) : Outranks(Best(read, reqs), q, reqs)
<1> DEFINE M == Matching(read, reqs)
           points(x) == Score(x.slots, reqs)
           scores == {points(x) : x \in M}
<1>1. \A x \in M : x.id \in Nat /\ points(x) \in 0..(5 * Len(reqs))
  BY ScoreBound DEF Matching
<1>2. Len(reqs) \in Nat
  BY DEF IsList
<1>3. PICK top \in M : \A x \in M : points(x) <= points(top)
  <2> HIDE DEF M, points
  <2>1. scores # {} /\ \A n \in scores : n \in Nat /\ n <= 5 * Len(reqs)
    BY <1>1, <1>2 DEF M
  <2>2. scores \in SUBSET Nat /\ 5 * Len(reqs) \in Nat
    BY <1>2, <2>1
  <2>3. PICK m \in scores : \A n \in scores : n <= m
    <3> HIDE DEF scores
    <3> QED BY <2>1, <2>2, GreatestExists
  <2> QED BY <2>3
<1> DEFINE ids == {x.id : x \in {y \in M : points(y) = points(top)}}
<1>4. PICK p \in M : /\ points(p) = points(top)
                     /\ \A x \in M : points(x) = points(top) => p.id <= x.id
  <2> HIDE DEF M, points
  <2>1. ids # {} /\ \A n \in ids : n \in Nat
    BY <1>1
  <2>2. PICK m \in ids : \A n \in ids : m <= n
    <3> HIDE DEF ids
    <3> QED BY <2>1, LeastExists
  <2> QED BY <2>2
<1>5. \A x \in M : Outranks(p, x, reqs)
  <2> TAKE x \in M
  <2>1. points(x) <= points(p) /\ points(x) \in Nat /\ points(p) \in Nat
    BY <1>1, <1>2, <1>3, <1>4
  <2>2. points(x) = points(p) => p.id <= x.id
    BY <1>4
  <2> QED BY <2>1, <2>2 DEF Outranks
<1>6. \E y \in M : \A x \in M : Outranks(y, x, reqs)
  BY <1>5
<1> QED BY <1>6, Zenon DEF Best

-----------------------------------------------------------------------------
(***************************************************************************)
(* Records of calls.                                                       *)
(***************************************************************************)
LEMMA AskedFacts ==
  ASSUME NEW c \in Callers, NEW r, Asked(c, r)
  PROVE  /\ r.tool \in Tools /\ r.plan \in Seq(Step)
         /\ r.tool = "resolve" =>
               /\ Len(r.plan) = 1 /\ r.orchestrate
               /\ r.plan[1].attached \in Seq(Requirement)
         /\ \A i \in DOMAIN r.plan :
               /\ r.plan[i] \in Step /\ IsList(NeedsOf(r, i))
               /\ NeedsOf(r, i) # << >> => NeedsOf(r, i) \in Lists
               /\ StepOutcome(r.plan[i]) = "NEEDS" => NeedsOf(r, i) # << >>
<1>1. PICK q \in Requests[c] : r.tool = q.tool /\ r.plan = q.plan /\ r.orchestrate = q.orchestrate
  BY DEF Asked
<1>2. /\ q \in Request
      /\ q.tool = "resolve" => Len(q.plan) = 1
      /\ ~q.orchestrate => q.tool \in {"plan", "job"}
  BY PreflightAssumption DEF PreflightAssumption
<1>3. r.tool \in Tools /\ r.plan \in Seq(Step) /\ r.orchestrate \in BOOLEAN
  BY <1>1, <1>2 DEF Request
<1>4. ASSUME NEW i \in DOMAIN r.plan
      PROVE  /\ r.plan[i] \in Step /\ IsList(NeedsOf(r, i))
             /\ NeedsOf(r, i) # << >> => NeedsOf(r, i) \in Lists
             /\ StepOutcome(r.plan[i]) = "NEEDS" => NeedsOf(r, i) # << >>
  <2>1. r.plan[i] \in Step /\ r.plan[i].attached \in Seq(Requirement)
    <3>1. r.plan[i] \in Step
      BY <1>3
    <3> QED BY <3>1 DEF Step
  <2>2. r.plan[i] \in UNION {Range(x.plan) : x \in UNION {Requests[d] : d \in Callers}}
    BY <1>1, <1>4 DEF Range
  <2>3. NeedsOf(r, i) # << >> => NeedsOf(r, i) \in Lists
    BY <2>2 DEF NeedsOf, Lists
  <2>4. ASSUME StepOutcome(r.plan[i]) = "NEEDS" PROVE NeedsOf(r, i) # << >>
    <3> DEFINE a == r.plan[i].attached
    <3>1. a # << >> /\ ~Underivable(r.plan[i])
      BY <2>4, Zenon DEF StepOutcome
    <3>2. 1 \in DOMAIN a
      BY <2>1, <3>1
    <3>3. Complete(a[1])
      BY <3>1, <3>2 DEF Underivable, Range
    <3> QED BY <2>1, <3>2, <3>3, NormalizedList DEF NeedsOf
  <2> QED BY <2>1, <2>3, <2>4, NormalizedList DEF NeedsOf
<1>5. r.tool = "resolve" => Len(r.plan) = 1 /\ r.orchestrate /\ r.plan[1].attached \in Seq(Requirement)
  <2>1. r.tool = "resolve" => Len(r.plan) = 1 /\ r.orchestrate
    BY <1>1, <1>2, <1>3
  <2>2. r.tool = "resolve" => r.plan[1] \in Step
    BY <1>3, <2>1
  <2> QED BY <2>1, <2>2 DEF Step
<1> QED BY <1>3, <1>4, <1>5

LEMMA AdvancedFields ==
  ASSUME NEW c, IsCall(call[c]), NEW status, NEW id, NEW n, n = Advanced(c, status, id)
  PROVE  /\ IsCall(n) /\ n.pc = "step" /\ n.at = call[c].at + 1 /\ n.read = {}
         /\ n.out = Append(call[c].out, [step |-> call[c].at, status |-> status, id |-> id])
         /\ n.tool = call[c].tool /\ n.plan = call[c].plan /\ n.orchestrate = call[c].orchestrate
         /\ n.reqs = call[c].reqs /\ n.rows = call[c].rows /\ n.result = call[c].result
         /\ n.unseen = call[c].unseen /\ n.changed = call[c].changed /\ n.moved = call[c].moved
<1>1. \A o : LET m == [call[c] EXCEPT !.pc = "step", !.at = @ + 1, !.read = {}, !.out = o]
            IN  /\ IsCall(m) /\ m.pc = "step" /\ m.at = call[c].at + 1 /\ m.read = {} /\ m.out = o
                /\ m.tool = call[c].tool /\ m.plan = call[c].plan
                /\ m.orchestrate = call[c].orchestrate
                /\ m.reqs = call[c].reqs /\ m.rows = call[c].rows /\ m.result = call[c].result
                /\ m.unseen = call[c].unseen /\ m.changed = call[c].changed
                /\ m.moved = call[c].moved
  BY DEF IsCall
<1> QED BY <1>1, Zenon DEF Advanced

LEMMA EndedFields ==
  ASSUME NEW r, IsCall(r), NEW result, NEW n, n = Ended(r, result)
  PROVE  /\ IsCall(n) /\ n.pc = "done" /\ n.result = result /\ n.rows = {}
         /\ n.changed = {} /\ n.moved = {} /\ n.at = r.at /\ n.out = r.out
         /\ n.tool = r.tool /\ n.plan = r.plan /\ n.orchestrate = r.orchestrate
BY DEF IsCall, Ended

\* What is appended to a list of resolutions.
LEMMA AppendRange ==
  ASSUME NEW out \in Seq(Resolution), NEW x \in Resolution
  PROVE  /\ Append(out, x) \in Seq(Resolution)
         /\ Range(Append(out, x)) = Range(out) \cup {x}
<1>1. /\ Append(out, x) \in Seq(Resolution)
      /\ DOMAIN Append(out, x) = 1..(Len(out) + 1) /\ DOMAIN out = 1..Len(out) /\ Len(out) \in Nat
      /\ \A i \in DOMAIN out : Append(out, x)[i] = out[i]
      /\ Append(out, x)[Len(out) + 1] = x
  OBVIOUS
<1>2. \A i \in DOMAIN Append(out, x) : i \in DOMAIN out \/ i = Len(out) + 1
  BY <1>1
<1>3. DOMAIN out \subseteq DOMAIN Append(out, x) /\ Len(out) + 1 \in DOMAIN Append(out, x)
  BY <1>1
<1> QED BY <1>1, <1>2, <1>3 DEF Range

(***************************************************************************)
(* An ended call: nothing is left to hold but its past.                    *)
(***************************************************************************)
LEMMA EndedOK ==
  ASSUME NEW c \in Callers, NEW r, NEW p, NEW k, RecordOK(c, r, p, k), Asked(c, r),
         NEW result \in {"ok", "error"}
  PROVE  RecordOK(c, Ended(r, result), p, k)
<1> DEFINE n == Ended(r, result)
<1>1. IsCall(r)
  BY DEF RecordOK, RecordType
<1>2. /\ IsCall(n) /\ n.pc = "done" /\ n.result = result /\ n.rows = {}
      /\ n.changed = {} /\ n.moved = {} /\ n.at = r.at /\ n.out = r.out
      /\ n.tool = r.tool /\ n.plan = r.plan /\ n.orchestrate = r.orchestrate
  BY <1>1, EndedFields
<1> HIDE DEF n
<1>3. RecordType(c, n, p)
  BY <1>2 DEF RecordOK, RecordType, Asked, PCs
<1>4. Purpose(n) /\ Reading(n, p, k)
  BY <1>2 DEF Purpose, Reading, Resolving
<1>5. Noted(n, p, k)
  BY <1>2 DEF RecordOK, Noted, NeedsOf
<1> QED BY <1>3, <1>4, <1>5 DEF RecordOK, n

(***************************************************************************)
(* A step is resolved, or given up by a preview.                           *)
(***************************************************************************)
LEMMA AdvancedOK ==
  ASSUME NEW c \in Callers, NEW p, NEW k, RecordOK(c, call[c], p, k),
         NEW status, NEW id, NEW x, x = [step |-> call[c].at, status |-> status, id |-> id],
         call[c].pc \notin {"idle", "done"}, call[c].at \in DOMAIN call[c].plan, x \in Resolution,
         status = "CREATED" /\ id # NoId =>
            /\ NeedsOf(call[c], call[c].at) # << >>
            /\ id = AutoId(NeedsOf(call[c], call[c].at)) /\ id \in k,
         call[c].tool # "preview" => Served(call[c], call[c].at, x, p),
         /\ status = "RESOLVED" /\ call[c].tool # "resolve" /\ id \notin call[c].changed
         /\ StepOutcome(call[c].plan[call[c].at]) = "NEEDS"
         => /\ id \in DOMAIN p
            /\ \A i \in Known(call[c], p) : Meeting(p, i, call[c].reqs)
                  => Outranks(EntryOf(p, id), EntryOf(p, i), call[c].reqs)
  PROVE  RecordOK(c, Advanced(c, status, id), p, k)
<1> DEFINE r == call[c]
           n == Advanced(c, status, id)
<1>1. /\ IsCall(r) /\ r.at \in Nat /\ r.out \in Seq(Resolution) /\ Asked(c, r)
      /\ \A y \in Range(r.out) : y.step < r.at
  BY DEF RecordOK, RecordType
<1>2. /\ IsCall(n) /\ n.pc = "step" /\ n.at = r.at + 1 /\ n.out = Append(r.out, x)
      /\ n.tool = r.tool /\ n.plan = r.plan /\ n.orchestrate = r.orchestrate
      /\ n.reqs = r.reqs /\ n.rows = r.rows /\ n.result = r.result
      /\ n.unseen = r.unseen /\ n.changed = r.changed /\ n.moved = r.moved
  BY <1>1, AdvancedFields
<1>3. n.out \in Seq(Resolution) /\ Range(n.out) = Range(r.out) \cup {x}
  BY <1>1, <1>2, AppendRange
<1>4. x.step = r.at /\ x.status = status /\ x.id = id
  OBVIOUS
<1>5. \A y \in Range(r.out) : y.step \in Nat
  <2>1. \A i \in DOMAIN r.out : r.out[i] \in Resolution
    BY <1>1
  <2> QED BY <2>1 DEF Range, Resolution
<1> HIDE DEF n, r
<1>6. RecordType(c, n, p)
  <2>1. \A y \in Range(n.out) : y.step < n.at
    BY <1>1, <1>2, <1>3, <1>4, <1>5
  <2> QED BY <1>1, <1>2, <1>3, <2>1 DEF RecordOK, RecordType, Asked, PCs, r
<1>7. Purpose(n)
  <2>1. r.tool = "resolve" => Len(r.plan) = 1 /\ r.at >= 1
    <3>1. r.plan \in Seq(Step) /\ r.at \in DOMAIN r.plan
      BY <1>1, AskedFacts DEF r
    <3>2. r.tool = "resolve" => Len(r.plan) = 1
      BY <1>1, AskedFacts
    <3> QED BY <3>1, <3>2
  <2>2. n.pc \notin Resolving
    BY <1>2 DEF Resolving
  <2>3. n.tool = "resolve" => n.at > Len(n.plan)
    <3>1. r.tool = "resolve" => r.at + 1 > Len(r.plan)
      <4>1. \A at \in Nat : at >= 1 => at + 1 > 1
        OBVIOUS
      <4>2. r.at \in Nat
        BY <1>1
      <4> QED BY <2>1, <4>1, <4>2
    <3>2. n.tool = r.tool /\ n.at = r.at + 1 /\ n.plan = r.plan
      BY <1>2
    <3> QED BY <3>1, <3>2
  <2> QED BY <2>2, <2>3 DEF Purpose
<1>8. Reading(n, p, k)
  <2> SUFFICES ASSUME NEW y \in Range(n.out), y.step = n.at - 1, y.status = "RESOLVED",
                      n.tool # "resolve", StepOutcome(n.plan[y.step]) = "NEEDS", y.id \notin n.changed
               PROVE  /\ y.id \in DOMAIN p
                      /\ \A i \in Known(n, p) : Meeting(p, i, n.reqs)
                            => Outranks(EntryOf(p, y.id), EntryOf(p, i), n.reqs)
    BY <1>2 DEF Reading
  <2>1. y = x
    BY <1>1, <1>2, <1>3, <1>5
  <2>2. Known(n, p) = Known(r, p)
    BY <1>2 DEF Known
  <2> QED BY <1>2, <1>4, <2>1, <2>2 DEF r
<1>9. Noted(n, p, k)
  <2>1. \A y \in Range(n.out) : y.status = "CREATED" /\ y.id # NoId =>
          /\ y.step \in DOMAIN n.plan /\ NeedsOf(n, y.step) # << >>
          /\ y.id = AutoId(NeedsOf(n, y.step)) /\ y.id \in k
    BY <1>2, <1>3, <1>4 DEF RecordOK, Noted, NeedsOf, r
  <2>2. ASSUME n.tool # "preview", n.orchestrate, NEW i \in DOMAIN n.plan, i < n.at, n.plan[i].http
        PROVE  \E y \in Range(n.out) : Served(n, i, y, p)
    <3>1. i \in Nat /\ r.plan \in Seq(Step)
      BY <1>1, <1>2, <2>2, AskedFacts
    <3>2. \A y : Served(r, i, y, p) => Served(n, i, y, p)
      BY <1>2 DEF Served, NeedsOf
    <3>3. CASE i = r.at
      BY <1>2, <1>3, <2>2, <3>2, <3>3 DEF r
    <3>4. CASE i < r.at
      BY <1>2, <1>3, <2>2, <3>2, <3>4 DEF RecordOK, Noted, r
    <3> QED BY <1>1, <1>2, <2>2, <3>1, <3>3, <3>4
  <2> QED BY <2>1, <2>2 DEF Noted
<1> QED BY <1>6, <1>7, <1>8, <1>9 DEF RecordOK, n

\* A call that gives a step up ends, unless it is a preview.
LEMMA GivenUpOK ==
  ASSUME NEW c \in Callers, NEW p, NEW k, RecordOK(c, call[c], p, k),
         call[c].pc \notin {"idle", "done"}, call[c].at \in DOMAIN call[c].plan,
         NEW status \in {"FAILED", "UNRESOLVED"}
  PROVE  RecordOK(c, GivenUp(c, status), p, k)
<1>1. Asked(c, call[c]) /\ call[c].at \in Nat
  BY DEF RecordOK, RecordType
<1>2. CASE Strict(c)
  BY <1>1, <1>2, EndedOK, Zenon DEF GivenUp
<1>3. CASE ~Strict(c)
  <2> DEFINE x == [step |-> call[c].at, status |-> status, id |-> NoId]
  <2>1. x \in Resolution
    BY <1>1 DEF Resolution, NoId
  <2>2. RecordOK(c, Advanced(c, status, NoId), p, k)
    BY <1>3, <2>1, AdvancedOK DEF Strict
  <2> QED BY <1>3, <2>2, Zenon DEF GivenUp
<1> QED BY <1>2, <1>3

(***************************************************************************)
(* A profile is written: no record is wrong for it, because a call that is *)
(* under way takes the profile out of what it knows.                       *)
(***************************************************************************)
LEMMA NoticeOK ==
  ASSUME NEW c \in Callers, NEW r, NEW p, NEW k, RecordOK(c, r, p, k), NEW q, NEW j, k \subseteq j,
         NEW id, DOMAIN q = DOMAIN p \cup {id}, \A i \in DOMAIN p : i # id => q[i] = p[i],
         NEW n, n = IF r.pc \in {"idle", "done"} THEN r
                    ELSE [r EXCEPT !.changed = @ \cup {id}, !.moved = @ \cup {id}]
  PROVE  RecordOK(c, n, q, j)
<1>1. CASE r.pc \in {"idle", "done"}
  <2>1. n = r
    BY <1>1
  <2>2. RecordType(c, r, q)
    BY DEF RecordOK, RecordType
  <2>3. Purpose(r) /\ Reading(r, q, j)
    BY <1>1 DEF RecordOK, Reading
  <2>4. Noted(r, q, j)
    BY <1>1 DEF RecordOK, Noted
  <2> QED BY <2>1, <2>2, <2>3, <2>4 DEF RecordOK
<1>2. CASE r.pc \notin {"idle", "done"}
  <2>1. IsCall(r)
    BY DEF RecordOK, RecordType
  <2>2. /\ IsCall(n) /\ n.pc = r.pc /\ n.at = r.at /\ n.out = r.out /\ n.read = r.read
        /\ n.tool = r.tool /\ n.plan = r.plan /\ n.orchestrate = r.orchestrate
        /\ n.reqs = r.reqs /\ n.rows = r.rows /\ n.result = r.result /\ n.unseen = r.unseen
        /\ n.changed = r.changed \cup {id} /\ n.moved = r.moved \cup {id}
    BY <1>2, <2>1 DEF IsCall
  <2>3. \A i \in DOMAIN p : i # id =>
          /\ i \in DOMAIN q /\ EntryOf(q, i) = EntryOf(p, i)
          /\ \A reqs : Meeting(q, i, reqs) <=> Meeting(p, i, reqs)
    BY DEF EntryOf, Meeting
  <2>4. \A i \in Known(n, q) : i \in Known(r, p) /\ i \in DOMAIN p /\ i # id
    BY <2>2 DEF Known
  <2>5. RecordType(c, n, q)
    <3>1. RecordType(c, r, p)
      BY DEF RecordOK
    <3> QED BY <2>2, <3>1 DEF RecordType, Asked
  <2>6. Purpose(n)
    <3>1. Purpose(r)
      BY DEF RecordOK
    <3> QED BY <2>2, <3>1 DEF Purpose, NeedsOf
  <2>7. Reading(n, q, j)
    <3>1. Reading(r, p, k)
      BY DEF RecordOK
    <3>2. ASSUME n.pc = "fetch"
          PROVE  /\ \A x \in n.read : x.id \in DOMAIN q /\ (x.id \in n.changed \/ x = EntryOf(q, x.id))
                 /\ \A i \in Known(n, q) \ n.rows : EntryOf(q, i) \in n.read
      BY <2>2, <2>3, <2>4, <3>1, <3>2 DEF Reading
    <3>3. n.pc = "upsert" => \A i \in Known(n, q) : ~Meeting(q, i, n.reqs)
      BY <2>2, <2>3, <2>4, <3>1 DEF Reading
    <3>4. n.pc = "fetchback" => AutoId(n.reqs) \in j
      BY <2>2, <3>1 DEF Reading
    <3>5. ASSUME n.pc = "step", NEW x \in Range(n.out), x.step = n.at - 1, x.status = "RESOLVED",
                 n.tool # "resolve", StepOutcome(n.plan[x.step]) = "NEEDS", x.id \notin n.changed
          PROVE  /\ x.id \in DOMAIN q
                 /\ \A i \in Known(n, q) : Meeting(q, i, n.reqs)
                       => Outranks(EntryOf(q, x.id), EntryOf(q, i), n.reqs)
      <4>1. /\ x.id \in DOMAIN p /\ x.id # id
            /\ \A i \in Known(r, p) : Meeting(p, i, r.reqs)
                  => Outranks(EntryOf(p, x.id), EntryOf(p, i), r.reqs)
        BY <2>2, <3>1, <3>5 DEF Reading
      <4> QED BY <2>2, <2>3, <2>4, <4>1
    <3> QED BY <3>2, <3>3, <3>4, <3>5 DEF Reading
  <2>8. Noted(n, q, j)
    <3>1. Noted(r, p, k)
      BY DEF RecordOK
    <3>2. \A i, x : Served(r, i, x, p) => Served(n, i, x, q)
      <4> SUFFICES ASSUME NEW i, NEW x, Served(r, i, x, p) PROVE Served(n, i, x, q)
        OBVIOUS
      <4>1. Meeting(p, x.id, NeedsOf(r, i)) => x.id = id \/ Meeting(q, x.id, NeedsOf(n, i))
        BY <2>2, <2>3 DEF Meeting, NeedsOf
      <4> QED BY <2>2, <4>1 DEF Served
    <3> QED BY <2>2, <3>1, <3>2 DEF Noted, NeedsOf
  <2> QED BY <2>5, <2>6, <2>7, <2>8 DEF RecordOK
<1> QED BY <1>1, <1>2

-----------------------------------------------------------------------------
(***************************************************************************)
(* Steps that leave the vault alone.                                       *)
(***************************************************************************)
LEMMA GoesKeepsInv ==
  ASSUME PreflightInv, NEW c \in Callers, NEW new, Goes(c, new),
         RecordOK(c, new, profiles, keys), VaultSame, Fault \/ UNCHANGED faults
  PROVE  PreflightInv'
<1>1. faults' \in 0..MaxFaults
  BY PreflightAssumption DEF PreflightAssumption, PreflightInv, VaultOK, Fault
<1>2. VaultOK'
  BY <1>1 DEF PreflightInv, VaultOK, VaultSame
<1>3. call' = [d \in Callers |-> call'[d]] /\ \A d \in Callers : call'[d] = IF d = c THEN new ELSE call[d]
  BY DEF PreflightInv, Goes
<1>4. \A d \in Callers : RecordOK(d, call'[d], profiles', keys')
  BY <1>3 DEF PreflightInv, VaultSame
<1> QED BY <1>2, <1>3, <1>4 DEF PreflightInv

\* A call that begins has a request, and nothing done.
LEMMA BeginKeepsInv == ASSUME PreflightInv, NEW c \in Callers, Begin(c) PROVE PreflightInv'
<1>1. PICK q \in Requests[c] :
        LET resolving == q.tool = "resolve"
            reqs == IF resolving THEN NormalizeRequirements(q.plan[1].attached) ELSE << >>
            new == [call[c] EXCEPT !.tool = q.tool, !.plan = q.plan, !.reqs = reqs,
                                   !.auto = MayCreate(q.tool, q.wanted),
                                   !.orchestrate = q.orchestrate]
        IN  /\ call[c].pc = "idle"
            /\ \/ ~q.orchestrate /\ Goes(c, [new EXCEPT !.pc = "submit"])
               \/ q.orchestrate /\ ~resolving /\ Goes(c, [new EXCEPT !.pc = "step"])
               \/ resolving /\ reqs # << >> /\ Goes(c, [new EXCEPT !.pc = "list"])
               \/ resolving /\ reqs = << >> /\ Goes(c, Ended(new, "error"))
            /\ Local
  BY Zenon DEF Begin
<1> DEFINE reqs == IF q.tool = "resolve" THEN NormalizeRequirements(q.plan[1].attached) ELSE << >>
           may == MayCreate(q.tool, q.wanted)
           new == [call[c] EXCEPT !.tool = q.tool, !.plan = q.plan, !.reqs = reqs,
                                  !.auto = may, !.orchestrate = q.orchestrate]
<1>2. RecordOK(c, call[c], profiles, keys) /\ call[c].pc = "idle"
  BY <1>1 DEF PreflightInv
<1>3. /\ IsCall(call[c]) /\ call[c].at = 1 /\ call[c].out = << >> /\ call[c].rows = {}
      /\ call[c].changed \subseteq call[c].moved /\ call[c].result \in {"none", "ok", "error"}
  BY <1>2 DEF RecordOK, RecordType
<1> HIDE DEF reqs, may
<1>4. /\ IsCall(new) /\ new.pc = "idle" /\ new.tool = q.tool /\ new.plan = q.plan
      /\ new.orchestrate = q.orchestrate /\ new.reqs = reqs /\ new.at = 1 /\ new.out = << >>
      /\ new.rows = {} /\ new.changed = call[c].changed /\ new.moved = call[c].moved
      /\ new.result = call[c].result
  BY <1>2, <1>3 DEF IsCall
<1> HIDE DEF new
<1>5. Asked(c, new)
  BY <1>4 DEF Asked
<1>6. ASSUME NEW pc \in {"idle", "submit", "step", "list"}, pc = "step" => new.tool # "resolve",
             pc = "submit" => ~new.orchestrate,
             pc = "list" => new.tool = "resolve" /\ reqs # << >>
      PROVE  RecordOK(c, [new EXCEPT !.pc = pc], profiles, keys)
  <2> DEFINE n == [new EXCEPT !.pc = pc]
  <2>1. /\ IsCall(n) /\ n.pc = pc /\ n.tool = new.tool /\ n.plan = new.plan
        /\ n.orchestrate = new.orchestrate /\ n.reqs = new.reqs /\ n.at = 1 /\ n.out = << >>
        /\ n.rows = {} /\ n.changed = new.changed /\ n.moved = new.moved /\ n.result = new.result
    BY <1>4 DEF IsCall
  <2> HIDE DEF n
  <2>2. Asked(c, n)
    BY <1>5, <2>1 DEF Asked
  <2>3. n.tool \in Tools /\ n.plan \in Seq(Step) /\ (n.tool = "resolve" => Len(n.plan) = 1)
    BY <2>2, AskedFacts
  <2>4. Range(n.out) = {} /\ n.out \in Seq(Resolution)
    BY <2>1 DEF Range
  <2>5. RecordType(c, n, profiles)
    BY <1>3, <1>4, <2>1, <2>2, <2>3, <2>4 DEF RecordType, PCs
  <2>6. Purpose(n)
    <3>1. pc = "list" => n.at \in DOMAIN n.plan /\ n.reqs = NeedsOf(n, n.at)
      BY <1>4, <1>6, <2>1, <2>3 DEF reqs, NeedsOf
    <3> QED BY <1>4, <1>6, <2>1, <3>1 DEF Purpose, Resolving
  <2>7. Reading(n, profiles, keys)
    BY <2>1, <2>4 DEF Reading
  <2>8. Noted(n, profiles, keys)
    <3>1. \A i \in DOMAIN n.plan : ~(i < n.at)
      BY <2>1, <2>3
    <3> QED BY <2>4, <3>1 DEF Noted
  <2> QED BY <2>5, <2>6, <2>7, <2>8 DEF RecordOK, n
<1>7. RecordOK(c, Ended(new, "error"), profiles, keys)
  <2>1. new = [new EXCEPT !.pc = "idle"]
    BY <1>4 DEF IsCall
  <2>2. RecordOK(c, new, profiles, keys)
    BY <1>6, <2>1
  <2> QED BY <1>5, <2>2, EndedOK
<1>8. \E next : Goes(c, next) /\ RecordOK(c, next, profiles, keys)
  BY <1>1, <1>4, <1>6, <1>7 DEF new, reqs, may
<1> QED BY <1>1, <1>8, GoesKeepsInv DEF Local

LEMMA PassStepKeepsInv == ASSUME PreflightInv, NEW c \in Callers, PassStep(c) PROVE PreflightInv'
<1> DEFINE r == call[c]
           n == [r EXCEPT !.at = @ + 1]
<1>1. /\ r.pc = "step" /\ r.at <= Len(r.plan) /\ ~r.plan[r.at].http
      /\ Goes(c, n) /\ VaultSame /\ UNCHANGED faults
  BY DEF PassStep, AtStep, Here, Local
<1>2. RecordOK(c, r, profiles, keys)
  BY DEF PreflightInv
<1>3. /\ IsCall(r) /\ r.at \in Nat /\ r.out \in Seq(Resolution) /\ Asked(c, r)
      /\ \A y \in Range(r.out) : y.step < r.at
  BY <1>1, <1>2 DEF RecordOK, RecordType
<1>4. /\ IsCall(n) /\ n.pc = "step" /\ n.at = r.at + 1 /\ n.out = r.out
      /\ n.tool = r.tool /\ n.plan = r.plan /\ n.orchestrate = r.orchestrate
      /\ n.reqs = r.reqs /\ n.rows = r.rows /\ n.result = r.result
      /\ n.unseen = r.unseen /\ n.changed = r.changed /\ n.moved = r.moved
  BY <1>1, <1>3 DEF IsCall
<1>5. \A y \in Range(r.out) : y.step \in Nat
  <2>1. \A i \in DOMAIN r.out : r.out[i] \in Resolution
    BY <1>3
  <2> QED BY <2>1 DEF Range, Resolution
<1>6. r.plan \in Seq(Step) /\ Len(r.plan) \in Nat
  BY <1>3, AskedFacts
<1> HIDE DEF n, r
<1>7. RecordType(c, n, profiles)
  <2>1. \A y \in Range(n.out) : y.step < n.at
    BY <1>3, <1>4, <1>5
  <2> QED BY <1>2, <1>3, <1>4, <2>1 DEF RecordOK, RecordType, Asked, PCs
<1>8. Purpose(n)
  <2>1. r.tool # "resolve"
    BY <1>1, <1>2, <1>3, <1>6 DEF RecordOK, Purpose
  <2> QED BY <1>4, <2>1 DEF Purpose, Resolving
<1>9. Reading(n, profiles, keys)
  <2>1. \A y \in Range(n.out) : y.step # n.at - 1
    BY <1>3, <1>4, <1>5
  <2> QED BY <1>4, <2>1 DEF Reading
<1>10. Noted(n, profiles, keys)
  <2>1. \A i \in DOMAIN n.plan : i < n.at /\ n.plan[i].http => i < r.at
    BY <1>1, <1>3, <1>4, <1>6
  <2>2. \A i, y : Served(r, i, y, profiles) => Served(n, i, y, profiles)
    BY <1>4 DEF Served, NeedsOf
  <2> QED BY <1>1, <1>2, <1>4, <2>1, <2>2 DEF RecordOK, Noted, NeedsOf
<1> QED BY <1>1, <1>7, <1>8, <1>9, <1>10, GoesKeepsInv DEF RecordOK

\* Where the loop stands: its step is one of the plan, and it needs no profile for another call.
LEMMA AtStepFacts ==
  ASSUME PreflightInv, NEW c \in Callers, AtStep(c)
  PROVE  /\ RecordOK(c, call[c], profiles, keys) /\ call[c].pc = "step"
         /\ call[c].at \in DOMAIN call[c].plan /\ call[c].tool # "resolve"
         /\ call[c].plan[call[c].at] \in Step /\ call[c].at \in Nat
<1>1. RecordOK(c, call[c], profiles, keys) /\ call[c].pc = "step" /\ call[c].at <= Len(call[c].plan)
  BY DEF AtStep, PreflightInv
<1>2. call[c].at \in Nat /\ Asked(c, call[c]) /\ (call[c].tool = "resolve" => call[c].at > Len(call[c].plan))
  BY <1>1 DEF RecordOK, RecordType, Purpose
<1>3. call[c].plan \in Seq(Step) /\ Len(call[c].plan) \in Nat
  BY <1>2, AskedFacts
<1>4. call[c].at >= 1
  BY <1>1 DEF RecordOK, RecordType
<1>5. call[c].at \in DOMAIN call[c].plan
  BY <1>1, <1>2, <1>3, <1>4
<1>6. call[c].plan[call[c].at] \in Step
  BY <1>3, <1>5
<1>7. call[c].tool # "resolve"
  BY <1>1, <1>2, <1>3
<1> QED BY <1>1, <1>2, <1>5, <1>6, <1>7

LEMMA KeepStepKeepsInv == ASSUME PreflightInv, NEW c \in Callers, KeepStep(c) PROVE PreflightInv'
<1> DEFINE x == [step |-> call[c].at, status |-> "RESOLVED", id |-> Here(c).named]
<1>1. /\ AtStep(c) /\ StepOutcome(Here(c)) \in {"NAMED", "PLAIN"} /\ VaultSame /\ UNCHANGED faults
      /\ Goes(c, Advanced(c, "RESOLVED", Here(c).named))
  BY DEF KeepStep, Local
<1>2. /\ RecordOK(c, call[c], profiles, keys) /\ call[c].pc = "step"
      /\ call[c].at \in DOMAIN call[c].plan /\ call[c].tool # "resolve"
      /\ call[c].plan[call[c].at] \in Step /\ call[c].at \in Nat
  BY <1>1, AtStepFacts
<1>3. x \in Resolution
  BY <1>2 DEF Resolution, Step, Here
<1>4. Served(call[c], call[c].at, x, profiles)
  BY <1>1, <1>2 DEF Served, Here
<1>5. StepOutcome(call[c].plan[call[c].at]) # "NEEDS"
  BY <1>1 DEF Here
<1>6. RecordOK(c, Advanced(c, "RESOLVED", Here(c).named), profiles, keys)
  BY <1>2, <1>3, <1>4, <1>5, AdvancedOK
<1> QED BY <1>1, <1>6, GoesKeepsInv

LEMMA GiveUpStepKeepsInv == ASSUME PreflightInv, NEW c \in Callers, GiveUpStep(c) PROVE PreflightInv'
<1>1. /\ AtStep(c) /\ StepOutcome(Here(c)) \in {"FAILED", "UNRESOLVED"} /\ VaultSame
      /\ UNCHANGED faults /\ Goes(c, GivenUp(c, StepOutcome(Here(c))))
  BY DEF GiveUpStep, Local
<1>2. RecordOK(c, GivenUp(c, StepOutcome(Here(c))), profiles, keys)
  BY <1>1, AtStepFacts, GivenUpOK
<1> QED BY <1>1, <1>2, GoesKeepsInv

\* A record whose place among the steps does not change, while it looks for a profile.
LEMMA LookingOK ==
  ASSUME NEW c \in Callers, NEW k, NEW r, RecordOK(c, r, profiles, k), NEW n, IsCall(n),
         r.pc \in {"step"} \cup Resolving,
         n.pc \in Resolving \cup {"submit"}, n.at = r.at, n.out = r.out, n.tool = r.tool, n.plan = r.plan,
         n.orchestrate = r.orchestrate, n.result = r.result, n.moved = r.moved,
         n.rows \subseteq DOMAIN profiles, n.changed \subseteq n.moved,
         Purpose(n), Reading(n, profiles, k)
  PROVE  RecordOK(c, n, profiles, k)
<1>1. RecordType(c, n, profiles)
  BY DEF RecordOK, RecordType, Asked, PCs, Resolving
<1>2. Noted(n, profiles, k)
  <2>1. \A i, y : Served(r, i, y, profiles) => Served(n, i, y, profiles)
    BY DEF Served, NeedsOf
  <2>2. Noted(r, profiles, k) /\ r.pc \notin {"idle", "done"}
    BY DEF RecordOK, Resolving
  <2> QED BY <2>1, <2>2 DEF Noted, NeedsOf
<1> QED BY <1>1, <1>2 DEF RecordOK

LEMMA NeedProfileKeepsInv == ASSUME PreflightInv, NEW c \in Callers, NeedProfile(c) PROVE PreflightInv'
<1> DEFINE r == call[c]
           reqs == NormalizeRequirements(Here(c).attached)
           n == [r EXCEPT !.pc = "list", !.reqs = reqs]
<1>1. /\ AtStep(c) /\ Here(c).http /\ StepOutcome(Here(c)) = "NEEDS" /\ VaultSame
      /\ UNCHANGED faults /\ Goes(c, n)
  BY DEF NeedProfile, Local
<1>2. /\ RecordOK(c, r, profiles, keys) /\ r.pc = "step" /\ r.at \in DOMAIN r.plan
  BY <1>1, AtStepFacts
<1>3. IsCall(r) /\ Asked(c, r) /\ r.rows \subseteq DOMAIN profiles /\ r.changed \subseteq r.moved
  BY <1>2 DEF RecordOK, RecordType
<1>4. reqs = NeedsOf(r, r.at) /\ reqs # << >>
  BY <1>1, <1>2, <1>3, AskedFacts DEF NeedsOf, Here
<1> HIDE DEF reqs
<1>5. /\ IsCall(n) /\ n.pc = "list" /\ n.at = r.at /\ n.out = r.out
      /\ n.tool = r.tool /\ n.plan = r.plan /\ n.orchestrate = r.orchestrate
      /\ n.reqs = reqs /\ n.rows = r.rows /\ n.result = r.result
      /\ n.unseen = r.unseen /\ n.changed = r.changed /\ n.moved = r.moved
  BY <1>3 DEF IsCall
<1> HIDE DEF n
<1>6. Purpose(n)
  BY <1>1, <1>2, <1>4, <1>5 DEF Purpose, NeedsOf, Here
<1>7. Reading(n, profiles, keys)
  BY <1>5 DEF Reading
<1>8. RecordOK(c, n, profiles, keys)
  BY <1>2, <1>3, <1>5, <1>6, <1>7, LookingOK DEF Resolving
<1> QED BY <1>1, <1>8, GoesKeepsInv

LEMMA FinishKeepsInv == ASSUME PreflightInv, NEW c \in Callers, Finish(c) PROVE PreflightInv'
<1> DEFINE r == call[c]
           n == [r EXCEPT !.pc = "submit"]
<1>1. r.pc = "step" /\ VaultSame /\ UNCHANGED faults /\ (Goes(c, n) \/ Goes(c, Ended(r, "ok")))
  BY DEF Finish, Local
<1>2. RecordOK(c, r, profiles, keys) /\ Asked(c, r) /\ IsCall(r)
  BY <1>1 DEF PreflightInv, RecordOK, RecordType
<1>3. RecordOK(c, Ended(r, "ok"), profiles, keys)
  BY <1>2, EndedOK
<1>4. RecordOK(c, n, profiles, keys)
  <2>1. /\ IsCall(n) /\ n.pc = "submit" /\ n.at = r.at /\ n.out = r.out
        /\ n.tool = r.tool /\ n.plan = r.plan /\ n.orchestrate = r.orchestrate
        /\ n.rows = r.rows /\ n.result = r.result /\ n.changed = r.changed /\ n.moved = r.moved
    BY <1>2 DEF IsCall
  <2> HIDE DEF n
  <2>2. r.rows \subseteq DOMAIN profiles /\ r.changed \subseteq r.moved
    BY <1>2 DEF RecordOK, RecordType
  <2>3. Purpose(n) /\ Reading(n, profiles, keys)
    BY <2>1 DEF Purpose, Reading, Resolving
  <2> QED BY <1>1, <1>2, <2>1, <2>2, <2>3, LookingOK
<1> QED BY <1>1, <1>3, <1>4, GoesKeepsInv

LEMMA SubmitKeepsInv == ASSUME PreflightInv, NEW c \in Callers, Submit(c) PROVE PreflightInv'
<1>1. PICK result \in {"ok", "error"} : Goes(c, Ended(call[c], result))
  BY DEF Submit
<1>2. call[c].pc = "submit" /\ VaultSame /\ UNCHANGED faults
  BY DEF Submit, Local
<1>3. RecordOK(c, call[c], profiles, keys) /\ Asked(c, call[c])
  BY <1>2 DEF PreflightInv, RecordOK, RecordType
<1> QED BY <1>1, <1>2, <1>3, EndedOK, GoesKeepsInv

-----------------------------------------------------------------------------
(***************************************************************************)
(* Requests to the vault.                                                  *)
(***************************************************************************)
LEMMA ResolvingFacts ==
  ASSUME PreflightInv, NEW c \in Callers, call[c].pc \in Resolving
  PROVE  /\ RecordOK(c, call[c], profiles, keys) /\ IsCall(call[c]) /\ Asked(c, call[c])
         /\ call[c].pc \notin {"idle", "done"} /\ call[c].at \in Nat
         /\ call[c].at \in DOMAIN call[c].plan /\ call[c].reqs = NeedsOf(call[c], call[c].at)
         /\ call[c].reqs # << >> /\ call[c].reqs \in Lists /\ IsList(call[c].reqs)
         /\ call[c].rows \subseteq DOMAIN profiles /\ call[c].changed \subseteq call[c].moved
         /\ \A status \in {"FAILED", "UNRESOLVED"} : RecordOK(c, GivenUp(c, status), profiles, keys)
<1>1. RecordOK(c, call[c], profiles, keys) /\ call[c].pc \notin {"idle", "done"}
  BY DEF PreflightInv, Resolving
<1>2. /\ IsCall(call[c]) /\ Asked(c, call[c]) /\ call[c].at \in Nat
      /\ call[c].rows \subseteq DOMAIN profiles /\ call[c].changed \subseteq call[c].moved
      /\ call[c].at \in DOMAIN call[c].plan /\ call[c].reqs = NeedsOf(call[c], call[c].at)
      /\ call[c].reqs # << >>
  BY <1>1 DEF RecordOK, RecordType, Purpose
<1>3. call[c].reqs \in Lists /\ IsList(call[c].reqs)
  BY <1>2, AskedFacts
<1>4. \A status \in {"FAILED", "UNRESOLVED"} : RecordOK(c, GivenUp(c, status), profiles, keys)
  BY <1>1, <1>2, GivenUpOK
<1> QED BY <1>1, <1>2, <1>3, <1>4

LEMMA ListProfilesKeepsInv ==
  ASSUME PreflightInv, NEW c \in Callers, ListProfiles(c) PROVE PreflightInv'
<1> DEFINE r == call[c]
           n(rows, unseen) == [[r EXCEPT !.pc = "fetch", !.read = {}, !.changed = {}]
                                 EXCEPT !.rows = rows, !.unseen = unseen]
<1>1. /\ r.pc = "list" /\ VaultSame /\ (Fault \/ UNCHANGED faults)
      /\ \/ Goes(c, n(DOMAIN profiles, {}))
         \/ Goes(c, n({}, DOMAIN profiles))
         \/ Goes(c, GivenUp(c, "FAILED"))
  BY Zenon DEF ListProfiles
<1>2. /\ RecordOK(c, r, profiles, keys) /\ IsCall(r) /\ RecordOK(c, GivenUp(c, "FAILED"), profiles, keys)
      /\ r.changed \subseteq r.moved
  BY <1>1, ResolvingFacts DEF Resolving
<1>3. ASSUME NEW rows, NEW unseen, rows \cup unseen = DOMAIN profiles
      PROVE  RecordOK(c, n(rows, unseen), profiles, keys)
  <2> DEFINE m == n(rows, unseen)
  <2>1. /\ IsCall(m) /\ m.pc = "fetch" /\ m.at = r.at /\ m.out = r.out
        /\ m.tool = r.tool /\ m.plan = r.plan /\ m.orchestrate = r.orchestrate
        /\ m.reqs = r.reqs /\ m.rows = rows /\ m.result = r.result /\ m.read = {}
        /\ m.unseen = unseen /\ m.changed = {} /\ m.moved = r.moved
    BY <1>2 DEF IsCall
  <2> HIDE DEF m
  <2>2. Purpose(m)
    BY <1>1, <1>2, <2>1 DEF RecordOK, Purpose, Resolving, NeedsOf
  <2>3. Reading(m, profiles, keys)
    <3>1. Known(m, profiles) \ m.rows = {}
      BY <1>3, <2>1 DEF Known
    <3> QED BY <2>1, <3>1 DEF Reading
  <2>4. RecordOK(c, m, profiles, keys)
    BY <1>1, <1>2, <1>3, <2>1, <2>2, <2>3, LookingOK DEF Resolving
  <2> QED BY <2>4 DEF m
<1>4. RecordOK(c, n(DOMAIN profiles, {}), profiles, keys) /\ RecordOK(c, n({}, DOMAIN profiles), profiles, keys)
  BY <1>3
<1> HIDE DEF n
<1> QED BY <1>1, <1>2, <1>4, GoesKeepsInv

LEMMA FetchProfileKeepsInv ==
  ASSUME PreflightInv, NEW c \in Callers, FetchProfile(c) PROVE PreflightInv'
<1> DEFINE r == call[c]
<1>1. PICK id \in r.rows :
        \/ Goes(c, [[r EXCEPT !.rows = @ \ {id}]
                       EXCEPT !.read = @ \cup {[id |-> id, slots |-> profiles[id]]}])
        \/ Goes(c, [[r EXCEPT !.rows = @ \ {id}] EXCEPT !.unseen = @ \cup {id}])
  BY Zenon DEF FetchProfile
<1>2. r.pc = "fetch" /\ VaultSame /\ (Fault \/ UNCHANGED faults)
  BY Zenon DEF FetchProfile
<1>3. /\ RecordOK(c, r, profiles, keys) /\ IsCall(r) /\ id \in DOMAIN profiles
      /\ r.rows \subseteq DOMAIN profiles /\ r.changed \subseteq r.moved
  BY <1>1, <1>2, ResolvingFacts DEF Resolving
<1>4. PICK n : /\ Goes(c, n) /\ IsCall(n) /\ n.pc = "fetch" /\ n.at = r.at /\ n.out = r.out
               /\ n.tool = r.tool /\ n.plan = r.plan /\ n.orchestrate = r.orchestrate
               /\ n.reqs = r.reqs /\ n.rows = r.rows \ {id} /\ n.result = r.result
               /\ n.changed = r.changed /\ n.moved = r.moved
               /\ \/ n.read = r.read \cup {EntryOf(profiles, id)} /\ n.unseen = r.unseen
                  \/ n.read = r.read /\ n.unseen = r.unseen \cup {id}
  <2>1. CASE Goes(c, [[r EXCEPT !.rows = @ \ {id}]
                       EXCEPT !.read = @ \cup {[id |-> id, slots |-> profiles[id]]}])
    <3> DEFINE n == [[r EXCEPT !.rows = @ \ {id}]
                       EXCEPT !.read = @ \cup {[id |-> id, slots |-> profiles[id]]}]
    <3>1. /\ IsCall(n) /\ n.pc = "fetch" /\ n.at = r.at /\ n.out = r.out
          /\ n.tool = r.tool /\ n.plan = r.plan /\ n.orchestrate = r.orchestrate
          /\ n.reqs = r.reqs /\ n.rows = r.rows \ {id} /\ n.result = r.result
          /\ n.changed = r.changed /\ n.moved = r.moved
          /\ n.read = r.read \cup {EntryOf(profiles, id)} /\ n.unseen = r.unseen
      BY <1>2, <1>3 DEF IsCall, EntryOf
    <3> HIDE DEF n
    <3> QED BY <2>1, <3>1 DEF n
  <2>2. CASE Goes(c, [[r EXCEPT !.rows = @ \ {id}] EXCEPT !.unseen = @ \cup {id}])
    <3> DEFINE n == [[r EXCEPT !.rows = @ \ {id}] EXCEPT !.unseen = @ \cup {id}]
    <3>1. /\ IsCall(n) /\ n.pc = "fetch" /\ n.at = r.at /\ n.out = r.out
          /\ n.tool = r.tool /\ n.plan = r.plan /\ n.orchestrate = r.orchestrate
          /\ n.reqs = r.reqs /\ n.rows = r.rows \ {id} /\ n.result = r.result
          /\ n.changed = r.changed /\ n.moved = r.moved
          /\ n.read = r.read /\ n.unseen = r.unseen \cup {id}
      BY <1>2, <1>3 DEF IsCall
    <3> HIDE DEF n
    <3> QED BY <2>2, <3>1 DEF n
  <2> QED BY <1>1, <2>1, <2>2
<1>5. Purpose(n)
  BY <1>2, <1>3, <1>4 DEF RecordOK, Purpose, Resolving, NeedsOf
<1>6. Reading(n, profiles, keys)
  <2>1. /\ \A x \in r.read : x.id \in DOMAIN profiles /\ (x.id \in r.changed \/ x = EntryOf(profiles, x.id))
        /\ \A i \in Known(r, profiles) \ r.rows : EntryOf(profiles, i) \in r.read
    BY <1>2, <1>3 DEF RecordOK, Reading
  <2>2. \A x \in n.read : x.id \in DOMAIN profiles /\ (x.id \in n.changed \/ x = EntryOf(profiles, x.id))
    BY <1>3, <1>4, <2>1 DEF EntryOf
  <2>3. \A i \in Known(n, profiles) \ n.rows : EntryOf(profiles, i) \in n.read
    BY <1>4, <2>1 DEF Known
  <2> QED BY <1>4, <2>2, <2>3 DEF Reading
<1>7. RecordOK(c, n, profiles, keys)
  BY <1>2, <1>3, <1>4, <1>5, <1>6, LookingOK DEF Resolving
<1> QED BY <1>2, <1>4, <1>7, GoesKeepsInv

\* The choice among the profiles read is one among all that the call knows.
LEMMA DecideKeepsInv == ASSUME PreflightInv, NEW c \in Callers, Decide(c) PROVE PreflightInv'
<1> DEFINE r == call[c]
           best == Best(r.read, r.reqs)
           M == Matching(r.read, r.reqs)
<1>1. /\ r.pc = "fetch" /\ r.rows = {} /\ VaultSame /\ UNCHANGED faults
      /\ \/ M # {} /\ Goes(c, Advanced(c, "RESOLVED", best.id))
         \/ Goes(c, GivenUp(c, "FAILED"))
         \/ M = {} /\ Goes(c, [r EXCEPT !.pc = "upsert"])
  BY Zenon DEF Decide, Local
<1>2. /\ RecordOK(c, r, profiles, keys) /\ IsCall(r) /\ r.pc \notin {"idle", "done"}
      /\ r.at \in Nat /\ r.at \in DOMAIN r.plan /\ r.reqs = NeedsOf(r, r.at) /\ IsList(r.reqs)
      /\ RecordOK(c, GivenUp(c, "FAILED"), profiles, keys)
      /\ r.rows \subseteq DOMAIN profiles /\ r.changed \subseteq r.moved
  BY <1>1, ResolvingFacts DEF Resolving
<1>3. /\ \A x \in r.read : x.id \in DOMAIN profiles /\ (x.id \in r.changed \/ x = EntryOf(profiles, x.id))
      /\ \A i \in Known(r, profiles) : EntryOf(profiles, i) \in r.read
  BY <1>1, <1>2 DEF RecordOK, Reading
<1>4. \A i \in Known(r, profiles) : Meeting(profiles, i, r.reqs) => EntryOf(profiles, i) \in M
  BY <1>3 DEF Matching, EntryOf, Meeting
<1>5. DOMAIN profiles \subseteq Nat
  BY DEF PreflightInv, VaultOK
<1>6. ASSUME M # {} PROVE RecordOK(c, Advanced(c, "RESOLVED", best.id), profiles, keys)
  <2>1. \A x \in r.read : x.id \in Nat
    BY <1>3, <1>5
  <2>2. best \in M /\ \A q \in M : Outranks(best, q, r.reqs)
    BY <1>2, <1>6, <2>1, BestOutranks
  <2> HIDE DEF best
  <2>3. best \in r.read /\ Missing(best.slots, r.reqs) = {}
    BY <2>2 DEF Matching
  <2>4. best.id \in DOMAIN profiles /\ best.id \in Nat /\ (best.id \in r.changed \/ best = EntryOf(profiles, best.id))
    BY <1>3, <1>5, <2>3
  <2> DEFINE x == [step |-> r.at, status |-> "RESOLVED", id |-> best.id]
  <2>5. x \in Resolution
    BY <1>2, <2>4 DEF Resolution
  <2>6. Served(r, r.at, x, profiles)
    <3>1. best = EntryOf(profiles, best.id) => Meeting(profiles, best.id, NeedsOf(r, r.at))
      BY <1>2, <2>3, <2>4 DEF EntryOf, Meeting
    <3> QED BY <1>2, <2>4, <3>1 DEF Served
  <2>7. best.id \notin r.changed =>
          \A i \in Known(r, profiles) : Meeting(profiles, i, r.reqs)
             => Outranks(EntryOf(profiles, best.id), EntryOf(profiles, i), r.reqs)
    BY <1>4, <2>2, <2>4
  <2> QED BY <1>2, <2>4, <2>5, <2>6, <2>7, AdvancedOK
<1>7. ASSUME M = {} PROVE RecordOK(c, [r EXCEPT !.pc = "upsert"], profiles, keys)
  <2> DEFINE n == [r EXCEPT !.pc = "upsert"]
  <2>1. /\ IsCall(n) /\ n.pc = "upsert" /\ n.at = r.at /\ n.out = r.out
        /\ n.tool = r.tool /\ n.plan = r.plan /\ n.orchestrate = r.orchestrate
        /\ n.reqs = r.reqs /\ n.rows = r.rows /\ n.result = r.result
        /\ n.unseen = r.unseen /\ n.changed = r.changed /\ n.moved = r.moved
    BY <1>2 DEF IsCall
  <2> HIDE DEF n
  <2>2. Purpose(n)
    BY <1>1, <1>2, <2>1 DEF RecordOK, Purpose, Resolving, NeedsOf
  <2>3. Reading(n, profiles, keys)
    BY <1>4, <1>7, <2>1 DEF Reading, Known
  <2>4. RecordOK(c, n, profiles, keys)
    BY <1>1, <1>2, <2>1, <2>2, <2>3, LookingOK DEF Resolving
  <2> QED BY <2>4 DEF n
<1> HIDE DEF best, M
<1> QED BY <1>1, <1>2, <1>6, <1>7, GoesKeepsInv

\* A key the vault accepts takes nothing from what the calls hold.
LEMMA MoreKeysOK ==
  ASSUME NEW c, NEW r, NEW p, NEW k, NEW j, k \subseteq j, RecordOK(c, r, p, k)
  PROVE  RecordOK(c, r, p, j)
BY DEF RecordOK, Reading, Noted

(***************************************************************************)
(* A profile is written, by a call or by another client: every record      *)
(* takes notice.                                                           *)
(***************************************************************************)
LEMMA WrittenKeepsCalls ==
  ASSUME NEW calls, calls = [d \in Callers |-> calls[d]], NEW id, NEW slots, NEW k, k \subseteq keys',
         \A d \in Callers : RecordOK(d, calls[d], profiles, k),
         Store(id, slots), call' = Noticing(calls, id)
  PROVE  /\ call' = [d \in Callers |-> call'[d]]
         /\ \A d \in Callers : RecordOK(d, call'[d], profiles', keys')
<1>1. /\ DOMAIN profiles' = DOMAIN profiles \cup {id}
      /\ \A i \in DOMAIN profiles : i # id => profiles'[i] = profiles[i]
  BY DEF Store
<1>2. ASSUME NEW d \in Callers PROVE RecordOK(d, call'[d], profiles', keys')
  <2>1. call'[d] = IF calls[d].pc \in {"idle", "done"} THEN calls[d]
                   ELSE [calls[d] EXCEPT !.changed = @ \cup {id}, !.moved = @ \cup {id}]
    BY Zenon DEF Noticing
  <2> DEFINE r == calls[d]
             n == call'[d]
             q == profiles'
             j == keys'
  <2>2. RecordOK(d, r, profiles, k)
    OBVIOUS
  <2>3. n = IF r.pc \in {"idle", "done"} THEN r
            ELSE [r EXCEPT !.changed = @ \cup {id}, !.moved = @ \cup {id}]
    BY <2>1
  <2>4. k \subseteq j /\ DOMAIN q = DOMAIN profiles \cup {id} /\ \A i \in DOMAIN profiles : i # id => q[i] = profiles[i]
    BY <1>1
  <2> HIDE DEF r, n, q, j
  <2>5. RecordOK(d, n, q, j)
    BY <2>2, <2>3, <2>4, NoticeOK
  <2> QED BY <2>5 DEF n, q, j
<1>3. call' = [d \in Callers |-> call'[d]]
  BY DEF Noticing
<1> QED BY <1>2, <1>3

LEMMA UpsertProfileKeepsInv ==
  ASSUME PreflightInv, NEW c \in Callers, UpsertProfile(c) PROVE PreflightInv'
<1> DEFINE r == call[c]
           id == AutoId(r.reqs)
           minimal == BuildMinimalProfile(r.reqs)
           back == [r EXCEPT !.pc = "fetchback"]
           failed == GivenUp(c, "FAILED")
           grown == keys \cup {id}
<1>0. /\ r.pc = "upsert" /\ UNCHANGED << writes, edited >>
      /\ \/ /\ /\ Store(id, minimal) /\ keys' = grown
               /\ call' = Noticing([call EXCEPT ![c] = back], id)
            /\ UNCHANGED faults
         \/ id \in keys /\ Goes(c, back) /\ UNCHANGED << profiles, keys, faults >>
         \/ Fault /\ /\ Store(id, minimal) /\ keys' = grown
                     /\ call' = Noticing([call EXCEPT ![c] = failed], id)
         \/ Fault /\ Goes(c, failed) /\ UNCHANGED << profiles, keys >>
  BY Zenon DEF UpsertProfile
<1>1. /\ r.pc = "upsert" /\ UNCHANGED << writes, edited >> /\ (Fault \/ UNCHANGED faults)
      /\ \/ \E new \in {back, failed} : /\ Store(id, minimal) /\ keys' = grown
                                       /\ call' = Noticing([call EXCEPT ![c] = new], id)
         \/ id \in keys /\ Goes(c, back) /\ UNCHANGED << profiles, keys >>
         \/ Goes(c, failed) /\ UNCHANGED << profiles, keys >>
  <2> HIDE DEF back, failed, minimal, grown, id
  <2> QED BY <1>0
<1>2. /\ RecordOK(c, r, profiles, keys) /\ IsCall(r) /\ r.reqs \in Lists
      /\ r.rows \subseteq DOMAIN profiles /\ r.changed \subseteq r.moved
      /\ RecordOK(c, failed, profiles, keys)
  BY <1>1, ResolvingFacts DEF Resolving
<1>3. /\ IsCall(back) /\ back.pc = "fetchback" /\ back.at = r.at /\ back.out = r.out
      /\ back.tool = r.tool /\ back.plan = r.plan /\ back.orchestrate = r.orchestrate
      /\ back.reqs = r.reqs /\ back.rows = r.rows /\ back.result = r.result
      /\ back.changed = r.changed /\ back.moved = r.moved
  BY <1>2 DEF IsCall
<1>4. Purpose(back)
  <2> HIDE DEF back
  <2> QED BY <1>1, <1>2, <1>3 DEF RecordOK, Purpose, Resolving, NeedsOf
<1>5. ASSUME NEW k, keys \subseteq k, id \in k PROVE RecordOK(c, back, profiles, k)
  <2> HIDE DEF back
  <2>1. Reading(back, profiles, k)
    BY <1>3, <1>5 DEF Reading
  <2>2. RecordOK(c, r, profiles, k)
    BY <1>2, <1>5, MoreKeysOK
  <2> QED BY <1>1, <1>2, <1>3, <1>4, <2>1, <2>2, LookingOK DEF Resolving
<1>6. CASE id \in keys /\ Goes(c, back) /\ UNCHANGED << profiles, keys >>
  <2>1. RecordOK(c, back, profiles, keys)
    BY <1>5, <1>6
  <2> HIDE DEF back
  <2> QED BY <1>1, <1>6, <2>1, GoesKeepsInv DEF VaultSame
<1>7. CASE Goes(c, failed) /\ UNCHANGED << profiles, keys >>
  <2> HIDE DEF failed
  <2> QED BY <1>1, <1>2, <1>7, GoesKeepsInv DEF VaultSame
<1>8. ASSUME NEW new \in {back, failed}, Store(id, minimal), keys' = grown,
             call' = Noticing([call EXCEPT ![c] = new], id)
      PROVE  PreflightInv'
  <2>1. RecordOK(c, new, profiles, grown)
    <3>1. RecordOK(c, back, profiles, grown)
      BY <1>5
    <3>2. RecordOK(c, failed, profiles, grown)
      BY <1>2, MoreKeysOK
    <3> HIDE DEF back, failed
    <3> QED BY <1>8, <3>1, <3>2
  <2> DEFINE calls == [call EXCEPT ![c] = new]
  <2>2. calls = [d \in Callers |-> calls[d]] /\ \A d \in Callers : calls[d] = IF d = c THEN new ELSE call[d]
    BY DEF PreflightInv
  <2>3. \A d \in Callers : RecordOK(d, calls[d], profiles, grown)
    <3>1. \A d \in Callers : RecordOK(d, call[d], profiles, grown)
      BY MoreKeysOK DEF PreflightInv
    <3> HIDE DEF calls, grown
    <3> QED BY <2>1, <2>2, <3>1
  <2>4. /\ call' = [d \in Callers |-> call'[d]]
        /\ \A d \in Callers : RecordOK(d, call'[d], profiles', keys')
    <3> HIDE DEF calls, id, minimal, grown
    <3> QED BY <1>8, <2>2, <2>3, WrittenKeepsCalls DEF calls
  <2>5. VaultOK'
    <3>1. /\ DOMAIN profiles' = DOMAIN profiles \cup {id} /\ profiles'[id] = minimal
          /\ \A i \in DOMAIN profiles : i # id => profiles'[i] = profiles[i]
      BY <1>8 DEF Store
    <3>2. id \in Nat \ {NoId} /\ \A l \in Lists : AutoId(l) = id => l = r.reqs
      BY <1>2, PreflightAssumption DEF PreflightAssumption
    <3>3. Missing(minimal, r.reqs) = {}
      BY MinimalProfileCovers
    <3>4. faults' \in 0..MaxFaults
      BY <1>1, PreflightAssumption DEF PreflightAssumption, PreflightInv, VaultOK, Fault
    <3>5. VaultOK
      BY DEF PreflightInv
    <3>6. ASSUME NEW l \in Lists, AutoId(l) \in keys' \ edited'
          PROVE  Missing(profiles'[AutoId(l)], l) = {}
      <4>1. CASE AutoId(l) = id
        BY <3>1, <3>2, <3>3, <4>1
      <4>2. CASE AutoId(l) # id
        <5>1. AutoId(l) \in keys \ edited
          BY <1>1, <1>8, <3>6, <4>2
        <5> QED BY <3>1, <3>5, <4>2, <5>1 DEF VaultOK
      <4> QED BY <4>1, <4>2
    <3>7. DOMAIN profiles' \subseteq Nat \ {NoId} /\ keys' \cup edited' \subseteq DOMAIN profiles'
      BY <1>1, <1>8, <3>1, <3>2, <3>5 DEF VaultOK
    <3> QED BY <1>1, <3>4, <3>5, <3>6, <3>7 DEF VaultOK
  <2> QED BY <2>4, <2>5 DEF PreflightInv
<1> HIDE DEF back, failed, minimal, id, grown
<1> QED BY <1>1, <1>6, <1>7, <1>8

LEMMA FetchBackKeepsInv == ASSUME PreflightInv, NEW c \in Callers, FetchBack(c) PROVE PreflightInv'
<1> DEFINE r == call[c]
<1>1. /\ r.pc = "fetchback" /\ VaultSame /\ (Fault \/ UNCHANGED faults)
      /\ \E id \in {AutoId(r.reqs), NoId} : Goes(c, Advanced(c, "CREATED", id))
  BY Zenon DEF FetchBack
<1>2. /\ RecordOK(c, r, profiles, keys) /\ r.pc \notin {"idle", "done"} /\ r.at \in Nat
      /\ r.at \in DOMAIN r.plan /\ r.reqs = NeedsOf(r, r.at) /\ r.reqs # << >> /\ r.reqs \in Lists
  BY <1>1, ResolvingFacts DEF Resolving
<1>3. AutoId(r.reqs) \in keys
  BY <1>1, <1>2 DEF RecordOK, Reading
<1>4. AutoId(r.reqs) \in Nat \ {NoId}
  BY <1>2, PreflightAssumption DEF PreflightAssumption
<1>5. ASSUME NEW id \in {AutoId(r.reqs), NoId}
      PROVE  RecordOK(c, Advanced(c, "CREATED", id), profiles, keys)
  <2> DEFINE x == [step |-> r.at, status |-> "CREATED", id |-> id]
  <2>1. x \in Resolution
    BY <1>2, <1>4 DEF Resolution, NoId
  <2>2. Served(r, r.at, x, profiles)
    BY DEF Served
  <2>3. id # NoId => id = AutoId(NeedsOf(r, r.at)) /\ id \in keys
    BY <1>2, <1>3
  <2> QED BY <1>2, <2>1, <2>2, <2>3, AdvancedOK
<1> QED BY <1>1, <1>5, GoesKeepsInv

LEMMA OtherUpsertKeepsInv == ASSUME PreflightInv, OtherUpsert PROVE PreflightInv'
<1>1. PICK w \in Writes : /\ Store(w.id, w.slots) /\ edited' = edited \cup {w.id}
                          /\ call' = Noticing(call, w.id)
  BY DEF OtherUpsert
<1>2. writes < MaxWrites /\ writes' = writes + 1 /\ UNCHANGED << keys, faults >>
  BY DEF OtherUpsert
<1>3. /\ call' = [d \in Callers |-> call'[d]]
      /\ \A d \in Callers : RecordOK(d, call'[d], profiles', keys')
  BY <1>1, <1>2, WrittenKeepsCalls DEF PreflightInv
<1>4. VaultOK'
  <2>1. /\ DOMAIN profiles' = DOMAIN profiles \cup {w.id}
        /\ \A i \in DOMAIN profiles : i # w.id => profiles'[i] = profiles[i]
    BY <1>1 DEF Store
  <2>2. w.id \in Nat \ {NoId} /\ MaxWrites \in Nat
    BY PreflightAssumption DEF PreflightAssumption
  <2>3. VaultOK
    BY DEF PreflightInv
  <2>4. ASSUME NEW l \in Lists, AutoId(l) \in keys' \ edited'
        PROVE  Missing(profiles'[AutoId(l)], l) = {}
    <3>1. AutoId(l) \in keys \ edited /\ AutoId(l) # w.id
      BY <1>1, <1>2, <2>4
    <3> QED BY <2>1, <2>3, <3>1 DEF VaultOK
  <2>5. writes' \in 0..MaxWrites /\ faults' \in 0..MaxFaults
    BY <1>2, <2>2, <2>3 DEF VaultOK
  <2> QED BY <1>1, <1>2, <2>1, <2>2, <2>3, <2>4, <2>5 DEF VaultOK
<1> QED BY <1>3, <1>4 DEF PreflightInv

-----------------------------------------------------------------------------
(***************************************************************************)
(* The invariant holds, and what follows.                                  *)
(***************************************************************************)
LEMMA InitGivesInv == Init => PreflightInv
<1> SUFFICES ASSUME Init PROVE PreflightInv
  OBVIOUS
<1>1. /\ profiles \in InitialVaults /\ keys = {} /\ edited = {}
      /\ call = [c \in Callers |-> Idle] /\ writes = 0 /\ faults = 0
  BY DEF Init
<1>2. VaultOK
  <2>1. DOMAIN profiles \subseteq Nat \ {NoId} /\ MaxWrites \in Nat /\ MaxFaults \in Nat
    BY <1>1, PreflightAssumption DEF PreflightAssumption
  <2> QED BY <1>1, <2>1 DEF VaultOK
<1>3. /\ IsCall(Idle) /\ Idle.pc = "idle" /\ Idle.tool = "plan" /\ Idle.result = "none"
      /\ Idle.at = 1 /\ Idle.out = << >> /\ Idle.rows = {} /\ Idle.changed = {} /\ Idle.moved = {}
  BY DEF Idle, IsCall
<1>4. Range(Idle.out) = {} /\ Idle.out \in Seq(Resolution)
  BY <1>3 DEF Range
<1>5. ASSUME NEW c \in Callers PROVE RecordOK(c, Idle, profiles, keys)
  <2>1. RecordType(c, Idle, profiles)
    BY <1>3, <1>4 DEF RecordType, PCs, Tools
  <2>2. Purpose(Idle) /\ Reading(Idle, profiles, keys) /\ Noted(Idle, profiles, keys)
    BY <1>3, <1>4 DEF Purpose, Resolving, Reading, Noted
  <2> QED BY <2>1, <2>2 DEF RecordOK
<1> QED BY <1>1, <1>2, <1>5 DEF PreflightInv

LEMMA NextKeepsInv == ASSUME PreflightInv, [Next]_vars PROVE PreflightInv'
<1>1. CASE UNCHANGED vars
  <2>1. VaultOK'
    BY <1>1 DEF PreflightInv, VaultOK, vars
  <2> QED BY <1>1, <2>1 DEF PreflightInv, vars
<1>2. ASSUME NEW c \in Callers, CallerStep(c) PROVE PreflightInv'
  BY <1>2, PassStepKeepsInv, KeepStepKeepsInv, GiveUpStepKeepsInv, NeedProfileKeepsInv,
     ListProfilesKeepsInv, FetchProfileKeepsInv, DecideKeepsInv, UpsertProfileKeepsInv,
     FetchBackKeepsInv, FinishKeepsInv, SubmitKeepsInv DEF CallerStep
<1> QED BY <1>1, <1>2, BeginKeepsInv, OtherUpsertKeepsInv DEF Next, AllDone

LEMMA PreflightInvHolds == Spec => []PreflightInv
BY InitGivesInv, NextKeepsInv, PTL DEF Spec

\* The state has its type, and a call reads profiles only while it resolves a step.
THEOREM PreflightTypeCorrect == Spec => []PreflightTypeOK
<1>1. ASSUME PreflightInv PROVE PreflightTypeOK
  <2>1. VaultOK
    BY <1>1 DEF PreflightInv
  <2>2. ASSUME NEW c \in Callers
        PROVE  /\ call[c].pc \in PCs /\ call[c].tool \in Tools
               /\ call[c].result \in {"none", "ok", "error"}
               /\ Range(call[c].out) \subseteq Resolution
               /\ call[c].pc \in Resolving => call[c].reqs # << >>
               /\ call[c].rows \subseteq DOMAIN profiles
    <3>1. RecordType(c, call[c], profiles) /\ Purpose(call[c])
      BY <1>1 DEF PreflightInv, RecordOK
    <3>2. Range(call[c].out) \subseteq Resolution
      BY <3>1 DEF RecordType, Range
    <3> QED BY <3>1, <3>2 DEF RecordType, Purpose
  <2> QED BY <2>1, <2>2 DEF PreflightTypeOK, VaultOK, PCs, Resolving
<1> QED BY <1>1, PreflightInvHolds, PTL

(***************************************************************************)
(* A plan or a job that reaches the submission, and a resolution that is   *)
(* answered, has for each generic.http step a profile that covers what the *)
(* step needs, unless the profile was written from outside the call or the *)
(* reply that should have returned it broke off.                           *)
(***************************************************************************)
LEMMA ServedStillCovers ==
  ASSUME PreflightInv, NEW c \in Callers, NEW i, NEW x \in Range(call[c].out),
         Served(call[c], i, x, profiles)
  PROVE  /\ x.step = i /\ x.status \in {"RESOLVED", "CREATED"}
         /\ \/ call[c].tool # "resolve" /\ StepOutcome(call[c].plan[i]) \in {"NAMED", "PLAIN"}
            \/ StillCovers(c, x)
<1>1. x.step = i /\ x.status \in {"RESOLVED", "CREATED"} /\ NeedsOf(call[c], i) = Needed(c, i)
  BY DEF Served, NeedsOf, Needed
<1>2. ASSUME x.status = "CREATED" PROVE StillCovers(c, x)
  <2>1. CASE x.id = NoId
    BY <1>2, <2>1 DEF StillCovers
  <2>2. CASE x.id # NoId
    <3>1. Noted(call[c], profiles, keys) /\ Asked(c, call[c])
      <4>1. Noted(call[c], profiles, keys) /\ RecordType(c, call[c], profiles)
        BY DEF PreflightInv, RecordOK
      <4>2. call[c].out # << >>
        BY DEF Range
      <4> QED BY <4>1, <4>2 DEF RecordType
    <3>2. /\ i \in DOMAIN call[c].plan /\ NeedsOf(call[c], i) # << >>
          /\ x.id = AutoId(NeedsOf(call[c], i)) /\ x.id \in keys
      BY <1>1, <1>2, <2>2, <3>1 DEF Noted
    <3>3. NeedsOf(call[c], i) \in Lists
      BY <3>1, <3>2, AskedFacts
    <3>4. x.id \in edited \/ Missing(profiles[x.id], NeedsOf(call[c], i)) = {}
      BY <3>2, <3>3 DEF PreflightInv, VaultOK
    <3>5. x.id \in DOMAIN profiles
      BY <3>2 DEF PreflightInv, VaultOK
    <3> QED BY <1>1, <1>2, <3>4, <3>5 DEF StillCovers, Covers
  <2> QED BY <2>1, <2>2
<1>3. ASSUME x.status = "RESOLVED", x.id \in call[c].moved \/ Meeting(profiles, x.id, NeedsOf(call[c], i))
      PROVE  StillCovers(c, x)
  BY <1>1, <1>3 DEF StillCovers, Meeting, Covers
<1> QED BY <1>1, <1>2, <1>3 DEF Served

THEOREM PreflightStepsAreCovered == Spec => []StepsAreCovered
<1>1. ASSUME PreflightInv PROVE StepsAreCovered
  <2> SUFFICES ASSUME NEW c \in Callers, call[c].tool # "preview", call[c].orchestrate,
                      call[c].pc \in {"step", "submit"}, call[c].at > Len(call[c].plan),
                      NEW i \in DOMAIN call[c].plan, call[c].plan[i].http
               PROVE  \E x \in Range(call[c].out) :
                          /\ x.step = i /\ x.status \in {"RESOLVED", "CREATED"}
                          /\ \/ /\ call[c].tool # "resolve"
                                /\ StepOutcome(call[c].plan[i]) \in {"NAMED", "PLAIN"}
                             \/ StillCovers(c, x)
    BY Zenon DEF StepsAreCovered, Strict
  <2>1. /\ call[c].at \in Nat /\ Asked(c, call[c]) /\ Noted(call[c], profiles, keys)
    BY <1>1 DEF PreflightInv, RecordOK, RecordType
  <2>2. i < call[c].at
    <3>1. call[c].plan \in Seq(Step)
      BY <2>1, AskedFacts
    <3>2. i \in Nat /\ Len(call[c].plan) \in Nat /\ i <= Len(call[c].plan)
      BY <3>1
    <3> QED BY <2>1, <3>2
  <2>3. PICK x \in Range(call[c].out) : Served(call[c], i, x, profiles)
    BY <2>1, <2>2 DEF Noted
  <2> QED BY <1>1, <2>3, ServedStillCovers
<1> QED BY <1>1, PreflightInvHolds, PTL

(***************************************************************************)
(* A call creates a profile only when the vault holds none that covers the *)
(* step, and resolves to a profile only when none ranks higher, but for    *)
(* profiles it could not read or that were written since it listed them.   *)
(***************************************************************************)
THEOREM PreflightChoiceFitsVault == Spec => []ChoiceFitsVault
<1>1. ASSUME PreflightInv PROVE ChoiceFitsVault
  <2> SUFFICES ASSUME NEW c \in Callers
               PROVE  LET known == DOMAIN profiles \ (call[c].unseen \cup call[c].changed)
                          rivals == {id \in known : Covers(id, call[c].reqs)}
                      IN  /\ call[c].pc = "upsert" => rivals = {}
                          /\ \A r \in Range(call[c].out) :
                                ChosenJustNow(c, r) /\ r.id \notin call[c].changed
                                  => \A id \in rivals :
                                        Outranks(Entry(r.id), Entry(id), call[c].reqs)
    BY Zenon DEF ChoiceFitsVault
  <2>1. Reading(call[c], profiles, keys)
    BY <1>1 DEF PreflightInv, RecordOK
  <2>2. \A id : /\ Covers(id, call[c].reqs) <=> Meeting(profiles, id, call[c].reqs)
                /\ Entry(id) = EntryOf(profiles, id)
    BY DEF Covers, Meeting, Entry, EntryOf
  <2>3. ASSUME call[c].pc = "upsert", NEW id \in Known(call[c], profiles)
        PROVE  ~Covers(id, call[c].reqs)
    BY <2>1, <2>2, <2>3 DEF Reading
  <2>4. ASSUME NEW x \in Range(call[c].out), ChosenJustNow(c, x), x.id \notin call[c].changed,
               NEW id \in Known(call[c], profiles), Covers(id, call[c].reqs)
        PROVE  Outranks(Entry(x.id), Entry(id), call[c].reqs)
    BY <2>1, <2>2, <2>4 DEF Reading, ChosenJustNow
  <2> QED BY <2>3, <2>4, Zenon DEF Known
<1> QED BY <1>1, PreflightInvHolds, PTL
=============================================================================
