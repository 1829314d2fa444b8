-------------------------- MODULE SessionStoreProofs --------------------------
(***************************************************************************)
(* Theorems of SessionStore, for any requests and tenants.                 *)
(***************************************************************************)
EXTENDS SessionStore, FiniteSetTheorems, TLAPS

InServiceAt(r, s) == req[r].pc \in {"do", "store", "reply"} /\ req[r].scope = s

(* A request is served under the tenant it names, and a session it sees    *)
(* was configured under the same one.                                      *)
ScopeIsTenant == \A r \in Requests : req[r].pc # "new" => req[r].scope = req[r].tenant
HeldFromScope ==
    \A s \in Tenants : sessions[s] \in Requests =>
        req[sessions[s]].pc # "new" /\ req[sessions[s]].scope = s
GotFromScope ==
    \A r \in Requests : req[r].got \in Requests =>
        /\ req[r].pc # "new"
        /\ req[req[r].got].pc # "new" /\ req[req[r].got].scope = req[r].scope

(* What the place of a request says of its tool and its answer.            *)
WellReplied ==
    \A r \in Requests :
        /\ req[r].pc \in {"new", "do", "store"} => req[r].reply = "none"
        /\ req[r].pc \in {"do", "store"} => req[r].tool \in Tools
        /\ req[r].pc = "store" => req[r].tool \in {"status", "use"}
        /\ req[r].reply = "done" => req[r].tool \in Writers /\ req[r].scope \in Tenants

BaseInv == SessionTypeOK /\ WellReplied
IsolationInv == BaseInv /\ ScopeIsTenant /\ HeldFromScope /\ GotFromScope

(* Two requests that are in service under one scope know of each other.    *)
RivalsKnown ==
    \A q, r \in Requests, s \in Tenants :
        q # r /\ InServiceAt(q, s) /\ InServiceAt(r, s) => KindOf(req[q].tool) \in req[r].rivals

Left(r) == IF req[r].tool = "configure" THEN r ELSE NONE

(* What a writer has stored is in place until it answers, if it is alone.  *)
AloneIsInPlace ==
    \A r \in Requests :
        req[r].pc = "reply" /\ req[r].reply = "done" /\ req[r].rivals = {} =>
            sessions[req[r].scope] = Left(r)

(* A promise ends when a writer arrives; while a clean one names a session *)
(* no look-up can have missed it.                                          *)
PromiseIsQuiet ==
    \A s \in Tenants : promise[s].held # OPEN =>
        \A r \in Requests : InServiceAt(r, s) =>
            /\ req[r].tool \notin Writers
            /\ req[r].pc = "store" /\ promise[s].clean => promise[s].held = NONE

PromiseInv ==
    /\ BaseInv /\ RivalsKnown /\ AloneIsInPlace
    /\ PromiseIsQuiet /\ UndisturbedAnswerHolds

-----------------------------------------------------------------------------
(* The distinguished values differ from each other and from the requests.  *)
LEMMA ConstantsApart ==
  /\ ENV # NONE /\ ENV # OPEN /\ NONE # OPEN
  /\ ENV \notin Requests /\ NONE \notin Requests /\ OPEN \notin Requests
  /\ DEFAULT \in Tenants /\ NONE \notin Tenants
<1>1. ENV # NONE /\ ENV # OPEN /\ NONE # OPEN
  <2>1. ASSUME NEW a, NEW b PROVE Cardinality({a, b}) <= 2
    <3>1. CASE a = b
      <4>1. {a, b} = {a} BY <3>1
      <4> QED BY <4>1, FS_Singleton
    <3>2. CASE a # b
      <4>1. IsFiniteSet({a}) /\ Cardinality({a}) = 1 BY FS_Singleton
      <4>2. Cardinality({a} \cup {b}) = 2 BY <3>2, <4>1, FS_AddElement
      <4>3. {a} \cup {b} = {a, b} OBVIOUS
      <4> QED BY <4>2, <4>3
    <3> QED BY <3>1, <3>2
  <2>2. ASSUME ENV = NONE \/ ENV = OPEN \/ NONE = OPEN PROVE FALSE
    <3>1. \E a, b : {ENV, NONE, OPEN} = {a, b}
      BY <2>2
    <3>2. Cardinality({ENV, NONE, OPEN}) <= 2 BY <2>1, <3>1
    <3> QED BY <3>2, SessionAssumption DEF SessionAssumption
  <2> QED BY <2>2
<1> QED BY <1>1, SessionAssumption DEF SessionAssumption

(* The loop over the header keys finds the tenant the README describes.    *)
LEMMA ScopeOfHeaders ==
  ASSUME NEW h \in Headers
  PROVE  /\ ResolveHTTPSessionScope(h) = TenantOf(h)
         /\ ResolveHTTPSessionScope(h) \in Tenants \cup {NONE}
<1> DEFINE named == {k \in 1 .. 3 : h[k] # NONE}
           first == CHOOSE k \in named : \A l \in named : k <= l
<1>1. CASE h[1] # NONE
  <2>1. 1 \in named /\ \A l \in named : 1 <= l BY <1>1
  <2>2. first \in named /\ \A l \in named : first <= l BY <2>1
  <2>3. first = 1 BY <2>1, <2>2
  <2> QED BY <1>1, <2>1, <2>3 DEF ResolveHTTPSessionScope, TenantOf, Headers
<1>2. CASE h[1] = NONE /\ h[2] # NONE
  <2>1. 2 \in named /\ \A l \in named : 2 <= l BY <1>2
  <2>2. first \in named /\ \A l \in named : first <= l BY <2>1
  <2>3. first = 2 BY <2>1, <2>2
  <2> QED BY <1>2, <2>1, <2>3 DEF ResolveHTTPSessionScope, TenantOf, Headers
<1>3. CASE h[1] = NONE /\ h[2] = NONE /\ h[3] # NONE
  <2>1. 3 \in named /\ \A l \in named : 3 <= l BY <1>3
  <2>2. first \in named /\ \A l \in named : first <= l BY <2>1
  <2>3. first = 3 BY <2>1, <2>2
  <2> QED BY <1>3, <2>1, <2>3 DEF ResolveHTTPSessionScope, TenantOf, Headers
<1>4. CASE h[1] = NONE /\ h[2] = NONE /\ h[3] = NONE
  <2>1. named = {} BY <1>4
  <2> QED BY <1>4, <2>1, ConstantsApart DEF ResolveHTTPSessionScope, TenantOf
<1> QED BY <1>1, <1>2, <1>3, <1>4

-----------------------------------------------------------------------------
(* What an action may do to the records of the requests: r moves, and the  *)
(* others at most meet one more rival.                                     *)
OnlyRivals(q) ==
    /\ req'[q] \in RequestRecords
    /\ req'[q].pc = req[q].pc /\ req'[q].tool = req[q].tool
    /\ req'[q].scope = req[q].scope /\ req'[q].got = req[q].got
    /\ req'[q].reply = req[q].reply /\ req'[q].tenant = req[q].tenant
    /\ req[q].rivals \subseteq req'[q].rivals

(* What giving an answer changes of the requests.                          *)
LEMMA AnswerMoves ==
  ASSUME req \in [Requests -> RequestRecords],
         NEW r \in Requests, NEW got \in Requests \cup {ENV, NONE},
         NEW reply \in {"refused", "done", "unconfigured", "session"},
         Answer(r, got, reply)
  PROVE  /\ req' \in [Requests -> RequestRecords]
         /\ \A q \in Requests \ {r} : req'[q] = req[q]
         /\ req'[r].pc = "reply" /\ req'[r].got = got /\ req'[r].reply = reply
         /\ req'[r].tool = req[r].tool /\ req'[r].scope = req[r].scope
         /\ req'[r].tenant = req[r].tenant /\ req'[r].rivals = req[r].rivals
<1> DEFINE moved == [req[r] EXCEPT !.pc = "reply", !.got = got, !.reply = reply]
<1>1. req' = [req EXCEPT ![r] = moved] BY DEF Answer
<1>2. req[r] \in RequestRecords OBVIOUS
<1>3. moved \in RequestRecords BY <1>2 DEF RequestRecords
<1>4. /\ moved.pc = "reply" /\ moved.got = got /\ moved.reply = reply
      /\ moved.tool = req[r].tool /\ moved.scope = req[r].scope
      /\ moved.tenant = req[r].tenant /\ moved.rivals = req[r].rivals
  BY <1>2 DEF RequestRecords
<1> QED BY <1>1, <1>3, <1>4

(* What an arrival changes: the newcomer has a scope, the others meet it.   *)
LEMMA ArriveMoves ==
  ASSUME req \in [Requests -> RequestRecords],
         NEW r \in Requests, NEW h \in Headers, NEW tool \in Tools, Arrive(r, h, tool)
  PROVE  /\ req' \in [Requests -> RequestRecords]
         /\ \A q \in Requests \ {r} : OnlyRivals(q)
         /\ \A q \in Requests \ {r} :
               ResolveHTTPSessionScope(h) # NONE /\ q \in InService(ResolveHTTPSessionScope(h))
                 => KindOf(tool) \in req'[q].rivals
         /\ \A q \in InService(ResolveHTTPSessionScope(h)) : KindOf(req[q].tool) \in req'[r].rivals
         /\ ResolveHTTPSessionScope(h) = NONE
               => req'[r].pc = "reply" /\ req'[r].reply = "tenant_required"
         /\ ResolveHTTPSessionScope(h) # NONE => req'[r].pc = "do" /\ req'[r].reply = "none"
         /\ req'[r].scope = ResolveHTTPSessionScope(h) /\ req'[r].tenant = req'[r].scope
         /\ req'[r].tool = tool /\ req'[r].got = req[r].got
<1> DEFINE s == ResolveHTTPSessionScope(h)
           met == [req[r] EXCEPT
                     !.pc = IF s = NONE THEN "reply" ELSE "do",
                     !.reply = IF s = NONE THEN "tenant_required" ELSE "none",
                     !.tool = tool, !.scope = s, !.tenant = TenantOf(h),
                     !.rivals = {KindOf(req[q].tool) : q \in InService(s)}]
<1>1. s \in Tenants \cup {NONE} /\ TenantOf(h) = s BY ScopeOfHeaders
<1>2. {KindOf(req[q].tool) : q \in InService(s)} \in SUBSET {"writer", "reader"} BY DEF KindOf
<1>a. /\ (IF s = NONE THEN "reply" ELSE "do") \in {"do", "reply"}
      /\ (IF s = NONE THEN "tenant_required" ELSE "none") \in {"none", "tenant_required"}
      /\ TenantOf(h) \in Tenants \cup {NONE}
  BY <1>1
<1>3. /\ met \in RequestRecords
      /\ met.pc = IF s = NONE THEN "reply" ELSE "do"
      /\ met.reply = IF s = NONE THEN "tenant_required" ELSE "none"
      /\ met.tool = tool /\ met.scope = s /\ met.got = req[r].got /\ met.tenant = TenantOf(h)
      /\ met.rivals = {KindOf(req[q].tool) : q \in InService(s)}
  <2> DEFINE pc0 == IF s = NONE THEN "reply" ELSE "do"
             reply0 == IF s = NONE THEN "tenant_required" ELSE "none"
             rivals0 == {KindOf(req[q].tool) : q \in InService(s)}
             n0 == TenantOf(h)
             m == [req[r] EXCEPT !.pc = pc0, !.reply = reply0, !.tool = tool,
                                 !.scope = s, !.tenant = n0, !.rivals = rivals0]
  <2>1. /\ pc0 \in {"do", "reply"} /\ reply0 \in {"none", "tenant_required"}
        /\ s \in Tenants \cup {NONE} /\ n0 \in Tenants \cup {NONE}
        /\ rivals0 \in SUBSET {"writer", "reader"}
    BY <1>1, <1>2, <1>a
  <2> HIDE DEF s, pc0, reply0, rivals0, n0
  <2>2. /\ m \in RequestRecords
        /\ m.pc = pc0 /\ m.reply = reply0 /\ m.tool = tool /\ m.scope = s
        /\ m.got = req[r].got /\ m.tenant = n0 /\ m.rivals = rivals0
    <3>1. req[r] \in RequestRecords OBVIOUS
    <3> QED BY ZenonT(40), <2>1, <3>1 DEF RequestRecords
  <2> QED BY <2>2, Zenon DEF pc0, reply0, rivals0, n0
<1>4. ASSUME NEW q \in Requests
      PROVE  [req[q] EXCEPT !.rivals = @ \cup {KindOf(tool)}] \in RequestRecords
  BY DEF RequestRecords, KindOf
<1>5. req' = [q \in Requests |->
                IF q = r THEN met
                ELSE IF s # NONE /\ q \in InService(s)
                     THEN [req[q] EXCEPT !.rivals = @ \cup {KindOf(tool)}]
                     ELSE req[q]]
  BY Zenon DEF Arrive
<1>6. req' \in [Requests -> RequestRecords] BY <1>3, <1>4, <1>5
<1>7. req'[r] = met BY <1>5
<1>8. ASSUME NEW q \in Requests \ {r}
      PROVE  /\ OnlyRivals(q)
             /\ s # NONE /\ q \in InService(s) => KindOf(tool) \in req'[q].rivals
  <2>1. req[q] \in RequestRecords /\ req'[q] \in RequestRecords BY <1>6
  <2>2. CASE s # NONE /\ q \in InService(s)
    <3>1. req'[q] = [req[q] EXCEPT !.rivals = @ \cup {KindOf(tool)}] BY <1>5, <2>2
    <3> QED BY <2>1, <3>1 DEF OnlyRivals, RequestRecords
  <2>3. CASE ~(s # NONE /\ q \in InService(s))
    <3>1. req'[q] = req[q] BY <1>5, <2>3
    <3> QED BY <2>1, <2>3, <3>1 DEF OnlyRivals
  <2> QED BY <2>2, <2>3
<1>9. \A q \in InService(s) : KindOf(req[q].tool) \in met.rivals BY <1>3
<1> HIDE DEF s
<1>10. /\ met.tool = tool /\ met.scope = s /\ met.got = req[r].got /\ met.tenant = TenantOf(h)
       /\ s = NONE => met.pc = "reply" /\ met.reply = "tenant_required"
       /\ s # NONE => met.pc = "do" /\ met.reply = "none"
  BY <1>3
<1>11. met.tenant = s BY <1>1, <1>10
<1>12. /\ \A q \in Requests \ {r} : OnlyRivals(q)
       /\ \A q \in Requests \ {r} : s # NONE /\ q \in InService(s) => KindOf(tool) \in req'[q].rivals
  BY <1>8
<1> HIDE DEF met
<1> QED BY <1>6, <1>7, <1>9, <1>10, <1>11, <1>12 DEF s

(* Moving a request on changes its place and nothing else of it.           *)
LEMMA PcMoves ==
  ASSUME req \in [Requests -> RequestRecords], NEW r \in Requests, NEW pc \in {"store", "done"},
         req' = [req EXCEPT ![r].pc = pc]
  PROVE  /\ req' \in [Requests -> RequestRecords]
         /\ \A q \in Requests \ {r} : req'[q] = req[q]
         /\ req'[r].pc = pc /\ req'[r].tool = req[r].tool /\ req'[r].scope = req[r].scope
         /\ req'[r].got = req[r].got /\ req'[r].reply = req[r].reply
         /\ req'[r].tenant = req[r].tenant /\ req'[r].rivals = req[r].rivals
<1> DEFINE moved == [req[r] EXCEPT !.pc = pc]
<1>1. req[r] \in RequestRecords OBVIOUS
<1>2. moved \in RequestRecords BY <1>1 DEF RequestRecords
<1>3. /\ moved.pc = pc /\ moved.tool = req[r].tool /\ moved.scope = req[r].scope
      /\ moved.got = req[r].got /\ moved.reply = req[r].reply
      /\ moved.tenant = req[r].tenant /\ moved.rivals = req[r].rivals
  BY <1>1 DEF RequestRecords
<1> QED BY <1>2, <1>3

-----------------------------------------------------------------------------
(* The types hold at the start.                                            *)
LEMMA BaseInit == SessionInit => BaseInv
<1> SUFFICES ASSUME SessionInit PROVE BaseInv OBVIOUS
<1>1. Unsent \in RequestRecords /\ NoPromise \in Promises
  BY DEF Unsent, RequestRecords, NoPromise, Promises
<1>2. \A r \in Requests : /\ req[r].pc = "new" /\ req[r].got = NONE /\ req[r].reply = "none"
  BY DEF SessionInit, Unsent
<1> QED
  BY <1>1, <1>2, ConstantsApart DEF SessionInit, BaseInv, SessionTypeOK, WellReplied

(* Each step keeps the types and the shape of the answers.                 *)
LEMMA BaseStep == BaseInv /\ [SessionNext]_sessionVars => BaseInv'
<1> SUFFICES ASSUME BaseInv, [SessionNext]_sessionVars PROVE BaseInv' OBVIOUS
<1> USE DEF BaseInv
<1>types. /\ req \in [Requests -> RequestRecords]
          /\ sessions \in [Tenants -> Requests \cup {ENV, NONE}]
          /\ promise \in [Tenants -> Promises]
          /\ strict \in BOOLEAN /\ env \in BOOLEAN
  BY DEF SessionTypeOK
<1>scope. \A r \in Requests : req[r].pc \in {"do", "store"} => req[r].scope \in Tenants
  BY <1>types DEF SessionTypeOK, RequestRecords
<1>1. ASSUME NEW r \in Requests, NEW h \in Headers, NEW tool \in Tools, Arrive(r, h, tool)
      PROVE  BaseInv'
  <2>1. UNCHANGED <<strict, env, sessions>> /\ req[r].pc = "new" BY <1>1, Zenon DEF Arrive
  <2>2. promise' \in [Tenants -> Promises]
    <3>1. promise' = [t \in Tenants |->
                        IF t = ResolveHTTPSessionScope(h) /\ tool \in Writers
                        THEN NoPromise ELSE promise[t]]
      BY <1>1, Zenon DEF Arrive
    <3>2. NoPromise \in Promises BY DEF NoPromise, Promises
    <3> QED BY <1>types, <3>1, <3>2
  <2>3. ResolveHTTPSessionScope(h) \in Tenants \cup {NONE} BY ScopeOfHeaders
  <2> DEFINE s == ResolveHTTPSessionScope(h)
  <2>4. /\ req' \in [Requests -> RequestRecords]
        /\ \A q \in Requests \ {r} : OnlyRivals(q)
        /\ s = NONE => req'[r].pc = "reply" /\ req'[r].reply = "tenant_required"
        /\ s # NONE => req'[r].pc = "do" /\ req'[r].reply = "none"
        /\ req'[r].scope = s /\ req'[r].tool = tool /\ req'[r].got = req[r].got
    BY <1>1, <1>types, ArriveMoves
  <2> HIDE DEF s
  <2>5. req[r].got = NONE BY <2>1, ConstantsApart DEF SessionTypeOK, WellReplied
  <2>6. ASSUME NEW q \in Requests
        PROVE  /\ req'[q].pc \in {"do", "store"} => req'[q].scope # NONE
               /\ req'[q].pc = "store" => env'
               /\ req'[q].reply = "session" <=> req'[q].got # NONE
    BY <2>1, <2>4, <2>5, ConstantsApart DEF SessionTypeOK, OnlyRivals
  <2>7. SessionTypeOK' BY <1>types, <2>1, <2>2, <2>4, <2>6 DEF SessionTypeOK
  <2>8. WellReplied' BY <2>4, ConstantsApart DEF WellReplied, OnlyRivals
  <2> QED BY <2>7, <2>8
<1>2. ASSUME NEW r \in Requests, Refuse(r) PROVE BaseInv'
  BY <1>2, <1>types, AnswerMoves, ConstantsApart DEF Refuse, SessionTypeOK, WellReplied
<1>3. ASSUME NEW r \in Requests, Configure(r) PROVE BaseInv'
  BY <1>3, <1>types, <1>scope, AnswerMoves, ConstantsApart
  DEF Configure, SessionTypeOK, WellReplied, Writers
<1>4. ASSUME NEW r \in Requests, Clear(r) PROVE BaseInv'
  BY <1>4, <1>types, <1>scope, AnswerMoves, ConstantsApart
  DEF Clear, SessionTypeOK, WellReplied, Writers
<1>5. ASSUME NEW r \in Requests, LookUp(r) PROVE BaseInv'
  <2> DEFINE found == sessions[req[r].scope]
  <2>0. found \in Requests \cup {ENV, NONE} BY <1>5, <1>types, <1>scope DEF LookUp
  <2>1. CASE found # NONE /\ Answer(r, found, "session")
    BY <1>5, <1>types, <2>0, <2>1, AnswerMoves, ConstantsApart DEF LookUp, SessionTypeOK, WellReplied
  <2>2. CASE env /\ req' = [req EXCEPT ![r].pc = "store"]
    <3>1. /\ req' \in [Requests -> RequestRecords]
          /\ \A q \in Requests \ {r} : req'[q] = req[q]
          /\ req'[r].pc = "store" /\ req'[r].tool = req[r].tool /\ req'[r].scope = req[r].scope
          /\ req'[r].got = req[r].got /\ req'[r].reply = req[r].reply
      BY <1>types, <2>2, PcMoves
    <3> QED BY <1>5, <1>types, <2>2, <3>1, ConstantsApart DEF LookUp, SessionTypeOK, WellReplied
  <2>3. CASE Answer(r, NONE, "unconfigured")
    BY <1>5, <1>types, <2>3, AnswerMoves, ConstantsApart DEF LookUp, SessionTypeOK, WellReplied
  <2> QED BY <1>5, <2>1, <2>2, <2>3, Zenon DEF LookUp
<1>6. ASSUME NEW r \in Requests, StoreEnv(r) PROVE BaseInv'
  BY <1>6, <1>types, <1>scope, AnswerMoves, ConstantsApart DEF StoreEnv, SessionTypeOK, WellReplied
<1>7. ASSUME NEW r \in Requests, Reply(r) PROVE BaseInv'
  <2>1. UNCHANGED <<strict, env, sessions>> /\ req[r].pc = "reply" BY <1>7 DEF Reply
  <2>2. promise' \in [Tenants -> Promises] BY <1>7, <1>types DEF Reply, Promises
  <2>3. /\ req' \in [Requests -> RequestRecords]
        /\ \A q \in Requests \ {r} : req'[q] = req[q]
        /\ req'[r].pc = "done" /\ req'[r].tool = req[r].tool /\ req'[r].scope = req[r].scope
        /\ req'[r].got = req[r].got /\ req'[r].reply = req[r].reply
    BY <1>7, <1>types, PcMoves DEF Reply
  <2> QED BY <1>types, <2>1, <2>2, <2>3 DEF SessionTypeOK, WellReplied
<1>8. CASE UNCHANGED sessionVars
  BY <1>8 DEF sessionVars, SessionTypeOK, WellReplied
<1> QED BY <1>1, <1>2, <1>3, <1>4, <1>5, <1>6, <1>7, <1>8, Zenon DEF SessionNext

-----------------------------------------------------------------------------
(* What a step of a request in service may do, beside its own progress: it *)
(* takes the session of its scope, or stores its own one there.            *)
ServiceMoves(r) ==
    /\ req[r].pc # "new"
    /\ \A q \in Requests \ {r} : req'[q] = req[q]
    /\ req'[r].pc # "new" /\ req'[r].scope = req[r].scope /\ req'[r].tenant = req[r].tenant
    /\ \/ req'[r].got = req[r].got
       \/ req'[r].got \notin Requests
       \/ req[r].scope \in Tenants /\ req'[r].got = sessions[req[r].scope]
    /\ \A s \in Tenants :
         \/ sessions'[s] = sessions[s]
         \/ sessions'[s] \notin Requests
         \/ s = req[r].scope /\ sessions'[s] = r

(* At the start no session is held and no request has arrived.             *)
LEMMA IsolationInit == SessionInit => IsolationInv
<1> SUFFICES ASSUME SessionInit PROVE IsolationInv OBVIOUS
<1>1. \A r \in Requests : req[r].pc = "new" /\ req[r].got = NONE BY DEF SessionInit, Unsent
<1>2. \A s \in Tenants : sessions[s] = NONE BY DEF SessionInit
<1> QED
  BY <1>1, <1>2, BaseInit, ConstantsApart
  DEF IsolationInv, ScopeIsTenant, HeldFromScope, GotFromScope

(* Once it has arrived, a request keeps its scope: what it has configured  *)
(* can be found under that scope only.                                     *)
LEMMA IsolationStep == IsolationInv /\ [SessionNext]_sessionVars => IsolationInv'
<1> SUFFICES ASSUME IsolationInv, [SessionNext]_sessionVars
             PROVE  ScopeIsTenant' /\ HeldFromScope' /\ GotFromScope'
  BY BaseStep DEF IsolationInv
<1> USE DEF IsolationInv, BaseInv
<1>types. /\ req \in [Requests -> RequestRecords]
          /\ sessions \in [Tenants -> Requests \cup {ENV, NONE}]
          /\ \A r \in Requests : req[r].pc \in {"do", "store"} => req[r].scope \in Tenants
  BY DEF SessionTypeOK, RequestRecords
<1>1. ASSUME NEW r \in Requests, NEW h \in Headers, NEW tool \in Tools, Arrive(r, h, tool)
      PROVE  ScopeIsTenant' /\ HeldFromScope' /\ GotFromScope'
  <2>1. sessions' = sessions /\ req[r].pc = "new" BY <1>1, Zenon DEF Arrive
  <2>2. /\ \A q \in Requests \ {r} : OnlyRivals(q)
        /\ req'[r].pc # "new" /\ req'[r].tenant = req'[r].scope
        /\ req'[r].got = req[r].got
    BY <1>1, <1>types, ArriveMoves, ScopeOfHeaders
  <2>3. req[r].got = NONE BY <2>1, ConstantsApart DEF SessionTypeOK, WellReplied
  <2>4. ScopeIsTenant' BY <2>2 DEF ScopeIsTenant, OnlyRivals
  <2>5. HeldFromScope' BY <2>1, <2>2 DEF HeldFromScope, OnlyRivals
  <2>6. GotFromScope' BY <2>1, <2>2, <2>3, ConstantsApart DEF GotFromScope, OnlyRivals
  <2> QED BY <2>4, <2>5, <2>6
<1>2. ASSUME NEW r \in Requests, ServiceMoves(r)
      PROVE  ScopeIsTenant' /\ HeldFromScope' /\ GotFromScope'
  <2> USE <1>2 DEF ServiceMoves
  <2>1. ScopeIsTenant' BY DEF ScopeIsTenant
  <2>2. HeldFromScope' BY DEF HeldFromScope
  <2>3. GotFromScope' BY DEF GotFromScope, HeldFromScope
  <2> QED BY <2>1, <2>2, <2>3
<1>3. ASSUME NEW r \in Requests, Refuse(r)
      PROVE  ScopeIsTenant' /\ HeldFromScope' /\ GotFromScope'
  <2>0. /\ \A q \in Requests \ {r} : req'[q] = req[q]
        /\ req'[r].pc \in {"store", "reply", "done"} /\ req'[r].got = NONE
        /\ req'[r].scope = req[r].scope /\ req'[r].tenant = req[r].tenant
    BY <1>3, <1>types, AnswerMoves, ConstantsApart DEF Refuse
  <2>1. ServiceMoves(r) BY <1>3, <1>types, <2>0, ConstantsApart DEF Refuse, ServiceMoves
  <2> QED BY <1>2, <2>1
<1>4. ASSUME NEW r \in Requests, Configure(r)
      PROVE  ScopeIsTenant' /\ HeldFromScope' /\ GotFromScope'
  <2>0. /\ \A q \in Requests \ {r} : req'[q] = req[q]
        /\ req'[r].pc \in {"store", "reply", "done"} /\ req'[r].got = NONE
        /\ req'[r].scope = req[r].scope /\ req'[r].tenant = req[r].tenant
    BY <1>4, <1>types, AnswerMoves, ConstantsApart DEF Configure
  <2>1. ServiceMoves(r) BY <1>4, <1>types, <2>0, ConstantsApart DEF Configure, ServiceMoves
  <2> QED BY <1>2, <2>1
<1>5. ASSUME NEW r \in Requests, Clear(r)
      PROVE  ScopeIsTenant' /\ HeldFromScope' /\ GotFromScope'
  <2>0. /\ \A q \in Requests \ {r} : req'[q] = req[q]
        /\ req'[r].pc \in {"store", "reply", "done"} /\ req'[r].got = NONE
        /\ req'[r].scope = req[r].scope /\ req'[r].tenant = req[r].tenant
    BY <1>5, <1>types, AnswerMoves, ConstantsApart DEF Clear
  <2>1. ServiceMoves(r) BY <1>5, <1>types, <2>0, ConstantsApart DEF Clear, ServiceMoves
  <2> QED BY <1>2, <2>1
<1>6. ASSUME NEW r \in Requests, LookUp(r)
      PROVE  ScopeIsTenant' /\ HeldFromScope' /\ GotFromScope'
  <2> DEFINE found == sessions[req[r].scope]
  <2>1. found \in Requests \cup {ENV, NONE} /\ sessions' = sessions /\ req[r].pc = "do"
    BY <1>6, <1>types DEF LookUp
  <2>2. CASE Answer(r, found, "session")
    <3>0. /\ \A q \in Requests \ {r} : req'[q] = req[q]
          /\ req'[r].pc \in {"store", "reply", "done"} /\ req'[r].got = found
          /\ req'[r].scope = req[r].scope /\ req'[r].tenant = req[r].tenant
      BY <2>1, <2>2, <1>types, AnswerMoves, ConstantsApart
    <3>1. ServiceMoves(r) BY <2>1, <2>2, <1>types, <3>0, ConstantsApart DEF ServiceMoves
    <3> QED BY <1>2, <3>1
  <2>3. CASE req' = [req EXCEPT ![r].pc = "store"]
    <3>0. /\ \A q \in Requests \ {r} : req'[q] = req[q]
          /\ req'[r].pc \in {"store", "reply", "done"} /\ req'[r].got = req[r].got
          /\ req'[r].scope = req[r].scope /\ req'[r].tenant = req[r].tenant
      BY <2>1, <2>3, <1>types, PcMoves, ConstantsApart
    <3>1. ServiceMoves(r) BY <2>1, <2>3, <1>types, <3>0, ConstantsApart DEF ServiceMoves
    <3> QED BY <1>2, <3>1
  <2>4. CASE Answer(r, NONE, "unconfigured")
    <3>0. /\ \A q \in Requests \ {r} : req'[q] = req[q]
          /\ req'[r].pc \in {"store", "reply", "done"} /\ req'[r].got = NONE
          /\ req'[r].scope = req[r].scope /\ req'[r].tenant = req[r].tenant
      BY <2>1, <2>4, <1>types, AnswerMoves, ConstantsApart
    <3>1. ServiceMoves(r) BY <2>1, <2>4, <1>types, <3>0, ConstantsApart DEF ServiceMoves
    <3> QED BY <1>2, <3>1
  <2> QED BY <1>6, <2>2, <2>3, <2>4, Zenon DEF LookUp
<1>7. ASSUME NEW r \in Requests, StoreEnv(r)
      PROVE  ScopeIsTenant' /\ HeldFromScope' /\ GotFromScope'
  <2>0. /\ \A q \in Requests \ {r} : req'[q] = req[q]
        /\ req'[r].pc \in {"store", "reply", "done"} /\ req'[r].got = ENV
        /\ req'[r].scope = req[r].scope /\ req'[r].tenant = req[r].tenant
    BY <1>7, <1>types, AnswerMoves, ConstantsApart DEF StoreEnv
  <2>1. ServiceMoves(r) BY <1>7, <1>types, <2>0, ConstantsApart DEF StoreEnv, ServiceMoves
  <2> QED BY <1>2, <2>1
<1>8. ASSUME NEW r \in Requests, Reply(r)
      PROVE  ScopeIsTenant' /\ HeldFromScope' /\ GotFromScope'
  <2>0. /\ \A q \in Requests \ {r} : req'[q] = req[q]
        /\ req'[r].pc \in {"store", "reply", "done"} /\ req'[r].got = req[r].got
        /\ req'[r].scope = req[r].scope /\ req'[r].tenant = req[r].tenant
    BY <1>8, <1>types, PcMoves, ConstantsApart DEF Reply
  <2>1. ServiceMoves(r) BY <1>8, <1>types, <2>0, ConstantsApart DEF Reply, ServiceMoves
  <2> QED BY <1>2, <2>1
<1>9. CASE UNCHANGED sessionVars
  BY <1>9 DEF sessionVars, ScopeIsTenant, HeldFromScope, GotFromScope
<1> QED BY <1>1, <1>3, <1>4, <1>5, <1>6, <1>7, <1>8, <1>9, Zenon DEF SessionNext

(* The types of the sessions, requests and promises.                       *)
THEOREM SessionTypeCorrect == SessionSpec => []SessionTypeOK
<1>1. BaseInv => SessionTypeOK BY DEF BaseInv
<1> QED BY <1>1, BaseInit, BaseStep, PTL DEF SessionSpec

(* No request works with a session that another tenant has configured,     *)
(* whatever headers they use and however their look-ups interleave.        *)
THEOREM SessionIsolation == SessionSpec => []TenantsAreIsolated
<1>1. IsolationInv => TenantsAreIsolated
  BY DEF IsolationInv, ScopeIsTenant, GotFromScope, TenantsAreIsolated
<1> QED BY <1>1, IsolationInit, IsolationStep, PTL DEF SessionSpec

-----------------------------------------------------------------------------
(* A request in service takes a step; the other requests do not change.    *)
Advances(r) ==
    /\ req[r].pc \in {"do", "store", "reply"}
    /\ \A q \in Requests \ {r} : req'[q] = req[q]
    /\ req'[r].pc # "new"
    /\ req'[r].tool = req[r].tool /\ req'[r].scope = req[r].scope
    /\ req'[r].rivals = req[r].rivals

(* A step that moves one request on lets nobody forget a rival.            *)
LEMMA RivalsStayKnown ==
  ASSUME RivalsKnown, NEW r \in Requests, Advances(r)
  PROVE  RivalsKnown'
BY DEF RivalsKnown, Advances, InServiceAt

(* At the start there is no promise.                                       *)
LEMMA PromiseInit == SessionInit => PromiseInv
<1> SUFFICES ASSUME SessionInit PROVE PromiseInv OBVIOUS
<1>1. \A r \in Requests : req[r].pc = "new" BY DEF SessionInit, Unsent
<1>2. \A s \in Tenants : promise[s].held = OPEN BY DEF SessionInit, NoPromise
<1> QED
  BY <1>1, <1>2, BaseInit
  DEF PromiseInv, RivalsKnown, InServiceAt, AloneIsInPlace, PromiseIsQuiet, UndisturbedAnswerHolds

(* Each step keeps what was promised, or ends the promise.                 *)
LEMMA PromiseStep == PromiseInv /\ [SessionNext]_sessionVars => PromiseInv'
<1> DEFINE Kept == RivalsKnown /\ AloneIsInPlace /\ PromiseIsQuiet /\ UndisturbedAnswerHolds
<1> SUFFICES ASSUME PromiseInv, [SessionNext]_sessionVars PROVE Kept'
  BY BaseStep DEF PromiseInv
<1> USE DEF PromiseInv, BaseInv
<1>types. /\ req \in [Requests -> RequestRecords]
          /\ sessions \in [Tenants -> Requests \cup {ENV, NONE}]
          /\ promise \in [Tenants -> Promises]
          /\ \A r \in Requests : req[r].pc \in {"do", "store"} => req[r].scope \in Tenants
          /\ \A r \in Requests : req[r].pc = "store" => env
          /\ \A s \in Tenants : promise[s].held \in Requests \cup {NONE, OPEN}
  BY DEF SessionTypeOK, RequestRecords, Promises
<1>1. ASSUME NEW r \in Requests, NEW h \in Headers, NEW tool \in Tools, Arrive(r, h, tool)
      PROVE  Kept'
  <2> DEFINE c == ResolveHTTPSessionScope(h)
  <2>1. /\ sessions' = sessions /\ env' = env /\ req[r].pc = "new"
        /\ promise' = [t \in Tenants |->
                         IF t = c /\ tool \in Writers THEN NoPromise ELSE promise[t]]
    BY <1>1, Zenon DEF Arrive
  <2>2. /\ \A q \in Requests \ {r} : OnlyRivals(q)
        /\ \A q \in Requests \ {r} : c # NONE /\ q \in InService(c) => KindOf(tool) \in req'[q].rivals
        /\ \A q \in InService(c) : KindOf(req[q].tool) \in req'[r].rivals
        /\ req'[r].pc \in {"do", "reply"} /\ req'[r].reply \in {"none", "tenant_required"}
        /\ req'[r].scope = c /\ req'[r].tool = tool
    BY <1>1, <1>types, ArriveMoves
  <2> HIDE DEF c
  <2>3. RivalsKnown'
    BY <2>1, <2>2, ConstantsApart DEF RivalsKnown, InServiceAt, InService, OnlyRivals
  <2>4. AloneIsInPlace'
    BY <2>1, <2>2 DEF AloneIsInPlace, OnlyRivals, Left
  <2>5. \A s \in Tenants : promise'[s].held # OPEN =>
           promise'[s] = promise[s] /\ ~(s = c /\ tool \in Writers)
    BY <2>1 DEF NoPromise
  <2>6. PromiseIsQuiet'
    BY <2>2, <2>5 DEF PromiseIsQuiet, InServiceAt, OnlyRivals
  <2>7. UndisturbedAnswerHolds'
    BY <2>1, <2>5 DEF UndisturbedAnswerHolds
  <2> QED BY <2>3, <2>4, <2>6, <2>7
<1>2. ASSUME NEW r \in Requests, Advances(r), promise' = promise, sessions' = sessions, env' = env,
             req'[r].pc = "reply", req'[r].reply # "done"
      PROVE  Kept'
  <2>1. AloneIsInPlace' BY <1>2 DEF AloneIsInPlace, Advances, Left
  <2>2. PromiseIsQuiet' BY <1>2 DEF PromiseIsQuiet, Advances, InServiceAt
  <2>3. UndisturbedAnswerHolds' BY <1>2 DEF UndisturbedAnswerHolds
  <2> QED BY <1>2, <2>1, <2>2, <2>3, RivalsStayKnown
<1>3. ASSUME NEW r \in Requests, Refuse(r) PROVE Kept'
  <2>1. /\ Advances(r) /\ req'[r].pc = "reply" /\ req'[r].reply = "refused"
    BY <1>3, <1>types, AnswerMoves, ConstantsApart DEF Refuse, Advances
  <2>2. promise' = promise /\ sessions' = sessions /\ env' = env BY <1>3 DEF Refuse
  <2> QED BY <1>2, <2>1, <2>2
<1>4. ASSUME NEW r \in Requests, req[r].pc = "do", req[r].tool \in Writers, Advances(r),
             promise' = promise, env' = env, sessions' = [sessions EXCEPT ![req[r].scope] = Left(r)],
             req'[r].pc = "reply"
      PROVE  Kept'
  <2>1. \A q \in Requests \ {r} : InServiceAt(q, req[r].scope) => req[q].rivals # {}
    BY <1>4, <1>types DEF RivalsKnown, InServiceAt
  <2>2. promise[req[r].scope].held = OPEN
    BY <1>4, <1>types DEF PromiseIsQuiet, InServiceAt
  <2>3. /\ sessions'[req[r].scope] = Left(r)
        /\ \A s \in Tenants \ {req[r].scope} : sessions'[s] = sessions[s]
    BY <1>4, <1>types
  <2>4. AloneIsInPlace'
    <3> SUFFICES ASSUME NEW q \in Requests, req'[q].pc = "reply", req'[q].reply = "done",
                        req'[q].rivals = {}
                 PROVE  sessions'[req'[q].scope] = Left(q)'
      BY DEF AloneIsInPlace
    <3>1. CASE q = r BY <1>4, <2>3, <3>1 DEF Advances, Left
    <3>2. CASE q # r
      <4>1. /\ req[q].pc = "reply" /\ req[q].reply = "done" /\ req[q].rivals = {}
            /\ req'[q].scope = req[q].scope /\ Left(q)' = Left(q)
        BY <1>4, <3>2 DEF Advances, Left
      <4>2. req[q].scope \in Tenants BY <4>1 DEF WellReplied
      <4>3. req[q].scope # req[r].scope BY <2>1, <3>2, <4>1 DEF InServiceAt
      <4> QED BY <2>3, <4>1, <4>2, <4>3 DEF AloneIsInPlace
    <3> QED BY <3>1, <3>2
  <2>5. PromiseIsQuiet' BY <1>4 DEF PromiseIsQuiet, Advances, InServiceAt
  <2>6. UndisturbedAnswerHolds' BY <1>4, <2>2, <2>3 DEF UndisturbedAnswerHolds
  <2> QED BY <1>4, <2>4, <2>5, <2>6, RivalsStayKnown
<1>5. ASSUME NEW r \in Requests, Configure(r) PROVE Kept'
  <2>1. /\ Advances(r) /\ req'[r].pc = "reply" /\ req'[r].reply = "done"
    BY <1>5, <1>types, AnswerMoves, ConstantsApart DEF Configure, Advances
  <2>2. /\ promise' = promise /\ env' = env /\ req[r].pc = "do" /\ req[r].tool \in Writers
        /\ sessions' = [sessions EXCEPT ![req[r].scope] = Left(r)]
    BY <1>5 DEF Configure, Writers, Left
  <2> QED BY <1>4, <2>1, <2>2
<1>6. ASSUME NEW r \in Requests, Clear(r) PROVE Kept'
  <2>1. /\ Advances(r) /\ req'[r].pc = "reply" /\ req'[r].reply = "done"
    BY <1>6, <1>types, AnswerMoves, ConstantsApart DEF Clear, Advances
  <2>2. /\ promise' = promise /\ env' = env /\ req[r].pc = "do" /\ req[r].tool \in Writers
        /\ sessions' = [sessions EXCEPT ![req[r].scope] = Left(r)]
    BY <1>6 DEF Clear, Writers, Left
  <2> QED BY <1>4, <2>1, <2>2
<1>7. ASSUME NEW r \in Requests, LookUp(r) PROVE Kept'
  <2> DEFINE found == sessions[req[r].scope]
  <2>1. /\ found \in Requests \cup {ENV, NONE} /\ req[r].pc = "do" /\ req[r].scope \in Tenants
        /\ promise' = promise /\ sessions' = sessions /\ env' = env
    BY <1>7, <1>types DEF LookUp
  <2>2. CASE Answer(r, found, "session")
    <3>1. Advances(r) /\ req'[r].pc = "reply" /\ req'[r].reply = "session"
      BY <1>types, <2>1, <2>2, AnswerMoves DEF Advances
    <3> QED BY <1>2, <2>1, <3>1
  <2>3. CASE found = NONE /\ env /\ req' = [req EXCEPT ![r].pc = "store"]
    <3>1. Advances(r) /\ req'[r].pc = "store"
      BY <1>types, <2>1, <2>3, PcMoves DEF Advances
    <3>2. \A s \in Tenants : promise[s].held # OPEN /\ promise[s].clean /\ req[r].scope = s =>
             promise[s].held = NONE
      BY <1>types, <2>3 DEF UndisturbedAnswerHolds
    <3>3. AloneIsInPlace' BY <2>1, <3>1 DEF AloneIsInPlace, Advances, Left
    <3>4. PromiseIsQuiet' BY <2>1, <3>1, <3>2 DEF PromiseIsQuiet, Advances, InServiceAt
    <3>5. UndisturbedAnswerHolds' BY <2>1 DEF UndisturbedAnswerHolds
    <3> QED BY <3>1, <3>3, <3>4, <3>5, RivalsStayKnown
  <2>4. CASE Answer(r, NONE, "unconfigured")
    <3>1. Advances(r) /\ req'[r].pc = "reply" /\ req'[r].reply = "unconfigured"
      BY <1>types, <2>1, <2>4, AnswerMoves DEF Advances
    <3> QED BY <1>2, <2>1, <3>1
  <2>5. \/ Answer(r, found, "session")
        \/ found = NONE /\ env /\ req' = [req EXCEPT ![r].pc = "store"]
        \/ Answer(r, NONE, "unconfigured")
    BY <1>7 DEF LookUp
  <2> QED BY <2>2, <2>3, <2>4, <2>5
<1>8. ASSUME NEW r \in Requests, StoreEnv(r) PROVE Kept'
  <2>1. Advances(r) /\ req'[r].pc = "reply" /\ req'[r].reply = "session"
    BY <1>8, <1>types, AnswerMoves DEF StoreEnv, Advances
  <2>2. /\ promise' = promise /\ env' = env /\ env /\ req[r].pc = "store"
        /\ req[r].scope \in Tenants /\ KindOf(req[r].tool) = "reader"
        /\ sessions' = [sessions EXCEPT ![req[r].scope] = ENV]
    BY <1>8, <1>types DEF StoreEnv, WellReplied, KindOf, Writers
  <2>3. /\ sessions'[req[r].scope] = ENV
        /\ \A s \in Tenants \ {req[r].scope} : sessions'[s] = sessions[s]
    BY <1>types, <2>2
  <2>4. AloneIsInPlace'
    <3> SUFFICES ASSUME NEW q \in Requests, req'[q].pc = "reply", req'[q].reply = "done",
                        req'[q].rivals = {}
                 PROVE  sessions'[req'[q].scope] = Left(q)'
      BY DEF AloneIsInPlace
    <3>1. q # r BY <2>1
    <3>2. /\ req[q].pc = "reply" /\ req[q].reply = "done" /\ req[q].rivals = {}
          /\ req'[q].scope = req[q].scope /\ Left(q)' = Left(q)
      BY <2>1, <3>1 DEF Advances, Left
    <3>3. req[q].scope \in Tenants BY <3>2 DEF WellReplied
    <3>4. req[q].scope # req[r].scope
      BY <2>2, <3>1, <3>2 DEF RivalsKnown, InServiceAt
    <3> QED BY <2>3, <3>2, <3>3, <3>4 DEF AloneIsInPlace
  <2>5. PromiseIsQuiet' BY <2>1, <2>2 DEF PromiseIsQuiet, Advances, InServiceAt
  <2>6. promise[req[r].scope].held # OPEN /\ promise[req[r].scope].clean =>
           promise[req[r].scope].held = NONE
    BY <2>2 DEF PromiseIsQuiet, InServiceAt
  <2>7. UndisturbedAnswerHolds' BY <2>2, <2>3, <2>6 DEF UndisturbedAnswerHolds
  <2> QED BY <2>1, <2>4, <2>5, <2>7, RivalsStayKnown
<1>9. ASSUME NEW r \in Requests, Reply(r) PROVE Kept'
  <2>1. /\ sessions' = sessions /\ env' = env /\ req[r].pc = "reply"
        /\ Advances(r) /\ req'[r].pc = "done"
    BY <1>9, <1>types, PcMoves DEF Reply, Advances
  <2>2. AloneIsInPlace' BY <2>1 DEF AloneIsInPlace, Advances, Left
  <2>3. CASE ~(req[r].reply = "done" /\ "writer" \notin req[r].rivals)
    <3>1. promise' = promise BY <1>9, <2>3 DEF Reply
    <3>2. PromiseIsQuiet' BY <2>1, <3>1 DEF PromiseIsQuiet, Advances, InServiceAt
    <3>3. UndisturbedAnswerHolds' BY <2>1, <3>1 DEF UndisturbedAnswerHolds
    <3> QED BY <2>1, <2>2, <3>2, <3>3, RivalsStayKnown
  <2>4. CASE req[r].reply = "done" /\ "writer" \notin req[r].rivals
    <3> DEFINE c == req[r].scope
    <3>1. c \in Tenants BY <2>4 DEF WellReplied
    <3>2. /\ promise'[c].held = Left(r) /\ promise'[c].clean = ("reader" \notin req[r].rivals)
          /\ \A s \in Tenants \ {c} : promise'[s] = promise[s]
      BY <1>9, <1>types, <2>4, <3>1 DEF Reply, Left
    <3>3. \A q \in Requests \ {r} : InServiceAt(q, c) =>
             req[q].tool \notin Writers /\ "reader" \in req[r].rivals
      BY <2>1, <2>4, <3>1 DEF RivalsKnown, InServiceAt, KindOf
    <3>4. PromiseIsQuiet'
      <4> SUFFICES ASSUME NEW s \in Tenants, promise'[s].held # OPEN,
                          NEW q \in Requests, InServiceAt(q, s)'
                   PROVE  /\ req'[q].tool \notin Writers
                          /\ req'[q].pc = "store" /\ promise'[s].clean => promise'[s].held = NONE
        BY DEF PromiseIsQuiet
      <4>1. q # r /\ req'[q] = req[q] /\ InServiceAt(q, s)
        BY <2>1 DEF Advances, InServiceAt
      <4>2. CASE s = c BY <3>2, <3>3, <4>1, <4>2
      <4>3. CASE s # c BY <3>2, <4>1, <4>3 DEF PromiseIsQuiet
      <4> QED BY <4>2, <4>3
    <3>5. "reader" \notin req[r].rivals => req[r].rivals = {}
      BY <1>types, <2>4 DEF RequestRecords
    <3>6. "reader" \notin req[r].rivals => sessions[c] = Left(r)
      BY <2>1, <2>4, <3>5 DEF AloneIsInPlace
    <3>7. UndisturbedAnswerHolds' BY <2>1, <3>2, <3>6 DEF UndisturbedAnswerHolds
    <3> QED BY <2>1, <2>2, <3>4, <3>7, RivalsStayKnown
  <2> QED BY <2>3, <2>4
<1>10. CASE UNCHANGED sessionVars
  BY <1>10
  DEF sessionVars, RivalsKnown, InServiceAt, AloneIsInPlace, Left, PromiseIsQuiet, UndisturbedAnswerHolds
<1> QED BY <1>1, <1>3, <1>5, <1>6, <1>7, <1>8, <1>9, <1>10, Zenon DEF SessionNext

(* What a configure or clear has answered stays true until the next writer *)
(* of its scope, if it was alone.                                          *)
THEOREM SessionAnswerHolds == SessionSpec => []UndisturbedAnswerHolds
<1>1. PromiseInv => UndisturbedAnswerHolds BY DEF PromiseInv
<1> QED BY <1>1, PromiseInit, PromiseStep, PTL DEF SessionSpec
=============================================================================
