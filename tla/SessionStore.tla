----------------------------- MODULE SessionStore -----------------------------
(***************************************************************************)
(* The vault sessions of the HTTP server.  One server keeps a session      *)
(* (base URL, token, timeout) for each scope; the scope of a request comes *)
(* from its tenant headers.  Requests are served concurrently, each by a   *)
(* goroutine of its own, and the RWMutex of the store covers one look-up   *)
(* or one assignment at a time: a tool that finds no session looks at the  *)
(* environment and stores what it finds there in a second step.            *)
(*                                                                         *)
(* A session is named by the request that configured it.  A caller may go  *)
(* away at any moment, which stops nothing: no action is fair.             *)
(***************************************************************************)
EXTENDS Naturals, FiniteSets

CONSTANTS
    Requests,   \* the HTTP requests, each sent once
    Tenants,    \* values of the tenant headers, trimmed
    DEFAULT,    \* defaultSessionScope, which a header may name as well
    ENV,        \* the session described by VC_AGENT_TOKEN and its companions
    OPEN,       \* no promise: see the ghost "promise"
    NONE

ASSUME SessionAssumption ==
    /\ DEFAULT \in Tenants
    /\ NONE \notin Tenants
    /\ Requests \cap {ENV, NONE, OPEN} = {}
    /\ Cardinality({ENV, NONE, OPEN}) = 3

VARIABLES
    strict,     \* ACCORDS_MCP_HTTP_REQUIRE_TENANT_HEADER
    env,        \* whether VC_AGENT_TOKEN is set
    sessions,   \* configByKey: the session of each scope
    req,        \* the requests
    promise     \* ghost, per scope: the session that its callers must find

sessionVars == <<strict, env, sessions, req, promise>>

Tools == {"configure", "clear", "status", "use"}
Writers == {"configure", "clear"}

(* got: the session that status and use have found.  Ghosts: tenant, whom  *)
(* the headers name; rivals, the kinds of the other requests of its scope  *)
(* that were served at the same time.                                      *)
RequestRecords ==
    [pc : {"new", "do", "store", "reply", "done"}, tool : Tools \cup {"none"},
     scope : Tenants \cup {NONE}, got : Requests \cup {ENV, NONE},
     reply : {"none", "tenant_required", "refused", "done", "unconfigured", "session"},
     tenant : Tenants \cup {NONE}, rivals : SUBSET {"writer", "reader"}]

Unsent == [pc |-> "new", tool |-> "none", scope |-> NONE, got |-> NONE,
           reply |-> "none", tenant |-> NONE, rivals |-> {}]

(* held: the session, NONE after clear; clean: no look-up was under way    *)
(* while it was configured or cleared.                                     *)
Promises == [held : Requests \cup {NONE, OPEN}, clean : BOOLEAN]

NoPromise == [held |-> OPEN, clean |-> FALSE]

SessionInit ==
    /\ strict \in BOOLEAN
    /\ env \in BOOLEAN
    /\ sessions = [s \in Tenants |-> NONE]
    /\ req = [r \in Requests |-> Unsent]
    /\ promise = [s \in Tenants |-> NoPromise]

-----------------------------------------------------------------------------
(* X-Accords-Tenant-Id, X-OpenClaw-Tenant-Id and X-Tenant-Id, in the order *)
(* of tenantHeaderKeys.  A header that is missing or blank is NONE.        *)
Headers == [1 .. 3 -> Tenants \cup {NONE}]

(* Mutant: the last key of the list wins.                                  *)
ResolveLastHeader(h) ==
    LET named == {k \in 1 .. 3 : h[k] # NONE}
    IN  IF named # {} THEN h[CHOOSE k \in named : \A l \in named : k >= l]
        ELSE IF strict THEN NONE ELSE DEFAULT

(* ResolveHTTPSessionScope; NONE where the request is turned away.         *)
ResolveHTTPSessionScope(h) ==
    LET named == {k \in 1 .. 3 : h[k] # NONE}
    IN  IF named # {} THEN h[CHOOSE k \in named : \A l \in named : k <= l]
        ELSE IF strict THEN NONE ELSE DEFAULT

(* The tenant of a request as the README describes it (lines 57 to 64).    *)
TenantOf(h) ==
    CASE h[1] # NONE -> h[1]
      [] h[1] = NONE /\ h[2] # NONE -> h[2]
      [] h[1] = NONE /\ h[2] = NONE /\ h[3] # NONE -> h[3]
      [] OTHER -> IF strict THEN NONE ELSE DEFAULT

KindOf(tool) == IF tool \in Writers THEN "writer" ELSE "reader"

InService(s) == {r \in Requests : req[r].pc \in {"do", "store", "reply"} /\ req[r].scope = s}

(* handleRPC: a request arrives and gets its scope, or status 400.  Those  *)
(* of the scope that are in service meet it, and it meets them.            *)
Arrive(r, h, tool) ==
    LET s == ResolveHTTPSessionScope(h)
        met == [req[r] EXCEPT
                  !.pc = IF s = NONE THEN "reply" ELSE "do",
                  !.reply = IF s = NONE THEN "tenant_required" ELSE "none",
                  !.tool = tool, !.scope = s, !.tenant = TenantOf(h),
                  !.rivals = {KindOf(req[q].tool) : q \in InService(s)}]
    IN  /\ req[r].pc = "new"
        /\ req' = [q \in Requests |->
                     IF q = r THEN met
                     ELSE IF s # NONE /\ q \in InService(s)
                          THEN [req[q] EXCEPT !.rivals = @ \cup {KindOf(tool)}]
                          ELSE req[q]]
        /\ promise' = [t \in Tenants |->
                         IF t = s /\ tool \in Writers THEN NoPromise ELSE promise[t]]
        /\ UNCHANGED <<strict, env, sessions>>

Answer(r, got, reply) == req' = [req EXCEPT ![r].pc = "reply", ![r].got = got, ![r].reply = reply]

(* A payload that cannot be parsed, a wrong version, an unknown tool, or a *)
(* configure without a token: answered without touching the store.         *)
Refuse(r) ==
    /\ req[r].pc = "do"
    /\ Answer(r, NONE, "refused")
    /\ UNCHANGED <<strict, env, sessions, promise>>

(* Mutant: configure keeps a session that is already there.                *)
ConfigureIfAbsent(r) ==
    /\ req[r].pc = "do" /\ req[r].tool = "configure"
    /\ sessions' = [sessions EXCEPT ![req[r].scope] = IF @ = NONE THEN r ELSE @]
    /\ Answer(r, NONE, "done")
    /\ UNCHANGED <<strict, env, promise>>

(* handleSessionConfigure and scopedSessionStore.set.                      *)
Configure(r) ==
    /\ req[r].pc = "do" /\ req[r].tool = "configure"
    /\ sessions' = [sessions EXCEPT ![req[r].scope] = r]
    /\ Answer(r, NONE, "done")
    /\ UNCHANGED <<strict, env, promise>>

(* handleSessionClear and scopedSessionStore.clear.                        *)
Clear(r) ==
    /\ req[r].pc = "do" /\ req[r].tool = "clear"
    /\ sessions' = [sessions EXCEPT ![req[r].scope] = NONE]
    /\ Answer(r, NONE, "done")
    /\ UNCHANGED <<strict, env, promise>>

(* scopedSessionStore.get in handleSessionStatus and configuredClient, and *)
(* the look at the environment when it finds nothing.                      *)
LookUp(r) ==
    LET found == sessions[req[r].scope]
    IN  /\ req[r].pc = "do" /\ req[r].tool \in {"status", "use"}
        /\ \/ /\ found # NONE
              /\ Answer(r, found, "session")
           \/ /\ found = NONE /\ env
              /\ req' = [req EXCEPT ![r].pc = "store"]
           \/ /\ found = NONE /\ ~env
              /\ Answer(r, NONE, "unconfigured")
        /\ UNCHANGED <<strict, env, sessions, promise>>

(* The session of the environment is stored, whatever the scope now holds, *)
(* and used.                                                               *)
StoreEnv(r) ==
    /\ req[r].pc = "store"
    /\ sessions' = [sessions EXCEPT ![req[r].scope] = ENV]
    /\ Answer(r, ENV, "session")
    /\ UNCHANGED <<strict, env, promise>>

(* The response is written.  A writer that met no other writer of its      *)
(* scope knows from now on what the scope holds.                           *)
Reply(r) ==
    /\ req[r].pc = "reply"
    /\ req' = [req EXCEPT ![r].pc = "done"]
    /\ promise' =
         IF req[r].reply = "done" /\ "writer" \notin req[r].rivals
         THEN [promise EXCEPT ![req[r].scope] =
                 [held |-> IF req[r].tool = "configure" THEN r ELSE NONE,
                  clean |-> "reader" \notin req[r].rivals]]
         ELSE promise
    /\ UNCHANGED <<strict, env, sessions>>

SessionNext ==
    \E r \in Requests :
        \/ \E h \in Headers, tool \in Tools : Arrive(r, h, tool)
        \/ Refuse(r) \/ Configure(r) \/ Clear(r) \/ LookUp(r) \/ StoreEnv(r) \/ Reply(r)

SessionSpec == SessionInit /\ [][SessionNext]_sessionVars

-----------------------------------------------------------------------------
(* Types, and: a request is served under a scope, falls back only to an    *)
(* environment that has a token, and answers with the session it has found.*)
SessionTypeOK ==
    /\ strict \in BOOLEAN /\ env \in BOOLEAN
    /\ sessions \in [Tenants -> Requests \cup {ENV, NONE}]
    /\ req \in [Requests -> RequestRecords]
    /\ promise \in [Tenants -> Promises]
    /\ \A r \in Requests :
         /\ req[r].pc \in {"do", "store"} => req[r].scope # NONE
         /\ req[r].pc = "store" => env
         /\ req[r].reply = "session" <=> req[r].got # NONE

(* Nobody works with a session that a request of another tenant has        *)
(* configured, in whatever way the two name their tenants and however      *)
(* their requests overlap.                                                 *)
TenantsAreIsolated ==
    \A r \in Requests : req[r].got \in Requests => req[req[r].got].tenant = req[r].tenant

(* What a configure or clear has answered stays true until the next one of *)
(* its scope arrives, if no other request of the scope was in service with *)
(* it: later look-ups may put the environment's session where none is, and *)
(* change nothing else.                                                    *)
UndisturbedAnswerHolds ==
    \A s \in Tenants :
        promise[s].held # OPEN /\ promise[s].clean =>
            \/ sessions[s] = promise[s].held
            \/ promise[s].held = NONE /\ env /\ sessions[s] = ENV
=============================================================================
