# vaultclaw-mcp in TLA+

A verification development for `accords-mcp`, the MCP server that lets an agent
use a Vaultclaw vault, and for the OpenClaw plugin that drives it. Models are
translated from the code under `src/`; `PROJECT.json` names, for each
definition, the lines it stands for.

1. [The system](#1-the-system)
2. [Modules](#2-modules)
3. [What is checked](#3-what-is-checked)
4. [What is proved](#4-what-is-proved)
5. [Disagreements between the code and its documents](#5-disagreements)
6. [Abstractions, bounds and fairness](#6-abstractions-bounds-and-fairness)
7. [Not modelled, and the plan](#7-not-modelled-and-the-plan)

## 1. The system

```
 agent gateway ── plugins/openclaw-vaultclaw-bridge/index.ts
                        │ one child process per tool call, NDJSON over stdio
                        ▼
 HTTP clients ──► accords-mcp (cmd/, internal/mcp)  ──► vault (HTTP, external)
                        │ internal/orchestration, internal/vault
                        ▼
                  catalog directory (internal/catalog), shared by all processes
```

| component | state | operations | what is hard | what makes it correct |
|---|---|---|---|---|
| catalog lock (`lock_registry.go`, `lock_unix.go`) | a mutex per root in each process, `flock` on `.catalog.lock` | acquire, release | two levels of lock, deadline, crashes | one writer at a time; never orphaned; every attempt ends |
| catalog store (`store.go`, `atomic_write.go`) | `cookbooks/<id>/<version>.json`, `index.json`, `sources.json` | open, upsert, delete, get, list, search, index repair | readers take no lock; two files per change; errors after the rename | the index follows the bundles; conflict policies hold; calls are atomic |
| start-up (`bootstrap_catalog.go`) | seed marker and its temporary file | seed, write the marker, check the routes | every tool call starts a process, so starters overlap; the marker is written outside the lock | the marker tells what was seeded; starts fail only for a reason; user edits survive restarts |
| execution and approval (`tools_connectors.go`, `tools_plans.go`, `approval_handoff.go`, `waiter.go`) | none of its own: the vault's jobs, the caller's handle | execute, look up the pending id, wait, look | lost, late and truncated replies; retries; deadlines; a decision at any moment | the caller gets the handle; what it is told is true, final, and reaches it |
| vault client (`client.go`, `errors.go`) | none | GET, POST | idempotency keys, truncated bodies | an answer is never invented |
| unbounded profiles (`unbounded_profiles.go`) | the vault's profiles | match, choose, create | profiles change between list, get and use; racing creators | the chosen profile meets every requirement; one profile per requirement set |
| plan preflight (`plan_preflight.go`) | the plan being rewritten | resolve bindings, profile by step | a failure half way leaves profiles behind | all steps or an error |
| sessions (`server.go`, `tools_session.go`, `http_scope.go`) | configuration per tenant scope | configure, status, clear, use | concurrent requests; the environment fallback is a read and then a write | tenants are isolated; a configuration is not undone |
| JSON-RPC server (`server.go`, `main.go`) | none | read, dispatch, answer | sequential on stdio, concurrent on HTTP | one answer per request |
| bridge (`index.ts`) | pending requests with timers, child process | request, notify, close | late answers, exit before buffered output, timers | every request settles once; children end |
| versions, templates, validation (`types.go`, `render.go`, `validate.go`) | pure | compare, render, validate | boundary cases | order is total; the order of bindings does not matter |
| remote catalogs (`remote_http.go`, `tools_catalog_remote.go`) | `sources.json`, the store | list, install, edit a source | the site changes between the requests of an install; editors share one file; truncated bodies | what is installed is what was named; edits are not lost |
| module hashes (`module_hash.go`) | cache per call | fill in `module_hash` | stale cache | equal connectors get equal hashes |
| routing (`resolver.go`, `registry.go`, `tools_routing.go`) | none; the caller sends its words and facts again | score, choose, search the catalog, fill in inputs, say what is missing | ties; the catalog changes between the index and the entry; a retry may come to another route | the winner stands out or the answer is AMBIGUOUS; a retry completes what it was asked for; guesses yield to facts |
| passport workflow (`tools_passport_workflow.go`) | none of its own: the runs of its plan in the vault, the KYC profile, the arguments the caller passes back | look up the passport, build the plan, execute it, resume | lost replies, several runs at once, passports uploaded during a run | one mail per request; a preview sends nothing; the body fits the attachment |

Components meet in four places. Every process opens the **catalog** and may
write it, under the lock. Every process **seeds** the catalog before it serves;
the bridge starts one process per tool call. And an execution is spread over
several **tool calls**, which may run in different processes and share nothing
but the handle the caller passes back. Finally, a **request in words** goes
through the router, which reads the catalog while others write it, and from
there to the tool that the answer names.

## 2. Modules

| module | models | state | actions and code |
|---|---|---|---|
| `CatalogLock` | `withWriteLock`, `acquireFileLock`, `Unlock` | `mutex` per process, `flock`, `lpc`/`lres` per goroutine | `Request`, `MutexLock` (`mu.Lock`), `TryLock`/`TryTimesOut`/`TryFails` (one poll), `FileUnlock`, `MutexUnlock` (deferred), `Kill` |
| `CatalogSpec` | the promise of the store to its callers | `bundles`, `ask`, `answer` | one atomic action per operation; `Refuse` and `FailLate` for errors |
| `CatalogStore` | the store, one step per file operation; EXTENDS `CatalogLock` | `files`, `index`, `opened`, `call` per goroutine, ghost `stale` | `Resolve`, `Read`, `List`, `UpsertDecides`, `WriteBundle`, `RemoveBundle`, `Cleanup`, `LoadIndex`, `SaveIndex`, `SaveRebuilt`, `RepairBody`, `EnsureLayout`, `Reload`, and the lock's actions under `AwaitMutex`, `Enter`, `GiveUp`, `Leave`, `Exit` |
| `CatalogBootstrap` | `bootstrapCatalog` of several processes over the abstract catalog | `cat`, inodes behind `marker` and `tmp`, `proc` per slot, ghosts | `ReadMarker`, `SeedNext`, `OpenTmp`, `WriteTmp`, `RenameTmp`, `Validate` with `LookUp` (`GetEntry` of the routed entries), `Exit`, `Edit` |
| `ApprovalFlow` | execute, handoff, wait and look, with the vault as environment | the vault's `job`s, each with what its plan run and its pending item show (state and code of their own), `call` and `known` handles per caller, `told`, `orphans` in flight | `Execute`, `Preflight`, `Submit`, `PostFails`, `PostReplyCut`, `PostReply`, `Lookup`, `Wait`, `Poll`, `CheckDeadline`, `Look`, `Abandon` |
| `ProfileMatching` | requirements, matching, ranking and the minimal profile, as operators | | `NormalizeRequirements`, `Missing`, `Score`, `Best`, `BuildMinimalProfile` |
| `PlanPreflight` | `PreflightPlan` and `ResolveUnboundedProfile` as plans, jobs, previews and the resolve tool call them; EXTENDS `ProfileMatching` | the vault's `profiles` and idempotency `keys`, `call` per caller with its place in the loop, ghosts `unseen`, `changed`, `moved`, `edited` | `Begin`, the loop (`PassStep`, `KeepStep`, `GiveUpStep`, `NeedProfile`, `Finish`), one action per request to the vault (`ListProfiles`, `FetchProfile`, `UpsertProfile`, `FetchBack`, `Submit`), `Decide`, and `OtherUpsert` of another client |
| `SessionStore` | the scoped sessions of the HTTP server | `sessions` per scope (`configByKey`), `req`uests, ghost `promise` | `Arrive` (scope from the headers, or status 400), `Refuse`, `Configure`, `Clear`, `LookUp` and `StoreEnv` (the two halves of `configuredClient` and of status), `Reply` |
| `BridgeRpc` | one tool call through the plugin, and the stdio server at the other end | per call `bridge` (pending ids, timers, result), `server` process, the pipes `stdin` and `stdout` | `Spawn`, `Line`, `ExitEvent`, `Timeout`, `WriteFails`, `CloseTimer` of the plugin; `Boot`, `Serve`, `FinishTool`, `Die` of the process |
| `RemoteCatalog` | the file of sources, and list and install from a remote site; EXTENDS `Versions` | `sources`, the write `lock`, `edit` per editor, the `site`, `call` per installer, `catalog` | `Load`, `LockTimeout`, `Save` (UpsertSource, DeleteSource), `Begin`, `FetchIndex`, `FetchFails`, `Download`, `Store` (RemoteInstall), and `PublishFile`, `PublishIndex` of the publisher |
| `Versions` | `compareVersion`, `LatestVersion`, as operators | | `Compare`, `LatestVersions` |
| `Templates` | `RenderTemplate`, as operators, and a caller that calls again with what was missing | `authored`, `template` (as it is stored), `asked`, `given`, `answer`, `again` | `Render`, `GiveMissing` over `CanonicalBindings` (every outcome of the sort), `SetJSONPointer`, `Bind`, `RenderBindings`, `RenderTemplate` |
| `Routing` | `vaultclaw_route_resolve` and the caller that retries it | `request`, `facts`, `catalog`, `call` with its place in the scan, `answer`, `caller`, ghosts `seen`, `upset`, `first`, `shifted` | `Resolve`, `Scan` and `Choose` (`pickRegistryRoute`), `Search`, `ReadEntry` and `Rank` (`resolveWithSearch`), `ChangeCatalog` of other processes; `FetchFacts`, `AskUser` and `Settle` of the caller |
| `PassportWorkflow` | `vaultclaw_passport_email_workflow`, its plan in the vault, and the caller that resumes it | `args`, `work` and `passport` of the call, `told`, the vault's `runs`, `profile` and `latest` passport, ghost `lost` | `Request`, `Begin` and `LookUp` (`resolvePassportDocumentID`), `Submit`, `Reply`; `CallAgain`, `Confirm` and `Upload` of caller and user; the plan's steps `Read`, `Extract`, `Draft`, `Send`, `Fail` |
| `VaultRequest` | a request from its words to the mail: composes `Routing` and `PassportWorkflow` | both | `HandOver`, when the answer names the workflow |
| `CatalogStoreProofs`, `CatalogBootstrapProofs`, `PlanPreflightProofs`, `CookbookProofs`, `SessionStoreProofs`, `ApprovalFlowProofs`, `BridgeRpcProofs`, `VaultRequestProofs` | theorems about the modules they are named after; `CatalogStoreProofs` has those of `CatalogLock` too, `PlanPreflightProofs` those of `ProfileMatching`, `CookbookProofs` has those of `RemoteCatalog`, `Versions` and `Templates`, and `VaultRequestProofs` those of `Routing` and `PassportWorkflow` | | |

`MC*` modules give the constants of the runs. A definition whose comment begins
with *Mutant* is not part of a model: it is a definition changed the way a
plausible bug would change it, and `PROJECT.json` says which property notices.
Ghost variables (marked in their declarations) record causes and never guard an
action of the code.

`CatalogStore` composes the lock with the store: writers move through the
lock's own actions, and `Crash` is the lock's `Kill` joined with the loss of the
calls. It implements `CatalogSpec` under the refinement mapping at its end: the
bundle files are the bundles, a call's request is `ask`, and its settled outcome
is `answer`. Cache rows, the lock and the order of file operations are hidden.
`CatalogBootstrap` builds on that result: an upsert there is one step that
happens, fails before, or fails after.

## 3. What is checked

| run | shows |
|---|---|
| `catalog_store` | Two processes, one cookbook, two versions, two contents, one fault. Outside writers, the index agrees with every bundle except where a fault cut a writer short (`IndexCoherent`); a success has left bundle and row as reported, also after an earlier fault (`SuccessIsIndexed`); only OVERWRITE replaces and only delete removes (`NoSilentOverwrite`); the whole implements `CatalogSpec` (`ImplementsCatalogSpec`) |
| `catalog_live` | Two goroutines of one process and one of another, one fault. One writer is inside at a time (`MutualExclusion`); a lock is held only by a live goroutine that is inside and holds its mutex (`NoOrphanedLock`); a deadline passes only because of another process (`TimeoutMeansOtherProcess`); every call returns (`EveryCallEnds`), so the repair of the index cannot loop or lock itself out |
| `bootstrap` | Two starters, two releases, two bundled cookbooks. Only overlapping starters can leave a marker that cannot be read (`UnreadableMarkerNeedsOverlap`); the marker names what the catalog holds, unless two releases seeded at once or a starter died half way (`MarkerNamesCatalog`); a start fails only for an I/O error, overlapping starters or a required cookbook whose entries it did not get, and that only where a caller deleted it or left an entry out, or another release has put its own there: seeding at the same time, dying half way, or setting its marker since (`FailureHasACause`); each lost edit has one of the causes named (`LostEditsHaveACause`) |
| `approval_flow` | One caller, two jobs or plans (so that its request may run twice), two faults, and denials and expiries that job, run and pending item show with a code or none. ALLOW and DENY are told only of jobs that ended so (`ToldIsTrue`) and stand, whichever tool tells, except that a denial without a code on the job or the item may become UNKNOWN (`VerdictIsFinal`); a job whose handle the caller lacks has a known cause, so a second execution does too (`JobsAccountedFor`); every call is answered (`CallsAreAnswered`), and a caller that keeps waiting learns the decision (`DecisionReachesCaller`) |
| `approval_handle_dropped` | violation, see section 5 |
| `plan_preflight` | One call of each kind (plan with and without leave to create, job, preview, resolve, no orchestration) beside a job that needs the same profile, another client's write, one failed request. What reaches the submission has a covering profile for each step, unless a write or a cut reply since explains it (`StepsAreCovered`); a profile is created only when none fits, and the best is chosen, of those that could be read and were not written meanwhile (`ChoiceFitsVault`); previews write nothing (`NoWriteWithoutLeave`) |
| `sessions` | Three requests of two tenants, one of them the default scope, in strict mode or not, with and without a token in the environment. Nobody works with another tenant's session (`TenantsAreIsolated`); what a configure or clear answered, alone in its scope, stays true until the next (`UndisturbedAnswerHolds`) |
| `bridge` | One call, two faults. A tool runs at most once, an answer is what it said, and after a failed start, a slow start or an unknown tool it never runs (`ToolRunsAsTold`); SIGTERM cuts a tool short only after its call has timed out (`OnlyTimeoutsCutTools`); every call settles (`CallsSettle`) and leaves no process behind (`ProcessesEnd`) |
| `configure_forgotten` | violation, see section 5 |
| `remote` | One installer that calls again and again, a site published three times, two editors, one fault. What is stored has the version asked for or the latest offered, and is what the checksum names; without one it bears at least the name (`InstallsWhatWasNamed`); a source changes only by its own edits (`EditsKeepOtherSources`); of whatever versions an index lists there is a latest, since `compareVersion` is a total order of token lists (`VersionsAreOrdered`) |
| `templates` | Templates of two and three bindings, all inputs, a second call. What is rendered is a tree with every input in its place, unless a later binding wrote over it, and the rest of the template untouched (`RendersTemplateWithInputs`); neither the author's order of bindings nor the sort, which is not stable, makes a difference, and supplying what was reported missing is enough (`AnswersAreStable`) |
| `vault_request` | The routes of `registry.v1.json`, a catalog with two versions of one entry, about 600 requests. A route is chosen only if every other scores less (`WinnerStandsOut`); an answer from the catalog leads by two points and lacks nothing its template required (`FoundEntryIsComplete`); what the user said is kept and facts come before guesses (`GuessesYield`); facts and answers lead a retry to the route they were asked for (`RetryKeepsRoute`) and complete it (`RetryIsEnough`). Of the passport mail: a preview sends nothing (`PreviewsSendNothing`), a second mail needs a lost reply, or the error that replaces a handoff (section 5) in its place (`SecondMailHasACause`), each detail in a mail is from the passport attached to it or was given, but for five causes that the property names (`BodyMatchesAttachment`) |

`PROJECT.json` gives for each property of a passing run a mutant of the code
that the property rejects.

## 4. What is proved

The table lists the theorems by module; `PROJECT.json` adds a sentence on each.
All of them are about safety specifications, without fairness, and hold for every
value of the constants that the named assumption allows. The paragraphs after the
table give the inductive invariants and why they are needed. Each invariant was
model-checked before it was proved.

| theorem | states |
|---|---|
| `LockInvariant`, `LockTypeCorrect` | `LockInv` always holds; `LockTypeOK` |
| `LockMutualExclusion` | `MutualExclusion` |
| `LockNeverOrphaned` | `NoOrphanedLock` |
| `LockTimeoutCause` | `TimeoutMeansOtherProcess` |
| `StoreInvariant`, `StoreTypeCorrect` | `StoreInv` always holds; `StoreTypeOK` |
| `StoreMutualExclusion` | `MutualExclusion`, of the store |
| `StoreNoSilentOverwrite` | `NoSilentOverwrite`, with file locking |
| `StoreIndexCoherent` | `IndexCoherent`, with file locking |
| `StoreSuccessIsIndexed` | `SuccessIsIndexed`, with file locking |
| `StoreImplementsCatalogSpec` | `ImplementsCatalogSpec`, with file locking |
| `BootTypeCorrect` | `BootTypeOK` |
| `UnreadableMarkerTakesTwo` | `UnreadableMarkerNeedsOverlap` |
| `MarkerIsTrue` | `MarkerNamesCatalog` |
| `FailuresAreExplained` | `FailureHasACause` |
| `EditsAreLostForACause` | `LostEditsHaveACause` |
| `MinimalProfileCovers` | a built profile meets every requirement |
| `MinimalProfileIsLeast` | a built profile allows no more than any other that does |
| `PreflightTypeCorrect` | `PreflightTypeOK` |
| `PreflightNoWriteWithoutLeave` | `NoWriteWithoutLeave` |
| `PreflightStepsAreCovered` | `StepsAreCovered` |
| `PreflightChoiceFitsVault` | `ChoiceFitsVault` |
| `RemoteVersionsAreOrdered` | `VersionsAreOrdered` |
| `RemoteEditsKeepOtherSources` | `EditsKeepOtherSources` |
| `RemoteInstallsWhatWasNamed` | `InstallsWhatWasNamed` |
| `TemplatesRenderInputs` | `RendersTemplateWithInputs` |
| `TemplatesAnswerStably` | `AnswersAreStable` |
| `StoredOrderIsUnique` | one list of bindings is stored, whatever its author's order and the sort |
| `SessionTypeCorrect` | `SessionTypeOK` |
| `SessionIsolation` | `TenantsAreIsolated` |
| `SessionAnswerHolds` | `UndisturbedAnswerHolds` |
| `FlowTypeCorrect` | `FlowTypeOK` |
| `FlowToldIsTrue` | `ToldIsTrue` |
| `FlowVerdictIsFinal` | `VerdictIsFinal` |
| `FlowJobsAccountedFor` | `JobsAccountedFor` |
| `BridgeTypeCorrect` | `BridgeTypeOK` |
| `BridgeToolRunsAsTold` | `ToolRunsAsTold` |
| `BridgeOnlyTimeoutsCut` | `OnlyTimeoutsCutTools` |
| `RouteWinnerStandsOut` | `WinnerStandsOut` |
| `RouteFoundEntryIsComplete` | `FoundEntryIsComplete` |
| `RouteGuessesYield` | `GuessesYield` |
| `RouteRetryKeepsRoute` | `RetryKeepsRoute` |
| `RouteRetryIsEnough` | `RetryIsEnough` |
| `VaultRequestRoutes` | `VaultSpec` implements `RouteSpec`, so the five above hold of it |
| `PreviewsAreKept` | `PreviewsSendNothing` |
| `SecondMailIsCaused` | `SecondMailHasACause` |
| `MailsAreConsistent` | `BodyMatchesAttachment` |

**`CatalogStoreProofs`: the lock**, for every set of goroutines and processes and
for both builds of the file lock, from `LockAssumption` alone. `LockInv` joins the
type invariant with two facts per goroutine: past `"mutex"` it holds its process's
mutex, and, with file locking, it is inside exactly while it holds the file lock.
`MutualExclusion` alone is not inductive: a second goroutine could sit in `"poll"`
without the mutex.

**`CatalogStoreProofs`: the store**, for every set of goroutines, processes,
cookbooks, versions, contents and requests and every number of faults, from
`LockAssumption` and `StoreAssumption`. The argument has four layers; all but the
first assume `FileLocking`. With `lock_stub.go` two processes can be inside at
once, and the other three fail.

1. `StoreInv`: the types, `LockInv` (`LockMoves`: a step of the store is a step
   of the lock or leaves it alone), what each program counter says of the call
   (`CallShape`), and that a goroutine's two program counters agree (`PcMatch`):
   it is in a body exactly while it holds the lock. `GoodStep` sums up what one
   step may do to one call; each action has its lemma.
2. `WriteDue`: a goroutine that is about to write has a verdict that is still
   right for the file in place. Another goroutine could only spoil it from
   inside, where `FlockMatches` lets nobody in. `NoSilentOverwrite` follows.
3. `IndexInv`: a row differs from its bundle only through a recorded fault or
   because a writer is between the two files (`Explained`), and that writer has
   the right row, and the index as it is on disk, in hand (`Work`).
   `IndexCoherent` and `SuccessIsIndexed` follow. Neither is inductive alone: a
   writer in `"save"` might hold an index that is out of date.
4. The refinement, step by step. Under the mapping of `CatalogStore` a call takes
   effect where it reads the bundle, lists the directory or changes the file of
   its bundle; everything before and after maps to a stutter. `Settled` says
   where a call has an outcome, so that it gets one only once, and with
   `WriteDue` it makes up `Ground`, under which each action is an action of
   `CatalogSpec` or none. Crashes and failures map to `Refuse` and `FailLate`.

**`CatalogBootstrapProofs`**, for every number of starters, releases and bundled
cookbooks, from `BootAssumption`. `BootInv` has what a starter has done by the
place it has come to (`Progress`), what the marker's existence says (`MarkerSet`),
what is true while no two starters had the temporary file open at once (`Alone`:
the one that has it finds its own inode there), while no two releases were
seeding at once (`OneRelease`: what is seeded is of the one release), and which
starters may still store over an edit (`Excusable`). An unreadable marker, a
wrong one and a failed start each fall out of one of these parts; none of them is
inductive without the others, because a starter writes to the inode that it
opened, wherever that has been renamed to. A cookbook is missed in one step, the
look-up (`MissIsLookUp`), and at that step `Progress` and `MarkerNamesCatalog` leave
only the causes that `MissHasACause` names.

**`PlanPreflightProofs`** has two facts about `BuildMinimalProfile` that hold for
every list of requirements, and with them for every call: what it builds misses
nothing (so the code may return it without looking at its match), and no profile
that covers the same requirements allows less in the modes, targets and intents
of a slot it restricts. `PreflightNoWriteWithoutLeave` goes over all calls and
failures; the inductive invariant `Leave` says that a call reaches the upsert
only when it may create and that a preview may not. `PreflightInv` is the
invariant of the loop: what the call looks for (`Purpose`), that what it has read
is what the vault holds but for writes it has not seen (`Reading`), and that each
resolution noted so far still covers its step (`Noted`); and of the vault, that a
profile made for a list still covers it unless another client wrote it
(`VaultOK`). `Best` is shown to choose an entry that no other outranks, whatever
the order of the list.

**`CookbookProofs`**, for any editors, installers, sites and publications, and for
any templates, bindings and inputs that `TemplateAssumption` allows.
`Compare` is decided at the first place where two lists of tokens differ, so its
antisymmetry and transitivity are facts about least places, and hold for lists of
any length. `RemoteInv` says that an editor that has the lock has the file as it
is (`EditsOK`), which is why an edit changes only its own source, and that the
item in hand fits the question and the bundle in hand the item and its checksum
(`CallsOK`).

A template is rendered in one step that loops over its bindings, so most of the
proof is about the loop, by well-foundedness of the numbers (`TurnsExist`,
`LoopEnds`). After `n` turns (`LoopOK`) the document is a tree, each of the first
`n` bindings has its value in place or a later one wrote over it, what none of
them touches is as the author wrote it, and exactly the required ones without a
value are reported. A turn keeps this because a write leaves all that is neither
above nor below its place (`Written`), and the order of the strings has a
container before what is in it; where a string is not written plainly the
property says so (`WritesOver`), and the assumption is only about plain ones.
`AnswersAreStable` needs more of the sort: bindings that no author may write
twice have one sorted arrangement (`StoredOrderIsUnique`), so that `sort.Slice`
need not be stable. `TemplateInv` then has the answer be that of the stored
template, and a second call lack nothing that is required.

**`SessionStoreProofs`**, for all sets of requests and tenants, from
`SessionAssumption`. Isolation rests on `IsolationInv`: the loop over the header
keys finds the tenant the README describes (`ScopeOfHeaders`), a request keeps
the scope it arrived with, and a session sits in, and is found in, the scope of
the request that configured it. `UndisturbedAnswerHolds` is not inductive: a
look-up that found nothing before the configure could still be on its way to
store the environment's session. `PromiseInv` adds that requests in service
together know of each other (`RivalsKnown`), that the work of a lone writer is
in place until it answers (`AloneIsInPlace`), and that while a promise stands no
writer is in service and, if it is of a session and clean, no such look-up
either (`PromiseIsQuiet`).

**`ApprovalFlowProofs`**, for any callers, jobs, polls and faults. `FlowShape` says
that a call looks only at a job that exists, that an execution starts without a
handle, and that job, run and pending item do not contradict each other. Each
reading of an ended job, off whichever object, is bounded by what the job is
(`Reads`, `ReadingsAgree`): two of them can differ only where the job or the item
has no code. `ToldIsTrue` is inductive on top of that. `VerdictIsFinal` follows as
an action property, because what was told agrees with the job and a job that has
ended does not change. For `JobsAccountedFor`,
`AccountInv` accounts for each job that was created at every moment, also while
its reply or its look-up is under way.

**`BridgeRpcProofs`**, for any number of calls and faults. Calls share nothing
(`OneCallKeeps`), so `BridgeInv` is a statement about one call: nothing is
written twice, so what waits in `stdin` is one of eight sequences (`Inputs`); a
line in `stdout` says what the process has done (`LineOK`); and the phase of the
bridge bounds how far the process can be. `ToolRunsAsTold` alone is not
inductive: a second `call` in the pipe, or a line that no process wrote, would
break it.

**`VaultRequestProofs`**, for any registry, catalog and requests that
`RoutingAssumption` allows, and any details, passports, runs and failures.

* `PickInv` has the invariant of the loop over the registry (`ScanOK`: the best so
  far, how far it leads, and whether it is tied), from which the choice follows
  whatever the order of the routes.
* `RetryInv` adds that an answer is the one the registry or the search gives for
  the words so far (`Fits`), which the facts have no say in: that is why a retry
  with facts comes to the same route.
* `FoundInv`: a row that was read, and whose entry did not change since, is known
  to need what the catalog said when the index was read (`ReadOK`), and the row
  that an answer names stands out (`EntryOK`).
* `GuessInv`: an answer's inputs are `RouteInputs` of the words and facts
  (`RouteAnswerOK`), and what was asked for first was missing from the same words
  with fewer facts (`FirstMissed`). What is missing is never guessed, with the one
  exception that the property names.
* `EnoughInv`: what is asked for is what the answer lacks (`AskedOK`), and once
  the user has answered, words and facts cover all that the route or the entry
  requires (`CoveredOK`), since each name that guidance gives is one the next call
  looks at (`FactsCover`, `WordsCover`).
* `PassportInv`: a call never loses `execute=false` but by resuming, the last run
  is awaited, told of or lost (`LastRunIsKnown`), a document that the caller did not
  name was the latest when it was resolved (`DocumentFits`), and, per run, where its values
  come from at each step (`RunOK`). With the last two a detail of another passport
  than the attached one is left with the causes of `BodyMatchesAttachment`.

`RouteSpec` and the workflow are proved apart and joined by the step simulation in
`VaultRequestRoutes`.

The type invariants are proved and not run, except `PreflightTypeOK`, which is
both; those of `RemoteCatalog`, `Routing` and `PassportWorkflow` are parts of
`RemoteInv`, `FoundInv` and `PassportInv`.

Model-checked only:

* Liveness, which is out of the provers' reach: `EveryCallEnds`,
  `CallsAreAnswered`, `DecisionReachesCaller`, `CallsSettle` and `ProcessesEnd`.

## 5. Disagreements

Two runs expect a violation; each finding in `PROJECT.json` quotes the lines.

* `HandoffIsReturned`: the look-up of a `pending_id`, called best effort in the
  README, returns its own error in place of the handoff.
* `ConfigureLasts`: README and skill tell agents to configure a session and go
  on; through the bridge the session ends with the process of that call.

Those that follow are in the passing models, most as a named exception of a property, with their cause:

* A look-up that finds no session stores that of the environment later, over a
  configure that has been answered in between: every later call of the tenant
  then uses the environment's token (`clean` in `UndisturbedAnswerHolds`).
* A reply that breaks off after its headers is read as an empty success, and the
  execute tools answer `ok=true` although the vault waits for approval (`"cut"`
  among the causes of `JobsAccountedFor`).
* An index in a binding's path may have leading zeros. `/a/01/x` is stored before
  `/a/1` and its input is erased by it (targets outside `PlainTargets` in
  `WritesOver`; the run has `/steps/0/to` and `/steps/00`).
* A pending item that is denied or expired without an error code is told as DENY
  by `vaultclaw_approvals_pending_get`, where `job_get`, `plan_run_get` and
  `approval_wait` tell UNKNOWN of a job or run without a code
  (`approval_handoff.go:288` against 249 and 269; the exception in
  `VerdictIsFinal`, and `ItemWithoutCode` in `ToldIsTrue`).
* A lost `index.json` is not repaired: readers ask for it, but every process runs
  `ensureLayout` first, which creates an empty and valid one (`"blanked"` in
  `IndexCoherent`). The bundles stay invisible to list and search.
* Requirements are sorted but, other than the README says, not deduped, and the
  order ignores secret types: one set of needs has several profile ids
  (`NormalizeRequirements`).
* A truncated read back of a created profile decodes to an empty one without an
  error, and the step is submitted with an empty `profile_id` (`NoId` in
  `StillCovers`) where the comment promises the local one.
* Every rejected bridge call says that the command failed to launch, also when
  its tool has run (`ToolRunsAsTold` leaves `"call_timeout"` and `"exited"` out).
* An install with SKIP_IF_EXISTS that keeps the bundle in place answers with the
  content hash of the one it did not install (`Store` of `RemoteCatalog`).
* The README (line 508) promises `AUTO_RETRY_WITH_FACTS` for what a template found
  by search requires; the code has no policies for such an entry and always
  answers `ASK_USER`, as `tools_routing_test.go` expects (`MatchedRow`).
* A fact of an input's own name loses to a guess where mail is composed:
  `facts.subject` is looked at after the guesses, `facts.email_subject` before
  (last sentence of `GuessesYield`).
* The passport route does not look at `context.facts`: a recipient supplied as a
  fact is asked for again (`"passport"` in `RetryIsEnough`).
* Two stored versions of an entry get the same score and are called AMBIGUOUS,
  while the skill says to prefer the newest version (`Rank`).
* The arguments that a passport answer gives to resume with drop `execute=false`,
  so a preview that is resumed sends (`resumed` in `PreviewsSendNothing`); and
  `manual_fields` are ignored when the profile is already complete, whatever
  passport it came from (`BodyMatchesAttachment`).
* A `passport_document_id` is used for the extraction only, and the attachment is
  named by its type: a caller that names an older passport mails that one's details
  with the latest attached (`r.named` in `BodyMatchesAttachment`).
* Three of the recovery states the README lists for the passport workflow
  (extraction failed, profile read failed, manual fields required) come from code
  that nothing calls (`tools_passport_workflow.go`, lines 310 to 582): the plan
  does that work in the vault.

## 6. Abstractions, bounds and fairness

* **Catalog.** A bundle is its content hash, a row the content it was computed
  from; versions are integers in the order of `compareVersion`. Files are
  replaced by rename, so one write is one step with three outcomes: done, failed
  before, failed after. Two goroutines suffice for every pairwise race, the
  third of `catalog_live` for a race on the mutex inside one of two processes.
  `MaxFaults` bounds crashes, I/O errors and damage; one fault shows every single
  cut, and the proofs are for any number.
* **Start-up.** Inodes are kept because a starter goes on writing to the inode it
  opened wherever it has been renamed; `Inodes` has one for each starter, the
  marker and the temporary file; `BootAssumption` asks for no fewer, so that a
  starter always finds a free one. `Editable` bounds the cookbooks callers touch.
  Of what a cookbook holds, validation asks only whether the routed entries are in
  it (`HasEntries`): `USER` has them and `STRIPPED` lacks one, so a caller's overwrite
  may do either, and the bundles of a release in `Lean` lack one that another
  release routes to. That a release's bundles have the entries its own registry
  names is assumed; both come from one build. A look-up may fail by I/O at any time.
* **Approval.** A snapshot of a job is its status, error code class and pending
  block, with the code of its plan run and the state and code of its pending item.
  `Codes` has three classes: approval required, a denial, another reason. Of the
  vault it is assumed that the three objects of one decision change together and
  never show two different codes (`AgreeOnCode`); each may show none. `Denials` are
  the combinations that may occur. `SomeDenials` has five: the three objects agree,
  a plan's code is only on its run, the item expired without one, another reason,
  and no code anywhere. A wait's timeout is `MaxPolls` polls. `MaxFaults` bounds errors,
  losses and abandoned calls. The caller repeats its execution until it has a
  handle or an answer that is ok. Deadlock checking is off because a caller
  that has its answer stops.
* **Profiles.** A name is a number in the order of the strings, with 0 for the
  empty one; `Fold` gives its lower case, and `MCFold` has one pair of names
  that differ in case only. `AutoId` stands for the hash of a list
  of requirements, and is taken to be free of collisions over the lists that the
  calls ask with. A step of a plan says what its bindings resolve to
  instead of how JSON pointers do it. `MCRequests` names the plans: each branch
  of the loop is taken, two requirements share a slot, one vault is empty and
  one holds two profiles that both fit. The vault may answer a repeated
  idempotency key without applying the request, and may apply it: the code
  does not say which.
* **Remote catalogs.** A version is its list of tokens, a checksum the bundle it is
  of, so SHA-256 is taken to be free of collisions. `means` is a ghost: the
  bundle a publisher had in mind for an item. A URL holds a bundle, nothing, or
  what is not a valid one; a body that breaks off is the last. The catalog is
  that of `CatalogSpec`. Three publications change the site before, between and
  after the two requests. Deadlock checking is off because publications end.
* **Templates.** A document maps paths to what is there; words are opaque, and an
  object's key of digits is a token that no target leads to, as in the code.
  Targets and keys are numbers in the order of the strings; a path has each index
  without leading zeros. Validation trims a target before it looks for duplicates
  and so accepts fewer lists than the model. Deadlock checking is off because a
  caller that has its answer stops. The run has all pairs of bindings over eight
  targets, two keys and the three kinds of binding, and all triples of required
  ones over the five nested targets, so that parent, child, sibling and same place
  meet in every order, and one index is written in two ways.
* **Routing.** A text is its tokens, and what the patterns of the resolver find in
  it: `traits` for what a text is about, `given` for the inputs it holds. How a
  regular expression finds them is not modelled; what the code does with the
  outcome is. `Within` and `Length` give the two facts about words that scoring
  and the search query use, for the words of the run. `Registry` has all the
  routes of `registry.v1.json` in their order, `Entries` two versions of one entry
  and two more, so that ties within a point occur; `Starts` are pairs of words
  from twelve, compositions with each combination of traits, and searches. A
  request has a word of four letters, so a query exists. `MaxFaults` is one
  change of the catalog or one failed read per request. The order of Go's maps,
  which decides among equally long words, is a choice made anew in every call.
  `RegistryV1` is what the proofs use of that file besides the checks of
  `decodeRegistry`: what a route requires is something a pattern can find in
  words, and the fact `email_subject` is asked for only where a subject is missing.
* **Passport.** A detail is the number of the passport it was read from, or
  `Manual`; two `Slots` show a mail with details of different origin. A request
  finds any number of passports on file and may name any of them. `newest`, `named`,
  `missed` and `crossed` are ghosts. Two
  passports, two runs and two mishaps: a lost reply and a failure of what
  followed it, an upload during a run, a run that overtakes another.
  `MaxPassports`, `MaxRuns` and `MaxMishaps` bound them. Deadlock checking is off
  in `vault_request` because a request that is answered stops.
* **Sessions.** A session is named by the request that configured it. Three
  requests, each sent once, show every race of a writer, a look-up and a third
  party. The symmetry of the requests is sound: the run checks no liveness. No
  action is fair, because nothing is claimed to happen.
* **Bridge.** Calls share no process, so one is enough for what a call promises;
  two appear where one follows the other. Lines and messages are whole; the
  readers at both ends put the pieces together. `MaxFaults` bounds starts that
  fail and processes that die. Messages without an id, which run the same
  handlers and get no answer, are left out: the bridge sends one, `initialized`.
* **Fairness.** The bridge relies on Node alone: its timers fire and the exit of
  a child is reported. Nothing is asked of the process, which may hang. In
  the catalog, `sync.Mutex` hands itself to a waiter that has starved for 1 ms,
  hence strong fairness of `MutexLock`. The file lock is not fair between
  processes: only the disjunction of getting it and giving up is fair. Bodies
  are bounded file work, tool calls run to their end, and the HTTP client has a
  timeout, hence weak fairness of those steps. Nothing forces callers to call,
  humans to decide, or faults to happen; `DecisionReachesCaller` assumes a
  caller that goes on waiting with the handle it has.

## 7. Not modelled, and the plan

The plan is done: every safety property that a run checks is a theorem, and what
is left to the runs is liveness.

Not modelled:

* Module hashes (`module_hash.go`): one field of a request, filled in from one GET
  per connector; its cache lives as long as a call and has one user.
* Arguments, schemas and envelopes of the tools in `internal/mcp`: each reads its
  arguments, makes one call of a modelled component and wraps the answer.
* The bridge's configuration and its discovery of further tools (`index.ts`),
  which happen once, before any call.
* Framing by Content-Length and parse errors of the JSON-RPC server: a message is
  whole in the model.
* The patterns that find an address, a topic or a date in a text
  (`resolver.go`): their outcome is an input of `Routing`.
* Lines 310 to 582 of `tools_passport_workflow.go`, which nothing calls.
* The pending list of approvals, a single GET; the filter of a remote list.
* The vault, its connectors and the remote site, which are external and modelled
  by what the code reads of them.
* The store without file locks (`lock_stub.go`). The lock itself is proved
  for both builds; what the store loses without it is in section 4.
