------------------------------ MODULE Routing ------------------------------
(***************************************************************************)
(* vaultclaw_route_resolve and the caller that drives it: a request in     *)
(* plain words is matched against the registry of routes, else against the *)
(* entries of the catalog; its inputs are taken from the words, from the   *)
(* facts the caller sends along, or guessed; and the answer says which are *)
(* missing and where to get them.  The caller does what SKILL.md asks of   *)
(* it: it fetches the facts, retries once, then asks the user.             *)
(*                                                                         *)
(* A text is its tokens and what the patterns of the resolver find in it   *)
(* (traits, given); Within says which words occur in a word, so that       *)
(* "messages" contains the keyword "message".  A value is told apart only  *)
(* by where it comes from.  The registry is scanned route by route; a      *)
(* search reads the index first and then the bundle of every row, while    *)
(* other processes change the catalog.                                     *)
(***************************************************************************)
EXTENDS Naturals, Sequences, FiniteSets

CONSTANTS
    Words,      \* the tokens of requests, routes and entries
    Within,     \* per word: the words that occur in it, itself among them
    Length,     \* per word: its letters
    Keys,       \* the names of inputs
    Registry,   \* the routes, in the order of registry.v1.json
    Entries,    \* the catalog entries there may be, in the order of a search
    Starts,     \* what users ask for, the facts sent along, and what the catalog holds
    SaidWith,   \* per input: the tokens an answer in words adds to the text
    MaxFaults,  \* bound on changes of the catalog and on failed reads
    NONE

FactNames == Keys \cup {"email_subject", "email_body", "weather_summary",
                        "http_url", "http_method"}

Traits == {"about", "saying", "semantic", "weather", "subject_line",
           "passport_fields", "no_passport_fields"}

RequestRecords ==
    [words : SUBSET Words, traits : SUBSET Traits, given : SUBSET Keys,
     recipients : 0 .. 2, fallback : BOOLEAN]

PolicyRecords ==
    [key : Keys, mode : {"ASK_USER", "AUTO_RETRY"}, fact : FactNames,
     condition : {"", "weather_requested", "semantic_body_request",
                  "semantic_subject_request"},
     sensitive : BOOLEAN]

RouteRecords ==
    [domain : {"gmail", "http", "other"}, compose : BOOLEAN,
     keywords : SUBSET Words, tags : SUBSET Words, names : Seq(Words),
     required : SUBSET Keys, optional : SUBSET Keys, policies : Seq(PolicyRecords)]

(* names: the words of its row; book: those of its cookbook; needs: what a *)
(* template of this name may require, a set for each content of the bundle. *)
EntryRecords ==
    [names : Seq(Words), book : SUBSET Words, tags : SUBSET Words, template : BOOLEAN,
     google : BOOLEAN, http : BOOLEAN, needs : SUBSET SUBSET Keys]

(* decodeRegistry refuses a route without keywords, and two policies of    *)
(* one input with one condition.                                           *)
ValidRoute(r) ==
    /\ r.keywords # {}
    /\ \A i, j \in DOMAIN r.policies :
          r.policies[i].key = r.policies[j].key
          /\ r.policies[i].condition = r.policies[j].condition => i = j

(* What a pattern of extractInputs can find in a text. *)
Extractable == {"to", "subject", "text_plain", "document_attachments", "message_id",
                "thread_id", "url", "method"}

(* registry.v1.json: what a route requires can be found in words, and a    *)
(* subject is fetched for the input of that name only.                     *)
RegistryV1(r) ==
    /\ r.required \subseteq Extractable
    /\ \A i \in DOMAIN r.policies :
          r.policies[i].fact = "email_subject" => r.policies[i].key = "subject"

Rows == DOMAIN Entries
Routes == DOMAIN Registry

ASSUME RoutingAssumption ==
    /\ IsFiniteSet(Words)
    /\ {"to", "subject", "text_plain", "document_attachments"} \subseteq Keys
    /\ {"email_subject", "fine"} \cap Keys = {}
    /\ Within \in [Words -> SUBSET Words] /\ Length \in [Words -> Nat]
    /\ Registry \in Seq(RouteRecords)
    /\ \A i \in DOMAIN Registry : ValidRoute(Registry[i]) /\ RegistryV1(Registry[i])
    /\ Entries \in Seq(EntryRecords)
    /\ \A s \in Starts :
          /\ s.request \in RequestRecords /\ s.facts \in SUBSET FactNames
          /\ s.catalog \in [Rows -> (SUBSET Keys) \cup {NONE}]
          /\ \A e \in Rows : s.catalog[e] \in Entries[e].needs \cup {NONE}
          /\ \E w \in s.request.words : Length[w] >= 4
    /\ SaidWith \in [Keys -> SUBSET Words]
    /\ MaxFaults \in Nat

VARIABLES
    request,  \* what the user has said so far
    facts,    \* context.facts of the next call
    catalog,  \* per entry: what it requires, or NONE if it is not stored
    call,     \* the call of vaultclaw_route_resolve
    answer,   \* its last answer
    caller,   \* the caller's progress
    seen,     \* ghost: the catalog when the last search read the index
    upset,    \* ghost: entries changed or unreadable since then
    first,    \* ghost: the route of the first answer, and what it asked for
    shifted,  \* ghost: why a later answer may have another route
    faults

routeVars ==
    <<request, facts, catalog, call, answer, caller, seen, upset, first, shifted, faults>>

NoInputs == [k \in Keys |-> "none"]
NothingAsked == [k \in Keys |-> "fine"]

NoAnswer == [status |-> "none", source |-> "none", route |-> 0,
             inputs |-> NoInputs, guidance |-> NothingAsked]

NoFirst == [source |-> "none", route |-> 0, asked |-> {}]

AskedBy(a) == {k \in Keys : a.guidance[k] # "fine"}

NoPick == [at |-> 1, best |-> 0, top |-> 0, second |-> 0, tied |-> FALSE]

-----------------------------------------------------------------------------
(* Scores                                                                  *)

GmailMarkers == {"gmail", "inbox", "email", "mail", "message", "messages", "thread",
                 "label", "labels", "draft"}
HttpMarkers == {"http", "url", "webhook", "endpoint", "api"}

Markers(domain) ==
    CASE domain = "gmail" -> GmailMarkers [] domain = "http" -> HttpMarkers [] OTHER -> {}

(* strings.Contains on the text, for a keyword. *)
InText(q) == UNION {Within[w] : w \in q.words}

(* splitWords keeps repetitions: a word counts as often as it stands. *)
Mentions(names, q) == Cardinality({n \in DOMAIN names : names[n] \in q.words})

ScoreRegistryRoute(r, q) ==
    LET marked == Markers(r.domain) \cap q.words IN
    IF marked = {} /\ r.domain # "other" THEN 0
    ELSE Cardinality(marked)
         + 2 * Cardinality(r.keywords \cap InText(q)) + Cardinality(r.keywords \cap q.words)
         + Cardinality(r.tags \cap q.words) + Mentions(r.names, q)

RouteScore(i) == ScoreRegistryRoute(Registry[i], request)

ScoreSearchCandidate(e, q) ==
    Mentions(e.names, q)
    + (IF e.template THEN 2 ELSE 1)
    + (IF e.google /\ "gmail" \in InText(q) THEN 2 ELSE 0)
    + (IF e.http /\ {"http", "url"} \cap InText(q) # {} THEN 2 ELSE 0)

RowScore(e) == ScoreSearchCandidate(Entries[e], request)

MinRegistryScore == 4
SearchScoreMinimum == 3

-----------------------------------------------------------------------------
(* Inputs                                                                  *)

(* extractInputs *)
ExtractInputs(q) ==
    [k \in Keys |-> IF k \in q.given \/ (k = "to" /\ q.recipients > 0) THEN "text" ELSE "none"]

Lacks(in, k) == in[k] = "none"

(* shouldDeferBodyAutofillForExternal, for weather that is still to fetch  *)
(* or not.                                                                 *)
BodyNeedsExternal(in, q, weather) ==
    Lacks(in, "text_plain") /\ (weather \/ "semantic" \in q.traits)

(* shouldDeferSubjectAutofillForExternal *)
SubjectNeedsExternal(in, q, bodyNeeds) ==
    /\ Lacks(in, "subject") /\ bodyNeeds
    /\ ~Lacks(in, "document_attachments") \/ "subject_line" \in q.traits

WeatherToFetch(q, known) == "weather" \in q.traits /\ "weather_summary" \notin known

(* Mutant: the guess from the words comes before the fact. *)
ComposeAutofillGuessing(in, q, known) ==
    LET attached == ~Lacks(in, "document_attachments")
        bodyNeeds == BodyNeedsExternal(in, q, WeatherToFetch(q, known))
        subject ==
            IF ~Lacks(in, "subject") THEN in["subject"]
            ELSE IF {"about", "weather"} \cap q.traits # {} THEN "guess"
            ELSE IF "email_subject" \in known THEN "fact"
            ELSE IF attached /\ ~SubjectNeedsExternal(in, q, bodyNeeds) THEN "guess"
            ELSE "none"
        body ==
            IF ~Lacks(in, "text_plain") THEN in["text_plain"]
            ELSE IF {"email_body", "weather_summary"} \cap known # {} THEN "fact"
            ELSE IF ~bodyNeeds /\ ("saying" \in q.traits \/ subject # "none" \/ attached)
                 THEN "guess"
            ELSE "none"
    IN [in EXCEPT !["subject"] = subject, !["text_plain"] = body]

(* applyComposeAutofill.  A subject comes from the fact, the topic of the  *)
(* text, the attachment or the weather; a body from the facts, the phrase  *)
(* in the text, the subject or the attachment.  What calls for knowledge   *)
(* from outside is not guessed.                                            *)
ComposeAutofill(in, q, known) ==
    LET attached == ~Lacks(in, "document_attachments")
        bodyNeeds == BodyNeedsExternal(in, q, WeatherToFetch(q, known))
        subject ==
            IF ~Lacks(in, "subject") THEN in["subject"]
            ELSE IF "email_subject" \in known THEN "fact"
            ELSE IF \/ {"about", "weather"} \cap q.traits # {}
                    \/ attached /\ ~SubjectNeedsExternal(in, q, bodyNeeds) THEN "guess"
            ELSE "none"
        body ==
            IF ~Lacks(in, "text_plain") THEN in["text_plain"]
            ELSE IF {"email_body", "weather_summary"} \cap known # {} THEN "fact"
            ELSE IF ~bodyNeeds /\ ("saying" \in q.traits \/ subject # "none" \/ attached)
                 THEN "guess"
            ELSE "none"
    IN [in EXCEPT !["subject"] = subject, !["text_plain"] = body]

(* Mutant: facts are known by their aliases only. *)
FactCandidatesAlias(k) ==
    CASE k = "subject" -> {"email_subject"}
      [] k = "text_plain" -> {"email_body"}
      [] k = "url" -> {"http_url"}
      [] k = "method" -> {"http_method"}
      [] OTHER -> {k}

(* factCandidatesForInput *)
FactCandidates(k) ==
    {k} \cup CASE k = "subject" -> {"email_subject"}
               [] k = "text_plain" -> {"email_body"}
               [] k = "url" -> {"http_url"}
               [] k = "method" -> {"http_method"}
               [] OTHER -> {}

(* applyFactInputAutofill *)
FactInputAutofill(in, allowed, known) ==
    [k \in Keys |-> IF Lacks(in, k) /\ k \in allowed /\ FactCandidates(k) \cap known # {}
                    THEN "fact" ELSE in[k]]

MissingInputs(required, in) == {k \in required : Lacks(in, k)}

(* policyConditionMatches *)
ConditionMatches(condition, in, q, known) ==
    LET bodyNeeds == BodyNeedsExternal(in, q, FALSE) IN
    CASE condition = "weather_requested" -> WeatherToFetch(q, known)
      [] condition = "semantic_body_request" -> bodyNeeds
      [] condition = "semantic_subject_request" -> SubjectNeedsExternal(in, q, bodyNeeds)
      [] OTHER -> TRUE

(* buildPolicyMissingInputGuidance: the fact to fetch, or ASK_USER. *)
GuidanceFor(k, policies, in, q, known) ==
    LET fitting == {i \in DOMAIN policies :
                       policies[i].key = k /\ ConditionMatches(policies[i].condition, in, q, known)}
        p == policies[CHOOSE i \in fitting : \A j \in fitting : i <= j]
    IN IF fitting = {} THEN "ASK_USER"
       ELSE IF p.sensitive \/ p.mode = "ASK_USER" THEN "ASK_USER" ELSE p.fact

(* The answer when route (or entry) i is chosen and in is known of its     *)
(* inputs: routeToResult, and the end of resolveWithSearch.                *)
Resolved(source, i, required, policies, in) ==
    LET missing == MissingInputs(required, in) IN
    [status |-> IF missing = {} THEN "EXECUTABLE" ELSE "MISSING",
     source |-> source, route |-> i, inputs |-> in,
     guidance |-> [k \in Keys |-> IF k \in missing
                                  THEN GuidanceFor(k, policies, in, request, facts)
                                  ELSE "fine"]]

(* resolveMatchedRoute *)
RouteInputs(r, q, known) ==
    LET in == ExtractInputs(q) IN
    FactInputAutofill(IF r.compose THEN ComposeAutofill(in, q, known) ELSE in,
                      r.required \cup r.optional, known)

MatchedRoute(i) ==
    Resolved("registry", i, Registry[i].required, Registry[i].policies,
             RouteInputs(Registry[i], request, facts))

(* A row that search has chosen has no enrichment policies. *)
RowInputs(needs, q, known) == FactInputAutofill(ExtractInputs(q), needs, known)

MatchedRow(e) ==
    Resolved("search", e, call.needs[e], <<>>, RowInputs(call.needs[e], request, facts))

-----------------------------------------------------------------------------
(* The passport workflow, the one route that is not in the registry        *)

(* wantsPassportFieldsWorkflow *)
WantsPassportFields(q) ==
    /\ "passport" \in q.words /\ {"email", "gmail"} \cap q.words # {}
    /\ "no_passport_fields" \notin q.traits
    /\ \/ "passport_fields" \in q.traits
       \/ "body" \in q.words /\ {"fields", "details"} \cap q.words # {}

(* resolvePassportFieldsWorkflow: the facts are not looked at. *)
PassportAnswer(q) ==
    [status |-> CASE q.recipients = 0 -> "MISSING"
                  [] q.recipients = 1 -> "EXECUTABLE"
                  [] OTHER -> "AMBIGUOUS",
     source |-> "passport", route |-> 0,
     inputs |-> IF q.recipients # 1 THEN NoInputs
                ELSE [k \in Keys |-> IF k \in {"to", "subject"} THEN ExtractInputs(q)[k]
                                                               ELSE "none"],
     guidance |-> IF q.recipients = 0 THEN [NothingAsked EXCEPT !["to"] = "ASK_USER"]
                                      ELSE NothingAsked]

-----------------------------------------------------------------------------
(* A call of vaultclaw_route_resolve                                       *)

Idle == [pc |-> "idle", pick |-> NoPick, query |-> NONE, rows |-> {}, unread |-> {},
         needs |-> [e \in Rows |-> {}]]

RouteInit ==
    /\ \E s \in Starts : request = s.request /\ facts = s.facts /\ catalog = s.catalog
    /\ call = Idle
    /\ answer = NoAnswer
    /\ caller = "new"
    /\ seen = catalog
    /\ upset = {}
    /\ first = NoFirst
    /\ shifted = {}
    /\ faults = 0

Fault == faults < MaxFaults /\ faults' = faults + 1

Answers(a) ==
    /\ answer' = a
    /\ call' = [call EXCEPT !.pc = "answered"]
    /\ first' = IF first # NoFirst THEN first
                ELSE [source |-> a.source, route |-> a.route, asked |-> AskedBy(a)]

NotEligible == [NoAnswer EXCEPT !.status = "NOT_VAULT_ELIGIBLE", !.source = "nothing"]

Ambiguous(source) == [NoAnswer EXCEPT !.status = "AMBIGUOUS", !.source = source]

(* Resolve begins. *)
Resolve ==
    /\ call.pc = "idle"
    /\ IF WantsPassportFields(request) THEN Answers(PassportAnswer(request))
       ELSE call' = [Idle EXCEPT !.pc = "scan"] /\ UNCHANGED <<answer, first>>
    /\ UNCHANGED <<request, facts, catalog, caller, seen, upset, shifted, faults>>

(* Mutant: a new best route does not clear the tie of those below it. *)
RoundKeepsTie(p, score) ==
    IF score > p.top
    THEN [p EXCEPT !.at = @ + 1, !.best = p.at, !.top = score, !.second = p.top]
    ELSE [p EXCEPT !.at = @ + 1, !.tied = @ \/ (score = p.top /\ score > 0),
                   !.second = IF score > @ THEN score ELSE @]

(* One round of the loop in pickRegistryRoute.                             *)
Round(p, score) ==
    IF score > p.top
    THEN [at |-> p.at + 1, best |-> p.at, top |-> score, second |-> p.top, tied |-> FALSE]
    ELSE [p EXCEPT !.at = @ + 1, !.second = IF score > @ THEN score ELSE @,
                   !.tied = @ \/ (score = p.top /\ score > 0)]

Scan ==
    /\ call.pc = "scan" /\ call.pick.at \in Routes
    /\ call' = [call EXCEPT !.pick = Round(@, RouteScore(@.at))]
    /\ UNCHANGED <<request, facts, catalog, answer, caller, seen, upset, first, shifted, faults>>

(* Mutant: a route that lacks inputs is given up for the catalog. *)
ChooseComplete ==
    LET p == call.pick IN
    /\ call.pc = "scan" /\ p.at \notin Routes
    /\ IF p.best # 0 /\ p.top >= MinRegistryScore /\ (facts = {} \/ ~request.fallback)
       THEN Answers(IF p.tied /\ p.second >= MinRegistryScore - 1 THEN Ambiguous("registry")
                                                                  ELSE MatchedRoute(p.best))
       ELSE IF request.fallback THEN call' = [call EXCEPT !.pc = "search"]
                                     /\ UNCHANGED <<answer, first>>
       ELSE Answers(NotEligible)
    /\ UNCHANGED <<request, facts, catalog, caller, seen, upset, shifted, faults>>

(* The registry has been scanned: a route, a tie, or on to the catalog. *)
Choose ==
    LET p == call.pick IN
    /\ call.pc = "scan" /\ p.at \notin Routes
    /\ IF p.best # 0 /\ p.top >= MinRegistryScore
       THEN Answers(IF p.tied /\ p.second >= MinRegistryScore - 1 THEN Ambiguous("registry")
                                                                  ELSE MatchedRoute(p.best))
       ELSE IF request.fallback THEN call' = [call EXCEPT !.pc = "search"]
                                     /\ UNCHANGED <<answer, first>>
       ELSE Answers(NotEligible)
    /\ UNCHANGED <<request, facts, catalog, caller, seen, upset, shifted, faults>>

PreferredQueries ==
    <<"gmail", "calendar", "http", "webhook", "endpoint", "email", "message", "messages",
      "draft">>

(* buildSearchQuery: the first preferred word, else a longest one.  Among  *)
(* equally long ones Go's order of a map decides, anew in every call.      *)
SearchQueries(q) ==
    LET Said(w) == w \in q.words
        preferred == SelectSeq(PreferredQueries, Said)
    IN IF preferred # <<>> THEN {Head(preferred)}
       ELSE {w \in q.words : \A v \in q.words : Length[v] <= Length[w]}

SearchTags(q) ==
    (IF "gmail" \in q.words THEN {"gmail"} ELSE {})
    \cup (IF {"http", "webhook"} \cap q.words # {} THEN {"http"} ELSE {})

(* The rows of SearchRecipes. *)
FoundBy(w, q) ==
    {e \in Rows :
        /\ catalog[e] # NONE
        /\ SearchTags(q) \subseteq Entries[e].tags
        /\ \E v \in Entries[e].book \cup {Entries[e].names[n] : n \in DOMAIN Entries[e].names} :
              w \in Within[v]}

(* The index is read; or it cannot be, and nothing is eligible. *)
Search ==
    /\ call.pc = "search"
    /\ \/ \E w \in SearchQueries(request) :
             LET rows == FoundBy(w, request) IN
             /\ call' = [call EXCEPT !.pc = "read", !.query = w, !.rows = rows, !.unread = rows]
             /\ shifted' = IF Cardinality(SearchQueries(request)) = 1 THEN shifted
                                                                      ELSE shifted \cup {"query"}
             /\ seen' = catalog /\ upset' = {}
             /\ UNCHANGED <<answer, first, faults>>
       \/ /\ Fault /\ Answers(NotEligible)
          /\ shifted' = shifted \cup {"error"}
          /\ UNCHANGED <<seen, upset>>
    /\ UNCHANGED <<request, facts, catalog, caller>>

(* requiredInputsFromCatalogEntry, of the next row: the required inputs of *)
(* a template, none of a recipe, and none if the entry cannot be read.     *)
ReadEntry ==
    \E e \in call.unread :
        /\ call.pc = "read" /\ \A f \in call.unread : e <= f
        /\ \/ /\ call' = [call EXCEPT !.unread = @ \ {e},
                                      !.needs[e] = IF Entries[e].template /\ catalog[e] # NONE
                                                   THEN catalog[e] ELSE {}]
              /\ UNCHANGED <<upset, faults>>
           \/ /\ call' = [call EXCEPT !.unread = @ \ {e}]
              /\ upset' = upset \cup {e} /\ Fault
        /\ UNCHANGED <<request, facts, catalog, answer, caller, seen, first, shifted>>

(* Mutant: a runner-up that is one point behind does not count. *)
RankByTop ==
    LET near == {e \in call.rows : \A f \in call.rows : RowScore(f) <= RowScore(e)} IN
    /\ call.pc = "read" /\ call.unread = {}
    /\ Answers(IF \A e \in near : RowScore(e) < SearchScoreMinimum THEN NotEligible
               ELSE IF Cardinality(near) > 1 THEN Ambiguous("search")
               ELSE MatchedRow(CHOOSE e \in near : TRUE))
    /\ UNCHANGED <<request, facts, catalog, caller, seen, upset, shifted, faults>>

(* The rest of resolveWithSearch: the best row, if it is good enough and   *)
(* no other comes within a point.                                          *)
Rank ==
    LET near == {e \in call.rows : \A f \in call.rows : RowScore(f) <= RowScore(e) + 1} IN
    /\ call.pc = "read" /\ call.unread = {}
    /\ Answers(IF \A e \in near : RowScore(e) < SearchScoreMinimum THEN NotEligible
               ELSE IF Cardinality(near) > 1 THEN Ambiguous("search")
               ELSE MatchedRow(CHOOSE e \in near : TRUE))
    /\ UNCHANGED <<request, facts, catalog, caller, seen, upset, shifted, faults>>

(* Another process stores, replaces or deletes the bundle of an entry,     *)
(* while a search is under way or its answer is being acted on (a bound).  *)
ChangeCatalog(e) ==
    /\ call.pc \in {"search", "read"} \/ (call.pc = "answered" /\ answer.source = "search")
    /\ caller # "over"
    /\ Fault
    /\ \E c \in (Entries[e].needs \cup {NONE}) \ {catalog[e]} :
          catalog' = [catalog EXCEPT ![e] = c]
    /\ upset' = upset \cup {e} /\ shifted' = shifted \cup {"catalog"}
    /\ UNCHANGED <<request, facts, call, answer, caller, seen, first>>

-----------------------------------------------------------------------------
(* The caller                                                              *)

AskedFor == AskedBy(answer)
WantedFacts == {answer.guidance[k] : k \in AskedFor} \ {"ASK_USER"}

CallsAgain ==
    /\ call' = Idle
    /\ answer' = NoAnswer
    /\ UNCHANGED <<catalog, seen, upset, first, faults>>

(* AUTO_RETRY_WITH_FACTS: all the facts that can be had, and one retry. *)
FetchFacts ==
    /\ call.pc = "answered" /\ caller = "new" /\ WantedFacts # {}
    /\ \E got \in SUBSET WantedFacts : facts' = facts \cup got
    /\ caller' = "retried"
    /\ CallsAgain /\ UNCHANGED <<request, shifted>>

(* What is still missing is asked of the user, who answers in facts of the *)
(* inputs' own names, or adds to the words of the request.                 *)
AskUser ==
    /\ call.pc = "answered" /\ AskedFor # {}
    /\ caller = "retried" \/ (caller = "new" /\ WantedFacts = {})
    /\ \/ facts' = facts \cup AskedFor /\ UNCHANGED <<request, shifted>>
       \/ /\ request' = [request EXCEPT
                            !.words = @ \cup UNION {SaidWith[k] : k \in AskedFor},
                            !.given = @ \cup (AskedFor \cap Extractable),
                            !.recipients = IF "to" \in AskedFor THEN 1 ELSE @]
          /\ shifted' = shifted \cup {"words"}
          /\ UNCHANGED facts
    /\ caller' = "asked"
    /\ CallsAgain

(* The caller has an answer to act on, or nobody to ask any more. *)
Settle ==
    /\ call.pc = "answered" /\ caller # "over"
    /\ AskedFor = {} \/ caller = "asked"
    /\ caller' = "over"
    /\ UNCHANGED <<request, facts, catalog, call, answer, seen, upset, first, shifted, faults>>

RouteNext ==
    \/ Resolve \/ Scan \/ Choose \/ Search \/ ReadEntry \/ Rank
    \/ FetchFacts \/ AskUser \/ Settle
    \/ \E e \in Rows : ChangeCatalog(e)

RouteSpec == RouteInit /\ [][RouteNext]_routeVars

-----------------------------------------------------------------------------

Answered == call.pc = "answered"

(* A route is chosen only if every other one scores less, and a request    *)
(* that two routes fit equally is called ambiguous, wherever the two stand *)
(* in the registry; the catalog is searched only for what no route fits.   *)
WinnerStandsOut ==
    Answered /\ answer.source # "passport" =>
        /\ answer.source = "registry" /\ answer.route # 0 =>
              /\ RouteScore(answer.route) >= MinRegistryScore
              /\ \A i \in Routes \ {answer.route} : RouteScore(i) < RouteScore(answer.route)
        /\ answer.source = "registry" /\ answer.status = "AMBIGUOUS" =>
              \E i, j \in Routes :
                  /\ i # j /\ RouteScore(i) = RouteScore(j)
                  /\ RouteScore(i) >= MinRegistryScore
                  /\ \A k \in Routes : RouteScore(k) <= RouteScore(i)
        /\ answer.source # "registry" => \A i \in Routes : RouteScore(i) < MinRegistryScore

(* An answer from the catalog names an entry that was found, that leads    *)
(* every other by two points, and of which every input is known that its   *)
(* template required when the index was read.  The exceptions: the bundle  *)
(* has changed since, or could not be read and so was taken to need none.  *)
FoundEntryIsComplete ==
    Answered /\ answer.source = "search" /\ answer.route # 0 =>
        LET e == answer.route IN
        /\ \A f \in call.rows \ {e} : RowScore(f) + 1 < RowScore(e)
        /\ answer.status = "EXECUTABLE" /\ Entries[e].template /\ e \notin upset =>
              \A k \in seen[e] : answer.inputs[k] # "none"

(* What the user said is kept, a fact that guidance may ask for is used    *)
(* before a guess, and an input that was asked for is not guessed later.   *)
(* Exception: a body that could not be fetched is made up from the subject *)
(* that was.  (A fact of the input's own name does yield to a guess.)      *)
GuessesYield ==
    Answered /\ answer.source = "registry" /\ answer.route # 0 =>
        /\ \A k \in request.given : answer.inputs[k] = "text"
        /\ answer.inputs["subject"] = "guess" => "email_subject" \notin facts
        /\ answer.inputs["text_plain"] = "guess" =>
              {"email_body", "weather_summary"} \cap facts = {}
        /\ shifted = {} =>
              \A k \in first.asked : answer.inputs[k] = "guess" =>
                  k = "text_plain" /\ "subject" \in first.asked /\ "email_subject" \in facts

(* Facts and answers lead a retry to the route they were asked for.  It    *)
(* may come to another if the user has said more words, and, of a request  *)
(* that no route fits, if the catalog has changed, cannot be read, or is   *)
(* searched for another of the longest words.                              *)
RetryKeepsRoute ==
    Answered /\ <<answer.source, answer.route>> # <<first.source, first.route>> =>
        "words" \in shifted \/ (first.source = "search" /\ shifted # {})

(* A caller that fetched what facts it could and whose user answered the   *)
(* rest is not told that inputs are missing, as long as the route is the   *)
(* same.  Exceptions: the passport workflow, which does not look at facts, *)
(* and a catalog that has changed or needs what no pattern finds in words. *)
RetryIsEnough ==
    caller = "over" /\ answer.status = "MISSING" =>
        \/ <<answer.source, answer.route>> # <<first.source, first.route>>
        \/ answer.source = "passport" /\ "words" \notin shifted
        \/ answer.source = "search" /\ shifted # {}
=============================================================================
