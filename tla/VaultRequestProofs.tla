------------------------- MODULE VaultRequestProofs -------------------------
(***************************************************************************)
(* Theorems of Routing, PassportWorkflow and VaultRequest, for any         *)
(* registry, catalog, requests, details and bounds.                        *)
(***************************************************************************)
EXTENDS VaultRequest, FiniteSetTheorems, WellFoundedInduction, TLAPS

(* What a scan of the registry knows of the routes it has seen.            *)
PickRecords ==
    [at : Nat \ {0}, best : Nat, top : Nat, second : Nat, tied : BOOLEAN]

ScanOK(p) ==
    /\ p \in PickRecords
    /\ p.best < p.at /\ p.at <= Len(Registry) + 1
    /\ p.best = 0 => p.top = 0 /\ ~p.tied
    /\ p.best # 0 => p.top = RouteScore(p.best) /\ p.top > 0
    /\ \A i \in Routes : i < p.at => RouteScore(i) <= p.top
    /\ p.second <= p.top
    /\ ~p.tied => \A i \in Routes \ {p.best} : i < p.at /\ p.best # 0 => RouteScore(i) < p.top
    /\ p.tied => /\ p.second = p.top
                 /\ \E i \in Routes \ {p.best} : i < p.at /\ RouteScore(i) = p.top

Matches(p) == p.best # 0 /\ p.top >= MinRegistryScore

Scanned(p) == ScanOK(p) /\ p.at \notin Routes

CallTypeOK ==
    /\ request \in RequestRecords
    /\ call = [pc |-> call.pc, pick |-> call.pick, query |-> call.query, rows |-> call.rows,
               unread |-> call.unread, needs |-> call.needs]
    /\ call.pc \in {"idle", "scan", "search", "read", "answered"}

PickInv ==
    /\ CallTypeOK
    /\ call.pc = "scan" => ScanOK(call.pick)
    /\ call.pc \in {"search", "read"} => Scanned(call.pick) /\ ~Matches(call.pick)
    /\ Answered /\ answer.source # "passport" =>
          /\ answer.source \in {"registry", "search", "nothing"}
          /\ Scanned(call.pick)
          /\ answer.source = "registry" <=> Matches(call.pick)
          /\ answer.source = "registry" =>
                IF call.pick.tied THEN answer.route = 0
                ELSE answer.route = call.pick.best /\ answer.status # "AMBIGUOUS"

-----------------------------------------------------------------------------
(* Scores are natural numbers.                                             *)
LEMMA MentionsType ==
  ASSUME NEW names \in Seq(Words), NEW q
  PROVE  Mentions(names, q) \in Nat
<1>1. IsFiniteSet(1 .. Len(names)) BY FS_Interval
<1>2. {n \in DOMAIN names : names[n] \in q.words} \subseteq 1 .. Len(names) OBVIOUS
<1> QED BY <1>1, <1>2, FS_Subset, FS_CardinalityType DEF Mentions

LEMMA ScoreType ==
  ASSUME request \in RequestRecords, NEW i \in Routes
  PROVE  RouteScore(i) \in Nat
<1> DEFINE r == Registry[i]
           marked == Markers(r.domain) \cap request.words
<1>1. IsFiniteSet(Words) /\ r \in RouteRecords BY RoutingAssumption DEF Routes
<1>2. /\ marked \subseteq Words
      /\ r.keywords \cap InText(request) \subseteq Words
      /\ r.keywords \cap request.words \subseteq Words
      /\ r.tags \cap request.words \subseteq Words
  BY <1>1 DEF RequestRecords, RouteRecords
<1>3. /\ Cardinality(marked) \in Nat
      /\ Cardinality(r.keywords \cap InText(request)) \in Nat
      /\ Cardinality(r.keywords \cap request.words) \in Nat
      /\ Cardinality(r.tags \cap request.words) \in Nat
  BY <1>1, <1>2, FS_Subset, FS_CardinalityType
<1>4. Mentions(r.names, request) \in Nat BY <1>1, MentionsType DEF RouteRecords
<1> HIDE DEF r
<1>5. ScoreRegistryRoute(r, request) \in Nat BY <1>3, <1>4 DEF ScoreRegistryRoute
<1> QED BY <1>5 DEF RouteScore, r

(* A round of the loop keeps what is known of the routes before it.        *)
LEMMA RoundType ==
  ASSUME NEW p \in PickRecords, NEW score \in Nat
  PROVE  Round(p, score) \in PickRecords
<1> DEFINE at == p.at + 1
           second == IF score > p.second THEN score ELSE p.second
           tied == p.tied \/ (score = p.top /\ score > 0)
<1>1. at \in Nat \ {0} /\ second \in Nat /\ tied \in BOOLEAN BY DEF PickRecords
<1>2. Round(p, score) =
         IF score > p.top
         THEN [at |-> at, best |-> p.at, top |-> score, second |-> p.top, tied |-> FALSE]
         ELSE [p EXCEPT !.at = at, !.second = second, !.tied = tied]
  BY DEF Round
<1> HIDE DEF at, second, tied
<1>3. CASE score > p.top
  <2>1. p.at \in Nat /\ p.top \in Nat BY DEF PickRecords
  <2>2. Round(p, score) = [at |-> at, best |-> p.at, top |-> score, second |-> p.top, tied |-> FALSE]
    BY <1>2, <1>3
  <2> QED BY <1>1, <2>1, <2>2 DEF PickRecords
<1>4. CASE ~(score > p.top)
  <2>2. Round(p, score) = [p EXCEPT !.at = at, !.second = second, !.tied = tied]
    BY <1>2, <1>4
  <2>3. [p EXCEPT !.at = at, !.second = second, !.tied = tied] \in PickRecords
    BY <1>1 DEF PickRecords
  <2> QED BY <2>2, <2>3
<1> QED BY <1>3, <1>4

LEMMA RoundFields ==
  ASSUME NEW p \in PickRecords, NEW score \in Nat, ~(score > p.top)
  PROVE  /\ Round(p, score).at = p.at + 1
         /\ Round(p, score).best = p.best
         /\ Round(p, score).top = p.top
         /\ Round(p, score).second = IF score > p.second THEN score ELSE p.second
         /\ Round(p, score).tied <=> p.tied \/ (score = p.top /\ score > 0)
BY DEF Round, PickRecords

LEMMA ScanRound ==
  ASSUME request \in RequestRecords, NEW p, ScanOK(p), p.at \in Routes
  PROVE  ScanOK(Round(p, RouteScore(p.at)))
<1> DEFINE score == RouteScore(p.at)
           next == Round(p, score)
<1> SUFFICES ScanOK(next) OBVIOUS
<1>1. p \in PickRecords /\ score \in Nat BY ScoreType DEF ScanOK
<1>2. p.at \in Nat /\ p.at <= Len(Registry) /\ Len(Registry) \in Nat
  BY <1>1, RoutingAssumption DEF Routes, PickRecords
<1>3. Routes \subseteq Nat \ {0} BY RoutingAssumption DEF Routes
<1>4. next \in PickRecords BY <1>1, RoundType
<1>5. \A i \in Routes : i < p.at + 1 <=> i < p.at \/ i = p.at BY <1>2, <1>3
<1>6. \A i \in Routes : RouteScore(i) \in Nat BY ScoreType
<1>7. CASE score > p.top
  <2>1. /\ next.at = p.at + 1 /\ next.best = p.at /\ next.top = score /\ next.second = p.top
        /\ ~next.tied
    BY <1>7 DEF Round
  <2>2. \A i \in Routes : i < p.at => RouteScore(i) < score
    BY <1>1, <1>6, <1>7 DEF ScanOK, PickRecords
  <2>3. score > 0 /\ p.top <= score /\ p.at < p.at + 1 /\ p.at + 1 <= Len(Registry) + 1
        /\ p.at # 0
    BY <1>1, <1>2, <1>7 DEF PickRecords
  <2>4. \A i \in Routes : i < next.at => RouteScore(i) <= next.top
    BY <1>1, <1>5, <1>6, <2>1, <2>2
  <2>5. \A i \in Routes \ {next.best} : i < next.at /\ next.best # 0 => RouteScore(i) < next.top
    BY <1>5, <2>1, <2>2
  <2>6. next.best < next.at /\ next.at <= Len(Registry) + 1 /\ next.second <= next.top
    BY <2>1, <2>3
  <2>7. next.best # 0 /\ next.top = RouteScore(next.best) /\ next.top > 0
    BY <2>1, <2>3
  <2>8. ~next.tied BY <2>1
  <2> HIDE DEF next
  <2> QED BY <1>4, <2>4, <2>5, <2>6, <2>7, <2>8 DEF ScanOK
<1>8. CASE ~(score > p.top)
  <2>1. /\ next.at = p.at + 1 /\ next.best = p.best /\ next.top = p.top
        /\ next.second = (IF score > p.second THEN score ELSE p.second)
        /\ next.tied <=> p.tied \/ (score = p.top /\ score > 0)
    BY <1>1, <1>8, RoundFields
  <2>2. score <= p.top BY <1>1, <1>8 DEF PickRecords
  <2> HIDE DEF next
  <2>3. next.best < next.at /\ next.at <= Len(Registry) + 1
    BY <2>1, <1>1, <1>2 DEF ScanOK, PickRecords
  <2>4. next.best = 0 => next.top = 0 /\ ~next.tied
    BY <2>1, <2>2, <1>1 DEF ScanOK, PickRecords
  <2>5. next.best # 0 => next.top = RouteScore(next.best) /\ next.top > 0
    BY <2>1 DEF ScanOK
  <2>6. \A i \in Routes : i < next.at => RouteScore(i) <= next.top
    BY <2>1, <2>2, <1>5 DEF ScanOK
  <2>7. next.second <= next.top BY <2>1, <2>2 DEF ScanOK
  <2>8. ~next.tied => \A i \in Routes \ {next.best} :
                         i < next.at /\ next.best # 0 => RouteScore(i) < next.top
    BY <2>1, <2>2, <1>1, <1>5 DEF ScanOK, PickRecords
  <2>9. next.tied =>
           /\ next.second = next.top
           /\ \E i \in Routes \ {next.best} : i < next.at /\ RouteScore(i) = next.top
    <3> SUFFICES ASSUME next.tied
                 PROVE  /\ next.second = next.top
                        /\ \E i \in Routes \ {next.best} :
                              i < next.at /\ RouteScore(i) = next.top
      OBVIOUS
    <3>1. CASE p.tied BY <3>1, <2>1, <2>2, <1>1, <1>5 DEF ScanOK, PickRecords
    <3>2. CASE ~p.tied
      <4>1. score = p.top /\ p.at # p.best /\ p.at < p.at + 1
        BY <3>2, <2>1, <1>1 DEF ScanOK, PickRecords
      <4> QED BY <4>1, <2>1, <1>1 DEF ScanOK, PickRecords
    <3> QED BY <3>1, <3>2
  <2> QED
    BY <1>4, <2>3, <2>4, <2>5, <2>6, <2>7, <2>8, <2>9 DEF ScanOK
<1> QED BY <1>7, <1>8

LEMMA ScanStays ==
  ASSUME NEW p, ScanOK(p), request' = request, call'.pick = p
  PROVE  ScanOK(call.pick)'
BY DEF ScanOK, RouteScore

LEMMA ScannedStays ==
  ASSUME Scanned(call.pick), request' = request, call'.pick = call.pick
  PROVE  Scanned(call.pick)' /\ (Matches(call.pick)' <=> Matches(call.pick))
<1>1. ScanOK(call.pick)' BY ScanStays DEF Scanned
<1> QED BY <1>1 DEF Scanned, Matches, Routes

(* A call that answers keeps its place in the registry.                    *)
LEMMA AnswerKeepsCall ==
  ASSUME CallTypeOK, NEW a, Answers(a)
  PROVE  /\ answer' = a
         /\ call'.pc = "answered" /\ call'.pick = call.pick
         /\ call' = [pc |-> call'.pc, pick |-> call'.pick, query |-> call'.query,
                     rows |-> call'.rows, unread |-> call'.unread, needs |-> call'.needs]
BY DEF Answers, CallTypeOK

LEMMA AskUserType ==
  ASSUME CallTypeOK, AskUser
  PROVE  request' \in RequestRecords
<1> DEFINE said == UNION {SaidWith[k] : k \in AskedFor}
           given == AskedFor \cap Extractable
<1>1. CASE UNCHANGED request BY <1>1 DEF CallTypeOK
<1>2. CASE request' = [request EXCEPT
                          !.words = @ \cup said, !.given = @ \cup given,
                          !.recipients = IF "to" \in AskedFor THEN 1 ELSE @]
  <2>1. AskedFor \subseteq Keys BY DEF AskedFor, AskedBy
  <2>2. said \subseteq Words BY <2>1, RoutingAssumption
  <2>3. given \subseteq Keys BY <2>1
  <2> DEFINE n == IF "to" \in AskedFor THEN 1 ELSE request.recipients
  <2>4. n \in 0 .. 2 BY DEF CallTypeOK, RequestRecords
  <2>5. request' = [request EXCEPT !.words = request.words \cup said,
                                  !.given = request.given \cup given, !.recipients = n]
    BY <1>2
  <2> HIDE DEF said, given, n
  <2>6. request.words \cup said \in SUBSET Words /\ request.given \cup given \in SUBSET Keys
    BY <2>2, <2>3 DEF CallTypeOK, RequestRecords
  <2> QED BY <2>4, <2>5, <2>6 DEF CallTypeOK, RequestRecords
<1> QED BY <1>1, <1>2 DEF AskUser

LEMMA PickInit == RouteInit => PickInv
BY RoutingAssumption DEF RouteInit, PickInv, CallTypeOK, Idle, Answered

LEMMA ResolveKeepsPick ==
  ASSUME PickInv, Resolve
  PROVE  PickInv'
<1>1. CASE WantsPassportFields(request)
  <2>1. Answers(PassportAnswer(request)) /\ UNCHANGED request BY <1>1 DEF Resolve
  <2>2. PassportAnswer(request).source = "passport" BY DEF PassportAnswer
  <2> QED BY <2>1, <2>2, AnswerKeepsCall DEF PickInv, CallTypeOK, Answered
<1>2. CASE ~WantsPassportFields(request)
  <2>1. call' = [Idle EXCEPT !.pc = "scan"] /\ UNCHANGED request BY <1>2 DEF Resolve
  <2>2. call'.pick = NoPick /\ call'.pc = "scan" BY <2>1 DEF Idle
  <2>3. ScanOK(NoPick)
    BY RoutingAssumption DEF ScanOK, NoPick, PickRecords, Routes
  <2>4. ScanOK(call.pick)' BY <2>1, <2>2, <2>3, ScanStays
  <2> QED BY <2>1, <2>2, <2>4 DEF PickInv, CallTypeOK, Answered, Idle
<1> QED BY <1>1, <1>2

LEMMA ScanKeepsPick ==
  ASSUME PickInv, Scan
  PROVE  PickInv'
<1>1. ScanOK(Round(call.pick, RouteScore(call.pick.at)))
  BY ScanRound DEF PickInv, CallTypeOK, Scan
<1>2. /\ call' = [call EXCEPT !.pick = Round(@, RouteScore(@.at))]
      /\ call.pc = "scan" /\ UNCHANGED request
  BY DEF Scan
<1>3. call'.pick = Round(call.pick, RouteScore(call.pick.at)) /\ call'.pc = "scan"
  BY <1>2 DEF PickInv, CallTypeOK
<1>4. ScanOK(call.pick)' BY <1>1, <1>2, <1>3, ScanStays
<1> QED BY <1>2, <1>3, <1>4 DEF PickInv, CallTypeOK, Answered

LEMMA ChooseKeepsPick ==
  ASSUME PickInv, Choose
  PROVE  PickInv'
<1> DEFINE p == call.pick
<1>1. Scanned(p) /\ UNCHANGED request BY DEF Choose, PickInv, Scanned
<1>2. CASE Matches(p)
  <2>1. Answers(IF p.tied /\ p.second >= MinRegistryScore - 1 THEN Ambiguous("registry")
                                                               ELSE MatchedRoute(p.best))
    BY <1>2 DEF Choose, Matches
  <2>2. p.tied => p.second >= MinRegistryScore - 1
    BY <1>1, <1>2 DEF Scanned, ScanOK, Matches, PickRecords, MinRegistryScore
  <2>3. Ambiguous("registry").source = "registry" /\ Ambiguous("registry").route = 0
    BY DEF Ambiguous, NoAnswer
  <2>4. /\ MatchedRoute(p.best).source = "registry" /\ MatchedRoute(p.best).route = p.best
        /\ MatchedRoute(p.best).status # "AMBIGUOUS"
    BY DEF MatchedRoute, Resolved
  <2>5. /\ answer'.source = "registry"
        /\ IF p.tied THEN answer'.route = 0
           ELSE answer'.route = p.best /\ answer'.status # "AMBIGUOUS"
        /\ call'.pc = "answered" /\ call'.pick = p
    BY <2>1, <2>2, <2>3, <2>4, AnswerKeepsCall DEF PickInv
  <2>6. CallTypeOK' BY <2>1, <1>1, AnswerKeepsCall DEF PickInv, CallTypeOK
  <2> QED BY <1>1, <1>2, <2>5, <2>6, ScannedStays DEF PickInv, Answered
<1>3. CASE ~Matches(p) /\ request.fallback
  <2>1. call' = [call EXCEPT !.pc = "search"] BY <1>3 DEF Choose, Matches
  <2>2. call'.pc = "search" /\ call'.pick = p /\ CallTypeOK'
    BY <2>1, <1>1 DEF PickInv, CallTypeOK
  <2> QED BY <1>1, <1>3, <2>2, ScannedStays DEF PickInv, Answered
<1>4. CASE ~Matches(p) /\ ~request.fallback
  <2>1. Answers(NotEligible) BY <1>4 DEF Choose, Matches
  <2>2. NotEligible.source = "nothing" BY DEF NotEligible, NoAnswer
  <2>3. answer'.source = "nothing" /\ call'.pc = "answered" /\ call'.pick = p /\ CallTypeOK'
    BY <2>1, <2>2, <1>1, AnswerKeepsCall DEF PickInv, CallTypeOK
  <2> QED BY <1>1, <1>4, <2>3, ScannedStays DEF PickInv, Answered
<1> QED BY <1>2, <1>3, <1>4

LEMMA SearchKeepsPick ==
  ASSUME PickInv, Search
  PROVE  PickInv'
<1>1. /\ Scanned(call.pick) /\ ~Matches(call.pick) /\ UNCHANGED request
      /\ CallTypeOK
  BY DEF Search, PickInv
<1>2. CASE \E w \in SearchQueries(request) :
             call' = [call EXCEPT !.pc = "read", !.query = w, !.rows = FoundBy(w, request),
                                  !.unread = FoundBy(w, request)]
  <2>1. call'.pc = "read" /\ call'.pick = call.pick /\ CallTypeOK'
    BY <1>1, <1>2 DEF CallTypeOK
  <2> QED BY <1>1, <2>1, ScannedStays DEF PickInv, Answered
<1>3. CASE Answers(NotEligible)
  <2>1. NotEligible.source = "nothing" BY DEF NotEligible, NoAnswer
  <2>2. /\ answer'.source = "nothing" /\ call'.pc = "answered" /\ call'.pick = call.pick
        /\ CallTypeOK'
    BY <1>1, <1>3, <2>1, AnswerKeepsCall DEF CallTypeOK
  <2> QED BY <1>1, <2>2, ScannedStays DEF PickInv, Answered
<1> QED BY <1>2, <1>3 DEF Search

LEMMA ReadEntryKeepsPick ==
  ASSUME PickInv, ReadEntry
  PROVE  PickInv'
<1>1. /\ Scanned(call.pick) /\ ~Matches(call.pick) /\ UNCHANGED request
      /\ CallTypeOK /\ call.pc = "read"
  BY DEF ReadEntry, PickInv
<1>2. call'.pc = "read" /\ call'.pick = call.pick /\ CallTypeOK'
  BY <1>1 DEF ReadEntry, CallTypeOK
<1> QED BY <1>1, <1>2, ScannedStays DEF PickInv, Answered

LEMMA RankKeepsPick ==
  ASSUME PickInv, Rank
  PROVE  PickInv'
<1>1. /\ Scanned(call.pick) /\ ~Matches(call.pick) /\ UNCHANGED request
      /\ CallTypeOK
  BY DEF Rank, PickInv
<1>2. PICK a : Answers(a) /\ a.source \in {"nothing", "search"}
  <2> DEFINE near == {e \in call.rows : \A f \in call.rows : RowScore(f) <= RowScore(e) + 1}
             best == CHOOSE e \in near : TRUE
  <2>1. /\ NotEligible.source = "nothing" /\ Ambiguous("search").source = "search"
        /\ MatchedRow(best).source = "search"
    BY DEF NotEligible, Ambiguous, NoAnswer, MatchedRow, Resolved
  <2>2. \/ Answers(NotEligible) \/ Answers(Ambiguous("search")) \/ Answers(MatchedRow(best))
    BY Zenon DEF Rank
  <2> QED BY <2>1, <2>2
<1>3. /\ answer'.source \in {"nothing", "search"} /\ call'.pc = "answered"
      /\ call'.pick = call.pick /\ CallTypeOK'
  BY <1>1, <1>2, AnswerKeepsCall DEF CallTypeOK
<1> QED BY <1>1, <1>3, ScannedStays DEF PickInv, Answered

LEMMA CallAgainKeepsPick ==
  ASSUME PickInv, request' \in RequestRecords, CallsAgain
  PROVE  PickInv'
BY DEF CallsAgain, PickInv, CallTypeOK, Idle, Answered

LEMMA UnchangedKeepsPick ==
  ASSUME PickInv, UNCHANGED <<request, call, answer>>
  PROVE  PickInv'
<1>1. \A p : ScanOK(p)' <=> ScanOK(p) BY DEF ScanOK, RouteScore
<1> QED BY <1>1 DEF PickInv, CallTypeOK, Answered, Scanned, Matches, Routes

LEMMA RouteStepKeepsPick ==
  ASSUME PickInv, [RouteNext]_routeVars
  PROVE  PickInv'
<1>1. CASE FetchFacts BY <1>1, CallAgainKeepsPick DEF FetchFacts, PickInv, CallTypeOK
<1>2. CASE AskUser BY <1>2, CallAgainKeepsPick, AskUserType DEF AskUser, PickInv
<1>3. CASE Settle BY <1>3, UnchangedKeepsPick DEF Settle
<1>4. CASE \E e \in Rows : ChangeCatalog(e)
  BY <1>4, UnchangedKeepsPick DEF ChangeCatalog
<1>5. CASE UNCHANGED routeVars BY <1>5, UnchangedKeepsPick DEF routeVars
<1> QED
  BY <1>1, <1>2, <1>3, <1>4, <1>5, ResolveKeepsPick, ScanKeepsPick, ChooseKeepsPick,
     SearchKeepsPick, ReadEntryKeepsPick, RankKeepsPick DEF RouteNext

(* The registry names this route or none for the request.                  *)
Unrouted == {"search", "nothing"}

FitsRegistry(source, route) ==
    /\ source = "registry" /\ route # 0 =>
          /\ route \in Routes /\ RouteScore(route) >= MinRegistryScore
          /\ \A i \in Routes \ {route} : RouteScore(i) < RouteScore(route)
    /\ source = "registry" /\ route = 0 =>
          \E i, j \in Routes :
              /\ i # j /\ RouteScore(i) = RouteScore(j) /\ RouteScore(i) >= MinRegistryScore
              /\ \A k \in Routes : RouteScore(k) <= RouteScore(i)
    /\ source \in Unrouted => \A i \in Routes : RouteScore(i) < MinRegistryScore

LEMMA PickMeansFits ==
  ASSUME PickInv, Answered, answer.source = "registry" \/ answer.source \in Unrouted
  PROVE  FitsRegistry(answer.source, answer.route)
<1> DEFINE p == call.pick
<1>1. /\ Scanned(p) /\ p \in PickRecords
      /\ answer.source = "registry" <=> Matches(p)
      /\ answer.source = "registry" =>
            IF p.tied THEN answer.route = 0
            ELSE answer.route = p.best /\ answer.status # "AMBIGUOUS"
  BY DEF PickInv, Scanned, ScanOK, Unrouted
<1>2. \A i \in Routes : i < p.at /\ RouteScore(i) \in Nat
  BY <1>1, RoutingAssumption, ScoreType
     DEF Scanned, ScanOK, Routes, PickInv, CallTypeOK, PickRecords
<1>3. p.best # 0 => p.best \in Routes
  <2>1. Len(Registry) \in Nat /\ Routes = 1 .. Len(Registry) BY RoutingAssumption DEF Routes
  <2>2. p.best < p.at /\ p.at <= Len(Registry) + 1 /\ p.best \in Nat /\ p.at \in Nat
    BY <1>1 DEF Scanned, ScanOK, PickRecords
  <2> QED BY <2>1, <2>2
<1>4. \A i \in Routes : RouteScore(i) <= p.top BY <1>1, <1>2 DEF Scanned, ScanOK
<1>5. CASE answer.source = "registry" /\ ~p.tied
  BY <1>1, <1>2, <1>3, <1>5 DEF Scanned, ScanOK, Matches, FitsRegistry, Unrouted
<1>6. CASE answer.source = "registry" /\ p.tied
  <2>1. PICK i \in Routes \ {p.best} : RouteScore(i) = p.top
    BY <1>1, <1>6 DEF Scanned, ScanOK
  <2>2. RouteScore(p.best) = p.top /\ p.best \in Routes /\ p.top >= MinRegistryScore
    BY <1>1, <1>3, <1>6 DEF Scanned, ScanOK, Matches
  <2> QED BY <1>1, <1>4, <1>6, <2>1, <2>2 DEF FitsRegistry, Unrouted
<1>7. CASE answer.source \in Unrouted
  <2>1. p.top < MinRegistryScore
    BY <1>1, <1>7 DEF Scanned, ScanOK, Matches, PickRecords, MinRegistryScore, Unrouted
  <2> QED BY <1>1, <1>2, <1>4, <1>7, <2>1 DEF PickRecords, MinRegistryScore, FitsRegistry, Unrouted
<1> QED BY <1>5, <1>6, <1>7

LEMMA PickMeansWinner == PickInv => WinnerStandsOut
<1> SUFFICES ASSUME PickInv, Answered, answer.source # "passport"
             PROVE  WinnerStandsOut
  BY DEF WinnerStandsOut
<1>1. CASE answer.source = "registry" \/ answer.source \in Unrouted
  <2>1. FitsRegistry(answer.source, answer.route) BY <1>1, PickMeansFits
  <2>2. answer.source = "registry" /\ answer.status = "AMBIGUOUS" => answer.route = 0
    BY DEF PickInv
  <2> QED BY <1>1, <2>1, <2>2 DEF FitsRegistry, WinnerStandsOut, Unrouted
<1> QED BY <1>1 DEF PickInv, Unrouted

(* A route is chosen only if every other one scores less, a tie is told as *)
(* ambiguous, and the catalog is searched only for what no route fits, for *)
(* every registry in every order.                                          *)
THEOREM RouteWinnerStandsOut == RouteSpec => []WinnerStandsOut
<1>1. PickInv /\ [RouteNext]_routeVars => PickInv' BY RouteStepKeepsPick
<1> QED BY <1>1, PickInit, PickMeansWinner, PTL DEF RouteSpec

-----------------------------------------------------------------------------
(* What an answer may name as its source and route is a function of the    *)
(* request, and of the catalog if no route fits and nothing interferes.    *)
AnswerSources == {"passport", "registry"} \cup Unrouted

Fits(source, route) ==
    /\ source = "passport" <=> WantsPassportFields(request)
    /\ source = "passport" => route = 0
    /\ FitsRegistry(source, route)

TheQuery(q) == CHOOSE w \in SearchQueries(q) : TRUE

NearRows(rows, q) ==
    {e \in rows : \A f \in rows : ScoreSearchCandidate(Entries[f], q)
                                    <= ScoreSearchCandidate(Entries[e], q) + 1}

RowsVerdict(rows, q) ==
    LET near == NearRows(rows, q) IN
    IF \A e \in near : ScoreSearchCandidate(Entries[e], q) < SearchScoreMinimum
    THEN <<"nothing", 0>>
    ELSE <<"search", IF Cardinality(near) > 1 THEN 0 ELSE CHOOSE e \in near : TRUE>>

SearchVerdict ==
    IF request.fallback THEN RowsVerdict(FoundBy(TheQuery(request), request), request)
                        ELSE <<"nothing", 0>>

RetryInv ==
    /\ PickInv
    /\ first = NoFirst \/ first.source \in AnswerSources
    /\ Answered => first # NoFirst /\ answer.source \in AnswerSources
                   /\ Fits(answer.source, answer.route)
    /\ first # NoFirst /\ "words" \notin shifted => Fits(first.source, first.route)
    /\ Answered /\ shifted = {} /\ answer.source \in Unrouted =>
          <<answer.source, answer.route>> = SearchVerdict
    /\ shifted = {} /\ first.source \in Unrouted =>
          <<first.source, first.route>> = SearchVerdict
    /\ first.source = "nothing" => Answered /\ answer = NotEligible /\ first.route = 0
    /\ call.pc = "read" /\ shifted = {} => call.rows = FoundBy(TheQuery(request), request)
    /\ call.pc \in {"scan", "search", "read"} => ~WantsPassportFields(request)
    /\ call.pc \in {"search", "read"} => request.fallback

LEMMA FitsAreOne ==
  ASSUME request \in RequestRecords,
         NEW s \in AnswerSources, NEW r, Fits(s, r), NEW t \in AnswerSources, NEW u, Fits(t, u)
  PROVE  IF s \in Unrouted THEN t \in Unrouted ELSE s = t /\ r = u
<1>1. \A i \in Routes : RouteScore(i) \in Nat BY ScoreType
<1>2. s = "passport" <=> t = "passport" BY DEF Fits, FitsRegistry
<1>3. CASE s = "passport" BY <1>2, <1>3 DEF Fits, FitsRegistry, Unrouted
<1>4. CASE s = "registry"
  <2>1. \E i \in Routes : RouteScore(i) >= MinRegistryScore BY <1>4 DEF Fits, FitsRegistry
  <2>2. t = "registry"
    BY <1>1, <1>2, <1>4, <2>1 DEF Fits, FitsRegistry, AnswerSources, Unrouted, MinRegistryScore
  <2>3. r = u BY <1>1, <1>4, <2>2 DEF Fits, FitsRegistry
  <2> QED BY <1>4, <2>2, <2>3 DEF Unrouted
<1>5. CASE s \in Unrouted
  <2>1. t # "registry" BY <1>1, <1>5 DEF Fits, FitsRegistry, MinRegistryScore
  <2> QED BY <1>2, <1>5, <2>1 DEF AnswerSources, Unrouted
<1> QED BY <1>3, <1>4, <1>5 DEF AnswerSources

LEMMA RetryMeansRoute == RetryInv => RetryKeepsRoute
<1> SUFFICES ASSUME RetryInv, Answered, "words" \notin shifted,
                    first.source = "search" => shifted = {}
             PROVE  <<answer.source, answer.route>> = <<first.source, first.route>>
  BY DEF RetryKeepsRoute
<1>1. /\ first.source \in AnswerSources /\ Fits(first.source, first.route)
      /\ answer.source \in AnswerSources /\ Fits(answer.source, answer.route)
      /\ request \in RequestRecords
  BY DEF RetryInv, PickInv, CallTypeOK
<1>2. CASE first.source = "nothing"
  BY <1>2 DEF RetryInv, NotEligible, NoAnswer
<1>3. CASE first.source = "search" BY <1>1, <1>3, FitsAreOne DEF RetryInv, Unrouted
<1>4. CASE first.source \notin Unrouted BY <1>1, <1>4, FitsAreOne
<1> QED BY <1>2, <1>3, <1>4 DEF Unrouted

LEMMA FitsStays ==
  ASSUME UNCHANGED request, NEW s, NEW r, Fits(s, r)
  PROVE  /\ first'.source = s /\ first'.route = r => Fits(first.source, first.route)'
         /\ answer'.source = s /\ answer'.route = r => Fits(answer.source, answer.route)'
BY DEF Fits, FitsRegistry, RouteScore, Routes

LEMMA SearchVerdictStays ==
  ASSUME UNCHANGED <<request, catalog>>
  PROVE  SearchVerdict' = SearchVerdict
BY DEF SearchVerdict, FoundBy

(* The steps that answer.                                                  *)
LEMMA AnswerKeepsRetry ==
  ASSUME RetryInv, call.pc # "answered", PickInv', UNCHANGED <<request, catalog>>,
         NEW a, Answers(a), a.source \in AnswerSources,
         a.source = "passport" <=> WantsPassportFields(request),
         a.source = "passport" => a.route = 0,
         a.source = "nothing" => a = NotEligible,
         shifted \subseteq shifted',
         shifted' = {} /\ a.source \in Unrouted => <<a.source, a.route>> = SearchVerdict
  PROVE  RetryInv'
<1>1. /\ answer' = a /\ call'.pc = "answered"
      /\ first' = IF first # NoFirst THEN first
                  ELSE [source |-> a.source, route |-> a.route, asked |-> AskedBy(a)]
  BY AnswerKeepsCall DEF Answers, RetryInv, PickInv
<1>2. first.source # "nothing" BY DEF RetryInv, Answered
<1>3. Fits(answer.source, answer.route)'
  <2>1. a.source # "passport" => FitsRegistry(answer.source, answer.route)'
    <3> SUFFICES ASSUME a.source # "passport"
                 PROVE  FitsRegistry(answer.source, answer.route)'
      OBVIOUS
    <3>1. Answered' /\ (answer.source = "registry" \/ answer.source \in Unrouted)'
      BY <1>1 DEF Answered, AnswerSources, Unrouted
    <3> QED BY <3>1, PickMeansFits, PTL
  <2>2. a.source = "passport" => FitsRegistry(answer.source, answer.route)'
    BY <1>1 DEF FitsRegistry, Unrouted
  <2> QED BY <1>1, <2>1, <2>2 DEF Fits
<1>4. /\ first' # NoFirst /\ first'.source \in AnswerSources
      /\ "words" \notin shifted' => Fits(first.source, first.route)'
  <2>1. CASE first # NoFirst BY <1>1, <2>1, FitsStays DEF RetryInv
  <2>2. CASE first = NoFirst
    <3>1. first'.source = answer'.source /\ first'.route = answer'.route BY <1>1, <2>2
    <3>2. Fits(first.source, first.route)' BY <1>3, <3>1 DEF Fits, FitsRegistry
    <3> QED BY <1>1, <3>1, <3>2 DEF NoFirst, AnswerSources, Unrouted
  <2> QED BY <2>1, <2>2
<1>5. SearchVerdict' = SearchVerdict BY SearchVerdictStays
<1>6. shifted' = {} /\ first'.source \in Unrouted =>
         <<first'.source, first'.route>> = SearchVerdict'
  BY <1>1, <1>5 DEF RetryInv
<1>7. first'.source = "nothing" => answer' = NotEligible /\ first'.route = 0
  BY <1>1, <1>2 DEF NotEligible, NoAnswer
<1> QED BY <1>1, <1>3, <1>4, <1>5, <1>6, <1>7 DEF RetryInv, Answered, AnswerSources

(* The steps inside a call that do not answer.                             *)
LEMMA InsideKeepsRetry ==
  ASSUME RetryInv, call.pc # "answered", PickInv', UNCHANGED <<request, catalog, first>>,
         call'.pc \in {"scan", "search", "read"}, ~WantsPassportFields(request),
         shifted \subseteq shifted',
         call'.pc \in {"search", "read"} => request.fallback,
         call'.pc = "read" /\ shifted' = {} =>
             call'.rows = FoundBy(TheQuery(request), request)
  PROVE  RetryInv'
<1>1. first.source # "nothing" BY DEF RetryInv, Answered
<1>2. SearchVerdict' = SearchVerdict BY SearchVerdictStays
<1>3. FoundBy(TheQuery(request), request)' = FoundBy(TheQuery(request), request)
  BY DEF FoundBy
<1>4. first # NoFirst /\ "words" \notin shifted' => Fits(first.source, first.route)'
  BY FitsStays DEF RetryInv
<1> QED BY <1>1, <1>2, <1>3, <1>4 DEF RetryInv, Answered

LEMMA RetryInit == RouteInit => RetryInv
BY PickInit DEF RouteInit, RetryInv, Idle, Answered, NoFirst, Unrouted

LEMMA ResolveKeepsRetry ==
  ASSUME RetryInv, Resolve, PickInv'
  PROVE  RetryInv'
<1>1. call.pc = "idle" /\ UNCHANGED <<request, catalog, shifted>> BY DEF Resolve
<1>2. CASE WantsPassportFields(request)
  <2>1. Answers(PassportAnswer(request)) BY <1>2 DEF Resolve
  <2>2. PassportAnswer(request).source = "passport" /\ PassportAnswer(request).route = 0
    BY DEF PassportAnswer
  <2> QED BY <1>1, <1>2, <2>1, <2>2, AnswerKeepsRetry DEF AnswerSources, Unrouted
<1>3. CASE ~WantsPassportFields(request)
  <2>1. call'.pc = "scan" /\ UNCHANGED first BY <1>3 DEF Resolve, Idle
  <2> QED BY <1>1, <1>3, <2>1, InsideKeepsRetry
<1> QED BY <1>2, <1>3

LEMMA ScanKeepsRetry ==
  ASSUME RetryInv, Scan, PickInv'
  PROVE  RetryInv'
<1>1. /\ call.pc = "scan" /\ call'.pc = "scan"
      /\ UNCHANGED <<request, catalog, first, shifted>> /\ ~WantsPassportFields(request)
  BY DEF Scan, RetryInv, PickInv, CallTypeOK
<1> QED BY <1>1, InsideKeepsRetry

LEMMA ChooseKeepsRetry ==
  ASSUME RetryInv, Choose, PickInv'
  PROVE  RetryInv'
<1> DEFINE p == call.pick
<1>1. /\ call.pc = "scan" /\ UNCHANGED <<request, catalog, shifted>>
      /\ ~WantsPassportFields(request)
  BY DEF Choose, RetryInv
<1>2. CASE Matches(p)
  <2>1. PICK a : Answers(a) /\ a.source = "registry"
    <3>1. Ambiguous("registry").source = "registry" /\ MatchedRoute(p.best).source = "registry"
      BY DEF Ambiguous, NoAnswer, MatchedRoute, Resolved
    <3> QED BY <1>2, <3>1 DEF Choose, Matches
  <2> QED BY <1>1, <2>1, AnswerKeepsRetry DEF AnswerSources, Unrouted
<1>3. CASE ~Matches(p) /\ request.fallback
  <2>1. call' = [call EXCEPT !.pc = "search"] /\ UNCHANGED first
    BY <1>3 DEF Choose, Matches
  <2>2. call'.pc = "search" BY <2>1 DEF RetryInv, PickInv, CallTypeOK
  <2> QED BY <1>1, <1>3, <2>1, <2>2, InsideKeepsRetry
<1>4. CASE ~Matches(p) /\ ~request.fallback
  <2>1. Answers(NotEligible) BY <1>4 DEF Choose, Matches
  <2>2. NotEligible.source = "nothing" /\ NotEligible.route = 0 BY DEF NotEligible, NoAnswer
  <2>3. SearchVerdict = <<"nothing", 0>> BY <1>4 DEF SearchVerdict
  <2> QED BY <1>1, <2>1, <2>2, <2>3, AnswerKeepsRetry DEF AnswerSources, Unrouted
<1> QED BY <1>2, <1>3, <1>4

LEMMA OneQuery ==
  ASSUME NEW w \in SearchQueries(request), Cardinality(SearchQueries(request)) = 1,
         request \in RequestRecords
  PROVE  w = TheQuery(request)
<1> DEFINE S == SearchQueries(request)
<1>1. IsFiniteSet(S)
  <2>1. CASE \E v : S = {v} BY <2>1, FS_Singleton
  <2>2. CASE S = {v \in request.words : \A u \in request.words : Length[u] <= Length[v]}
    <3>1. S \subseteq Words BY <2>2 DEF RequestRecords
    <3> QED BY <3>1, RoutingAssumption, FS_Subset
  <2> QED BY <2>1, <2>2 DEF SearchQueries
<1>2. PICK v : S = {v} BY <1>1, FS_Singleton
<1> QED BY <1>2 DEF TheQuery

LEMMA SearchKeepsRetry ==
  ASSUME RetryInv, Search, PickInv'
  PROVE  RetryInv'
<1>1. /\ call.pc = "search" /\ UNCHANGED <<request, catalog>>
      /\ ~WantsPassportFields(request) /\ request.fallback /\ request \in RequestRecords
  BY DEF Search, RetryInv, PickInv, CallTypeOK
<1>2. CASE \E w \in SearchQueries(request) :
             /\ call' = [call EXCEPT !.pc = "read", !.query = w, !.rows = FoundBy(w, request),
                                     !.unread = FoundBy(w, request)]
             /\ shifted' = IF Cardinality(SearchQueries(request)) = 1 THEN shifted
                                                                      ELSE shifted \cup {"query"}
             /\ UNCHANGED first
  <2>1. PICK w \in SearchQueries(request) :
           /\ call' = [call EXCEPT !.pc = "read", !.query = w, !.rows = FoundBy(w, request),
                                   !.unread = FoundBy(w, request)]
           /\ shifted' = IF Cardinality(SearchQueries(request)) = 1 THEN shifted
                                                                    ELSE shifted \cup {"query"}
           /\ UNCHANGED first
    BY <1>2
  <2>2. call'.pc = "read" /\ call'.rows = FoundBy(w, request)
    BY <2>1 DEF RetryInv, PickInv, CallTypeOK
  <2>3. shifted' = {} => w = TheQuery(request) BY <1>1, <2>1, OneQuery
  <2>4. shifted \subseteq shifted' BY <2>1
  <2> QED BY <1>1, <2>1, <2>2, <2>3, <2>4, InsideKeepsRetry
<1>3. CASE Answers(NotEligible) /\ shifted' = shifted \cup {"error"}
  <2>1. NotEligible.source = "nothing" /\ NotEligible.route = 0 BY DEF NotEligible, NoAnswer
  <2> QED BY <1>1, <1>3, <2>1, AnswerKeepsRetry DEF AnswerSources, Unrouted
<1> QED BY <1>2, <1>3 DEF Search

LEMMA ReadEntryKeepsRetry ==
  ASSUME RetryInv, ReadEntry, PickInv'
  PROVE  RetryInv'
<1>1. /\ call.pc = "read" /\ UNCHANGED <<request, catalog, first, shifted>>
      /\ ~WantsPassportFields(request) /\ request.fallback
      /\ shifted = {} => call.rows = FoundBy(TheQuery(request), request)
  BY DEF ReadEntry, RetryInv
<1>2. call'.pc = "read" /\ call'.rows = call.rows
  BY <1>1 DEF ReadEntry, RetryInv, PickInv, CallTypeOK
<1> QED BY <1>1, <1>2, InsideKeepsRetry

LEMMA RankKeepsRetry ==
  ASSUME RetryInv, Rank, PickInv'
  PROVE  RetryInv'
<1>1. /\ call.pc = "read" /\ UNCHANGED <<request, catalog, shifted>>
      /\ ~WantsPassportFields(request) /\ request.fallback
      /\ shifted = {} => call.rows = FoundBy(TheQuery(request), request)
  BY DEF Rank, RetryInv
<1> DEFINE near == NearRows(call.rows, request)
<1>2. near = {e \in call.rows : \A f \in call.rows : RowScore(f) <= RowScore(e) + 1}
  BY DEF NearRows, RowScore
<1>3. Answers(IF \A e \in near : RowScore(e) < SearchScoreMinimum THEN NotEligible
              ELSE IF Cardinality(near) > 1 THEN Ambiguous("search")
              ELSE MatchedRow(CHOOSE e \in near : TRUE))
  BY <1>2 DEF Rank
<1>4. SearchVerdict = RowsVerdict(call.rows, request) \/ shifted # {}
  BY <1>1 DEF SearchVerdict
<1>5. RowsVerdict(call.rows, request) =
         IF \A e \in near : RowScore(e) < SearchScoreMinimum THEN <<"nothing", 0>>
         ELSE <<"search", IF Cardinality(near) > 1 THEN 0 ELSE CHOOSE e \in near : TRUE>>
  BY DEF RowsVerdict, RowScore
<1> HIDE DEF near
<1>6. PICK a : /\ Answers(a) /\ a.source \in Unrouted
               /\ a.source = "nothing" => a = NotEligible
               /\ <<a.source, a.route>> = RowsVerdict(call.rows, request)
  <2>1. CASE \A e \in near : RowScore(e) < SearchScoreMinimum
    <3>1. NotEligible.source = "nothing" /\ NotEligible.route = 0 BY DEF NotEligible, NoAnswer
    <3> QED BY <1>3, <1>5, <2>1, <3>1 DEF Unrouted
  <2>2. CASE ~(\A e \in near : RowScore(e) < SearchScoreMinimum) /\ Cardinality(near) > 1
    <3>1. Ambiguous("search").source = "search" /\ Ambiguous("search").route = 0
      BY DEF Ambiguous, NoAnswer
    <3> QED BY <1>3, <1>5, <2>2, <3>1 DEF Unrouted
  <2>3. CASE ~(\A e \in near : RowScore(e) < SearchScoreMinimum) /\ ~(Cardinality(near) > 1)
    <3> DEFINE best == CHOOSE e \in near : TRUE
    <3>1. MatchedRow(best).source = "search" /\ MatchedRow(best).route = best
      BY DEF MatchedRow, Resolved
    <3> HIDE DEF best
    <3>2. Answers(MatchedRow(best)) BY <1>3, <2>3 DEF best
    <3>3. RowsVerdict(call.rows, request) = <<"search", best>> BY <1>5, <2>3 DEF best
    <3> QED BY <3>1, <3>2, <3>3 DEF Unrouted
  <2> QED BY <2>1, <2>2, <2>3
<1> QED BY <1>1, <1>4, <1>6, AnswerKeepsRetry DEF AnswerSources, Unrouted

LEMMA CatalogKeepsRetry ==
  ASSUME RetryInv, NEW e \in Rows, ChangeCatalog(e), PickInv'
  PROVE  RetryInv'
<1>1. /\ UNCHANGED <<request, call, answer, first>> /\ "catalog" \in shifted'
      /\ shifted \subseteq shifted'
  BY DEF ChangeCatalog
<1>2. first # NoFirst /\ "words" \notin shifted' => Fits(first.source, first.route)'
  BY <1>1, FitsStays DEF RetryInv
<1>3. Answered' => Fits(answer.source, answer.route)'
  BY <1>1, FitsStays DEF RetryInv, Answered
<1> QED BY <1>1, <1>2, <1>3 DEF RetryInv, Answered

LEMMA CallAgainKeepsRetry ==
  ASSUME RetryInv, CallsAgain, AskedFor # {}, call.pc = "answered", PickInv',
         UNCHANGED <<request, shifted>> \/ "words" \in shifted'
  PROVE  RetryInv'
<1>1. call'.pc = "idle" /\ UNCHANGED <<first, catalog>> BY DEF CallsAgain, Idle
<1>2. NotEligible.guidance = NothingAsked BY DEF NotEligible, NoAnswer
<1>3. answer # NotEligible BY <1>2 DEF AskedFor, AskedBy, NothingAsked
<1>4. first.source # "nothing" BY <1>3 DEF RetryInv
<1>5. CASE UNCHANGED <<request, shifted>>
  <2>1. SearchVerdict' = SearchVerdict BY <1>1, <1>5, SearchVerdictStays
  <2>2. first # NoFirst /\ "words" \notin shifted' => Fits(first.source, first.route)'
    BY <1>1, <1>5, FitsStays DEF RetryInv
  <2> QED BY <1>1, <1>4, <1>5, <2>1, <2>2 DEF RetryInv, Answered
<1>6. CASE "words" \in shifted'
  BY <1>1, <1>4, <1>6 DEF RetryInv, Answered
<1> QED BY <1>5, <1>6

LEMMA UnchangedKeepsRetry ==
  ASSUME RetryInv, UNCHANGED <<request, catalog, call, answer, first, shifted>>, PickInv'
  PROVE  RetryInv'
<1>1. first # NoFirst /\ "words" \notin shifted' => Fits(first.source, first.route)'
  BY FitsStays DEF RetryInv
<1>2. Answered' => Fits(answer.source, answer.route)'
  BY FitsStays DEF RetryInv, Answered
<1>3. SearchVerdict' = SearchVerdict BY SearchVerdictStays
<1>4. FoundBy(TheQuery(request), request)' = FoundBy(TheQuery(request), request)
  BY DEF FoundBy
<1> QED BY <1>1, <1>2, <1>3, <1>4 DEF RetryInv, Answered

LEMMA RouteStepKeepsRetry ==
  ASSUME RetryInv, [RouteNext]_routeVars
  PROVE  RetryInv'
<1>1. PickInv' BY RouteStepKeepsPick DEF RetryInv
<1>2. CASE FetchFacts
  <2>1. AskedFor # {} /\ call.pc = "answered" BY <1>2 DEF FetchFacts, WantedFacts
  <2> QED BY <1>1, <1>2, <2>1, CallAgainKeepsRetry DEF FetchFacts
<1>3. CASE AskUser
  <2>1. UNCHANGED <<request, shifted>> \/ "words" \in shifted' BY <1>3 DEF AskUser
  <2> QED BY <1>1, <1>3, <2>1, CallAgainKeepsRetry DEF AskUser
<1>4. CASE Settle BY <1>1, <1>4, UnchangedKeepsRetry DEF Settle
<1>5. CASE \E e \in Rows : ChangeCatalog(e) BY <1>1, <1>5, CatalogKeepsRetry
<1>6. CASE UNCHANGED routeVars BY <1>1, <1>6, UnchangedKeepsRetry DEF routeVars
<1> QED
  BY <1>1, <1>2, <1>3, <1>4, <1>5, <1>6, ResolveKeepsRetry, ScanKeepsRetry,
     ChooseKeepsRetry, SearchKeepsRetry, ReadEntryKeepsRetry, RankKeepsRetry DEF RouteNext

(* Facts and answers lead a retry to the route they were asked for, for    *)
(* every registry, catalog and request: what is chosen depends on nothing  *)
(* but the words and, of a request that no route fits, the catalog.        *)
THEOREM RouteRetryKeepsRoute == RouteSpec => []RetryKeepsRoute
<1>1. RetryInv /\ [RouteNext]_routeVars => RetryInv' BY RouteStepKeepsRetry
<1> QED BY <1>1, RetryInit, RetryMeansRoute, PTL DEF RouteSpec

-----------------------------------------------------------------------------
(* What a search has read of the rows it found, and of the one it names.   *)
Contents == (SUBSET Keys) \cup {NONE}

RowsTypeOK ==
    /\ catalog \in [Rows -> Contents]
    /\ call.rows \subseteq Rows /\ call.unread \subseteq call.rows
    /\ call.needs \in [Rows -> SUBSET Keys]

ReadOK ==
    \A e \in call.rows \ upset :
       /\ catalog[e] = seen[e] /\ seen[e] # NONE
       /\ Entries[e].template /\ e \notin call.unread => call.needs[e] = seen[e]

NamesEntry == Answered /\ answer.source = "search" /\ answer.route # 0

EntryOK ==
    LET e == answer.route IN
    /\ e \in call.rows
    /\ \A f \in call.rows \ {e} : RowScore(f) + 1 < RowScore(e)
    /\ answer.status = "EXECUTABLE" => \A k \in call.needs[e] : answer.inputs[k] # "none"
    /\ Entries[e].template /\ e \notin upset => call.needs[e] = seen[e]

FoundInv ==
    /\ PickInv
    /\ RowsTypeOK
    /\ call.pc = "read" => ReadOK
    /\ NamesEntry => EntryOK

LEMMA EntryType ==
  ASSUME NEW e \in Rows
  PROVE  Entries[e] \in EntryRecords
<1>1. Entries \in Seq(EntryRecords) BY RoutingAssumption
<1> QED BY <1>1 DEF Rows

LEMMA RowScoreType ==
  ASSUME NEW e \in Rows
  PROVE  RowScore(e) \in Nat
<1>1. Entries[e].names \in Seq(Words) BY EntryType DEF EntryRecords
<1>2. Mentions(Entries[e].names, request) \in Nat BY <1>1, MentionsType
<1> DEFINE kind == IF Entries[e].template THEN 2 ELSE 1
           google == IF Entries[e].google /\ "gmail" \in InText(request) THEN 2 ELSE 0
           http == IF Entries[e].http /\ {"http", "url"} \cap InText(request) # {} THEN 2 ELSE 0
<1>3. kind \in Nat /\ google \in Nat /\ http \in Nat OBVIOUS
<1>4. RowScore(e) = Mentions(Entries[e].names, request) + kind + google + http
  BY DEF RowScore, ScoreSearchCandidate
<1> HIDE DEF kind, google, http
<1> QED BY <1>2, <1>3, <1>4

(* Any numbers have a least among them.                                    *)
LEMMA LeastExists ==
  ASSUME NEW S \in SUBSET Nat, S # {}
  PROVE  \E m \in S : \A n \in S : m <= n
<1> DEFINE R == {ss \in Nat \X Nat : ss[1] < ss[2]}
<1>1. IsWellFoundedOn(R, Nat) BY NatLessThanWellFounded DEF OpToRel
<1>2. \A n, m \in S : n < m => <<n, m>> \in R OBVIOUS
<1> HIDE DEF R
<1>3. PICK m \in S : \A n \in S : <<n, m>> \notin R BY <1>1, WFMin
<1>4. \A n \in S : m \in Nat /\ n \in Nat /\ ~(n < m) BY <1>2, <1>3
<1> QED BY <1>4

(* A finite set has an element of the highest score: one that the fewest   *)
(* stand above.                                                            *)
LEMMA HighestExists ==
  ASSUME NEW S, IsFiniteSet(S), S # {}, NEW score \in [S -> Nat]
  PROVE  \E m \in S : \A n \in S : score[n] <= score[m]
<1> DEFINE Above(x) == {y \in S : score[y] > score[x]}
           Counts == {Cardinality(Above(x)) : x \in S}
<1>1. \A x \in S : IsFiniteSet(Above(x)) /\ Cardinality(Above(x)) \in Nat
  BY FS_Subset, FS_CardinalityType
<1>2. Counts \subseteq Nat /\ Counts # {} BY <1>1
<1>3. PICK c \in Counts : \A n \in Counts : c <= n
  <2> HIDE DEF Counts
  <2> QED BY <1>2, LeastExists
<1>4. PICK m \in S : c = Cardinality(Above(m)) BY <1>3
<1>5. ASSUME NEW n \in S, score[n] > score[m] PROVE FALSE
  <2>1. Above(n) \subseteq Above(m) /\ n \in Above(m) /\ n \notin Above(n) BY <1>5
  <2>2. Cardinality(Above(n)) <= Cardinality(Above(m))
        /\ (Cardinality(Above(m)) = Cardinality(Above(n)) => Above(m) = Above(n))
    BY <1>1, <2>1, FS_Subset
  <2>3. Cardinality(Above(n)) \in Counts OBVIOUS
  <2> HIDE DEF Above
  <2> QED BY <1>1, <1>3, <1>4, <2>1, <2>2, <2>3
<1> QED BY <1>5

(* Rank names an entry only if it leads every other by two points.         *)
LEMMA LeaderStandsOut ==
  ASSUME NEW rows \in SUBSET Rows, NEW near, Cardinality(near) <= 1,
         near = {e \in rows : \A f \in rows : RowScore(f) <= RowScore(e) + 1},
         NEW best \in near
  PROVE  best \in rows /\ \A f \in rows \ {best} : RowScore(f) + 1 < RowScore(best)
<1>1. IsFiniteSet(rows) /\ IsFiniteSet(near)
  <2>1. Rows = 1 .. Len(Entries) /\ Len(Entries) \in Nat BY RoutingAssumption DEF Rows
  <2>2. IsFiniteSet(Rows) BY <2>1, FS_Interval
  <2>3. near \subseteq rows OBVIOUS
  <2> QED BY <2>2, <2>3, FS_Subset
<1>2. near = {best}
  <2>1. Cardinality(near) \in Nat /\ Cardinality(near) # 0
    BY <1>1, FS_CardinalityType, FS_EmptySet
  <2>2. Cardinality(near) = 1 BY <2>1
  <2>3. \E x : near = {x} BY <1>1, <2>2, FS_Singleton
  <2> QED BY <2>3
<1>3. \A e \in rows : RowScore(e) \in Nat BY RowScoreType
<1> DEFINE score == [e \in rows |-> RowScore(e)]
<1>4. score \in [rows -> Nat] BY <1>3
<1>5. rows # {} OBVIOUS
<1>6. PICK m \in rows : \A n \in rows : score[n] <= score[m]
  <2> HIDE DEF score
  <2> QED BY <1>1, <1>4, <1>5, HighestExists
<1>7. \A n \in rows : RowScore(n) <= RowScore(m) BY <1>6
<1>8. m = best
  <2>1. \A n \in rows : RowScore(n) <= RowScore(m) + 1 BY <1>3, <1>7
  <2> QED BY <1>2, <2>1
<1>9. ASSUME NEW f \in rows \ {best} PROVE RowScore(f) + 1 < RowScore(best)
  <2>1. f \notin near BY <1>2
  <2>2. PICK g \in rows : ~(RowScore(g) <= RowScore(f) + 1) BY <2>1
  <2> QED BY <1>3, <1>7, <1>8, <2>2
<1> QED BY <1>2, <1>9

LEMMA FoundMeansComplete == FoundInv => FoundEntryIsComplete
BY DEF FoundInv, FoundEntryIsComplete, NamesEntry, EntryOK

LEMMA FoundInit == RouteInit => FoundInv
<1> SUFFICES ASSUME RouteInit PROVE FoundInv OBVIOUS
<1>1. catalog \in [Rows -> Contents] BY RoutingAssumption DEF RouteInit, Contents
<1>2. call = Idle BY DEF RouteInit
<1> QED BY <1>1, <1>2, PickInit DEF RouteInit, FoundInv, RowsTypeOK, Idle, NamesEntry, Answered

(* A call that answers keeps what it has read.                             *)
LEMMA AnswerKeepsRows ==
  ASSUME CallTypeOK, RowsTypeOK, UNCHANGED catalog, NEW a, Answers(a)
  PROVE  /\ RowsTypeOK' /\ answer' = a /\ call'.pc = "answered"
         /\ call'.rows = call.rows /\ call'.unread = call.unread /\ call'.needs = call.needs
BY DEF Answers, CallTypeOK, RowsTypeOK

LEMMA UnnamedKeepsFound ==
  ASSUME FoundInv, PickInv', UNCHANGED catalog,
         NEW a, Answers(a), a.source # "search" \/ a.route = 0
  PROVE  FoundInv'
BY AnswerKeepsRows DEF FoundInv, PickInv, NamesEntry, Answered

LEMMA ResolveKeepsFound ==
  ASSUME FoundInv, Resolve, PickInv'
  PROVE  FoundInv'
<1>1. UNCHANGED catalog BY DEF Resolve
<1>2. CASE WantsPassportFields(request)
  <2>1. Answers(PassportAnswer(request)) BY <1>2 DEF Resolve
  <2>2. PassportAnswer(request).source # "search" BY DEF PassportAnswer
  <2> QED BY <1>1, <2>1, <2>2, UnnamedKeepsFound
<1>3. CASE ~WantsPassportFields(request)
  <2>1. call' = [Idle EXCEPT !.pc = "scan"] BY <1>3 DEF Resolve
  <2> QED BY <1>1, <2>1 DEF FoundInv, RowsTypeOK, Idle, NamesEntry, Answered
<1> QED BY <1>2, <1>3

LEMMA ScanKeepsFound ==
  ASSUME FoundInv, Scan, PickInv'
  PROVE  FoundInv'
<1>1. /\ call'.pc = "scan" /\ UNCHANGED catalog
      /\ call'.rows = call.rows /\ call'.unread = call.unread /\ call'.needs = call.needs
  BY DEF Scan, FoundInv, PickInv, CallTypeOK
<1> QED BY <1>1 DEF FoundInv, RowsTypeOK, NamesEntry, Answered

LEMMA ChooseKeepsFound ==
  ASSUME FoundInv, Choose, PickInv'
  PROVE  FoundInv'
<1>1. UNCHANGED catalog BY DEF Choose
<1>2. CASE \E a : Answers(a) /\ a.source # "search"
  BY <1>1, <1>2, UnnamedKeepsFound
<1>3. CASE call' = [call EXCEPT !.pc = "search"]
  <2>1. /\ call'.pc = "search" /\ call'.rows = call.rows /\ call'.unread = call.unread
        /\ call'.needs = call.needs
    BY <1>3 DEF FoundInv, PickInv, CallTypeOK
  <2> QED BY <1>1, <2>1 DEF FoundInv, RowsTypeOK, NamesEntry, Answered
<1>4. (\E a : Answers(a) /\ a.source # "search") \/ call' = [call EXCEPT !.pc = "search"]
  <2>1. /\ Ambiguous("registry").source = "registry"
        /\ MatchedRoute(call.pick.best).source = "registry"
        /\ NotEligible.source = "nothing"
    BY DEF Ambiguous, NoAnswer, MatchedRoute, Resolved, NotEligible
  <2>2. \/ Answers(Ambiguous("registry")) \/ Answers(MatchedRoute(call.pick.best))
        \/ Answers(NotEligible) \/ call' = [call EXCEPT !.pc = "search"]
    BY Zenon DEF Choose
  <2> QED BY <2>1, <2>2
<1> QED BY <1>2, <1>3, <1>4

LEMMA SearchKeepsFound ==
  ASSUME FoundInv, Search, PickInv'
  PROVE  FoundInv'
<1>1. UNCHANGED catalog BY DEF Search
<1>2. CASE \E w \in SearchQueries(request) :
             /\ call' = [call EXCEPT !.pc = "read", !.query = w, !.rows = FoundBy(w, request),
                                     !.unread = FoundBy(w, request)]
             /\ seen' = catalog /\ upset' = {}
  <2>1. PICK w \in SearchQueries(request) :
           /\ call' = [call EXCEPT !.pc = "read", !.query = w, !.rows = FoundBy(w, request),
                                   !.unread = FoundBy(w, request)]
           /\ seen' = catalog /\ upset' = {}
    BY <1>2
  <2> DEFINE rows == FoundBy(w, request)
  <2>2. rows \subseteq Rows /\ \A e \in rows : catalog[e] # NONE BY DEF FoundBy
  <2> HIDE DEF rows
  <2>3. /\ call'.pc = "read" /\ call'.rows = rows /\ call'.unread = rows
        /\ call'.needs = call.needs
    BY <2>1 DEF FoundInv, PickInv, CallTypeOK, rows
  <2> QED BY <1>1, <2>1, <2>2, <2>3 DEF FoundInv, RowsTypeOK, ReadOK, NamesEntry, Answered
<1>3. CASE Answers(NotEligible)
  <2>1. NotEligible.source = "nothing" BY DEF NotEligible, NoAnswer
  <2> QED BY <1>1, <1>3, <2>1, UnnamedKeepsFound
<1> QED BY <1>2, <1>3 DEF Search

LEMMA ReadEntryKeepsFound ==
  ASSUME FoundInv, ReadEntry, PickInv'
  PROVE  FoundInv'
<1>1. /\ CallTypeOK /\ RowsTypeOK /\ ReadOK /\ call.pc = "read" /\ UNCHANGED <<catalog, seen>>
  BY DEF FoundInv, PickInv, ReadEntry
<1>2. PICK e \in call.unread :
         \/ /\ call' = [call EXCEPT !.unread = @ \ {e},
                                    !.needs[e] = IF Entries[e].template /\ catalog[e] # NONE
                                                 THEN catalog[e] ELSE {}]
            /\ UNCHANGED upset
         \/ call' = [call EXCEPT !.unread = @ \ {e}] /\ upset' = upset \cup {e}
  BY DEF ReadEntry
<1> DEFINE required == IF Entries[e].template /\ catalog[e] # NONE THEN catalog[e] ELSE {}
<1>3. e \in Rows /\ required \in SUBSET Keys BY <1>1 DEF RowsTypeOK, Contents
<1>4. /\ call'.pc = "read" /\ call'.rows = call.rows /\ call'.unread = call.unread \ {e}
  BY <1>1, <1>2 DEF CallTypeOK
<1>5. \/ call'.needs = [call.needs EXCEPT ![e] = required] /\ UNCHANGED upset
      \/ UNCHANGED call.needs /\ upset' = upset \cup {e}
  <2>1. CASE /\ call' = [call EXCEPT !.unread = @ \ {e}, !.needs[e] = required]
             /\ UNCHANGED upset
    <3> HIDE DEF required
    <3>1. call'.needs = [call.needs EXCEPT ![e] = required] BY <1>1, <2>1 DEF CallTypeOK
    <3> QED BY <2>1, <3>1
  <2>2. CASE call' = [call EXCEPT !.unread = @ \ {e}] /\ upset' = upset \cup {e}
    BY <1>1, <2>2 DEF CallTypeOK
  <2> QED BY <1>2, <2>1, <2>2
<1>6. RowsTypeOK'
  <2> HIDE DEF required
  <2>1. call'.needs \in [Rows -> SUBSET Keys] BY <1>1, <1>3, <1>5 DEF RowsTypeOK
  <2> QED BY <1>1, <1>4, <2>1 DEF RowsTypeOK
<1>7. ReadOK'
  <2> SUFFICES ASSUME NEW f \in call.rows \ upset, f \notin upset'
               PROVE  /\ catalog'[f] = seen'[f] /\ seen'[f] # NONE
                      /\ Entries[f].template /\ f \notin call'.unread => call'.needs[f] = seen'[f]
    <3>1. upset \subseteq upset' BY <1>5
    <3> QED BY <1>4, <3>1 DEF ReadOK
  <2>1. /\ catalog[f] = seen[f] /\ seen[f] # NONE /\ f \in Rows
        /\ Entries[f].template /\ f \notin call.unread => call.needs[f] = seen[f]
    BY <1>1 DEF ReadOK, RowsTypeOK
  <2>2. CASE f # e
    <3> HIDE DEF required
    <3>1. call'.needs[f] = call.needs[f] BY <1>1, <1>5, <2>1, <2>2 DEF RowsTypeOK
    <3> QED BY <1>1, <1>4, <2>1, <2>2, <3>1
  <2>3. CASE f = e
    <3>1. call'.needs[e] = required
      <4> HIDE DEF required
      <4> QED BY <1>1, <1>3, <1>5, <2>3 DEF RowsTypeOK
    <3> QED BY <1>1, <2>1, <2>3, <3>1
  <2> QED BY <2>2, <2>3
<1> QED BY <1>4, <1>6, <1>7 DEF FoundInv, NamesEntry, Answered

LEMMA RankKeepsFound ==
  ASSUME FoundInv, Rank, PickInv'
  PROVE  FoundInv'
<1> DEFINE near == {e \in call.rows : \A f \in call.rows : RowScore(f) <= RowScore(e) + 1}
           best == CHOOSE e \in near : TRUE
<1>1. /\ CallTypeOK /\ RowsTypeOK /\ ReadOK /\ call.unread = {}
      /\ UNCHANGED <<request, catalog, seen, upset>>
  BY DEF FoundInv, PickInv, Rank
<1>2. Answers(IF \A e \in near : RowScore(e) < SearchScoreMinimum THEN NotEligible
              ELSE IF Cardinality(near) > 1 THEN Ambiguous("search")
              ELSE MatchedRow(best))
  BY DEF Rank
<1>3. CASE Answers(NotEligible) \/ Answers(Ambiguous("search"))
  <2>1. NotEligible.source = "nothing" /\ Ambiguous("search").route = 0
    BY DEF NotEligible, Ambiguous, NoAnswer
  <2> QED BY <1>1, <1>3, <2>1, UnnamedKeepsFound
<1>4. CASE /\ Answers(MatchedRow(best)) /\ near # {} /\ ~(Cardinality(near) > 1)
  <2>1. best \in call.rows /\ \A f \in call.rows \ {best} : RowScore(f) + 1 < RowScore(best)
    <3>1. IsFiniteSet(near)
      <4>1. Rows = 1 .. Len(Entries) /\ Len(Entries) \in Nat BY RoutingAssumption DEF Rows
      <4>2. IsFiniteSet(Rows) BY <4>1, FS_Interval
      <4>3. near \subseteq Rows BY <1>1 DEF RowsTypeOK
      <4> QED BY <4>2, <4>3, FS_Subset
    <3>2. Cardinality(near) \in Nat BY <3>1, FS_CardinalityType
    <3>3. Cardinality(near) <= 1 BY <1>4, <3>2
    <3> DEFINE rows == call.rows
    <3>4. rows \subseteq Rows BY <1>1 DEF RowsTypeOK
    <3>5. near = {e \in rows : \A f \in rows : RowScore(f) <= RowScore(e) + 1} OBVIOUS
    <3>6. near # {} BY <1>4
    <3>7. best \in near BY <3>6
    <3> HIDE DEF near, best, rows
    <3>8. best \in rows /\ \A f \in rows \ {best} : RowScore(f) + 1 < RowScore(best)
      BY <3>3, <3>4, <3>5, <3>7, LeaderStandsOut
    <3> QED BY <3>8 DEF rows
  <2> HIDE DEF near, best
  <2>2. /\ RowsTypeOK' /\ answer' = MatchedRow(best) /\ call'.pc = "answered"
        /\ call'.rows = call.rows /\ call'.needs = call.needs
    BY <1>1, <1>4, AnswerKeepsRows
  <2> DEFINE in == RowInputs(call.needs[best], request, facts)
  <2>3. /\ answer'.route = best /\ answer'.inputs = in
        /\ answer'.status = IF MissingInputs(call.needs[best], in) = {} THEN "EXECUTABLE"
                                                                       ELSE "MISSING"
    BY <2>2 DEF MatchedRow, Resolved
  <2>4. answer'.status = "EXECUTABLE" => \A k \in call.needs[best] : in[k] # "none"
    <3> HIDE DEF in
    <3> QED BY <2>3 DEF MissingInputs, Lacks
  <2>5. Entries[best].template /\ best \notin upset => call.needs[best] = seen[best]
    BY <1>1, <2>1 DEF ReadOK
  <2>6. \A f : RowScore(f)' = RowScore(f) BY <1>1 DEF RowScore
  <2> HIDE DEF in
  <2>7. EntryOK' BY <1>1, <2>1, <2>2, <2>3, <2>4, <2>5, <2>6 DEF EntryOK
  <2> QED BY <2>2, <2>7 DEF FoundInv
<1>5. \/ Answers(NotEligible) \/ Answers(Ambiguous("search"))
      \/ Answers(MatchedRow(best)) /\ near # {} /\ ~(Cardinality(near) > 1)
  <2> HIDE DEF near, best
  <2> QED BY <1>2, Zenon
<1> QED BY <1>3, <1>4, <1>5

LEMMA CatalogKeepsFound ==
  ASSUME FoundInv, NEW e \in Rows, ChangeCatalog(e), PickInv'
  PROVE  FoundInv'
<1>1. /\ UNCHANGED <<request, call, answer, seen>> /\ upset' = upset \cup {e}
  BY DEF ChangeCatalog
<1>2. PICK c \in Entries[e].needs \cup {NONE} : catalog' = [catalog EXCEPT ![e] = c]
  BY DEF ChangeCatalog
<1>3. c \in Contents BY <1>2, EntryType DEF EntryRecords, Contents
<1>4. catalog' \in [Rows -> Contents] BY <1>2, <1>3 DEF FoundInv, RowsTypeOK
<1>5. \A f \in Rows \ {e} : catalog'[f] = catalog[f] BY <1>2 DEF FoundInv, RowsTypeOK
<1>6. ReadOK /\ call.rows \subseteq Rows => ReadOK' BY <1>1, <1>5 DEF ReadOK
<1>7. \A f : RowScore(f)' = RowScore(f) BY <1>1 DEF RowScore
<1>8. EntryOK => EntryOK' BY <1>1, <1>7 DEF EntryOK
<1> QED BY <1>1, <1>4, <1>6, <1>8 DEF FoundInv, RowsTypeOK, NamesEntry, Answered

LEMMA CallAgainKeepsFound ==
  ASSUME FoundInv, CallsAgain, PickInv'
  PROVE  FoundInv'
BY DEF CallsAgain, FoundInv, RowsTypeOK, Idle, NamesEntry, Answered

LEMMA UnchangedKeepsFound ==
  ASSUME FoundInv, UNCHANGED <<request, catalog, call, answer, seen, upset>>, PickInv'
  PROVE  FoundInv'
<1>1. \A f : RowScore(f)' = RowScore(f) BY DEF RowScore
<1> QED BY <1>1 DEF FoundInv, RowsTypeOK, ReadOK, EntryOK, NamesEntry, Answered

LEMMA RouteStepKeepsFound ==
  ASSUME FoundInv, [RouteNext]_routeVars
  PROVE  FoundInv'
<1>1. PickInv' BY RouteStepKeepsPick DEF FoundInv
<1>2. CASE FetchFacts BY <1>1, <1>2, CallAgainKeepsFound DEF FetchFacts
<1>3. CASE AskUser BY <1>1, <1>3, CallAgainKeepsFound DEF AskUser
<1>4. CASE Settle BY <1>1, <1>4, UnchangedKeepsFound DEF Settle
<1>5. CASE \E e \in Rows : ChangeCatalog(e) BY <1>1, <1>5, CatalogKeepsFound
<1>6. CASE UNCHANGED routeVars BY <1>1, <1>6, UnchangedKeepsFound DEF routeVars
<1> QED
  BY <1>1, <1>2, <1>3, <1>4, <1>5, <1>6, ResolveKeepsFound, ScanKeepsFound,
     ChooseKeepsFound, SearchKeepsFound, ReadEntryKeepsFound, RankKeepsFound DEF RouteNext

(* An answer from the catalog leads every other entry by two points and    *)
(* lacks nothing its template required when the index was read, for every  *)
(* catalog and however other processes change it during the search.        *)
THEOREM RouteFoundEntryIsComplete == RouteSpec => []FoundEntryIsComplete
<1>1. FoundInv /\ [RouteNext]_routeVars => FoundInv' BY RouteStepKeepsFound
<1> QED BY <1>1, FoundInit, FoundMeansComplete, PTL DEF RouteSpec

-----------------------------------------------------------------------------
(* Where the inputs of a route come from, input by input.                  *)
Told(q, k) == k \in q.given \/ (k = "to" /\ q.recipients > 0)

Attached(q) == Told(q, "document_attachments")

(* A body that calls for knowledge from outside.                           *)
Unmet(q, known) ==
    ~Told(q, "text_plain") /\ (WeatherToFetch(q, known) \/ "semantic" \in q.traits)

GuessesSubject(q, known) ==
    {"about", "weather"} \cap q.traits # {} \/ (Attached(q) /\ ~Unmet(q, known))

SubjectFrom(q, known) ==
    IF Told(q, "subject") THEN "text"
    ELSE IF "email_subject" \in known THEN "fact"
    ELSE IF GuessesSubject(q, known) THEN "guess" ELSE "none"

GuessesBody(q, known) ==
    ~Unmet(q, known)
    /\ ("saying" \in q.traits \/ SubjectFrom(q, known) # "none" \/ Attached(q))

BodyFrom(q, known) ==
    IF Told(q, "text_plain") THEN "text"
    ELSE IF {"email_body", "weather_summary"} \cap known # {} THEN "fact"
    ELSE IF GuessesBody(q, known) THEN "guess" ELSE "none"

(* What the words and the guesses give.                                    *)
Composed(r, q, known, k) ==
    IF r.compose /\ k = "subject" THEN SubjectFrom(q, known)
    ELSE IF r.compose /\ k = "text_plain" THEN BodyFrom(q, known)
    ELSE IF Told(q, k) THEN "text" ELSE "none"

InFacts(r, known, k) ==
    k \in r.required \cup r.optional /\ FactCandidates(k) \cap known # {}

InputFrom(r, q, known, k) ==
    IF Composed(r, q, known, k) # "none" THEN Composed(r, q, known, k)
    ELSE IF InFacts(r, known, k) THEN "fact" ELSE "none"

LEMMA ComposedIs ==
  ASSUME NEW q, NEW known
  PROVE  ComposeAutofill(ExtractInputs(q), q, known) =
            [k \in Keys |-> IF k = "subject" THEN SubjectFrom(q, known)
                            ELSE IF k = "text_plain" THEN BodyFrom(q, known)
                            ELSE IF Told(q, k) THEN "text" ELSE "none"]
<1> DEFINE in == ExtractInputs(q)
           attached == ~Lacks(in, "document_attachments")
           bodyNeeds == BodyNeedsExternal(in, q, WeatherToFetch(q, known))
           subject ==
             IF ~Lacks(in, "subject") THEN in["subject"]
             ELSE IF "email_subject" \in known THEN "fact"
             ELSE IF \/ {"about", "weather"} \cap q.traits # {}
                     \/ attached /\ ~SubjectNeedsExternal(in, q, bodyNeeds) THEN "guess"
             ELSE "none"
           body ==
             IF ~Lacks(in, "text_plain") THEN in["text_plain"]
             ELSE IF {"email_body", "weather_summary"} \cap known # {} THEN "fact"
             ELSE IF ~bodyNeeds /\ ("saying" \in q.traits \/ subject # "none" \/ attached)
                  THEN "guess"
             ELSE "none"
<1>1. {"to", "subject", "text_plain", "document_attachments"} \subseteq Keys
  BY RoutingAssumption
<1>2. /\ in = [k \in Keys |-> IF Told(q, k) THEN "text" ELSE "none"]
      /\ \A k \in Keys : Lacks(in, k) <=> ~Told(q, k)
  BY DEF ExtractInputs, Told, Lacks
<1>3. (attached <=> Attached(q)) /\ (bodyNeeds <=> Unmet(q, known))
  <2> HIDE DEF in
  <2> QED BY <1>1, <1>2 DEF Attached, BodyNeedsExternal, Unmet
<1>4. attached /\ ~SubjectNeedsExternal(in, q, bodyNeeds) /\ Lacks(in, "subject")
         <=> Attached(q) /\ ~Unmet(q, known) /\ ~Told(q, "subject")
  <2> HIDE DEF in, bodyNeeds
  <2> QED BY <1>1, <1>2, <1>3 DEF SubjectNeedsExternal
<1>5. subject = SubjectFrom(q, known)
  <2> HIDE DEF attached, bodyNeeds
  <2>1. Lacks(in, "subject") <=> ~Told(q, "subject") BY <1>1, <1>2
  <2>2. Told(q, "subject") => in["subject"] = "text" BY <1>1, <1>2
  <2> HIDE DEF in
  <2> QED BY <1>4, <2>1, <2>2 DEF SubjectFrom, GuessesSubject
<1>6. body = BodyFrom(q, known)
  <2> HIDE DEF attached, bodyNeeds, subject
  <2>1. Lacks(in, "text_plain") <=> ~Told(q, "text_plain") BY <1>1, <1>2
  <2>2. Told(q, "text_plain") => in["text_plain"] = "text" BY <1>1, <1>2
  <2> HIDE DEF in
  <2> QED BY <1>3, <1>5, <2>1, <2>2 DEF BodyFrom, GuessesBody
<1>7. ComposeAutofill(in, q, known) = [in EXCEPT !["subject"] = subject, !["text_plain"] = body]
  BY DEF ComposeAutofill
<1> HIDE DEF subject, body, attached, bodyNeeds, in
<1> QED BY <1>1, <1>2, <1>5, <1>6, <1>7 DEF in

LEMMA RouteInputsAre ==
  ASSUME NEW r, NEW q, NEW known, NEW k \in Keys
  PROVE  RouteInputs(r, q, known)[k] = InputFrom(r, q, known, k)
<1> DEFINE in == ExtractInputs(q)
           composed == IF r.compose THEN ComposeAutofill(in, q, known) ELSE in
<1>1. in[k] = IF Told(q, k) THEN "text" ELSE "none" BY DEF ExtractInputs, Told
<1>2. r.compose => ComposeAutofill(in, q, known)[k] = Composed(r, q, known, k)
  BY ComposedIs DEF Composed
<1>3. composed[k] = Composed(r, q, known, k)
  <2> HIDE DEF in
  <2> QED BY <1>1, <1>2 DEF Composed
<1>4. RouteInputs(r, q, known)[k] =
         FactInputAutofill(composed, r.required \cup r.optional, known)[k]
  BY DEF RouteInputs
<1> HIDE DEF composed
<1> QED BY <1>3, <1>4 DEF FactInputAutofill, Lacks, InputFrom, InFacts

(* What the user said is kept, and a fact comes before the guess.          *)
LEMMA WordsAndFactsFirst ==
  ASSUME NEW r, NEW q, NEW known, NEW k \in Keys
  PROVE  /\ k \in q.given => RouteInputs(r, q, known)[k] = "text"
         /\ RouteInputs(r, q, known)[k] = "guess" =>
               /\ k = "subject" => "email_subject" \notin known
               /\ k = "text_plain" => {"email_body", "weather_summary"} \cap known = {}
               /\ k \in {"subject", "text_plain"}
<1>1. RouteInputs(r, q, known)[k] = InputFrom(r, q, known, k) BY RouteInputsAre
<1>2. k \in q.given => Composed(r, q, known, k) = "text"
  BY DEF Composed, SubjectFrom, BodyFrom, Told
<1>3. Composed(r, q, known, k) = "guess" =>
         \/ k = "subject" /\ "email_subject" \notin known
         \/ k = "text_plain" /\ {"email_body", "weather_summary"} \cap known = {}
  BY DEF Composed, SubjectFrom, BodyFrom
<1> QED BY <1>1, <1>2, <1>3 DEF InputFrom

(* An input that nothing gave is not guessed when there are more facts,    *)
(* but for a body, of a subject that is among them.                        *)
LEMMA MissingIsNotGuessed ==
  ASSUME NEW r, NEW q, NEW less, NEW known, less \subseteq known, NEW k \in Keys,
         RouteInputs(r, q, less)[k] = "none", RouteInputs(r, q, known)[k] = "guess"
  PROVE  k = "text_plain" /\ "email_subject" \in known \ less
<1>1. Composed(r, q, less, k) = "none" /\ Composed(r, q, known, k) = "guess"
  BY RouteInputsAre DEF InputFrom
<1>2. k \in {"subject", "text_plain"} /\ r.compose BY <1>1 DEF Composed
<1>3. CASE k = "subject"
  <2>1. SubjectFrom(q, less) = "none" /\ SubjectFrom(q, known) = "guess"
    BY <1>1, <1>2, <1>3 DEF Composed
  <2>2. ~GuessesSubject(q, less) /\ GuessesSubject(q, known) BY <2>1 DEF SubjectFrom
  <2> QED BY <2>2 DEF GuessesSubject, Unmet, WeatherToFetch
<1>4. CASE k = "text_plain"
  <2>1. BodyFrom(q, less) = "none" /\ BodyFrom(q, known) = "guess"
    BY <1>1, <1>2, <1>4 DEF Composed
  <2>2. /\ ~GuessesBody(q, less) /\ GuessesBody(q, known)
        /\ "weather_summary" \notin known
    BY <2>1 DEF BodyFrom
  <2>3. Unmet(q, less) <=> Unmet(q, known) BY <2>2 DEF Unmet, WeatherToFetch
  <2>4. SubjectFrom(q, less) = "none" /\ SubjectFrom(q, known) # "none"
    BY <2>2, <2>3 DEF GuessesBody
  <2>5. GuessesSubject(q, less) <=> GuessesSubject(q, known) BY <2>3 DEF GuessesSubject
  <2> QED BY <1>4, <2>4, <2>5 DEF SubjectFrom
<1> QED BY <1>2, <1>3, <1>4

-----------------------------------------------------------------------------
(* What was asked for first, and what has been found out since.            *)
NamesRoute == Answered /\ answer.source = "registry" /\ answer.route # 0

RouteAnswerOK ==
    LET r == Registry[answer.route] IN
    /\ answer.route \in Routes
    /\ answer.inputs = RouteInputs(r, request, facts)
    /\ AskedFor = MissingInputs(r.required, answer.inputs)

FirstOK ==
    caller = "new" =>
        first = IF Answered
                THEN [source |-> answer.source, route |-> answer.route, asked |-> AskedFor]
                ELSE NoFirst

FirstMissed ==
    \E less \in SUBSET facts :
       LET r == Registry[first.route] IN
       /\ first.asked \subseteq MissingInputs(r.required, RouteInputs(r, request, less))
       /\ "email_subject" \in facts \ less => "subject" \in first.asked

FirstNamesRoute == first.source = "registry" /\ first.route # 0

GuessInv ==
    /\ RetryInv
    /\ \A k \in Keys : answer.guidance[k] = "email_subject" => k = "subject"
    /\ NamesRoute => RouteAnswerOK
    /\ FirstOK
    /\ shifted = {} /\ FirstNamesRoute => FirstMissed

LEMMA GuessMeansYields == GuessInv => GuessesYield
<1> SUFFICES ASSUME GuessInv, NamesRoute PROVE GuessesYield
  BY DEF GuessesYield, NamesRoute
<1> DEFINE r == Registry[answer.route]
<1>1. answer.inputs = RouteInputs(r, request, facts) BY DEF GuessInv, RouteAnswerOK
<1>2. request \in RequestRecords BY DEF GuessInv, RetryInv, PickInv, CallTypeOK
<1>3. request.given \subseteq Keys /\ {"subject", "text_plain"} \subseteq Keys
  BY <1>2, RoutingAssumption DEF RequestRecords
<1>4. \A k \in request.given : answer.inputs[k] = "text"
  BY <1>1, <1>3, WordsAndFactsFirst
<1>5. answer.inputs["subject"] = "guess" => "email_subject" \notin facts
  BY <1>1, <1>3, WordsAndFactsFirst
<1>6. answer.inputs["text_plain"] = "guess" => {"email_body", "weather_summary"} \cap facts = {}
  BY <1>1, <1>3, WordsAndFactsFirst
<1>7. ASSUME shifted = {}, NEW k \in first.asked, answer.inputs[k] = "guess"
      PROVE  k = "text_plain" /\ "subject" \in first.asked /\ "email_subject" \in facts
  <2>1. <<answer.source, answer.route>> = <<first.source, first.route>>
    BY <1>7, RetryMeansRoute DEF GuessInv, RetryKeepsRoute, NamesRoute
  <2>2. first.route = answer.route /\ FirstMissed
    BY <1>7, <2>1 DEF GuessInv, NamesRoute, FirstNamesRoute
  <2> HIDE DEF r
  <2>3. PICK less \in SUBSET facts :
           /\ first.asked \subseteq MissingInputs(r.required, RouteInputs(r, request, less))
           /\ "email_subject" \in facts \ less => "subject" \in first.asked
    BY <2>2 DEF FirstMissed, r
  <2>4. RouteInputs(r, request, less)[k] = "none" BY <1>7, <2>3 DEF MissingInputs, Lacks
  <2>5. k \in Keys
    <3>1. answer.route \in Routes BY DEF GuessInv, RouteAnswerOK
    <3>2. r \in RouteRecords BY <3>1, RoutingAssumption DEF Routes, r
    <3>3. r.required \subseteq Keys BY <3>2 DEF RouteRecords
    <3> QED BY <1>7, <2>3, <3>3 DEF MissingInputs
  <2>6. RouteInputs(r, request, facts)[k] = "guess" BY <1>1, <1>7
  <2>7. k = "text_plain" /\ "email_subject" \in facts \ less
    BY <2>4, <2>5, <2>6, MissingIsNotGuessed
  <2> QED BY <2>3, <2>7
<1> QED BY <1>4, <1>5, <1>6, <1>7 DEF GuessesYield

(* A policy that is chosen is one of the input's own.                      *)
LEMMA SubjectIsFetchedForItself ==
  ASSUME NEW i \in Routes, NEW k, NEW in, NEW q, NEW known,
         GuidanceFor(k, Registry[i].policies, in, q, known) = "email_subject"
  PROVE  k = "subject"
<1> DEFINE policies == Registry[i].policies
           fitting == {j \in DOMAIN policies :
                         policies[j].key = k
                         /\ ConditionMatches(policies[j].condition, in, q, known)}
           p == policies[CHOOSE j \in fitting : \A l \in fitting : j <= l]
<1>1. Registry[i] \in RouteRecords /\ RegistryV1(Registry[i]) BY RoutingAssumption DEF Routes
<1>2. policies \in Seq(PolicyRecords) BY <1>1 DEF RouteRecords
<1>3. fitting \in SUBSET Nat BY <1>2
<1>4. GuidanceFor(k, policies, in, q, known) =
         IF fitting = {} THEN "ASK_USER"
         ELSE IF p.sensitive \/ p.mode = "ASK_USER" THEN "ASK_USER" ELSE p.fact
  BY DEF GuidanceFor
<1>5. fitting # {} /\ p.fact = "email_subject" BY <1>4
<1>6. \E j \in fitting : \A l \in fitting : j <= l
  <2> HIDE DEF fitting
  <2> QED BY <1>3, <1>5, LeastExists
<1>7. PICK j \in fitting : p = policies[j] BY <1>6
<1> QED BY <1>1, <1>5, <1>7 DEF RegistryV1

(* The answers: what is missing is asked for.                              *)
LEMMA ResolvedAsks ==
  ASSUME NEW source, NEW i, NEW required \in SUBSET Keys, NEW policies, NEW in,
         \A k \in required : GuidanceFor(k, policies, in, request, facts) # "fine"
  PROVE  AskedBy(Resolved(source, i, required, policies, in)) = MissingInputs(required, in)
BY DEF AskedBy, Resolved, MissingInputs

LEMMA GuidanceIsNotFine ==
  ASSUME NEW i \in Routes, NEW k, NEW in, NEW q, NEW known
  PROVE  GuidanceFor(k, Registry[i].policies, in, q, known) # "fine"
<1> DEFINE policies == Registry[i].policies
           fitting == {j \in DOMAIN policies :
                         policies[j].key = k
                         /\ ConditionMatches(policies[j].condition, in, q, known)}
           p == policies[CHOOSE j \in fitting : \A l \in fitting : j <= l]
<1>1. Registry[i] \in RouteRecords BY RoutingAssumption DEF Routes
<1>2. policies \in Seq(PolicyRecords) BY <1>1 DEF RouteRecords
<1>3. fitting \in SUBSET Nat BY <1>2
<1>4. GuidanceFor(k, policies, in, q, known) =
         IF fitting = {} THEN "ASK_USER"
         ELSE IF p.sensitive \/ p.mode = "ASK_USER" THEN "ASK_USER" ELSE p.fact
  BY DEF GuidanceFor
<1>5. CASE fitting = {} BY <1>4, <1>5
<1>6. CASE fitting # {}
  <2>1. \E j \in fitting : \A l \in fitting : j <= l
    <3> HIDE DEF fitting
    <3> QED BY <1>3, <1>6, LeastExists
  <2>2. PICK j \in fitting : p = policies[j] BY <2>1
  <2>3. p \in PolicyRecords BY <1>2, <2>2
  <2>4. p.fact # "fine" BY <2>3, RoutingAssumption DEF PolicyRecords, FactNames
  <2> HIDE DEF fitting, p
  <2> QED BY <1>4, <1>6, <2>4
<1> QED BY <1>5, <1>6

LEMMA NoPolicyAsksUser ==
  ASSUME NEW k, NEW in, NEW q, NEW known
  PROVE  GuidanceFor(k, <<>>, in, q, known) = "ASK_USER"
<1>1. DOMAIN <<>> = {} OBVIOUS
<1> QED BY <1>1, Zenon DEF GuidanceFor

LEMMA RouteAnswer ==
  ASSUME NEW i \in Routes
  PROVE  /\ MatchedRoute(i).source = "registry" /\ MatchedRoute(i).route = i
         /\ MatchedRoute(i).inputs = RouteInputs(Registry[i], request, facts)
         /\ AskedBy(MatchedRoute(i)) =
               MissingInputs(Registry[i].required, RouteInputs(Registry[i], request, facts))
         /\ MatchedRoute(i).status = IF AskedBy(MatchedRoute(i)) = {} THEN "EXECUTABLE"
                                                                     ELSE "MISSING"
         /\ \A k \in Keys : MatchedRoute(i).guidance[k] = "email_subject" => k = "subject"
<1> DEFINE r == Registry[i]
           in == RouteInputs(r, request, facts)
<1>1. r \in RouteRecords BY RoutingAssumption DEF Routes
<1>2. r.required \in SUBSET Keys BY <1>1 DEF RouteRecords
<1>3. \A k : GuidanceFor(k, r.policies, in, request, facts) # "fine" BY GuidanceIsNotFine
<1>4. \A k : GuidanceFor(k, r.policies, in, request, facts) = "email_subject" => k = "subject"
  BY SubjectIsFetchedForItself
<1> DEFINE a == Resolved("registry", i, r.required, r.policies, in)
<1>5. MatchedRoute(i) = a BY DEF MatchedRoute
<1> HIDE DEF r, in
<1>6. AskedBy(a) = MissingInputs(r.required, in) BY <1>2, <1>3, ResolvedAsks
<1>7. /\ a.source = "registry" /\ a.route = i /\ a.inputs = in
      /\ a.status = IF MissingInputs(r.required, in) = {} THEN "EXECUTABLE" ELSE "MISSING"
      /\ \A k \in Keys : a.guidance[k] = "email_subject" => k = "subject"
  BY <1>4 DEF Resolved
<1> HIDE DEF a
<1>8. /\ a.source = "registry" /\ a.route = i /\ a.inputs = in
      /\ AskedBy(a) = MissingInputs(r.required, in)
      /\ a.status = IF AskedBy(a) = {} THEN "EXECUTABLE" ELSE "MISSING"
      /\ \A k \in Keys : a.guidance[k] = "email_subject" => k = "subject"
  BY <1>6, <1>7
<1> QED BY <1>5, <1>8 DEF r, in

LEMMA RowAnswer ==
  ASSUME NEW e, NEW needs \in SUBSET Keys, call.needs[e] = needs
  PROVE  /\ MatchedRow(e).source = "search" /\ MatchedRow(e).route = e
         /\ AskedBy(MatchedRow(e)) = MissingInputs(needs, RowInputs(needs, request, facts))
         /\ MatchedRow(e).status = IF AskedBy(MatchedRow(e)) = {} THEN "EXECUTABLE"
                                                                 ELSE "MISSING"
         /\ \A k \in Keys : MatchedRow(e).guidance[k] # "email_subject"
<1> DEFINE in == RowInputs(needs, request, facts)
<1>1. \A k : GuidanceFor(k, <<>>, in, request, facts) = "ASK_USER" BY NoPolicyAsksUser
<1> DEFINE a == Resolved("search", e, needs, <<>>, in)
<1>2. MatchedRow(e) = a BY DEF MatchedRow
<1> HIDE DEF in
<1>3. \A k \in needs : GuidanceFor(k, <<>>, in, request, facts) # "fine" BY <1>1
<1>4. AskedBy(a) = MissingInputs(needs, in) BY <1>3, ResolvedAsks
<1>5. /\ a.source = "search" /\ a.route = e
      /\ a.status = IF MissingInputs(needs, in) = {} THEN "EXECUTABLE" ELSE "MISSING"
      /\ \A k \in Keys : a.guidance[k] # "email_subject"
  BY <1>1 DEF Resolved
<1> HIDE DEF a
<1>6. a.status = IF AskedBy(a) = {} THEN "EXECUTABLE" ELSE "MISSING" BY <1>4, <1>5
<1> QED BY <1>2, <1>4, <1>5, <1>6 DEF in

LEMMA OtherAnswers ==
  ASSUME NEW a \in {NotEligible, Ambiguous("search"), Ambiguous("registry")}
  PROVE  /\ AskedBy(a) = {} /\ a.route = 0 /\ a.status # "MISSING"
         /\ \A k \in Keys : a.guidance[k] # "email_subject"
<1>1. a.guidance = NothingAsked /\ a.route = 0 /\ a.status # "MISSING"
  BY DEF NotEligible, Ambiguous, NoAnswer
<1> QED BY <1>1 DEF AskedBy, NothingAsked

LEMMA PassportAnswerAsks ==
  ASSUME NEW a, a = PassportAnswer(request), request \in RequestRecords
  PROVE  /\ a.source = "passport" /\ a.route = 0
         /\ AskedBy(a) = IF request.recipients = 0 THEN {"to"} ELSE {}
         /\ a.status = "MISSING" <=> request.recipients = 0
         /\ \A k \in Keys : a.guidance[k] # "email_subject"
<1> DEFINE none == request.recipients = 0
<1>1. "to" \in Keys BY RoutingAssumption
<1>2. a.guidance = IF none THEN [NothingAsked EXCEPT !["to"] = "ASK_USER"] ELSE NothingAsked
  BY DEF PassportAnswer
<1>3. a.status = "MISSING" <=> none
  <2>1. a.status = CASE request.recipients = 0 -> "MISSING"
                     [] request.recipients = 1 -> "EXECUTABLE"
                     [] OTHER -> "AMBIGUOUS"
    BY DEF PassportAnswer
  <2>2. CASE none BY <2>1, <2>2
  <2>3. CASE request.recipients = 1 BY <2>1, <2>3
  <2>4. CASE ~none /\ request.recipients # 1
    <3>1. a.status = "AMBIGUOUS" BY <2>1, <2>4
    <3> QED BY <3>1, <2>4
  <2> QED BY <2>2, <2>3, <2>4
<1>4. a.source = "passport" /\ a.route = 0 BY DEF PassportAnswer
<1> HIDE DEF none
<1>5. \A k \in Keys : a.guidance[k] = IF none /\ k = "to" THEN "ASK_USER" ELSE "fine"
  BY <1>1, <1>2 DEF NothingAsked
<1>6. AskedBy(a) = IF none THEN {"to"} ELSE {} BY <1>1, <1>5 DEF AskedBy
<1>7. \A k \in Keys : a.guidance[k] # "email_subject" BY <1>5
<1> QED BY <1>3, <1>4, <1>6, <1>7 DEF none

LEMMA GuessInit == RouteInit => GuessInv
<1> SUFFICES ASSUME RouteInit PROVE GuessInv OBVIOUS
<1>1. call.pc = "idle" /\ answer = NoAnswer /\ first = NoFirst /\ caller = "new"
  BY DEF RouteInit, Idle
<1>2. \A k \in Keys : answer.guidance[k] = "fine" BY <1>1 DEF NoAnswer, NothingAsked
<1>3. ~Answered /\ ~FirstNamesRoute BY <1>1 DEF Answered, NoFirst, FirstNamesRoute
<1> QED BY <1>1, <1>2, <1>3, RetryInit DEF GuessInv, NamesRoute, FirstOK

LEMMA AnswerKeepsGuess ==
  ASSUME GuessInv, call.pc # "answered", RetryInv', UNCHANGED <<request, facts, caller>>,
         shifted \subseteq shifted', NEW a, Answers(a),
         \A k \in Keys : a.guidance[k] = "email_subject" => k = "subject",
         a.source = "registry" /\ a.route # 0 =>
            LET r == Registry[a.route] IN
            /\ a.route \in Routes
            /\ a.inputs = RouteInputs(r, request, facts)
            /\ AskedBy(a) = MissingInputs(r.required, a.inputs)
  PROVE  GuessInv'
<1>1. /\ answer' = a /\ Answered' /\ ~Answered /\ AskedFor' = AskedBy(a)
      /\ first' = IF first # NoFirst THEN first
                  ELSE [source |-> a.source, route |-> a.route, asked |-> AskedBy(a)]
  BY AnswerKeepsCall DEF Answers, GuessInv, RetryInv, PickInv, Answered, AskedFor
<1>2. NamesRoute' => RouteAnswerOK'
  BY <1>1 DEF NamesRoute, RouteAnswerOK, Routes
<1>3. FirstOK' BY <1>1 DEF GuessInv, FirstOK
<1>4. shifted' = {} /\ FirstNamesRoute' => FirstMissed'
  <2>1. CASE first # NoFirst
    BY <1>1, <2>1 DEF GuessInv, FirstNamesRoute, FirstMissed
  <2>2. CASE first = NoFirst
    <3> SUFFICES ASSUME FirstNamesRoute' PROVE FirstMissed' OBVIOUS
    <3>1. /\ first'.source = a.source /\ first'.route = a.route /\ first'.asked = AskedBy(a)
          /\ a.source = "registry" /\ a.route # 0
      BY <1>1, <2>2 DEF FirstNamesRoute
    <3>2. first'.asked = MissingInputs(Registry[first'.route].required,
                                       RouteInputs(Registry[first'.route], request', facts'))
      BY <3>1
    <3> QED BY <3>2 DEF FirstMissed
  <2> QED BY <2>1, <2>2
<1>5. \A k \in Keys : answer'.guidance[k] = "email_subject" => k = "subject" BY <1>1
<1> QED BY <1>2, <1>3, <1>4, <1>5 DEF GuessInv

(* The steps inside a call that do not answer, and those of other processes. *)
LEMMA QuietKeepsGuess ==
  ASSUME GuessInv, RetryInv', UNCHANGED <<request, facts, answer, first>>,
         caller' = caller \/ caller' # "new", shifted \subseteq shifted',
         Answered' <=> Answered
  PROVE  GuessInv'
<1>1. NamesRoute' => RouteAnswerOK'
  BY DEF GuessInv, NamesRoute, RouteAnswerOK, Routes, AskedFor
<1>2. FirstOK' BY DEF GuessInv, FirstOK, AskedFor
<1>3. shifted' = {} /\ FirstNamesRoute' => FirstMissed'
  BY DEF GuessInv, FirstNamesRoute, FirstMissed
<1> QED BY <1>1, <1>2, <1>3 DEF GuessInv

LEMMA CallAgainKeepsGuess ==
  ASSUME GuessInv, RetryInv', CallsAgain, caller' # "new", shifted \subseteq shifted',
         shifted' = {} => /\ UNCHANGED request /\ facts \subseteq facts'
                          /\ "email_subject" \in facts' \ facts => "subject" \in first.asked
  PROVE  GuessInv'
<1>1. answer' = NoAnswer /\ ~Answered' /\ UNCHANGED first
  BY DEF CallsAgain, Idle, Answered
<1>2. \A k \in Keys : answer'.guidance[k] # "email_subject"
  BY <1>1 DEF NoAnswer, NothingAsked
<1>3. shifted' = {} /\ FirstNamesRoute' => FirstMissed'
  <2> SUFFICES ASSUME shifted' = {}, FirstNamesRoute PROVE FirstMissed'
    BY <1>1 DEF FirstNamesRoute
  <2>1. FirstMissed BY DEF GuessInv
  <2> DEFINE r == Registry[first.route]
  <2> HIDE DEF r
  <2>2. PICK less \in SUBSET facts :
           /\ first.asked \subseteq MissingInputs(r.required, RouteInputs(r, request, less))
           /\ "email_subject" \in facts \ less => "subject" \in first.asked
    BY <2>1 DEF FirstMissed, r
  <2>3. less \in SUBSET facts' OBVIOUS
  <2>4. "email_subject" \in facts' \ less => "subject" \in first.asked BY <2>2
  <2> QED BY <1>1, <2>2, <2>3, <2>4 DEF FirstMissed, r
<1> QED BY <1>1, <1>2, <1>3 DEF GuessInv, NamesRoute, FirstOK

LEMMA ResolveKeepsGuess ==
  ASSUME GuessInv, Resolve, RetryInv'
  PROVE  GuessInv'
<1>1. call.pc = "idle" /\ UNCHANGED <<request, facts, caller, shifted>> BY DEF Resolve
<1>2. CASE WantsPassportFields(request)
  <2> DEFINE a == PassportAnswer(request)
  <2>1. Answers(a) BY <1>2 DEF Resolve
  <2>2. request \in RequestRecords BY DEF GuessInv, RetryInv, PickInv, CallTypeOK
  <2>3. a.source = "passport" /\ \A k \in Keys : a.guidance[k] # "email_subject"
    BY <2>2, PassportAnswerAsks
  <2> HIDE DEF a
  <2> QED BY <1>1, <2>1, <2>3, AnswerKeepsGuess
<1>3. CASE ~WantsPassportFields(request)
  <2>1. call'.pc = "scan" /\ UNCHANGED <<answer, first>> BY <1>3 DEF Resolve, Idle
  <2> QED BY <1>1, <2>1, QuietKeepsGuess DEF Answered
<1> QED BY <1>2, <1>3

LEMMA ChooseKeepsGuess ==
  ASSUME GuessInv, Choose, RetryInv'
  PROVE  GuessInv'
<1> DEFINE p == call.pick
<1>1. /\ call.pc = "scan" /\ UNCHANGED <<request, facts, caller, shifted>>
      /\ Scanned(p) /\ CallTypeOK
  BY DEF Choose, GuessInv, RetryInv, PickInv, Scanned
<1>2. CASE Answers(MatchedRoute(p.best)) /\ p.best # 0
  <2>1. p.best \in Routes
    <3>1. Len(Registry) \in Nat /\ Routes = 1 .. Len(Registry) BY RoutingAssumption DEF Routes
    <3>2. p.best < p.at /\ p.at <= Len(Registry) + 1 /\ p.best \in Nat /\ p.at \in Nat
      BY <1>1 DEF Scanned, ScanOK, PickRecords
    <3> QED BY <1>2, <3>1, <3>2
  <2> DEFINE i == p.best
             a == MatchedRoute(i)
  <2>2. /\ a.source = "registry" /\ a.route = i
        /\ a.inputs = RouteInputs(Registry[i], request, facts)
        /\ AskedBy(a) = MissingInputs(Registry[i].required,
                                      RouteInputs(Registry[i], request, facts))
        /\ \A k \in Keys : a.guidance[k] = "email_subject" => k = "subject"
    BY <2>1, RouteAnswer
  <2>3. Answers(a) BY <1>2
  <2> HIDE DEF a, i
  <2>4. i \in Routes BY <2>1 DEF i
  <2> QED BY <1>1, <2>2, <2>3, <2>4, AnswerKeepsGuess
<1>3. CASE Answers(Ambiguous("registry"))
  <2> DEFINE a == Ambiguous("registry")
  <2>1. a.route = 0 /\ \A k \in Keys : a.guidance[k] # "email_subject" BY OtherAnswers
  <2> HIDE DEF a
  <2> QED BY <1>1, <1>3, <2>1, AnswerKeepsGuess DEF a
<1>4. CASE Answers(NotEligible)
  <2>1. NotEligible.route = 0 /\ \A k \in Keys : NotEligible.guidance[k] # "email_subject"
    BY OtherAnswers
  <2> QED BY <1>1, <1>4, <2>1, AnswerKeepsGuess
<1>5. CASE call' = [call EXCEPT !.pc = "search"] /\ UNCHANGED <<answer, first>>
  <2>1. call'.pc = "search" BY <1>1, <1>5 DEF CallTypeOK
  <2> QED BY <1>1, <1>5, <2>1, QuietKeepsGuess DEF Answered
<1>6. \/ Answers(MatchedRoute(p.best)) /\ p.best # 0
      \/ Answers(Ambiguous("registry")) \/ Answers(NotEligible)
      \/ call' = [call EXCEPT !.pc = "search"] /\ UNCHANGED <<answer, first>>
  BY Zenon DEF Choose
<1> QED BY <1>2, <1>3, <1>4, <1>5, <1>6

LEMMA SearchKeepsGuess ==
  ASSUME GuessInv, Search, RetryInv'
  PROVE  GuessInv'
<1>1. call.pc = "search" /\ UNCHANGED <<request, facts, caller>> /\ CallTypeOK
  BY DEF Search, GuessInv, RetryInv, PickInv
<1>2. CASE \E w \in SearchQueries(request) :
             /\ call' = [call EXCEPT !.pc = "read", !.query = w, !.rows = FoundBy(w, request),
                                     !.unread = FoundBy(w, request)]
             /\ shifted' = IF Cardinality(SearchQueries(request)) = 1 THEN shifted
                                                                      ELSE shifted \cup {"query"}
             /\ UNCHANGED <<answer, first>>
  <2>1. call'.pc = "read" /\ UNCHANGED <<answer, first>> BY <1>1, <1>2 DEF CallTypeOK
  <2>2. shifted \subseteq shifted' BY <1>2
  <2> QED BY <1>1, <2>1, <2>2, QuietKeepsGuess DEF Answered
<1>3. CASE Answers(NotEligible) /\ shifted' = shifted \cup {"error"}
  <2>1. NotEligible.route = 0 /\ \A k \in Keys : NotEligible.guidance[k] # "email_subject"
    BY OtherAnswers
  <2> QED BY <1>1, <1>3, <2>1, AnswerKeepsGuess
<1> QED BY <1>2, <1>3 DEF Search

LEMMA RankKeepsGuess ==
  ASSUME GuessInv, Rank, RetryInv', RowsTypeOK
  PROVE  GuessInv'
<1> DEFINE near == {e \in call.rows : \A f \in call.rows : RowScore(f) <= RowScore(e) + 1}
           best == CHOOSE e \in near : TRUE
<1>1. call.pc = "read" /\ UNCHANGED <<request, facts, caller, shifted>> BY DEF Rank
<1>2. \/ Answers(NotEligible) \/ Answers(Ambiguous("search"))
      \/ Answers(MatchedRow(best)) /\ near # {}
  <2>1. Answers(IF \A e \in near : RowScore(e) < SearchScoreMinimum THEN NotEligible
                ELSE IF Cardinality(near) > 1 THEN Ambiguous("search")
                ELSE MatchedRow(best))
    BY DEF Rank
  <2> HIDE DEF near, best
  <2> QED BY <2>1, Zenon
<1>3. CASE Answers(NotEligible)
  <2>1. NotEligible.route = 0 /\ \A k \in Keys : NotEligible.guidance[k] # "email_subject"
    BY OtherAnswers
  <2> QED BY <1>1, <1>3, <2>1, AnswerKeepsGuess
<1>4. CASE Answers(Ambiguous("search"))
  <2> DEFINE a == Ambiguous("search")
  <2>1. a.route = 0 /\ \A k \in Keys : a.guidance[k] # "email_subject" BY OtherAnswers
  <2> HIDE DEF a
  <2> QED BY <1>1, <1>4, <2>1, AnswerKeepsGuess DEF a
<1>5. CASE Answers(MatchedRow(best)) /\ near # {}
  <2>1. best \in Rows /\ call.needs[best] \in SUBSET Keys
    <3>1. best \in near BY <1>5
    <3>2. near \subseteq call.rows OBVIOUS
    <3> HIDE DEF near, best
    <3> QED BY <3>1, <3>2 DEF RowsTypeOK
  <2> DEFINE a == MatchedRow(best)
  <2> HIDE DEF near, best
  <2>2. a.source = "search" /\ \A k \in Keys : a.guidance[k] # "email_subject"
    BY <2>1, RowAnswer
  <2> HIDE DEF a
  <2> QED BY <1>1, <1>5, <2>2, AnswerKeepsGuess DEF a
<1> QED BY <1>2, <1>3, <1>4, <1>5

LEMMA FetchKeepsGuess ==
  ASSUME GuessInv, FetchFacts, RetryInv'
  PROVE  GuessInv'
<1>1. PICK got \in SUBSET WantedFacts : facts' = facts \cup got BY DEF FetchFacts
<1>2. /\ Answered /\ caller = "new" /\ caller' = "retried" /\ CallsAgain
      /\ UNCHANGED <<request, shifted>>
  BY DEF FetchFacts, Answered
<1>3. first.asked = AskedFor BY <1>2 DEF GuessInv, FirstOK
<1>4. "email_subject" \in got => "subject" \in first.asked
  <2> SUFFICES ASSUME "email_subject" \in got PROVE "subject" \in AskedFor BY <1>3
  <2>1. PICK k \in AskedFor : answer.guidance[k] = "email_subject" BY DEF WantedFacts
  <2>2. k \in Keys BY DEF AskedFor, AskedBy
  <2> QED BY <2>1, <2>2 DEF GuessInv
<1> QED BY <1>1, <1>2, <1>4, CallAgainKeepsGuess

LEMMA AskKeepsGuess ==
  ASSUME GuessInv, AskUser, RetryInv'
  PROVE  GuessInv'
<1>1. caller' = "asked" /\ CallsAgain BY DEF AskUser
<1>2. CASE facts' = facts \cup AskedFor /\ UNCHANGED <<request, shifted>>
  <2>1. "email_subject" \notin AskedFor BY RoutingAssumption DEF AskedFor, AskedBy
  <2> QED BY <1>1, <1>2, <2>1, CallAgainKeepsGuess
<1>3. CASE shifted' = shifted \cup {"words"} BY <1>1, <1>3, CallAgainKeepsGuess
<1> QED BY <1>2, <1>3 DEF AskUser

LEMMA RouteStepKeepsGuess ==
  ASSUME FoundInv, GuessInv, [RouteNext]_routeVars
  PROVE  GuessInv'
<1>1. RetryInv' BY RouteStepKeepsRetry DEF GuessInv
<1>2. CallTypeOK BY DEF FoundInv, PickInv
<1>3. CASE Scan
  <2>1. call.pc = "scan" /\ call'.pc = "scan" BY <1>2, <1>3 DEF Scan, CallTypeOK
  <2> QED BY <1>1, <1>3, <2>1, QuietKeepsGuess DEF Scan, Answered
<1>4. CASE ReadEntry
  <2>1. call.pc = "read" /\ call'.pc = "read" BY <1>2, <1>4 DEF ReadEntry, CallTypeOK
  <2> QED BY <1>1, <1>4, <2>1, QuietKeepsGuess DEF ReadEntry, Answered
<1>5. CASE Settle BY <1>1, <1>5, QuietKeepsGuess DEF Settle, Answered
<1>6. CASE \E e \in Rows : ChangeCatalog(e)
  <2>1. shifted \subseteq shifted' BY <1>6 DEF ChangeCatalog
  <2> QED BY <1>1, <1>6, <2>1, QuietKeepsGuess DEF ChangeCatalog, Answered
<1>7. CASE UNCHANGED routeVars BY <1>1, <1>7, QuietKeepsGuess DEF routeVars, Answered
<1>8. CASE Rank BY <1>1, <1>8, RankKeepsGuess DEF FoundInv
<1> QED
  BY <1>1, <1>3, <1>4, <1>5, <1>6, <1>7, <1>8, ResolveKeepsGuess, ChooseKeepsGuess,
     SearchKeepsGuess, FetchKeepsGuess, AskKeepsGuess DEF RouteNext

(* For every registry and request: what the user said is kept, a fact is   *)
(* used before a guess, and what was asked for is not guessed on a retry,  *)
(* but for a body made up from the subject that was fetched.               *)
THEOREM RouteGuessesYield == RouteSpec => []GuessesYield
<1>1. FoundInv /\ GuessInv /\ [RouteNext]_routeVars => FoundInv' /\ GuessInv'
  BY RouteStepKeepsFound, RouteStepKeepsGuess
<1> QED BY <1>1, FoundInit, GuessInit, GuessMeansYields, PTL DEF RouteSpec

-----------------------------------------------------------------------------
(* More words and more facts never lose an input.                          *)
SaysMore(q, p) ==
    /\ p.traits = q.traits
    /\ \A k \in Keys : Told(q, k) => Told(p, k)

LEMMA KnownGrows ==
  ASSUME NEW r, NEW q, NEW p, SaysMore(q, p), NEW known, NEW more, known \subseteq more,
         NEW k \in Keys, RouteInputs(r, q, known)[k] # "none"
  PROVE  RouteInputs(r, p, more)[k] # "none"
<1>1. InputFrom(r, q, known, k) # "none" BY RouteInputsAre
<1>2. {"subject", "text_plain", "document_attachments"} \subseteq Keys BY RoutingAssumption
<1>3. Unmet(p, more) => Unmet(q, known) BY <1>2 DEF SaysMore, Unmet, WeatherToFetch
<1>4. SubjectFrom(q, known) # "none" => SubjectFrom(p, more) # "none"
  BY <1>2, <1>3 DEF SubjectFrom, GuessesSubject, Attached, SaysMore
<1>5. GuessesBody(q, known) => GuessesBody(p, more)
  BY <1>2, <1>3, <1>4 DEF GuessesBody, Attached, SaysMore
<1>6. BodyFrom(q, known) # "none" => BodyFrom(p, more) # "none"
  BY <1>2, <1>5 DEF BodyFrom, SaysMore
<1>7. Composed(r, q, known, k) # "none" => Composed(r, p, more, k) # "none"
  BY <1>4, <1>6 DEF Composed, SaysMore
<1>8. InFacts(r, known, k) => InFacts(r, more, k) BY DEF InFacts
<1>9. InputFrom(r, p, more, k) # "none" BY <1>1, <1>7, <1>8 DEF InputFrom
<1> QED BY <1>9, RouteInputsAre

Covers(required, in) == \A k \in required : in[k] # "none"

LEMMA OwnNameIsCandidate ==
  ASSUME NEW k
  PROVE  k \in FactCandidates(k)
BY Zenon DEF FactCandidates

(* A user who answers all that is missing, in facts or in words, leaves    *)
(* nothing missing of that route.                                          *)
LEMMA FactsCover ==
  ASSUME NEW r, r.required \subseteq Keys, NEW q, NEW known,
         NEW more, more = known \cup MissingInputs(r.required, RouteInputs(r, q, known))
  PROVE  Covers(r.required, RouteInputs(r, q, more))
<1> SUFFICES ASSUME NEW k \in r.required PROVE RouteInputs(r, q, more)[k] # "none"
  BY DEF Covers
<1>1. CASE RouteInputs(r, q, known)[k] # "none"
  BY <1>1, KnownGrows DEF SaysMore
<1>2. CASE RouteInputs(r, q, known)[k] = "none"
  <2>1. k \in more BY <1>2 DEF MissingInputs, Lacks
  <2>2. InFacts(r, more, k) BY <2>1, OwnNameIsCandidate DEF InFacts
  <2>3. RouteInputs(r, q, more)[k] = InputFrom(r, q, more, k) BY RouteInputsAre
  <2> QED BY <2>2, <2>3 DEF InputFrom
<1> QED BY <1>1, <1>2

LEMMA WordsCover ==
  ASSUME NEW r, r.required \subseteq Keys, NEW q, NEW p, SaysMore(q, p), NEW known,
         MissingInputs(r.required, RouteInputs(r, q, known)) \subseteq p.given
  PROVE  Covers(r.required, RouteInputs(r, p, known))
<1> SUFFICES ASSUME NEW k \in r.required PROVE RouteInputs(r, p, known)[k] # "none"
  BY DEF Covers
<1>1. CASE RouteInputs(r, q, known)[k] # "none" BY <1>1, KnownGrows
<1>2. CASE RouteInputs(r, q, known)[k] = "none"
  <2>1. k \in p.given BY <1>2 DEF MissingInputs, Lacks
  <2> QED BY <2>1, WordsAndFactsFirst
<1> QED BY <1>1, <1>2

LEMMA RowFactsCover ==
  ASSUME NEW needs \in SUBSET Keys, NEW q, NEW known,
         NEW more, more = known \cup MissingInputs(needs, RowInputs(needs, q, known))
  PROVE  Covers(needs, RowInputs(needs, q, more))
<1> DEFINE in == ExtractInputs(q)
<1>2. \A k \in needs :
         /\ RowInputs(needs, q, known)[k] =
               IF Lacks(in, k) /\ FactCandidates(k) \cap known # {} THEN "fact" ELSE in[k]
         /\ RowInputs(needs, q, more)[k] =
               IF Lacks(in, k) /\ FactCandidates(k) \cap more # {} THEN "fact" ELSE in[k]
  BY DEF RowInputs, FactInputAutofill
<1> HIDE DEF in
<1> SUFFICES ASSUME NEW k \in needs PROVE RowInputs(needs, q, more)[k] # "none"
  BY DEF Covers
<1>3. CASE RowInputs(needs, q, known)[k] # "none" BY <1>2, <1>3 DEF Lacks
<1>4. CASE RowInputs(needs, q, known)[k] = "none"
  <2>1. k \in more BY <1>4 DEF MissingInputs, Lacks
  <2>2. FactCandidates(k) \cap more # {} BY <2>1, OwnNameIsCandidate
  <2> QED BY <1>2, <2>2 DEF Lacks
<1> QED BY <1>3, <1>4

-----------------------------------------------------------------------------
(* What the caller still has to ask for, and what its user has answered.   *)
CatalogNeeds(e) == IF Entries[e].template /\ catalog[e] # NONE THEN catalog[e] ELSE {}

NeedsOK(e) == call.needs[e] \in {{}, CatalogNeeds(e)}

AskedOK ==
    /\ answer.status = "MISSING" <=> AskedFor # {}
    /\ answer.source = "passport" => AskedFor = IF request.recipients = 0 THEN {"to"} ELSE {}
    /\ answer.source # "passport" /\ AskedFor # {} =>
          answer.source \in {"registry", "search"} /\ answer.route # 0
    /\ NamesEntry =>
          LET needs == call.needs[answer.route] IN
          /\ AskedFor = MissingInputs(needs, RowInputs(needs, request, facts))
          /\ shifted = {} => NeedsOK(answer.route)

CoveredOK ==
    /\ first # NoFirst
    /\ first.source = "passport" /\ "words" \in shifted => request.recipients # 0
    /\ FirstNamesRoute =>
          LET r == Registry[first.route] IN
          Covers(r.required, RouteInputs(r, request, facts))
    /\ first.source = "search" /\ first.route # 0 /\ shifted = {} =>
          LET needs == CatalogNeeds(first.route) IN
          Covers(needs, RowInputs(needs, request, facts))

EnoughInv ==
    /\ FoundInv
    /\ GuessInv
    /\ caller \in {"new", "retried", "asked", "over"}
    /\ caller \in {"new", "retried"} => "words" \notin shifted
    /\ caller = "over" => Answered
    /\ Answered => AskedOK
    /\ call.pc \in {"scan", "search", "read"} /\ shifted = {} => \A e \in Rows : NeedsOK(e)
    /\ caller = "asked" => CoveredOK
    /\ RetryIsEnough

LEMMA EnoughInit == RouteInit => EnoughInv
BY FoundInit, GuessInit DEF RouteInit, EnoughInv, Idle, Answered, RetryIsEnough

LEMMA AnswerKeepsEnough ==
  ASSUME EnoughInv, call.pc # "answered", FoundInv', GuessInv',
         UNCHANGED <<request, facts, catalog, caller>>,
         shifted \subseteq shifted', "words" \in shifted' => "words" \in shifted,
         NEW a, Answers(a),
         a.status = "MISSING" <=> AskedBy(a) # {},
         a.source = "passport" => AskedBy(a) = IF request.recipients = 0 THEN {"to"} ELSE {},
         a.source # "passport" /\ AskedBy(a) # {} =>
            a.source \in {"registry", "search"} /\ a.route # 0,
         a.source = "search" /\ a.route # 0 =>
            LET needs == call.needs[a.route] IN
            /\ AskedBy(a) = MissingInputs(needs, RowInputs(needs, request, facts))
            /\ shifted' = {} => NeedsOK(a.route)
  PROVE  EnoughInv'
<1>1. /\ answer' = a /\ Answered' /\ ~Answered /\ AskedFor' = AskedBy(a)
      /\ call'.needs = call.needs /\ call'.pc = "answered"
      /\ first # NoFirst => UNCHANGED first
  BY AnswerKeepsRows DEF Answers, EnoughInv, FoundInv, PickInv, Answered, AskedFor
<1>2. caller # "over" BY <1>1 DEF EnoughInv
<1>3. AskedOK' BY <1>1 DEF AskedOK, NamesEntry, NeedsOK, CatalogNeeds
<1>4. caller = "asked" => CoveredOK'
  BY <1>1 DEF EnoughInv, CoveredOK, FirstNamesRoute, CatalogNeeds
<1> QED BY <1>1, <1>2, <1>3, <1>4 DEF EnoughInv, RetryIsEnough

LEMMA QuietKeepsEnough ==
  ASSUME EnoughInv, FoundInv', GuessInv',
         UNCHANGED <<request, facts, answer, caller, first>>,
         shifted \subseteq shifted', "words" \in shifted' => "words" \in shifted,
         caller = "over" => UNCHANGED shifted,
         shifted' = {} => UNCHANGED catalog,
         Answered' <=> Answered, Answered => UNCHANGED call.needs,
         call'.pc \in {"scan", "search", "read"} /\ shifted' = {} =>
            \A e \in Rows : NeedsOK(e)'
  PROVE  EnoughInv'
<1>1. Answered' => AskedOK'
  BY DEF EnoughInv, AskedOK, AskedFor, NamesEntry, NeedsOK, CatalogNeeds
<1>2. caller = "asked" => CoveredOK'
  BY DEF EnoughInv, CoveredOK, FirstNamesRoute, CatalogNeeds
<1>3. RetryIsEnough' BY DEF EnoughInv, RetryIsEnough
<1>4. Rows' = Rows BY DEF Rows
<1> QED BY <1>1, <1>2, <1>3, <1>4 DEF EnoughInv

LEMMA ResolveKeepsEnough ==
  ASSUME EnoughInv, Resolve, FoundInv', GuessInv'
  PROVE  EnoughInv'
<1>1. call.pc = "idle" /\ UNCHANGED <<request, facts, catalog, caller, shifted>>
  BY DEF Resolve
<1>2. CASE WantsPassportFields(request)
  <2> DEFINE a == PassportAnswer(request)
  <2>1. Answers(a) BY <1>2 DEF Resolve
  <2>2. request \in RequestRecords BY DEF EnoughInv, FoundInv, PickInv, CallTypeOK
  <2>3. /\ a.source = "passport"
        /\ AskedBy(a) = IF request.recipients = 0 THEN {"to"} ELSE {}
        /\ a.status = "MISSING" <=> request.recipients = 0
    BY <2>2, PassportAnswerAsks
  <2> HIDE DEF a
  <2> QED BY <1>1, <2>1, <2>3, AnswerKeepsEnough
<1>3. CASE ~WantsPassportFields(request)
  <2>1. /\ call'.pc = "scan" /\ call'.needs = [e \in Rows |-> {}]
        /\ UNCHANGED <<answer, first>>
    BY <1>3 DEF Resolve, Idle
  <2>2. \A e \in Rows : NeedsOK(e)' BY <2>1 DEF NeedsOK
  <2> QED BY <1>1, <2>1, <2>2, QuietKeepsEnough DEF Answered
<1> QED BY <1>2, <1>3

LEMMA UnnamedKeepsEnough ==
  ASSUME EnoughInv, call.pc # "answered", FoundInv', GuessInv',
         UNCHANGED <<request, facts, catalog, caller>>,
         shifted \subseteq shifted', "words" \in shifted' => "words" \in shifted,
         NEW a \in {NotEligible, Ambiguous("search"), Ambiguous("registry")}, Answers(a)
  PROVE  EnoughInv'
<1>1. AskedBy(a) = {} /\ a.route = 0 /\ a.status # "MISSING" BY OtherAnswers
<1>2. a.source # "passport" BY DEF NotEligible, Ambiguous, NoAnswer
<1> QED BY <1>1, <1>2, AnswerKeepsEnough

LEMMA InsideKeepsEnough ==
  ASSUME EnoughInv, FoundInv', GuessInv', call.pc \in {"scan", "search"},
         UNCHANGED <<request, facts, catalog, answer, caller, first>>,
         shifted \subseteq shifted', "words" \in shifted' => "words" \in shifted,
         call'.pc \in {"scan", "search", "read"}, UNCHANGED call.needs
  PROVE  EnoughInv'
<1>1. caller # "over" BY DEF EnoughInv, Answered
<1>2. shifted' = {} => \A e \in Rows : NeedsOK(e)' BY DEF EnoughInv, NeedsOK, CatalogNeeds
<1> QED BY <1>1, <1>2, QuietKeepsEnough DEF Answered

LEMMA ChooseKeepsEnough ==
  ASSUME EnoughInv, Choose, FoundInv', GuessInv'
  PROVE  EnoughInv'
<1> DEFINE p == call.pick
<1>1. /\ call.pc = "scan" /\ UNCHANGED <<request, facts, catalog, caller, shifted>>
      /\ Scanned(p) /\ CallTypeOK
  BY DEF Choose, EnoughInv, FoundInv, PickInv, Scanned
<1>2. CASE Answers(MatchedRoute(p.best)) /\ p.best # 0
  <2>1. p.best \in Routes
    <3>1. Len(Registry) \in Nat /\ Routes = 1 .. Len(Registry) BY RoutingAssumption DEF Routes
    <3>2. p.best < p.at /\ p.at <= Len(Registry) + 1 /\ p.best \in Nat /\ p.at \in Nat
      BY <1>1 DEF Scanned, ScanOK, PickRecords
    <3> QED BY <1>2, <3>1, <3>2
  <2> DEFINE i == p.best
             a == MatchedRoute(i)
  <2>2. /\ a.source = "registry" /\ a.route = i
        /\ a.status = IF AskedBy(a) = {} THEN "EXECUTABLE" ELSE "MISSING"
    BY <2>1, RouteAnswer
  <2>3. Answers(a) /\ i # 0 BY <1>2
  <2> HIDE DEF a, i
  <2> QED BY <1>1, <2>2, <2>3, AnswerKeepsEnough
<1>3. CASE Answers(Ambiguous("registry")) BY <1>1, <1>3, UnnamedKeepsEnough
<1>4. CASE Answers(NotEligible) BY <1>1, <1>4, UnnamedKeepsEnough
<1>5. CASE call' = [call EXCEPT !.pc = "search"] /\ UNCHANGED <<answer, first>>
  <2>1. call'.pc = "search" /\ UNCHANGED call.needs BY <1>1, <1>5 DEF CallTypeOK
  <2> QED BY <1>1, <1>5, <2>1, InsideKeepsEnough
<1>6. \/ Answers(MatchedRoute(p.best)) /\ p.best # 0
      \/ Answers(Ambiguous("registry")) \/ Answers(NotEligible)
      \/ call' = [call EXCEPT !.pc = "search"] /\ UNCHANGED <<answer, first>>
  BY Zenon DEF Choose
<1> QED BY <1>2, <1>3, <1>4, <1>5, <1>6

LEMMA SearchKeepsEnough ==
  ASSUME EnoughInv, Search, FoundInv', GuessInv'
  PROVE  EnoughInv'
<1>1. call.pc = "search" /\ UNCHANGED <<request, facts, catalog, caller>> /\ CallTypeOK
  BY DEF Search, EnoughInv, FoundInv, PickInv
<1>2. CASE \E w \in SearchQueries(request) :
             /\ call' = [call EXCEPT !.pc = "read", !.query = w, !.rows = FoundBy(w, request),
                                     !.unread = FoundBy(w, request)]
             /\ shifted' = IF Cardinality(SearchQueries(request)) = 1 THEN shifted
                                                                      ELSE shifted \cup {"query"}
             /\ UNCHANGED <<answer, first>>
  <2>1. call'.pc = "read" /\ UNCHANGED <<answer, first>> /\ UNCHANGED call.needs
    BY <1>1, <1>2 DEF CallTypeOK
  <2>2. shifted \subseteq shifted' /\ ("words" \in shifted' => "words" \in shifted) BY <1>2
  <2> QED BY <1>1, <2>1, <2>2, InsideKeepsEnough
<1>3. CASE Answers(NotEligible) /\ shifted' = shifted \cup {"error"}
  BY <1>1, <1>3, UnnamedKeepsEnough
<1> QED BY <1>2, <1>3 DEF Search

LEMMA ReadEntryKeepsEnough ==
  ASSUME EnoughInv, ReadEntry, FoundInv', GuessInv'
  PROVE  EnoughInv'
<1>1. /\ CallTypeOK /\ RowsTypeOK /\ call.pc = "read" /\ ~Answered
      /\ UNCHANGED <<request, facts, catalog, answer, caller, first, shifted>>
  BY DEF EnoughInv, FoundInv, PickInv, ReadEntry, Answered
<1>2. PICK e \in call.unread :
         \/ call' = [call EXCEPT !.unread = @ \ {e}, !.needs[e] = CatalogNeeds(e)]
         \/ call' = [call EXCEPT !.unread = @ \ {e}]
  BY DEF ReadEntry, CatalogNeeds
<1>3. call'.pc = "read" BY <1>1, <1>2 DEF CallTypeOK
<1>4. call'.needs = [call.needs EXCEPT ![e] = CatalogNeeds(e)] \/ UNCHANGED call.needs
  BY <1>1, <1>2 DEF CallTypeOK
<1>5. shifted = {} => \A f \in Rows : NeedsOK(f)'
  <2> SUFFICES ASSUME shifted = {}, NEW f \in Rows PROVE NeedsOK(f)' OBVIOUS
  <2>1. NeedsOK(f) BY <1>1 DEF EnoughInv
  <2>2. CatalogNeeds(f)' = CatalogNeeds(f) BY <1>1 DEF CatalogNeeds
  <2>3. call'.needs[f] \in {call.needs[f], CatalogNeeds(f)} BY <1>1, <1>4 DEF RowsTypeOK
  <2> QED BY <2>1, <2>2, <2>3 DEF NeedsOK
<1>6. caller # "over" BY <1>1 DEF EnoughInv
<1> QED BY <1>1, <1>3, <1>5, <1>6, QuietKeepsEnough DEF Answered

LEMMA RankKeepsEnough ==
  ASSUME EnoughInv, Rank, FoundInv', GuessInv'
  PROVE  EnoughInv'
<1> DEFINE near == {e \in call.rows : \A f \in call.rows : RowScore(f) <= RowScore(e) + 1}
           best == CHOOSE e \in near : TRUE
<1>1. call.pc = "read" /\ UNCHANGED <<request, facts, catalog, caller, shifted>> BY DEF Rank
<1>2. \/ Answers(NotEligible) \/ Answers(Ambiguous("search"))
      \/ Answers(MatchedRow(best)) /\ near # {}
  <2>1. Answers(IF \A e \in near : RowScore(e) < SearchScoreMinimum THEN NotEligible
                ELSE IF Cardinality(near) > 1 THEN Ambiguous("search")
                ELSE MatchedRow(best))
    BY DEF Rank
  <2> HIDE DEF near, best
  <2> QED BY <2>1, Zenon
<1>3. CASE Answers(NotEligible) BY <1>1, <1>3, UnnamedKeepsEnough
<1>4. CASE Answers(Ambiguous("search")) BY <1>1, <1>4, UnnamedKeepsEnough
<1>5. CASE Answers(MatchedRow(best)) /\ near # {}
  <2>1. best \in Rows /\ call.needs[best] \in SUBSET Keys
    <3>1. best \in near BY <1>5
    <3>2. near \subseteq call.rows OBVIOUS
    <3>3. RowsTypeOK BY DEF EnoughInv, FoundInv
    <3> HIDE DEF near, best
    <3> QED BY <3>1, <3>2, <3>3 DEF RowsTypeOK
  <2> DEFINE a == MatchedRow(best)
             needs == call.needs[best]
  <2> HIDE DEF near, best
  <2>2. /\ a.source = "search" /\ a.route = best
        /\ AskedBy(a) = MissingInputs(needs, RowInputs(needs, request, facts))
        /\ a.status = IF AskedBy(a) = {} THEN "EXECUTABLE" ELSE "MISSING"
    BY <2>1, RowAnswer
  <2>3. shifted = {} => NeedsOK(best) BY <1>1, <2>1 DEF EnoughInv
  <2>4. best # 0
    <3>1. Rows = 1 .. Len(Entries) BY RoutingAssumption DEF Rows
    <3> QED BY <2>1, <3>1
  <2>5. Answers(a) BY <1>5
  <2> HIDE DEF a
  <2> QED BY <1>1, <2>2, <2>3, <2>4, <2>5, AnswerKeepsEnough DEF needs
<1> QED BY <1>2, <1>3, <1>4, <1>5

LEMMA CatalogKeepsEnough ==
  ASSUME EnoughInv, NEW e \in Rows, ChangeCatalog(e), FoundInv', GuessInv'
  PROVE  EnoughInv'
<1>1. /\ UNCHANGED <<request, facts, call, answer, caller, first>> /\ caller # "over"
      /\ shifted' = shifted \cup {"catalog"}
  BY DEF ChangeCatalog
<1> QED BY <1>1, QuietKeepsEnough DEF Answered

(* The user is asked: whatever is said, the first route is covered.        *)
LEMMA AskedRoute ==
  ASSUME EnoughInv, AskUser
  PROVE  /\ AskedOK /\ first # NoFirst /\ AskedFor # {} /\ "words" \notin shifted
         /\ \/ answer.source = first.source /\ answer.route = first.route
            \/ first.source = "search" /\ shifted # {}
<1>1. Answered /\ AskedFor # {} /\ "words" \notin shifted
  BY DEF AskUser, EnoughInv, Answered
<1>2. RetryKeepsRoute BY RetryMeansRoute DEF EnoughInv, GuessInv
<1>3. first # NoFirst BY <1>1 DEF EnoughInv, GuessInv, RetryInv
<1> QED BY <1>1, <1>2, <1>3 DEF RetryKeepsRoute, EnoughInv

LEMMA AskFactsCovers ==
  ASSUME EnoughInv, AskUser, facts' = facts \cup AskedFor, UNCHANGED <<request, shifted>>
  PROVE  CoveredOK'
<1>1. UNCHANGED <<first, catalog>> BY DEF AskUser, CallsAgain
<1>2. ASSUME FirstNamesRoute
      PROVE  LET r == Registry[first.route] IN Covers(r.required, RouteInputs(r, request, facts'))
  <2> DEFINE r == Registry[first.route]
  <2>1. NamesRoute /\ answer.route = first.route
    BY <1>2, AskedRoute DEF FirstNamesRoute, NamesRoute, AskUser, Answered
  <2>2. RouteAnswerOK BY <2>1 DEF EnoughInv, GuessInv
  <2>3. r \in RouteRecords BY <2>1, <2>2, RoutingAssumption DEF RouteAnswerOK, Routes
  <2>4. AskedFor = MissingInputs(r.required, RouteInputs(r, request, facts))
    BY <2>1, <2>2 DEF RouteAnswerOK
  <2> HIDE DEF r
  <2>5. r.required \subseteq Keys BY <2>3 DEF RouteRecords
  <2> QED BY <2>4, <2>5, FactsCover DEF r
<1>3. ASSUME first.source = "search", first.route # 0, shifted = {}
      PROVE  LET needs == CatalogNeeds(first.route) IN
             Covers(needs, RowInputs(needs, request, facts'))
  <2> DEFINE needs == CatalogNeeds(first.route)
  <2>1. NamesEntry /\ answer.route = first.route /\ AskedOK
    BY <1>3, AskedRoute DEF NamesEntry, AskUser, Answered
  <2>2. /\ AskedFor = MissingInputs(call.needs[first.route],
                                    RowInputs(call.needs[first.route], request, facts))
        /\ call.needs[first.route] \in {{}, needs}
    BY <1>3, <2>1 DEF AskedOK, NeedsOK
  <2> HIDE DEF needs
  <2>3. call.needs[first.route] = needs
    BY <2>2, AskedRoute DEF MissingInputs
  <2>4. needs \in SUBSET Keys
    <3>1. first.route \in Rows /\ call.needs \in [Rows -> SUBSET Keys]
      BY <2>1 DEF EnoughInv, FoundInv, RowsTypeOK, EntryOK
    <3> QED BY <2>3, <3>1
  <2>5. facts' = facts \cup MissingInputs(needs, RowInputs(needs, request, facts))
    BY <2>2, <2>3
  <2>6. Covers(needs, RowInputs(needs, request, facts')) BY <2>4, <2>5, RowFactsCover
  <2> QED BY <2>6 DEF needs
<1>4. CatalogNeeds(first.route)' = CatalogNeeds(first.route) BY <1>1 DEF CatalogNeeds
<1>5. first' # NoFirst BY <1>1, AskedRoute
<1>6. "words" \notin shifted' BY AskedRoute
<1>7. FirstNamesRoute' =>
         Covers(Registry[first'.route].required,
                RouteInputs(Registry[first'.route], request', facts'))
  BY <1>1, <1>2 DEF FirstNamesRoute
<1>8. first'.source = "search" /\ first'.route # 0 /\ shifted' = {} =>
         Covers(CatalogNeeds(first.route)',
                RowInputs(CatalogNeeds(first.route)', request', facts'))
  BY <1>1, <1>3, <1>4
<1> QED BY <1>5, <1>6, <1>7, <1>8 DEF CoveredOK

LEMMA AskWordsCovers ==
  ASSUME EnoughInv, AskUser, UNCHANGED facts, shifted' = shifted \cup {"words"},
         request' = [request EXCEPT
                       !.words = @ \cup UNION {SaidWith[k] : k \in AskedFor},
                       !.given = @ \cup (AskedFor \cap Extractable),
                       !.recipients = IF "to" \in AskedFor THEN 1 ELSE @]
  PROVE  CoveredOK'
<1>1. UNCHANGED first BY DEF AskUser, CallsAgain
<1>2. request \in RequestRecords BY DEF EnoughInv, FoundInv, PickInv, CallTypeOK
<1> DEFINE said == UNION {SaidWith[k] : k \in AskedFor}
           given == AskedFor \cap Extractable
           to == "to" \in AskedFor
<1>3. /\ request'.given = request.given \cup given
      /\ request'.traits = request.traits
      /\ request'.recipients = IF to THEN 1 ELSE request.recipients
  <2> HIDE DEF said, given, to
  <2>1. request' = [request EXCEPT
                      !.words = @ \cup said, !.given = @ \cup given,
                      !.recipients = IF to THEN 1 ELSE @]
    BY DEF said, given, to
  <2> QED BY <1>2, <2>1 DEF RequestRecords
<1>4. SaysMore(request, request')
  <2>1. request.recipients \in 0 .. 2 BY <1>2 DEF RequestRecords
  <2> HIDE DEF given, to
  <2> QED BY <1>3, <2>1 DEF SaysMore, Told
<1>5. first.source = "passport" => request'.recipients # 0
  <2> SUFFICES ASSUME first.source = "passport" PROVE to BY <1>3
  <2>1. answer.source = "passport" /\ AskedOK /\ AskedFor # {} BY AskedRoute
  <2> QED BY <2>1 DEF AskedOK
<1>6. ASSUME FirstNamesRoute
      PROVE  LET r == Registry[first.route] IN
             Covers(r.required, RouteInputs(r, request', facts))
  <2> DEFINE r == Registry[first.route]
  <2>1. NamesRoute /\ answer.route = first.route
    BY <1>6, AskedRoute DEF FirstNamesRoute, NamesRoute, AskUser, Answered
  <2>2. RouteAnswerOK BY <2>1 DEF EnoughInv, GuessInv
  <2>3. r \in RouteRecords /\ RegistryV1(r)
    BY <2>1, <2>2, RoutingAssumption DEF RouteAnswerOK, Routes
  <2>4. AskedFor = MissingInputs(r.required, RouteInputs(r, request, facts))
    BY <2>1, <2>2 DEF RouteAnswerOK
  <2> HIDE DEF r
  <2>5. r.required \subseteq Keys /\ r.required \subseteq Extractable
    BY <2>3 DEF RouteRecords, RegistryV1
  <2>6. MissingInputs(r.required, RouteInputs(r, request, facts)) \subseteq request'.given
    BY <1>3, <2>4, <2>5 DEF MissingInputs
  <2> DEFINE q == request
             p == request'
  <2>7. /\ SaysMore(q, p)
        /\ MissingInputs(r.required, RouteInputs(r, q, facts)) \subseteq p.given
    BY <1>4, <2>6
  <2> HIDE DEF q, p
  <2>8. Covers(r.required, RouteInputs(r, p, facts)) BY <2>5, <2>7, WordsCover
  <2> QED BY <2>8 DEF r, p
<1>7. first' # NoFirst BY <1>1, AskedRoute
<1>8. FirstNamesRoute' =>
         Covers(Registry[first'.route].required,
                RouteInputs(Registry[first'.route], request', facts'))
  BY <1>1, <1>6 DEF FirstNamesRoute
<1> QED BY <1>1, <1>5, <1>7, <1>8 DEF CoveredOK

LEMMA AskKeepsEnough ==
  ASSUME EnoughInv, AskUser, FoundInv', GuessInv'
  PROVE  EnoughInv'
<1>1. call'.pc = "idle" /\ caller' = "asked" BY DEF AskUser, CallsAgain, Idle
<1>2. CoveredOK' BY AskFactsCovers, AskWordsCovers DEF AskUser
<1> QED BY <1>1, <1>2 DEF EnoughInv, Answered, RetryIsEnough

LEMMA FetchKeepsEnough ==
  ASSUME EnoughInv, FetchFacts, FoundInv', GuessInv'
  PROVE  EnoughInv'
<1>1. /\ call'.pc = "idle" /\ caller = "new" /\ caller' = "retried" /\ UNCHANGED shifted
  BY DEF FetchFacts, CallsAgain, Idle
<1> QED BY <1>1 DEF EnoughInv, Answered, RetryIsEnough

(* The caller settles: an answer that lacks inputs is not of that route.   *)
LEMMA CoveredIsEnough ==
  ASSUME EnoughInv, Answered, answer.status = "MISSING", caller = "asked",
         answer.source = first.source, answer.route = first.route,
         answer.source = "passport" => "words" \in shifted,
         answer.source = "search" => shifted = {}
  PROVE  FALSE
<1>1. AskedOK /\ CoveredOK /\ AskedFor # {} BY DEF EnoughInv, AskedOK
<1>2. CASE answer.source = "passport" BY <1>1, <1>2 DEF AskedOK, CoveredOK
<1>3. CASE answer.source = "registry"
  <2>1. NamesRoute /\ FirstNamesRoute
    BY <1>1, <1>3 DEF AskedOK, NamesRoute, FirstNamesRoute
  <2>2. RouteAnswerOK BY <2>1 DEF EnoughInv, GuessInv
  <2> DEFINE r == Registry[answer.route]
             in == RouteInputs(r, request, facts)
  <2>3. AskedFor = MissingInputs(r.required, in) BY <2>2 DEF RouteAnswerOK
  <2>4. Covers(r.required, in) BY <1>1, <2>1 DEF CoveredOK
  <2> HIDE DEF r, in
  <2> QED BY <1>1, <2>3, <2>4 DEF Covers, MissingInputs, Lacks
<1>4. CASE answer.source = "search"
  <2>1. NamesEntry BY <1>1, <1>4 DEF AskedOK, NamesEntry
  <2> DEFINE needs == CatalogNeeds(answer.route)
             in == RowInputs(needs, request, facts)
  <2>2. /\ AskedFor = MissingInputs(call.needs[answer.route],
                                    RowInputs(call.needs[answer.route], request, facts))
        /\ call.needs[answer.route] \in {{}, needs}
    BY <1>1, <1>4, <2>1 DEF AskedOK, NeedsOK
  <2>3. Covers(needs, in) BY <1>1, <1>4, <2>1 DEF CoveredOK, NamesEntry
  <2>4. CASE call.needs[answer.route] = {} BY <1>1, <2>2, <2>4 DEF MissingInputs
  <2>5. CASE call.needs[answer.route] = needs
    <3>1. AskedFor = MissingInputs(needs, in) BY <2>2, <2>5
    <3> HIDE DEF needs, in
    <3> QED BY <1>1, <2>3, <3>1 DEF Covers, MissingInputs, Lacks
  <2> QED BY <2>2, <2>4, <2>5
<1> QED BY <1>1, <1>2, <1>3, <1>4 DEF AskedOK

LEMMA SettleKeepsEnough ==
  ASSUME EnoughInv, Settle, FoundInv', GuessInv'
  PROVE  EnoughInv'
<1>1. /\ UNCHANGED <<request, facts, catalog, call, answer, first, shifted>>
      /\ caller' = "over" /\ Answered /\ (AskedFor = {} \/ caller = "asked")
  BY DEF Settle, Answered
<1>2. AskedOK BY <1>1 DEF EnoughInv
<1>3. answer.status = "MISSING" => caller = "asked" BY <1>1, <1>2 DEF AskedOK
<1>4. RetryIsEnough'
  BY <1>1, <1>3, CoveredIsEnough DEF RetryIsEnough
<1>5. AskedOK' BY <1>1, <1>2 DEF AskedOK, AskedFor, NamesEntry, Answered, NeedsOK, CatalogNeeds
<1>6. call'.pc = "answered" BY <1>1 DEF Answered
<1> QED BY <1>1, <1>4, <1>5, <1>6 DEF EnoughInv, Answered

LEMMA RouteStepKeepsEnough ==
  ASSUME EnoughInv, [RouteNext]_routeVars
  PROVE  EnoughInv'
<1>1. FoundInv' /\ GuessInv'
  BY RouteStepKeepsFound, RouteStepKeepsGuess DEF EnoughInv
<1>2. CallTypeOK BY DEF EnoughInv, FoundInv, PickInv
<1>3. CASE Scan
  <2>1. call.pc = "scan" /\ call'.pc = "scan" /\ UNCHANGED call.needs
    BY <1>2, <1>3 DEF Scan, CallTypeOK
  <2> QED BY <1>1, <1>3, <2>1, InsideKeepsEnough DEF Scan
<1>4. CASE \E e \in Rows : ChangeCatalog(e) BY <1>1, <1>4, CatalogKeepsEnough
<1>5. CASE UNCHANGED routeVars
  <2>1. \A e \in Rows : NeedsOK(e)' <=> NeedsOK(e)
    BY <1>5 DEF routeVars, NeedsOK, CatalogNeeds
  <2> QED BY <1>1, <1>5, <2>1, QuietKeepsEnough DEF routeVars, Answered, EnoughInv
<1> QED
  BY <1>1, <1>3, <1>4, <1>5, ResolveKeepsEnough, ChooseKeepsEnough, SearchKeepsEnough,
     ReadEntryKeepsEnough, RankKeepsEnough, FetchKeepsEnough, AskKeepsEnough,
     SettleKeepsEnough DEF RouteNext

(* For every registry, catalog and request: a caller whose user answered   *)
(* what was missing is not told again that inputs are missing, as long as  *)
(* the route is the same.                                                  *)
THEOREM RouteRetryIsEnough == RouteSpec => []RetryIsEnough
<1>1. EnoughInv /\ [RouteNext]_routeVars => EnoughInv' BY RouteStepKeepsEnough
<1>2. EnoughInv => RetryIsEnough BY DEF EnoughInv
<1> QED BY <1>1, <1>2, EnoughInit, PTL DEF RouteSpec

-----------------------------------------------------------------------------
(* The composition does not disturb its parts.                             *)
THEOREM VaultRequestRoutes == VaultSpec => RouteSpec
<1>1. VaultInit => RouteInit BY DEF VaultInit
<1>2. [VaultNext]_vaultVars => [RouteNext]_routeVars
  BY DEF VaultNext, vaultVars, HandOver
<1> QED BY <1>1, <1>2, PTL DEF VaultSpec, RouteSpec

-----------------------------------------------------------------------------
(* The passport workflow                                                   *)

Steps == {"read_existing_profile", "extract_passport_fields", "read_after_extract_profile",
          "create_draft_from_existing", "create_draft_after_extract",
          "send_draft_from_existing", "send_draft_after_extract", "sent", "failed"}

Values == [Slots -> 0 .. Manual]

RunRecords ==
    [step : Steps, resumed : BOOLEAN, document : 0 .. MaxPassports, named : BOOLEAN,
     newest : 0 .. MaxPassports, manual : SUBSET Slots,
     values : Values, body : Values, attached : 0 .. MaxPassports,
     missed : SUBSET Slots, extracted : BOOLEAN, crossed : BOOLEAN]

WorkflowTypeOK ==
    /\ latest \in 0 .. MaxPassports /\ profile \in Values
    /\ preview \in BOOLEAN /\ args \in Arguments
    /\ work \in {"none", "called", "resolving", "resolved", "executing", "idle"}
    /\ passport \in [id : 0 .. MaxPassports, newest : 0 .. MaxPassports]
    /\ runs \in Seq(RunRecords)

(* A document that was not named is the one that was the latest then, and  *)
(* one that was named exists.                                              *)
DocumentFits(document, newest, named) ==
    document <= newest /\ newest <= latest /\ (~named => document = newest)

CallFits ==
    work \in {"resolved", "executing"} =>
        DocumentFits(passport.id, passport.newest, args.document # 0)

DocumentsExist ==
    /\ args.document <= latest
    /\ CallFits
    /\ \A n \in DOMAIN runs : DocumentFits(runs[n].document, runs[n].newest, runs[n].named)

(* Only a caller who resumes may have lost execute=false.                  *)
PreviewIsKept == preview /\ ~args.resumed => ~args.execute

(* The last run is being waited for, has been told of, or was lost.        *)
LastRunIsKnown ==
    runs # <<>> =>
        \/ work = "executing"
        \/ work = "idle" /\ told \in {"SENT", "APPROVAL"}
        \/ work # "none" /\ Len(runs) \in lost

(* values are those extracted or given for run r.                          *)
Says(r, values) ==
    \A s \in Slots \ r.missed : values[s] = IF s \in r.manual THEN Manual ELSE r.document

RunOK(r) ==
    /\ r.step \in {"read_existing_profile", "extract_passport_fields"} =>
          ~r.extracted /\ r.attached = 0
    /\ r.step = "create_draft_from_existing" => ~r.extracted /\ Complete(r.values)
    /\ r.step = "read_after_extract_profile" =>
          r.extracted /\ r.attached = 0 /\ (~r.crossed => Says(r, profile))
    /\ r.step = "create_draft_after_extract" =>
          r.extracted /\ (~r.crossed => Says(r, r.values))
    /\ r.attached # 0 =>
          /\ ~r.extracted => Complete(r.body)
          /\ r.extracted /\ ~r.crossed => Says(r, r.body)
          /\ r.newest <= r.attached

PassportInv ==
    /\ WorkflowTypeOK
    /\ DocumentsExist
    /\ PreviewIsKept /\ PreviewsSendNothing
    /\ LastRunIsKnown /\ SecondMailHasACause
    /\ \A n \in DOMAIN runs : RunOK(runs[n])

LEMMA PassportInitInv == PassportInit => PassportInv
<1> SUFFICES ASSUME PassportInit PROVE PassportInv OBVIOUS
<1>1. NoValues \in Values BY PassportAssumption DEF NoValues, Values, Manual
<1>2. ResumeArguments \in Arguments
  BY PassportAssumption DEF ResumeArguments, Arguments
<1>3. args \in Arguments /\ args.document = 0 /\ args.execute /\ ~args.resumed
  BY <1>2 DEF PassportInit, ResumeArguments, Arguments
<1>4. runs = <<>> /\ DOMAIN runs = {} BY DEF PassportInit
<1>5. WorkflowTypeOK
  <2>1. <<>> \in Seq(RunRecords) OBVIOUS
  <2>2. 0 \in 0 .. MaxPassports BY PassportAssumption
  <2> QED BY <1>1, <1>3, <2>1, <2>2 DEF PassportInit, WorkflowTypeOK
<1>6. DocumentsExist BY <1>3, <1>4 DEF PassportInit, DocumentsExist, CallFits
<1> QED
  BY <1>3, <1>4, <1>5, <1>6
     DEF PassportInit, PassportInv, PreviewIsKept, PreviewsSendNothing, LastRunIsKnown,
         SecondMailHasACause

LEMMA RunType ==
  ASSUME WorkflowTypeOK, NEW n \in DOMAIN runs
  PROVE  /\ runs[n] \in RunRecords
         /\ n \in Nat \ {0} /\ Len(runs) \in Nat /\ n <= Len(runs)
         /\ runs[n].document \in Nat /\ runs[n].newest \in Nat
<1>1. runs \in Seq(RunRecords) BY DEF WorkflowTypeOK
<1>2. runs[n] \in RunRecords BY <1>1
<1>3. runs[n].document \in 0 .. MaxPassports /\ runs[n].newest \in 0 .. MaxPassports
  BY <1>2 DEF RunRecords
<1> QED BY <1>1, <1>2, <1>3, PassportAssumption

(* A step of a call that starts no run.                                    *)
LEMMA CallKeepsPassport ==
  ASSUME PassportInv, UNCHANGED <<profile, runs>>,
         latest' \in 0 .. MaxPassports, latest <= latest',
         WorkflowTypeOK', PreviewIsKept', preview' => preview,
         args'.document <= latest',
         CallFits',
         LastRunIsKnown', lost \subseteq lost'
  PROVE  PassportInv'
<1>1. DocumentsExist'
  <2>1. \A n \in DOMAIN runs : /\ runs[n].newest \in Nat
                              /\ DocumentFits(runs[n].document, runs[n].newest, runs[n].named)
    BY RunType DEF DocumentsExist, PassportInv
  <2>2. latest \in Nat /\ latest' \in Nat
    BY PassportAssumption DEF PassportInv, WorkflowTypeOK
  <2>3. (\A n \in DOMAIN runs : DocumentFits(runs[n].document, runs[n].newest, runs[n].named))'
    BY <2>1, <2>2 DEF DocumentFits
  <2> QED BY <2>3 DEF DocumentsExist
<1>2. PreviewsSendNothing' BY DEF PassportInv, PreviewsSendNothing
<1>3. SecondMailHasACause' BY DEF PassportInv, SecondMailHasACause
<1>4. (\A n \in DOMAIN runs : RunOK(runs[n]))' BY DEF PassportInv, RunOK, Says, Complete
<1> QED BY <1>1, <1>2, <1>3, <1>4 DEF PassportInv

LEMMA LatestType ==
  ASSUME WorkflowTypeOK
  PROVE  latest \in Nat /\ latest <= latest /\ latest <= MaxPassports /\ 0 <= latest
         /\ MaxPassports \in Nat
BY PassportAssumption DEF WorkflowTypeOK

LEMMA BeginKeeps ==
  ASSUME PassportInv, Begin
  PROVE  PassportInv'
<1>1. WorkflowTypeOK /\ work = "called" /\ UNCHANGED <<latest, profile, preview, args, runs, lost>>
  BY DEF PassportInv, Begin
<1>2. args.document \in 0 .. MaxPassports BY <1>1 DEF WorkflowTypeOK, Arguments
<1>3. WorkflowTypeOK' BY <1>1, <1>2 DEF Begin, Tells, Resolves, WorkflowTypeOK
<1>4. PreviewIsKept' BY <1>1 DEF PassportInv, PreviewIsKept
<1>5. LastRunIsKnown' BY <1>1 DEF PassportInv, LastRunIsKnown, Begin, Tells, Resolves
<1>6. args'.document <= latest' /\ CallFits'
  BY <1>1, <1>2, LatestType
     DEF PassportInv, DocumentsExist, Begin, Tells, Resolves, CallFits, DocumentFits
<1>7. latest' \in 0 .. MaxPassports /\ latest <= latest' BY <1>1, LatestType DEF WorkflowTypeOK
<1> QED BY <1>1, <1>3, <1>4, <1>5, <1>6, <1>7, CallKeepsPassport

LEMMA LookUpKeeps ==
  ASSUME PassportInv, LookUp
  PROVE  PassportInv'
<1>1. /\ WorkflowTypeOK /\ work = "resolving"
      /\ UNCHANGED <<latest, profile, preview, args, runs, lost>>
  BY DEF PassportInv, LookUp
<1>2. WorkflowTypeOK' BY <1>1 DEF LookUp, Tells, Resolves, WorkflowTypeOK
<1>3. PreviewIsKept' BY <1>1 DEF PassportInv, PreviewIsKept
<1>4. LastRunIsKnown' BY <1>1 DEF PassportInv, LastRunIsKnown, LookUp, Tells, Resolves
<1>5. args'.document <= latest' /\ CallFits'
  BY <1>1, LatestType DEF PassportInv, DocumentsExist, LookUp, Tells, Resolves, CallFits, DocumentFits
<1>6. latest' \in 0 .. MaxPassports /\ latest <= latest' BY <1>1, LatestType DEF WorkflowTypeOK
<1> QED BY <1>1, <1>2, <1>3, <1>4, <1>5, <1>6, CallKeepsPassport

LEMMA ReplyKeeps ==
  ASSUME PassportInv, Reply
  PROVE  PassportInv'
<1>1. /\ WorkflowTypeOK /\ work = "executing" /\ work' = "idle" /\ lost \subseteq lost'
      /\ UNCHANGED <<latest, profile, preview, args, passport, runs>>
  BY DEF PassportInv, Reply, Tells
<1>2. WorkflowTypeOK' BY <1>1 DEF WorkflowTypeOK
<1>3. PreviewIsKept' BY <1>1 DEF PassportInv, PreviewIsKept
<1>4. LastRunIsKnown' BY <1>1 DEF LastRunIsKnown, Reply, Tells
<1>5. args'.document <= latest' /\ CallFits' BY <1>1 DEF PassportInv, DocumentsExist, CallFits
<1>6. latest' \in 0 .. MaxPassports /\ latest <= latest' BY <1>1, LatestType DEF WorkflowTypeOK
<1> QED BY <1>1, <1>2, <1>3, <1>4, <1>5, <1>6, CallKeepsPassport

LEMMA CallAgainKeeps ==
  ASSUME PassportInv, CallAgain
  PROVE  PassportInv'
<1>1. /\ WorkflowTypeOK /\ work = "idle" /\ work' = "called" /\ told \notin {"SENT", "APPROVAL"}
      /\ UNCHANGED <<latest, profile, preview, passport, told, runs, lost>>
  BY DEF PassportInv, CallAgain
<1>2. ResumeArguments \in Arguments BY PassportAssumption DEF ResumeArguments, Arguments
<1>3. [args EXCEPT !.to = TRUE] \in Arguments BY <1>1 DEF WorkflowTypeOK, Arguments
<1>4. WorkflowTypeOK' BY <1>1, <1>2, <1>3 DEF WorkflowTypeOK, CallAgain
<1>5. \/ args' = ResumeArguments
      \/ args'.document = args.document /\ args'.resumed = args.resumed
         /\ args'.execute = args.execute
  BY <1>1 DEF CallAgain, WorkflowTypeOK, Arguments
<1>6. PreviewIsKept' BY <1>1, <1>5 DEF PassportInv, PreviewIsKept, ResumeArguments
<1>7. LastRunIsKnown' BY <1>1 DEF PassportInv, LastRunIsKnown
<1>8. args'.document <= latest' /\ CallFits'
  BY <1>1, <1>5, LatestType DEF PassportInv, DocumentsExist, ResumeArguments, CallFits
<1>9. latest' \in 0 .. MaxPassports /\ latest <= latest' BY <1>1, LatestType DEF WorkflowTypeOK
<1> QED BY <1>1, <1>4, <1>6, <1>7, <1>8, <1>9, CallKeepsPassport

LEMMA ConfirmKeeps ==
  ASSUME PassportInv, Confirm
  PROVE  PassportInv'
<1>1. /\ WorkflowTypeOK /\ work = "idle" /\ work' = "called" /\ told = "READY"
      /\ preview' = FALSE /\ args' = [args EXCEPT !.execute = TRUE]
      /\ UNCHANGED <<latest, profile, passport, told, runs, lost>>
  BY DEF PassportInv, Confirm
<1>2. args' \in Arguments /\ args'.document = args.document
  BY <1>1 DEF WorkflowTypeOK, Arguments
<1>3. WorkflowTypeOK' BY <1>1, <1>2 DEF WorkflowTypeOK
<1>4. PreviewIsKept' BY <1>1 DEF PreviewIsKept
<1>5. LastRunIsKnown' BY <1>1 DEF PassportInv, LastRunIsKnown
<1>6. args'.document <= latest' /\ CallFits'
  BY <1>1, <1>2 DEF PassportInv, DocumentsExist, CallFits
<1>7. latest' \in 0 .. MaxPassports /\ latest <= latest' BY <1>1, LatestType DEF WorkflowTypeOK
<1> QED BY <1>1, <1>3, <1>4, <1>5, <1>6, <1>7, CallKeepsPassport

LEMMA UploadKeeps ==
  ASSUME PassportInv, Upload
  PROVE  PassportInv'
<1>1. /\ WorkflowTypeOK /\ work # "none" /\ latest < MaxPassports /\ latest' = latest + 1
      /\ UNCHANGED <<profile, preview, args, work, passport, told, runs, lost>>
  BY DEF PassportInv, Upload
<1>2. latest' \in 0 .. MaxPassports /\ latest <= latest' BY <1>1, LatestType
<1>3. WorkflowTypeOK' BY <1>1, <1>2 DEF WorkflowTypeOK
<1>4. PreviewIsKept' BY <1>1 DEF PassportInv, PreviewIsKept
<1>5. LastRunIsKnown' BY <1>1 DEF PassportInv, LastRunIsKnown
<1>6. args.document \in Nat /\ passport.newest \in Nat
  BY <1>1, PassportAssumption DEF WorkflowTypeOK, Arguments
<1>7. args'.document <= latest' /\ CallFits'
  BY <1>1, <1>6, LatestType DEF PassportInv, DocumentsExist, CallFits, DocumentFits
<1> QED BY <1>1, <1>2, <1>3, <1>4, <1>5, <1>7, CallKeepsPassport

LEMMA RequestKeeps ==
  ASSUME PassportInv, NEW to \in BOOLEAN, Request(to)
  PROVE  PassportInv'
<1>1. /\ WorkflowTypeOK /\ work = "none" /\ work' = "called"
      /\ latest' \in 0 .. MaxPassports /\ profile' \in [Slots -> {0, latest'}] /\ preview' \in BOOLEAN
      /\ UNCHANGED <<passport, told, runs, lost>>
  BY DEF PassportInv, Request
<1>2. PICK d \in 0 .. latest', M \in SUBSET Slots :
         args' = [to |-> to, document |-> d, manual |-> M, execute |-> ~preview',
                  resumed |-> FALSE]
  BY DEF Request
<1>3. runs = <<>> BY <1>1 DEF PassportInv, LastRunIsKnown
<1>4. DOMAIN runs' = {} BY <1>1, <1>3
<1>5. latest' \in 0 .. MaxPassports /\ latest' \in Nat BY <1>1, LatestType, PassportAssumption
<1>6. d \in 0 .. MaxPassports /\ d <= latest' BY <1>5, LatestType, PassportAssumption
<1>7. profile' \in Values
  <2>1. latest' \in 0 .. Manual /\ 0 \in 0 .. Manual BY <1>5, PassportAssumption DEF Manual
  <2> QED BY <1>1, <2>1 DEF Values
<1>8. /\ args' \in Arguments /\ args'.document = d /\ ~args'.resumed
      /\ args'.execute = ~preview'
  <2>1. (~preview') \in BOOLEAN OBVIOUS
  <2> DEFINE shown == ~preview'
  <2>2. args' = [to |-> to, document |-> d, manual |-> M, execute |-> shown, resumed |-> FALSE]
    BY <1>2
  <2>3. shown \in BOOLEAN BY <2>1
  <2> HIDE DEF shown
  <2>4. args' \in Arguments BY <1>6, <2>2, <2>3 DEF Arguments
  <2>5. args'.document = d /\ args'.execute = shown /\ args'.resumed = FALSE BY <2>2
  <2> QED BY <2>4, <2>5 DEF shown
<1>9. WorkflowTypeOK' BY <1>1, <1>5, <1>7, <1>8 DEF WorkflowTypeOK
<1>10. DocumentsExist' BY <1>1, <1>4, <1>6, <1>8 DEF DocumentsExist, CallFits
<1>11. PreviewIsKept' BY <1>8 DEF PreviewIsKept
<1>12. PreviewsSendNothing' /\ SecondMailHasACause'
  BY <1>4 DEF PreviewsSendNothing, SecondMailHasACause
<1>13. LastRunIsKnown' BY <1>1, <1>3 DEF LastRunIsKnown
<1>14. (\A n \in DOMAIN runs : RunOK(runs[n]))' BY <1>4
<1> QED BY <1>9, <1>10, <1>11, <1>12, <1>13, <1>14 DEF PassportInv

LEMMA NewRunType ==
  ASSUME WorkflowTypeOK
  PROVE  /\ NewRun \in RunRecords /\ RunOK(NewRun)
         /\ NewRun.document = passport.id /\ NewRun.newest = passport.newest
         /\ (NewRun.named <=> args.document # 0) /\ (NewRun.resumed <=> args.resumed)
<1>1. NoValues \in Values BY PassportAssumption DEF NoValues, Values, Manual
<1>2. /\ args.document \in 0 .. MaxPassports /\ args.manual \in SUBSET Slots
      /\ args.resumed \in BOOLEAN
      /\ passport.id \in 0 .. MaxPassports /\ passport.newest \in 0 .. MaxPassports
      /\ 0 \in 0 .. MaxPassports
  BY LatestType DEF WorkflowTypeOK, Arguments
<1> DEFINE named == args.document # 0
<1>3. NewRun = [step |-> "read_existing_profile", resumed |-> args.resumed,
                document |-> passport.id, named |-> named, newest |-> passport.newest,
                manual |-> args.manual,
                values |-> NoValues, body |-> NoValues, attached |-> 0, missed |-> {},
                extracted |-> FALSE, crossed |-> FALSE]
  BY DEF NewRun
<1>7. named \in BOOLEAN /\ (named <=> args.document # 0) OBVIOUS
<1> HIDE DEF named
<1>4. NewRun \in RunRecords BY <1>1, <1>2, <1>3, <1>7 DEF RunRecords, Steps
<1>5. /\ NewRun.step = "read_existing_profile" /\ NewRun.attached = 0 /\ ~NewRun.extracted
      /\ NewRun.document = passport.id /\ NewRun.newest = passport.newest
      /\ NewRun.named = named /\ NewRun.resumed = args.resumed
  BY <1>3
<1>6. RunOK(NewRun) BY <1>5 DEF RunOK
<1> QED BY <1>4, <1>5, <1>6, <1>7

LEMMA SubmitKeeps ==
  ASSUME PassportInv, Submit
  PROVE  PassportInv'
<1>1. /\ WorkflowTypeOK /\ work = "resolved"
      /\ UNCHANGED <<latest, profile, preview, args, passport, lost>>
  BY DEF PassportInv, Submit
<1>2. PreviewIsKept' BY <1>1 DEF PassportInv, PreviewIsKept
<1>3. args.document <= latest /\ DocumentFits(passport.id, passport.newest, args.document # 0)
  BY <1>1 DEF PassportInv, DocumentsExist, CallFits
<1>4. CASE UNCHANGED runs /\ work' = "idle"
  <2>1. WorkflowTypeOK' BY <1>1, <1>4 DEF WorkflowTypeOK
  <2>2. LastRunIsKnown' BY <1>1, <1>4 DEF PassportInv, LastRunIsKnown
  <2>3. latest' \in 0 .. MaxPassports /\ latest <= latest'
    BY <1>1, LatestType DEF WorkflowTypeOK
  <2>4. CallFits' BY <1>4 DEF CallFits
  <2> QED BY <1>1, <1>2, <1>3, <1>4, <2>1, <2>2, <2>3, <2>4, CallKeepsPassport
<1>5. CASE args.execute /\ runs' = Append(runs, NewRun) /\ work' = "executing"
  <2>1. runs \in Seq(RunRecords) BY <1>1 DEF WorkflowTypeOK
  <2>2. /\ NewRun \in RunRecords /\ RunOK(NewRun)
        /\ DocumentFits(NewRun.document, NewRun.newest, NewRun.named)
        /\ (NewRun.resumed <=> args.resumed)
    BY <1>1, <1>3, NewRunType DEF DocumentFits
  <2> DEFINE k == Len(runs) + 1
  <2>3. /\ runs' \in Seq(RunRecords) /\ Len(runs') = k /\ DOMAIN runs' = 1 .. k
        /\ DOMAIN runs = 1 .. Len(runs) /\ Len(runs) \in Nat
        /\ \A n \in DOMAIN runs : runs'[n] = runs[n]
        /\ runs'[k] = NewRun
    BY <1>5, <2>1, <2>2
  <2>4. \A n \in DOMAIN runs' : n \in DOMAIN runs \/ n = k BY <2>3
  <2>5. WorkflowTypeOK' BY <1>1, <1>5, <2>3 DEF WorkflowTypeOK
  <2>6. \A n \in DOMAIN runs : /\ DocumentFits(runs[n].document, runs[n].newest, runs[n].named)
                              /\ RunOK(runs[n])
    BY DEF PassportInv, DocumentsExist
  <2>7. \A n \in DOMAIN runs' : DocumentFits(runs'[n].document, runs'[n].newest, runs'[n].named)
    BY <2>2, <2>3, <2>4, <2>6
  <2>8. DocumentsExist' BY <1>1, <1>3, <2>7 DEF DocumentsExist, CallFits, DocumentFits
  <2>9. preview => args.resumed BY <1>5 DEF PassportInv, PreviewIsKept
  <2>10. PreviewsSendNothing'
    BY <1>1, <2>2, <2>3, <2>4, <2>9 DEF PassportInv, PreviewsSendNothing
  <2>11. LastRunIsKnown' BY <1>5 DEF LastRunIsKnown
  <2>12. Len(runs) # 0 => Len(runs) \in lost
    <3>1. Len(runs) # 0 => runs # <<>> BY <2>1
    <3> QED BY <1>1, <3>1 DEF PassportInv, LastRunIsKnown
  <2>13. SecondMailHasACause'
    <3> SUFFICES ASSUME NEW n \in DOMAIN runs', n > 1 PROVE n - 1 \in lost'
      BY DEF SecondMailHasACause
    <3>1. CASE n \in DOMAIN runs BY <1>1, <3>1 DEF PassportInv, SecondMailHasACause
    <3>2. CASE n = k BY <1>1, <2>3, <2>12, <3>2
    <3> QED BY <2>4, <3>1, <3>2
  <2>14. profile' = profile BY <1>1
  <2>15. \A n \in DOMAIN runs' : RunOK(runs'[n]) BY <2>2, <2>3, <2>4, <2>6
  <2>16. (\A n \in DOMAIN runs : RunOK(runs[n]))'
    BY <2>14, <2>15 DEF RunOK, Says, Complete
  <2> QED BY <1>2, <2>5, <2>8, <2>10, <2>11, <2>13, <2>16 DEF PassportInv
<1> QED BY <1>4, <1>5 DEF Submit, Tells

(* Steps of the vault: a run keeps its document and who has asked for it.  *)
SameRequest(q, r) ==
    /\ q.document = r.document /\ q.newest = r.newest /\ q.named = r.named
    /\ q.resumed = r.resumed

LEMMA RunsKeep ==
  ASSUME PassportInv, UNCHANGED <<latest, preview, args, work, passport, told, lost>>,
         profile' \in Values, runs' \in Seq(RunRecords), DOMAIN runs' = DOMAIN runs,
         \A m \in DOMAIN runs : SameRequest(runs'[m], runs[m]),
         (\A m \in DOMAIN runs : RunOK(runs[m]))'
  PROVE  PassportInv'
<1>1. WorkflowTypeOK' BY DEF PassportInv, WorkflowTypeOK
<1>2. DocumentsExist' BY DEF PassportInv, DocumentsExist, CallFits, DocumentFits, SameRequest
<1>3. PreviewIsKept' BY DEF PassportInv, PreviewIsKept
<1>4. PreviewsSendNothing' BY DEF PassportInv, PreviewsSendNothing, SameRequest
<1>5. SecondMailHasACause' BY DEF PassportInv, SecondMailHasACause
<1>6. Len(runs') = Len(runs) /\ (runs' # <<>> => runs # <<>>)
  <2>1. runs \in Seq(RunRecords) BY DEF PassportInv, WorkflowTypeOK
  <2> QED BY <2>1
<1>7. LastRunIsKnown' BY <1>6 DEF PassportInv, LastRunIsKnown
<1> QED BY <1>1, <1>2, <1>3, <1>4, <1>5, <1>7 DEF PassportInv

LEMMA OneRunKeeps ==
  ASSUME PassportInv, UNCHANGED <<latest, preview, args, work, passport, told, lost, profile>>,
         NEW n \in DOMAIN runs, NEW r \in RunRecords, runs' = [runs EXCEPT ![n] = r],
         SameRequest(r, runs[n]), RunOK(r)
  PROVE  PassportInv'
<1>1. runs \in Seq(RunRecords) /\ profile \in Values BY DEF PassportInv, WorkflowTypeOK
<1>2. /\ runs' \in Seq(RunRecords) /\ DOMAIN runs' = DOMAIN runs /\ runs'[n] = r
      /\ \A m \in DOMAIN runs : m # n => runs'[m] = runs[m]
  BY <1>1
<1>3. \A m \in DOMAIN runs' : RunOK(runs'[m]) BY <1>2 DEF PassportInv
<1>4. (\A m \in DOMAIN runs : RunOK(runs[m]))' BY <1>3 DEF RunOK, Says, Complete
<1>5. \A m \in DOMAIN runs : SameRequest(runs'[m], runs[m]) BY <1>2 DEF SameRequest
<1> QED BY <1>1, <1>2, <1>4, <1>5, RunsKeep

LEMMA ReadKeeps ==
  ASSUME PassportInv, NEW n \in DOMAIN runs, RunStep(n), Read(n)
  PROVE  PassportInv'
<1> DEFINE r == runs[n]
           next == NextStep(r.step, profile)
           q == [r EXCEPT !.values = profile, !.step = next]
<1>1. WorkflowTypeOK /\ r \in RunRecords /\ profile \in Values /\ RunOK(r)
  BY RunType DEF PassportInv, WorkflowTypeOK
<1>2. /\ UNCHANGED <<latest, preview, args, work, passport, told, lost, profile>>
      /\ runs' = [runs EXCEPT ![n] = q]
      /\ r.step \in {"read_existing_profile", "read_after_extract_profile"}
  BY DEF RunStep, Read
<1>3. /\ r.step = "read_existing_profile" =>
            next = IF Complete(profile) THEN "create_draft_from_existing"
                   ELSE "extract_passport_fields"
      /\ r.step = "read_after_extract_profile" => next = "create_draft_after_extract"
  BY DEF NextStep
<1> HIDE DEF next
<1>4. next \in Steps BY <1>2, <1>3 DEF Steps
<1>5. q \in RunRecords BY <1>1, <1>4 DEF RunRecords
<1>6. /\ q.step = next /\ q.values = profile /\ q.document = r.document
      /\ q.attached = r.attached /\ q.extracted = r.extracted /\ SameRequest(q, r)
      /\ q.crossed = r.crossed /\ q.missed = r.missed /\ q.manual = r.manual
  BY <1>1 DEF RunRecords, SameRequest
<1>7. r.attached = 0 BY <1>1, <1>2 DEF RunOK
<1> HIDE DEF q
<1>8. CASE r.step = "read_existing_profile"
  <2>1. ~r.extracted BY <1>1, <1>8 DEF RunOK
  <2> QED BY <1>1, <1>2, <1>3, <1>5, <1>6, <1>7, <1>8, <2>1, OneRunKeeps DEF RunOK
<1>9. CASE r.step = "read_after_extract_profile"
  <2>1. r.extracted /\ (~r.crossed => Says(r, profile)) BY <1>1, <1>9 DEF RunOK
  <2>2. ~q.crossed => Says(q, profile) BY <1>6, <2>1 DEF Says
  <2>3. RunOK(q) BY <1>3, <1>6, <1>7, <1>9, <2>1, <2>2 DEF RunOK
  <2> QED BY <1>2, <1>5, <1>6, <2>3, OneRunKeeps
<1> QED BY <1>2, <1>8, <1>9

LEMMA DraftKeeps ==
  ASSUME PassportInv, NEW n \in DOMAIN runs, RunStep(n), Draft(n)
  PROVE  PassportInv'
<1> DEFINE r == runs[n]
           next == NextStep(r.step, r.values)
           q == [r EXCEPT !.body = r.values, !.attached = latest, !.step = next]
<1>1. WorkflowTypeOK /\ r \in RunRecords /\ RunOK(r) /\ r.newest <= latest
      /\ r.values \in Values
  BY RunType DEF PassportInv, DocumentsExist, DocumentFits, RunRecords
<1>2. /\ UNCHANGED <<latest, preview, args, work, passport, told, lost, profile>>
      /\ runs' = [runs EXCEPT ![n] = q]
      /\ r.step \in {"create_draft_from_existing", "create_draft_after_extract"}
  BY DEF RunStep, Draft
<1>3. next \in {"send_draft_from_existing", "send_draft_after_extract"}
  BY <1>2 DEF NextStep
<1> HIDE DEF next
<1>4. next \in Steps /\ latest \in 0 .. MaxPassports
  BY <1>1, <1>3 DEF Steps, WorkflowTypeOK
<1>5. q \in RunRecords BY <1>1, <1>4 DEF RunRecords
<1>6. /\ q.step = next /\ q.body = r.values /\ q.attached = latest
      /\ SameRequest(q, r) /\ q.document = r.document /\ q.newest = r.newest
      /\ q.extracted = r.extracted
      /\ q.crossed = r.crossed /\ q.missed = r.missed /\ q.manual = r.manual
  BY <1>1 DEF RunRecords, SameRequest
<1> HIDE DEF q
<1>7. /\ ~r.extracted => Complete(r.values)
      /\ r.extracted /\ ~r.crossed => Says(r, r.values)
  BY <1>1, <1>2 DEF RunOK
<1>8. q.extracted /\ ~q.crossed => Says(q, q.body) BY <1>6, <1>7 DEF Says
<1>9. RunOK(q) BY <1>1, <1>3, <1>6, <1>7, <1>8 DEF RunOK
<1> QED BY <1>2, <1>5, <1>6, <1>9, OneRunKeeps

(* A run that is sent or has failed keeps its mail.                        *)
LEMMA EndKeeps ==
  ASSUME PassportInv, NEW n \in DOMAIN runs, RunStep(n), NEW end \in {"sent", "failed"},
         runs' = [runs EXCEPT ![n].step = end], UNCHANGED profile
  PROVE  PassportInv'
<1> DEFINE r == runs[n]
           q == [r EXCEPT !.step = end]
<1>1. r \in RunRecords /\ RunOK(r) BY RunType DEF PassportInv
<1>2. /\ UNCHANGED <<latest, preview, args, work, passport, told, lost, profile>>
      /\ runs' = [runs EXCEPT ![n] = q]
  BY DEF RunStep
<1>3. q \in RunRecords BY <1>1 DEF RunRecords, Steps
<1>4. /\ q.step = end /\ q.body = r.body /\ q.attached = r.attached
      /\ SameRequest(q, r) /\ q.document = r.document /\ q.newest = r.newest
      /\ q.extracted = r.extracted
      /\ q.crossed = r.crossed /\ q.missed = r.missed /\ q.manual = r.manual
  BY <1>1 DEF RunRecords, SameRequest
<1> HIDE DEF q
<1>5. RunOK(q) BY <1>1, <1>4 DEF RunOK, Says
<1> QED BY <1>2, <1>3, <1>4, <1>5, OneRunKeeps

(* What the extraction saves is what the document says; whoever has        *)
(* extracted before is crossed.                                            *)
LEMMA ExtractKeeps ==
  ASSUME PassportInv, NEW n \in DOMAIN runs, RunStep(n), Extract(n)
  PROVE  PassportInv'
<1>1. PICK M \in SUBSET (Slots \ runs[n].manual) :
         /\ runs[n].step = "extract_passport_fields"
         /\ profile' = [s \in Slots |-> IF s \in runs[n].manual THEN Manual
                                       ELSE IF s \in M THEN profile[s] ELSE runs[n].document]
         /\ runs' = [m \in DOMAIN runs |->
                       IF m = n THEN [runs[n] EXCEPT !.step = NextStep(@, runs[n].values),
                                                     !.missed = M, !.extracted = TRUE]
                       ELSE [runs[m] EXCEPT !.crossed = @ \/ runs[m].extracted]]
  BY DEF Extract
<1>2. UNCHANGED <<latest, preview, args, work, passport, told, lost>> BY DEF RunStep
<1>3. /\ runs \in Seq(RunRecords) /\ profile \in Values
      /\ \A m \in DOMAIN runs : runs[m] \in RunRecords /\ RunOK(runs[m])
  BY RunType DEF PassportInv, WorkflowTypeOK
<1> DEFINE r == runs[n]
           q == [r EXCEPT !.step = "read_after_extract_profile", !.missed = M,
                          !.extracted = TRUE]
<1>4. NextStep(r.step, r.values) = "read_after_extract_profile" BY <1>1 DEF NextStep
<1>5. runs'[n] = q BY <1>1, <1>4
<1>6. /\ q \in RunRecords /\ q.step = "read_after_extract_profile" /\ q.missed = M
      /\ q.extracted /\ q.attached = r.attached /\ q.manual = r.manual
      /\ q.document = r.document /\ SameRequest(q, r)
  <2>1. M \in SUBSET Slots OBVIOUS
  <2> QED BY <1>3, <2>1 DEF RunRecords, Steps, SameRequest
<1>7. r.attached = 0 BY <1>1, <1>3 DEF RunOK
<1>8. profile' \in Values
  <2>1. r.document \in 0 .. MaxPassports BY <1>3 DEF RunRecords
  <2>2. r.document \in 0 .. Manual /\ Manual \in 0 .. Manual
    BY <2>1, PassportAssumption DEF Manual
  <2>3. \A s \in Slots : profile[s] \in 0 .. Manual BY <1>3 DEF Values
  <2> QED BY <1>1, <2>2, <2>3 DEF Values
<1>9. \A s \in Slots \ M : profile'[s] = IF s \in r.manual THEN Manual ELSE r.document
  BY <1>1
<1> HIDE DEF q
<1>10. RunOK(runs[n])'
  <2>1. runs'[n].attached = 0 /\ runs'[n].extracted /\ runs'[n].missed = M
        /\ runs'[n].manual = r.manual /\ runs'[n].document = r.document
        /\ runs'[n].step = "read_after_extract_profile"
    BY <1>5, <1>6, <1>7
  <2>2. \A s \in Slots \ runs'[n].missed :
           profile'[s] = IF s \in runs'[n].manual THEN Manual ELSE runs'[n].document
    BY <1>9, <2>1
  <2> QED BY <2>1, <2>2 DEF RunOK, Says
<1>11. ASSUME NEW m \in DOMAIN runs, m # n
       PROVE  /\ runs'[m] \in RunRecords /\ RunOK(runs[m])'
              /\ SameRequest(runs'[m], runs[m])
  <2> DEFINE p == runs[m]
             c == p.crossed \/ p.extracted
             o == [p EXCEPT !.crossed = c]
  <2>1. runs'[m] = o BY <1>1, <1>11
  <2>2. p \in RunRecords /\ RunOK(p) BY <1>3
  <2>3. c \in BOOLEAN BY <2>2 DEF RunRecords
  <2>4. p.extracted => c OBVIOUS
  <2>5. ~p.extracted => c = p.crossed BY <2>2 DEF RunRecords
  <2> HIDE DEF c
  <2>6. /\ o \in RunRecords /\ o.step = p.step /\ o.extracted = p.extracted
        /\ o.crossed = c /\ o.attached = p.attached /\ o.values = p.values
        /\ o.body = p.body /\ o.newest = p.newest /\ SameRequest(o, p)
    BY <2>2, <2>3 DEF RunRecords, SameRequest
  <2> HIDE DEF o
  <2>7. RunOK(runs[m])'
    BY <2>1, <2>2, <2>4, <2>6 DEF RunOK, Complete
  <2> QED BY <2>1, <2>6, <2>7
<1>12. /\ DOMAIN runs' = DOMAIN runs
       /\ \A m \in DOMAIN runs : runs'[m] \in RunRecords
       /\ runs' \in Seq(RunRecords)
  <2>1. DOMAIN runs' = DOMAIN runs BY <1>1
  <2>2. \A m \in DOMAIN runs : runs'[m] \in RunRecords BY <1>5, <1>6, <1>11
  <2>3. DOMAIN runs = 1 .. Len(runs) /\ Len(runs) \in Nat BY <1>3
  <2>4. runs' = [m \in 1 .. Len(runs) |-> runs'[m]] BY <1>1, <2>3
  <2>5. runs' \in [1 .. Len(runs) -> RunRecords] BY <2>2, <2>3, <2>4
  <2>6. runs' \in Seq(RunRecords) BY <2>3, <2>5
  <2> QED BY <2>1, <2>2, <2>6
<1>13. (\A m \in DOMAIN runs : RunOK(runs[m]))' BY <1>10, <1>11, <1>12
<1>14. \A m \in DOMAIN runs : SameRequest(runs'[m], runs[m])
  BY <1>5, <1>6, <1>11
<1> QED BY <1>2, <1>8, <1>12, <1>13, <1>14, RunsKeep

LEMMA RunStepKeeps ==
  ASSUME PassportInv, NEW n \in DOMAIN runs, RunStep(n)
  PROVE  PassportInv'
<1>1. CASE Send(n)
  <2>1. NextStep(runs[n].step, runs[n].values) = "sent" BY <1>1 DEF Send, NextStep
  <2>2. runs' = [runs EXCEPT ![n].step = "sent"] /\ UNCHANGED profile
    BY <1>1, <2>1 DEF Send
  <2> QED BY <2>2, EndKeeps
<1>2. CASE Fail(n) BY <1>2, EndKeeps DEF Fail
<1> QED BY <1>1, <1>2, ReadKeeps, ExtractKeeps, DraftKeeps DEF RunStep

LEMMA PassportStepKeeps ==
  ASSUME PassportInv, [VaultNext]_vaultVars
  PROVE  PassportInv'
<1>1. CASE UNCHANGED passportVars
  <2>1. UNCHANGED <<latest, profile, preview, args, work, passport, told, runs, lost>>
    BY <1>1 DEF passportVars
  <2> QED BY <2>1 DEF PassportInv, WorkflowTypeOK, DocumentsExist, PreviewIsKept,
                      PreviewsSendNothing, LastRunIsKnown, SecondMailHasACause, RunOK, Says,
                      Complete, CallFits, DocumentFits
<1>2. CASE HandOver
  <2>1. (answer.inputs["to"] # "none") \in BOOLEAN OBVIOUS
  <2> QED BY <1>2, <2>1, RequestKeeps DEF HandOver
<1>3. CASE PassportNext
  BY <1>3, BeginKeeps, LookUpKeeps, SubmitKeeps, ReplyKeeps, CallAgainKeeps, ConfirmKeeps,
     UploadKeeps, RunStepKeeps DEF PassportNext
<1> QED BY <1>1, <1>2, <1>3 DEF VaultNext, vaultVars, passportVars

(* For any number of runs and details: no mail is made for a user who has  *)
(* only asked to see it, unless the caller resumes with the arguments of   *)
(* an answer, which do not say execute=false.                              *)
THEOREM PreviewsAreKept == VaultSpec => []PreviewsSendNothing
<1>1. VaultInit => PassportInv BY PassportInitInv DEF VaultInit
<1>2. PassportInv /\ [VaultNext]_vaultVars => PassportInv' BY PassportStepKeeps
<1>3. PassportInv => PreviewsSendNothing BY DEF PassportInv
<1> QED BY <1>1, <1>2, <1>3, PTL DEF VaultSpec

(* A second run exists only if the answer that told of the one before it   *)
(* was lost, however often the caller mends its arguments and calls again. *)
THEOREM SecondMailIsCaused == VaultSpec => []SecondMailHasACause
<1>1. VaultInit => PassportInv BY PassportInitInv DEF VaultInit
<1>2. PassportInv /\ [VaultNext]_vaultVars => PassportInv' BY PassportStepKeeps
<1>3. PassportInv => SecondMailHasACause BY DEF PassportInv
<1> QED BY <1>1, <1>2, <1>3, PTL DEF VaultSpec

(* Whatever runs go on beside it: each detail in a mail is the one of the  *)
(* attached passport or was given, but for the causes the property names.  *)
THEOREM MailsAreConsistent == VaultSpec => []BodyMatchesAttachment
<1>1. VaultInit => PassportInv BY PassportInitInv DEF VaultInit
<1>2. PassportInv /\ [VaultNext]_vaultVars => PassportInv' BY PassportStepKeeps
<1>3. PassportInv => BodyMatchesAttachment
  <2> SUFFICES ASSUME PassportInv, NEW n \in DOMAIN runs, NEW r, r = runs[n],
                      r.attached # 0, NEW s \in Slots
               PROVE  \/ r.body[s] = r.attached
                      \/ r.extracted /\ s \in r.manual /\ r.body[s] = Manual
                      \/ ~r.extracted /\ r.body[s] # 0
                      \/ s \in r.missed \/ r.crossed
                      \/ r.body[s] = r.document /\ r.newest < r.attached
                      \/ r.body[s] = r.document /\ r.named /\ r.document < r.newest
    BY DEF BodyMatchesAttachment
  <2>1. RunOK(r) /\ DocumentFits(r.document, r.newest, r.named) BY DEF PassportInv, DocumentsExist
  <2>2. /\ r.document \in Nat /\ r.newest \in Nat /\ r.attached \in Nat
        /\ r.extracted \in BOOLEAN
    BY RunType, PassportAssumption DEF PassportInv, RunRecords
  <2>3. CASE ~r.extracted BY <2>1, <2>3 DEF RunOK, Complete
  <2>4. CASE r.extracted /\ ~r.crossed /\ s \notin r.missed
    <3>1. r.body[s] = IF s \in r.manual THEN Manual ELSE r.document
      BY <2>1, <2>4 DEF RunOK, Says
    <3>2. r.document = r.attached \/ r.newest < r.attached \/ (r.named /\ r.document < r.newest)
      BY <2>1, <2>2 DEF RunOK, DocumentFits
    <3> QED BY <2>4, <3>1, <3>2
  <2> QED BY <2>3, <2>4
<1> QED BY <1>1, <1>2, <1>3, PTL DEF VaultSpec
=============================================================================
