-------------------------- MODULE CookbookProofs --------------------------
(***************************************************************************)
(* What holds of cookbooks.  Of remote ones, for every number of editors,  *)
(* installers and sites and whatever is published: the order of versions,  *)
(* what an edit of the sources changes, and what an install stores.  Of    *)
(* the templates in them, for every template and every input: what is      *)
(* rendered, and that one list of bindings is stored.                      *)
(***************************************************************************)
EXTENDS RemoteCatalog, Templates, FiniteSetTheorems, WellFoundedInduction, TLAPS

-----------------------------------------------------------------------------
(***************************************************************************)
(* Numbers: Min and Max choose what they are named for.                    *)
(***************************************************************************)
LEMMA MinIsLeast ==
  ASSUME NEW S \in SUBSET Nat, S # {}
  PROVE  Min(S) \in S /\ \A n \in S : Min(S) <= n
<1> DEFINE R == {ss \in Nat \X Nat : ss[1] < ss[2]}
<1>1. IsWellFoundedOn(R, Nat)
  BY NatLessThanWellFounded DEF OpToRel
<1>2. \A n, m \in S : n < m => <<n, m>> \in R
  OBVIOUS
<1> HIDE DEF R
<1>3. PICK m \in S : \A n \in S : <<n, m>> \notin R
  BY <1>1, WFMin
<1>4. \A n \in S : m \in Nat /\ n \in Nat /\ ~(n < m)
  BY <1>2, <1>3
<1>5. \A n \in S : m <= n
  BY <1>4
<1> QED BY <1>5, Zenon DEF Min

LEMMA MaxIsGreatest ==
  ASSUME NEW S \in SUBSET Nat, S # {}, NEW bound \in Nat, \A n \in S : n <= bound
  PROVE  Max(S) \in S /\ \A n \in S : Max(S) >= n
<1> DEFINE gaps == {bound - n : n \in S}
<1>1. gaps \in SUBSET Nat /\ gaps # {}
  <2>1. \A n \in S : n \in Nat /\ n <= bound
    OBVIOUS
  <2>2. \A n \in S : bound - n \in Nat
    BY <2>1
  <2>3. \A g \in gaps : g \in Nat
    BY <2>2
  <2>4. gaps # {}
    OBVIOUS
  <2> HIDE DEF gaps
  <2> QED BY <2>3, <2>4
<1>2. PICK g \in gaps : \A h \in gaps : g <= h
  <2> HIDE DEF gaps
  <2> QED BY <1>1, MinIsLeast
<1>3. PICK m \in S : g = bound - m
  BY <1>2
<1>4. ASSUME NEW n \in S PROVE m >= n
  <2>1. g <= bound - n /\ n \in Nat /\ m \in Nat
    BY <1>2
  <2> QED BY <1>3, <2>1
<1> QED BY <1>4, Zenon DEF Max

-----------------------------------------------------------------------------
(***************************************************************************)
(* The order of versions.  The token of a version at a place has a kind, 0 *)
(* beyond its end; the versions differ at a place if the kinds do, or what *)
(* stands there.                                                           *)
(***************************************************************************)
KindAt(v, i) == IF i > Len(TokensOf[v]) THEN 0 ELSE IF TokensOf[v][i].num THEN 2 ELSE 1
ValAt(v, i) == TokensOf[v][i].val
Differ(u, v, i) ==
    KindAt(u, i) # KindAt(v, i) \/ (KindAt(u, i) # 0 /\ ValAt(u, i) # ValAt(v, i))
Below(u, v, i) ==
    KindAt(u, i) < KindAt(v, i) \/ (KindAt(u, i) = KindAt(v, i) /\ ValAt(u, i) < ValAt(v, i))
Places == Nat \ {0}
Same(u, v) == \A i \in Places : ~Differ(u, v, i)
FirstDiffer(u, v, i) ==
    /\ i \in Places /\ Differ(u, v, i)
    /\ \A j \in Places : j < i => ~Differ(u, v, j)

\* A token that is there is of one kind or the other, and has a value.
LEMMA PlaceFacts ==
  ASSUME NEW v \in Versions, NEW i \in Places
  PROVE  /\ TokensOf[v] \in Seq(Tokens) /\ Len(TokensOf[v]) \in Nat
         /\ KindAt(v, i) \in 0..2 /\ (KindAt(v, i) = 0 <=> i > Len(TokensOf[v]))
         /\ KindAt(v, i) # 0 => ValAt(v, i) \in Nat /\ TokensOf[v][i] \in Tokens
<1>1. TokensOf[v] \in Seq(Tokens) /\ Len(TokensOf[v]) \in Nat
  BY VersionAssumption
<1>2. KindAt(v, i) \in 0..2 /\ (KindAt(v, i) = 0 <=> i > Len(TokensOf[v]))
  BY <1>1 DEF KindAt, Places
<1>3. ASSUME KindAt(v, i) # 0 PROVE TokensOf[v][i] \in Tokens
  <2>1. i \in 1..Len(TokensOf[v])
    BY <1>1, <1>2, <1>3 DEF Places
  <2> QED BY <1>1, <2>1
<1>4. KindAt(v, i) # 0 => ValAt(v, i) \in Nat
  BY <1>3 DEF ValAt, Tokens
<1> QED BY <1>1, <1>2, <1>3, <1>4

\* compareVersion: the first place where two versions differ decides.
LEMMA CompareAt ==
  ASSUME NEW u \in Versions, NEW v \in Versions
  PROVE  \/ Compare(u, v) = 0 /\ Same(u, v)
         \/ \E i : FirstDiffer(u, v, i) /\ Compare(u, v) = IF Below(u, v, i) THEN -1 ELSE 1
<1> DEFINE a == TokensOf[u]
           b == TokensOf[v]
           top == Max({Len(a), Len(b)})
           D == {i \in 1..top : Differ(u, v, i)}
<1>1. Len(a) \in Nat /\ Len(b) \in Nat
  BY PlaceFacts DEF Places
<1>2. top \in Nat /\ top >= Len(a) /\ top >= Len(b)
  <2>1. ASSUME NEW m \in Nat, NEW n \in Nat
        PROVE  Max({m, n}) \in Nat /\ Max({m, n}) >= m /\ Max({m, n}) >= n
    <3> DEFINE S == {m, n}
    <3>1. S \in SUBSET Nat /\ S # {} /\ m \in S /\ n \in S
      OBVIOUS
    <3>2. m + n \in Nat /\ \A k \in S : k <= m + n
      OBVIOUS
    <3> HIDE DEF S
    <3>3. Max(S) \in S /\ \A k \in S : Max(S) >= k
      BY <3>1, <3>2, MaxIsGreatest
    <3> QED BY <3>1, <3>3 DEF S
  <2> QED BY <1>1, <2>1, Zenon
<1>3. Compare(u, v) =
        IF D = {} THEN 0
        ELSE IF KindAt(u, Min(D)) # KindAt(v, Min(D))
             THEN IF KindAt(u, Min(D)) < KindAt(v, Min(D)) THEN -1 ELSE 1
             ELSE IF ValAt(u, Min(D)) < ValAt(v, Min(D)) THEN -1 ELSE 1
  BY Zenon DEF Compare, Differ, KindAt, ValAt
<1> HIDE DEF top
<1>4. \A i \in Places : Differ(u, v, i) => i \in D
  <2> TAKE i \in Places
  <2>1. ~(i <= top) => KindAt(u, i) = 0 /\ KindAt(v, i) = 0
    BY <1>1, <1>2, PlaceFacts DEF Places
  <2> QED BY <1>2, <2>1 DEF Differ, Places
<1>5. \A i \in D : i \in Places /\ Differ(u, v, i)
  BY <1>2 DEF Places
<1> HIDE DEF D
<1>6. CASE D = {}
  BY <1>3, <1>4, <1>6 DEF Same
<1>7. CASE D # {}
  <2>1. D \in SUBSET Nat
    BY <1>5 DEF Places
  <2>2. Min(D) \in D /\ \A n \in D : Min(D) <= n
    BY <1>7, <2>1, MinIsLeast
  <2>3. FirstDiffer(u, v, Min(D))
    BY <1>4, <1>5, <2>2 DEF FirstDiffer, Places
  <2>4. KindAt(u, Min(D)) \in Nat /\ KindAt(v, Min(D)) \in Nat
    BY <1>5, <2>2, PlaceFacts
  <2>5. Compare(u, v) = IF Below(u, v, Min(D)) THEN -1 ELSE 1
    BY <1>3, <1>7, <2>4 DEF Below
  <2> QED BY <2>3, <2>5
<1> QED BY <1>6, <1>7

LEMMA DifferFacts ==
  ASSUME NEW u \in Versions, NEW v \in Versions, NEW w \in Versions, NEW i \in Places
  PROVE  /\ Differ(u, v, i) <=> Differ(v, u, i)
         /\ Differ(u, v, i) => (Below(u, v, i) <=> ~Below(v, u, i))
         /\ ~Differ(u, v, i) => /\ Differ(u, w, i) <=> Differ(v, w, i)
                                /\ Differ(w, u, i) <=> Differ(w, v, i)
         /\ ~Differ(u, v, i) /\ Differ(u, w, i) =>
               /\ Below(u, w, i) <=> Below(v, w, i)
               /\ Below(w, u, i) <=> Below(w, v, i)
         /\ Differ(u, v, i) /\ Differ(v, w, i) /\ Below(u, v, i) /\ Below(v, w, i)
               => Differ(u, w, i) /\ Below(u, w, i)
<1> DEFINE K(x) == KindAt(x, i)
           V(x) == ValAt(x, i)
<1>1. \A x \in {u, v, w} : K(x) \in 0..2 /\ (K(x) # 0 => V(x) \in Nat)
  BY PlaceFacts
<1>2. \A x, y : /\ Differ(x, y, i) <=> K(x) # K(y) \/ (K(x) # 0 /\ V(x) # V(y))
                /\ Below(x, y, i) <=> K(x) < K(y) \/ (K(x) = K(y) /\ V(x) < V(y))
  BY DEF Differ, Below
<1> HIDE DEF K, V
<1> QED BY <1>1, <1>2

\* Versions are compared as their lists of tokens are.
LEMMA CompareIsOpposite ==
  ASSUME NEW u \in Versions, NEW v \in Versions
  PROVE  Compare(u, v) = -Compare(v, u)
<1>1. \A i \in Places : /\ Differ(u, v, i) <=> Differ(v, u, i)
                        /\ Differ(u, v, i) => (Below(u, v, i) <=> ~Below(v, u, i))
  BY DifferFacts
<1>2. Same(u, v) <=> Same(v, u)
  BY <1>1 DEF Same
<1>3. \A i, j : FirstDiffer(u, v, i) /\ FirstDiffer(v, u, j) => i = j
  BY <1>1 DEF FirstDiffer, Places
<1>4. \A i : FirstDiffer(u, v, i) => i \in Places /\ Differ(u, v, i) /\ ~Same(u, v)
  BY DEF FirstDiffer, Same
<1>5. \A i : FirstDiffer(v, u, i) => ~Same(v, u)
  BY DEF FirstDiffer, Same
<1> QED BY <1>1, <1>2, <1>3, <1>4, <1>5, CompareAt

LEMMA CompareIsZero ==
  ASSUME NEW u \in Versions, NEW v \in Versions
  PROVE  Compare(u, v) = 0 <=> TokensOf[u] = TokensOf[v]
<1> DEFINE a == TokensOf[u]
           b == TokensOf[v]
<1>1. a \in Seq(Tokens) /\ b \in Seq(Tokens)
  BY VersionAssumption
<1>2. Compare(u, v) = 0 <=> Same(u, v)
  BY CompareAt DEF FirstDiffer, Same
<1>3. ASSUME a = b PROVE Same(u, v)
  BY <1>3 DEF Same, Differ, KindAt, ValAt
<1>4. ASSUME Same(u, v) PROVE a = b
  <2>1. \A i \in Places : /\ KindAt(u, i) = KindAt(v, i)
                          /\ KindAt(u, i) # 0 => ValAt(u, i) = ValAt(v, i)
    BY <1>4 DEF Same, Differ
  <2>2. \A i \in Places : i > Len(a) <=> i > Len(b)
    BY <2>1, PlaceFacts
  <2>3. Len(a) = Len(b)
    <3>1. Len(a) \in Nat /\ Len(b) \in Nat
      BY <1>1
    <3>2. Len(a) + 1 \in Places /\ Len(b) + 1 \in Places
      BY <3>1 DEF Places
    <3> QED BY <2>2, <3>1, <3>2
  <2>4. ASSUME NEW i \in 1..Len(a) PROVE a[i] = b[i]
    <3>1. i \in Places /\ i <= Len(a) /\ i <= Len(b)
      BY <1>1, <2>3 DEF Places
    <3>2. a[i] \in Tokens /\ b[i] \in Tokens
      BY <1>1, <2>3
    <3>3. a[i].num = b[i].num
      BY <1>1, <2>1, <3>1, <3>2 DEF KindAt, Tokens
    <3>4. a[i].val = b[i].val
      <4>1. KindAt(u, i) # 0
        BY <1>1, <3>1 DEF KindAt
      <4> QED BY <2>1, <3>1, <4>1 DEF ValAt
    <3> QED BY <3>2, <3>3, <3>4 DEF Tokens
  <2> QED BY <1>1, <2>3, <2>4
<1> QED BY <1>2, <1>3, <1>4

LEMMA CompareIsTransitive ==
  ASSUME NEW u \in Versions, NEW v \in Versions, NEW w \in Versions,
         Compare(u, v) <= 0, Compare(v, w) <= 0
  PROVE  Compare(u, w) <= 0
<1>1. Same(u, v) \/ \E i : FirstDiffer(u, v, i) /\ Below(u, v, i)
  BY CompareAt
<1>2. Same(v, w) \/ \E i : FirstDiffer(v, w, i) /\ Below(v, w, i)
  BY CompareAt
<1>3. SUFFICES ASSUME NEW k, FirstDiffer(u, w, k) PROVE Below(u, w, k)
  BY CompareAt
<1>4. k \in Places /\ Differ(u, w, k)
  BY <1>3 DEF FirstDiffer
<1>5. \A j \in Places : j < k => ~Differ(u, w, j)
  BY <1>3 DEF FirstDiffer
<1>6. ASSUME NEW i \in Places, i < k PROVE ~Differ(u, v, i) <=> ~Differ(v, w, i)
  BY <1>5, <1>6, DifferFacts
<1>7. \A i \in Places : i < k => ~Differ(u, v, i) /\ ~Differ(v, w, i)
  <2> SUFFICES ASSUME NEW n \in Places, n < k, Differ(u, v, n) \/ Differ(v, w, n) PROVE FALSE
    OBVIOUS
  <2>1. Differ(u, v, n) /\ Differ(v, w, n)
    BY <1>6
  <2>2. PICK i : FirstDiffer(u, v, i) /\ Below(u, v, i)
    BY <1>1, <2>1 DEF Same
  <2>3. PICK j : FirstDiffer(v, w, j) /\ Below(v, w, j)
    BY <1>2, <2>1 DEF Same
  <2>4. i \in Places /\ j \in Places /\ i <= n /\ j <= n
    BY <2>1, <2>2, <2>3 DEF FirstDiffer, Places
  <2>5. i < k /\ j < k
    BY <1>4, <2>4 DEF Places
  <2>6. i = j
    BY <1>6, <2>2, <2>3, <2>4, <2>5 DEF FirstDiffer, Places
  <2>7. Differ(u, w, i)
    BY <2>2, <2>3, <2>4, <2>6, DifferFacts DEF FirstDiffer
  <2> QED BY <1>5, <2>4, <2>5, <2>7
<1>8. Differ(u, v, k) => Below(u, v, k)
  BY <1>1, <1>4, <1>7 DEF FirstDiffer, Same, Places
<1>9. Differ(v, w, k) => Below(v, w, k)
  BY <1>2, <1>4, <1>7 DEF FirstDiffer, Same, Places
<1> QED BY <1>4, <1>8, <1>9, DifferFacts

-----------------------------------------------------------------------------
(***************************************************************************)
(* The invariant.  Sources: whoever is inside the write lock has read the  *)
(* sources as they are.                                                    *)
(***************************************************************************)
IsEdit(r) ==
    r \in [pc : {r.pc}, id : {r.id}, config : {r.config}, doc : {r.doc}, answer : {r.answer}]

EditOK(e) ==
    /\ IsEdit(edit[e])
    /\ edit[e].pc = "locked" => /\ lock = e /\ edit[e].doc = sources
                                /\ edit[e].id \in Sources
                                /\ edit[e].config \in Configs \cup {NONE}

EditsOK ==
    /\ sources \in [Sources -> Configs \cup {NONE}]
    /\ edit = [e \in Editors |-> edit[e]]
    /\ \A e \in Editors : EditOK(e)

(***************************************************************************)
(* Calls: the item in hand is one that fits what was asked, and the bundle *)
(* in hand bears its name and fits the checksum.                           *)
(***************************************************************************)
SitesOK ==
    /\ site = [s \in Sites |-> site[s]]
    /\ \A s \in Sites : /\ site[s] \in [index : {site[s].index}, files : {site[s].files}]
                         /\ site[s].index \in Seq(Items)

IsRemoteCall(r) ==
    r \in [pc : {r.pc}, ask : {r.ask}, site : {r.site}, found : {r.found},
           offered : {r.offered}, bundle : {r.bundle}, answer : {r.answer}]

Matches(item, offered, ask) ==
    /\ item \in Items /\ item.id = ask.id
    /\ IF ask.version # NONE THEN item.version = ask.version
       ELSE \A v \in offered : Compare(v, item.version) <= 0

Proven(b, item, ask) ==
    /\ b \in Bundles /\ b.id = item.id /\ b.version = item.version
    /\ (IF ask.sha # NONE THEN ask.sha ELSE item.sha) \in {NONE, b}

CallOK(r) ==
    /\ IsRemoteCall(r)
    /\ r.pc \in {"index", "file", "store"} => r.ask \in Asks /\ r.site \in Sites
    /\ r.pc \in {"file", "store"} => Matches(r.found, r.offered, r.ask)
    /\ r.pc = "store" => Proven(r.bundle, r.found, r.ask)

CallsOK ==
    /\ call = [c \in Installers |-> call[c]]
    /\ \A c \in Installers : CallOK(call[c])

RemoteInv == EditsOK /\ SitesOK /\ CallsOK

-----------------------------------------------------------------------------
(***************************************************************************)
(* What selectRemoteItem returns fits what was asked, and is as late as    *)
(* any version the index has.                                              *)
(***************************************************************************)
LEMMA SelectedFits ==
  ASSUME NEW index \in Seq(Items), NEW ask \in Asks,
         NEW item \in SelectRemoteItem(index, ask.id, ask.version)
  PROVE  Matches(item, {j.version : j \in {k \in Range(index) : k.id = ask.id}}, ask)
<1> DEFINE fits == Candidates(index, ask.id, ask.version)
           at(v) == {i \in fits : index[i].version = v}
           latest == LatestVersions({index[i].version : i \in fits})
           offered == {j.version : j \in {k \in Range(index) : k.id = ask.id}}
<1>1. DOMAIN index = 1..Len(index) /\ Len(index) \in Nat /\ \A i \in DOMAIN index : index[i] \in Items
  OBVIOUS
<1>2. ASSUME NEW i \in fits
      PROVE  /\ i \in DOMAIN index /\ index[i].id = ask.id
             /\ ask.version # NONE => index[i].version = ask.version
  BY DEF Candidates
<1>3. fits \in SUBSET Nat /\ (\A i \in fits : i <= Len(index))
  <2> HIDE DEF fits
  <2>1. ASSUME NEW i \in fits PROVE i \in Nat /\ i <= Len(index)
    <3>1. i \in DOMAIN index
      BY <1>2
    <3> QED BY <1>1, <3>1
  <2> QED BY <2>1
<1>4. /\ fits # {}
      /\ IF ask.version # NONE THEN item = index[Min(fits)]
         ELSE \E v \in latest : item = index[Max(at(v))]
  BY DEF SelectRemoteItem
<1> HIDE DEF fits
<1>5. CASE ask.version # NONE
  <2>1. Min(fits) \in fits
    BY <1>3, <1>4, MinIsLeast
  <2>2. item = index[Min(fits)]
    BY <1>4, <1>5
  <2>3. item \in Items /\ item.id = ask.id /\ item.version = ask.version
    <3> DEFINE k == Min(fits)
    <3>1. k \in DOMAIN index /\ index[k].id = ask.id /\ index[k].version = ask.version
      BY <1>2, <1>5, <2>1
    <3> QED BY <1>1, <2>2, <3>1
  <2> QED BY <1>5, <2>3 DEF Matches
<1>6. CASE ask.version = NONE
  <2>1. PICK v \in latest : item = index[Max(at(v))]
    BY <1>4, <1>6
  <2>2. v \in {index[i].version : i \in fits} /\ \A i \in fits : Compare(index[i].version, v) <= 0
    BY DEF LatestVersions
  <2>3. Max(at(v)) \in at(v)
    <3> DEFINE T == at(v)
    <3>1. T \in SUBSET Nat /\ T # {} /\ (\A i \in T : i <= Len(index)) /\ Len(index) \in Nat
      BY <1>1, <1>3, <2>2
    <3> HIDE DEF T
    <3>2. Max(T) \in T
      BY <3>1, MaxIsGreatest
    <3> QED BY <3>2 DEF T
  <2>4. item \in Items /\ item.id = ask.id /\ item.version = v
    <3> DEFINE k == Max(at(v))
    <3>1. k \in fits /\ index[k].version = v
      BY <2>3
    <3>2. k \in DOMAIN index /\ index[k].id = ask.id
      BY <1>2, <3>1
    <3> QED BY <1>1, <2>1, <3>1, <3>2
  <2>5. \A u \in offered : Compare(u, v) <= 0
    <3>1. ASSUME NEW i \in DOMAIN index, index[i].id = ask.id PROVE i \in fits
      BY <1>6, <3>1 DEF fits, Candidates
    <3> QED BY <2>2, <3>1 DEF Range
  <2> QED BY <1>6, <2>4, <2>5 DEF Matches
<1> QED BY <1>5, <1>6

-----------------------------------------------------------------------------
(***************************************************************************)
(* Editors.                                                                *)
(***************************************************************************)
LEMMA LoadKeepsEdits ==
  ASSUME EditsOK, NEW e \in Editors, NEW x \in Edits, Load(e, x)
  PROVE  EditsOK'
<1> DEFINE new == [edit[e] EXCEPT !.pc = "locked", !.id = x.id, !.config = x.config, !.doc = sources]
<1>1. lock = NONE /\ lock' = e /\ sources' = sources
  BY DEF Load
<1>2. edit' = [d \in Editors |-> edit'[d]] /\ \A d \in Editors : edit'[d] = IF d = e THEN new ELSE edit[d]
  BY DEF Load, EditsOK
<1>3. IsEdit(edit[e]) /\ x.id \in Sources /\ x.config \in Configs \cup {NONE} /\ NONE \notin Editors
  BY RemoteAssumption DEF EditsOK, EditOK
<1>4. IsEdit(new) /\ new.pc = "locked" /\ new.doc = sources /\ new.id = x.id /\ new.config = x.config
  BY <1>3 DEF IsEdit
<1> HIDE DEF new
<1>5. ASSUME NEW d \in Editors PROVE EditOK(d)'
  <2>1. CASE d = e
    BY <1>1, <1>2, <1>3, <1>4, <2>1 DEF EditOK
  <2>2. CASE d # e
    BY <1>1, <1>2, <1>3, <2>2 DEF EditsOK, EditOK
  <2> QED BY <2>1, <2>2
<1> QED BY <1>1, <1>2, <1>5 DEF EditsOK

\* An editor that is answered holds nothing any more.
LEMMA AnsweredFacts ==
  ASSUME EditsOK, NEW e \in Editors, NEW ans, Answered(e, ans)
  PROVE  /\ edit' = [d \in Editors |-> edit'[d]]
         /\ \A d \in Editors : d # e => edit'[d] = edit[d]
         /\ IsEdit(edit'[e]) /\ edit'[e].pc = "done" /\ edit'[e].answer = ans
<1> DEFINE new == [NoEdit EXCEPT !.pc = "done", !.answer = ans]
<1>1. IsEdit(new) /\ new.pc = "done" /\ new.answer = ans
  BY DEF IsEdit, NoEdit
<1> HIDE DEF new
<1> QED BY <1>1 DEF Answered, EditsOK, new

LEMMA LockTimeoutKeepsEdits ==
  ASSUME EditsOK, NEW e \in Editors, LockTimeout(e)
  PROVE  EditsOK'
<1>1. Answered(e, "error") /\ UNCHANGED <<sources, lock>>
  BY DEF LockTimeout
<1>2. ASSUME NEW d \in Editors PROVE EditOK(d)'
  <2>1. CASE d = e
    BY <1>1, <2>1, AnsweredFacts DEF EditOK
  <2>2. CASE d # e
    BY <1>1, <2>2, AnsweredFacts DEF EditsOK, EditOK
  <2> QED BY <2>1, <2>2
<1> QED BY <1>1, <1>2, AnsweredFacts DEF EditsOK

\* What a save does: nothing, or the one change, with nobody else inside the lock.
LEMMA SaveFacts ==
  ASSUME EditsOK, NEW e \in Editors, Save(e)
  PROVE  /\ edit[e].pc = "locked" /\ edit[e].id \in Sources
         /\ edit[e].config \in Configs \cup {NONE}
         /\ lock' = NONE
         /\ \A d \in Editors : d # e => edit[d].pc # "locked"
         /\ \/ sources' = sources
            \/ sources' = [sources EXCEPT ![edit[e].id] = edit[e].config]
         /\ \E ans \in {"error", IF sources[edit[e].id] = NONE THEN "new" ELSE "old"} :
               Answered(e, ans)
<1>1. edit[e].pc = "locked" /\ lock' = NONE
  BY DEF Save
<1>2. /\ lock = e /\ edit[e].doc = sources /\ edit[e].id \in Sources
      /\ edit[e].config \in Configs \cup {NONE}
  BY <1>1 DEF EditsOK, EditOK
<1>3. \A d \in Editors : d # e => edit[d].pc # "locked"
  BY <1>2 DEF EditsOK, EditOK
<1>4. \/ sources' = sources
      \/ sources' = [sources EXCEPT ![edit[e].id] = edit[e].config]
  BY <1>2 DEF Save
<1>5. \E ans \in {"error", IF sources[edit[e].id] = NONE THEN "new" ELSE "old"} :
         Answered(e, ans)
  BY <1>2, Zenon DEF Save
<1> QED BY <1>1, <1>2, <1>3, <1>4, <1>5

LEMMA SaveKeepsEdits ==
  ASSUME EditsOK, NEW e \in Editors, Save(e)
  PROVE  EditsOK'
<1>1. PICK ans : Answered(e, ans)
  BY SaveFacts
<1>2. sources' \in [Sources -> Configs \cup {NONE}]
  BY SaveFacts DEF EditsOK
<1>3. ASSUME NEW d \in Editors PROVE EditOK(d)'
  <2>1. CASE d = e
    BY <1>1, <2>1, AnsweredFacts DEF EditOK
  <2>2. CASE d # e
    <3>1. edit'[d] = edit[d] /\ edit[d].pc # "locked" /\ IsEdit(edit[d])
      BY <1>1, <2>2, AnsweredFacts, SaveFacts DEF EditsOK, EditOK
    <3> QED BY <3>1 DEF EditOK
  <2> QED BY <2>1, <2>2
<1> QED BY <1>1, <1>2, <1>3, AnsweredFacts DEF EditsOK

-----------------------------------------------------------------------------
(***************************************************************************)
(* The publisher.                                                          *)
(***************************************************************************)
LEMMA PublishKeepsSites ==
  ASSUME SitesOK, NEW s \in Sites,
         \/ \E f \in Files : PublishFile(s, f)
         \/ \E index \in Indexes : PublishIndex(s, index)
  PROVE  SitesOK'
<1>1. site[s] \in [index : {site[s].index}, files : {site[s].files}] /\ site[s].index \in Seq(Items)
  BY DEF SitesOK
<1>2. \E new : /\ new \in [index : {new.index}, files : {new.files}] /\ new.index \in Seq(Items)
              /\ site' = [site EXCEPT ![s] = new]
  <2>1. ASSUME NEW f \in Files, PublishFile(s, f)
        PROVE  \E new : /\ new \in [index : {new.index}, files : {new.files}]
                        /\ new.index \in Seq(Items) /\ site' = [site EXCEPT ![s] = new]
    <3> DEFINE files == [site[s].files EXCEPT ![f[1]] = f[2]]
               new == [site[s] EXCEPT !.files = files]
    <3>1. site' = [site EXCEPT ![s] = new]
      BY <2>1 DEF PublishFile
    <3> HIDE DEF files
    <3>2. new \in [index : {new.index}, files : {new.files}] /\ new.index \in Seq(Items)
      BY <1>1
    <3> QED BY <3>1, <3>2
  <2>2. ASSUME NEW index \in Indexes, PublishIndex(s, index)
        PROVE  \E new : /\ new \in [index : {new.index}, files : {new.files}]
                        /\ new.index \in Seq(Items) /\ site' = [site EXCEPT ![s] = new]
    <3> DEFINE new == [site[s] EXCEPT !.index = index]
    <3>1. site' = [site EXCEPT ![s] = new]
      BY <2>2 DEF PublishIndex
    <3>2. index \in Seq(Items)
      BY RemoteAssumption
    <3>3. new \in [index : {new.index}, files : {new.files}] /\ new.index \in Seq(Items)
      BY <1>1, <3>2
    <3> QED BY <3>1, <3>3
  <2> QED BY <2>1, <2>2
<1> QED BY <1>2 DEF SitesOK

-----------------------------------------------------------------------------
(***************************************************************************)
(* Installers.                                                             *)
(***************************************************************************)
LEMMA GoesKeepsCalls ==
  ASSUME CallsOK, NEW c \in Installers, NEW new, CallOK(new), call' = [call EXCEPT ![c] = new]
  PROVE  CallsOK'
BY DEF CallsOK

LEMMA SettleKeepsCalls ==
  ASSUME CallsOK, NEW c \in Installers, NEW ans, Settle(c, ans)
  PROVE  CallsOK'
<1> DEFINE new == [call[c] EXCEPT !.pc = "done", !.answer = ans]
<1>1. IsRemoteCall(call[c])
  BY DEF CallsOK, CallOK
<1>2. IsRemoteCall(new) /\ new.pc = "done"
  BY <1>1 DEF IsRemoteCall
<1>3. call' = [call EXCEPT ![c] = new]
  BY DEF Settle
<1> HIDE DEF new
<1> QED BY <1>2, <1>3, GoesKeepsCalls DEF CallOK

LEMMA BeginKeepsCalls ==
  ASSUME EditsOK, CallsOK, NEW c \in Installers, NEW ask \in Asks, Begin(c, ask)
  PROVE  CallsOK'
<1> DEFINE source == sources[ask.source]
           ended(ans) == [[Idle EXCEPT !.ask = ask] EXCEPT !.pc = "done", !.answer = ans]
           going == [[Idle EXCEPT !.ask = ask] EXCEPT !.pc = "index", !.site = source.site]
<1>1. \/ \E ans : call' = [call EXCEPT ![c] = ended(ans)]
      \/ source # NONE /\ call' = [call EXCEPT ![c] = going]
  BY Zenon DEF Begin, SourceOf
<1>2. \A ans : CallOK(ended(ans))
  BY DEF CallOK, IsRemoteCall, Idle
<1>3. source # NONE => source.site \in Sites
  BY RemoteAssumption DEF EditsOK, Configs
<1>4. source # NONE => CallOK(going)
  <2> HIDE DEF source
  <2> QED BY <1>3 DEF CallOK, IsRemoteCall, Idle
<1> HIDE DEF ended, going, source
<1> QED BY <1>1, <1>2, <1>4, GoesKeepsCalls

LEMMA FetchIndexKeepsCalls ==
  ASSUME SitesOK, CallsOK, NEW c \in Installers, FetchIndex(c)
  PROVE  CallsOK'
<1> DEFINE ask == call[c].ask
           index == site[call[c].site].index
           offered == {j.version : j \in {k \in Range(index) : k.id = ask.id}}
           going(i) == [call[c] EXCEPT !.pc = "file", !.found = i, !.offered = offered]
<1>1. \/ \E ans : Settle(c, ans)
      \/ \E i \in SelectRemoteItem(index, ask.id, ask.version) : call' = [call EXCEPT ![c] = going(i)]
  BY Zenon DEF FetchIndex
<1>2. call[c].pc = "index" /\ CallOK(call[c])
  BY Zenon DEF FetchIndex, CallsOK
<1>3. IsRemoteCall(call[c]) /\ ask \in Asks /\ call[c].site \in Sites /\ index \in Seq(Items)
  BY <1>2 DEF CallOK, SitesOK
<1>4. ASSUME NEW i \in SelectRemoteItem(index, ask.id, ask.version) PROVE CallOK(going(i))
  <2>1. Matches(i, offered, ask)
    BY <1>3, <1>4, SelectedFits
  <2> HIDE DEF offered
  <2>2. /\ IsRemoteCall(going(i)) /\ going(i).pc = "file" /\ going(i).found = i
        /\ going(i).offered = offered /\ going(i).ask = ask /\ going(i).site = call[c].site
    BY <1>3 DEF IsRemoteCall
  <2> HIDE DEF going, ask
  <2> QED BY <1>3, <2>1, <2>2 DEF CallOK
<1> HIDE DEF going
<1> QED BY <1>1, <1>4, SettleKeepsCalls, GoesKeepsCalls

LEMMA DownloadKeepsCalls ==
  ASSUME CallsOK, NEW c \in Installers, Download(c)
  PROVE  CallsOK'
<1> DEFINE r == call[c]
           going(b) == [r EXCEPT !.pc = "store", !.bundle = b]
<1>1. \/ \E ans : Settle(c, ans)
      \/ \E b : /\ Checksum(c) \in {NONE, b} /\ Valid(b)
                /\ <<b.id, b.version>> = <<r.found.id, r.found.version>>
                /\ call' = [call EXCEPT ![c] = going(b)]
  BY ZenonT(40), Zenon DEF Download
<1>2. r.pc = "file" /\ CallOK(r)
  BY Zenon DEF Download, CallsOK
<1>3. IsRemoteCall(r) /\ r.ask \in Asks /\ r.site \in Sites /\ Matches(r.found, r.offered, r.ask)
  BY <1>2 DEF CallOK
<1>4. ASSUME NEW b, Checksum(c) \in {NONE, b}, Valid(b),
             <<b.id, b.version>> = <<r.found.id, r.found.version>>
      PROVE  CallOK(going(b))
  <2>1. Proven(b, r.found, r.ask)
    BY <1>4 DEF Proven, Checksum, Valid
  <2>2. /\ IsRemoteCall(going(b)) /\ going(b).pc = "store" /\ going(b).found = r.found
        /\ going(b).offered = r.offered /\ going(b).ask = r.ask /\ going(b).site = r.site
        /\ going(b).bundle = b
    BY <1>3 DEF IsRemoteCall
  <2> HIDE DEF going, r
  <2> QED BY <1>3, <2>1, <2>2 DEF CallOK
<1> HIDE DEF going
<1> QED BY <1>1, <1>4, SettleKeepsCalls, GoesKeepsCalls

\* A store ends a call that is at the store.
LEMMA StoreFacts ==
  ASSUME NEW c \in Installers, Store(c)
  PROVE  /\ call[c].pc = "store" /\ UNCHANGED <<sources, lock, edit, site>>
         /\ \E ans : Settle(c, ans)
BY Zenon DEF Store

-----------------------------------------------------------------------------
(***************************************************************************)
(* The invariant holds.                                                    *)
(***************************************************************************)
LEMMA InitGivesInv == RemoteInit => RemoteInv
<1> SUFFICES ASSUME RemoteInit PROVE RemoteInv
  OBVIOUS
<1>1. EditsOK
  <2>1. IsEdit(NoEdit) /\ NoEdit.pc = "idle"
    BY DEF IsEdit, NoEdit
  <2>2. sources \in [Sources -> Configs \cup {NONE}]
    BY RemoteAssumption DEF RemoteInit
  <2> QED BY <2>1, <2>2 DEF EditsOK, EditOK, RemoteInit
<1>2. SitesOK
  <2> DEFINE empty == [index |-> <<>>, files |-> [u \in Urls |-> NONE]]
  <2>1. empty \in [index : {empty.index}, files : {empty.files}] /\ empty.index \in Seq(Items)
    OBVIOUS
  <2>2. site = [s \in Sites |-> empty]
    BY DEF RemoteInit
  <2> HIDE DEF empty
  <2> QED BY <2>1, <2>2 DEF SitesOK
<1>3. CallsOK
  <2>1. CallOK(Idle)
    BY DEF CallOK, IsRemoteCall, Idle
  <2> QED BY <2>1 DEF CallsOK, RemoteInit
<1> QED BY <1>1, <1>2, <1>3 DEF RemoteInv

LEMMA NextKeepsInv == RemoteInv /\ [RemoteNext]_remoteVars => RemoteInv'
<1> SUFFICES ASSUME RemoteInv, [RemoteNext]_remoteVars PROVE RemoteInv'
  OBVIOUS
<1> USE DEF RemoteInv
<1>1. UNCHANGED <<sources, lock, edit>> => EditsOK'
  BY DEF EditsOK, EditOK
<1>2. UNCHANGED site => SitesOK'
  BY DEF SitesOK
<1>3. UNCHANGED call => CallsOK'
  BY DEF CallsOK
<1>4. CASE UNCHANGED remoteVars
  BY <1>1, <1>2, <1>3, <1>4 DEF remoteVars
<1>5. ASSUME NEW e \in Editors, (\E x \in Edits : Load(e, x)) \/ LockTimeout(e) \/ Save(e)
      PROVE  RemoteInv'
  <2>1. UNCHANGED <<site, call>>
    BY <1>5, Zenon DEF Load, LockTimeout, Save
  <2> QED BY <1>2, <1>3, <1>5, <2>1, LoadKeepsEdits, LockTimeoutKeepsEdits, SaveKeepsEdits
<1>6. ASSUME NEW s \in Sites, \/ \E f \in Files : PublishFile(s, f)
                             \/ \E index \in Indexes : PublishIndex(s, index)
      PROVE  RemoteInv'
  <2>1. UNCHANGED <<sources, lock, edit, call>>
    BY <1>6, Zenon DEF PublishFile, PublishIndex
  <2> QED BY <1>1, <1>3, <1>6, <2>1, PublishKeepsSites
<1>7. ASSUME NEW c \in Installers,
             \/ \E ask \in Asks : Begin(c, ask)
             \/ FetchFails(c) \/ FetchIndex(c) \/ Download(c) \/ Store(c)
      PROVE  RemoteInv'
  <2>1. UNCHANGED <<sources, lock, edit, site>>
    BY <1>7, Zenon DEF Begin, FetchFails, FetchIndex, Download, Store
  <2>2. CallsOK'
    <3>1. FetchFails(c) => CallsOK'
      BY SettleKeepsCalls DEF FetchFails
    <3>2. Store(c) => CallsOK'
      BY StoreFacts, SettleKeepsCalls
    <3> QED BY <1>7, <3>1, <3>2, BeginKeepsCalls, FetchIndexKeepsCalls, DownloadKeepsCalls
  <2> QED BY <1>1, <1>2, <2>1, <2>2
<1> QED BY <1>4, <1>5, <1>6, <1>7 DEF RemoteNext

LEMMA RemoteInvHolds == RemoteSpec => []RemoteInv
BY InitGivesInv, NextKeepsInv, PTL DEF RemoteSpec

-----------------------------------------------------------------------------
(***************************************************************************)
(* Whatever index is published, compareVersion is a total order of the     *)
(* token lists of its versions.                                            *)
(***************************************************************************)
THEOREM RemoteVersionsAreOrdered == RemoteSpec => VersionsAreOrdered
<1>1. ASSUME RemoteInv, RemoteInv', NEW s \in Sites,
             NEW u \in {i.version : i \in Range(site'[s].index)},
             NEW v \in {i.version : i \in Range(site'[s].index)},
             NEW w \in {i.version : i \in Range(site'[s].index)}
      PROVE  /\ Compare(u, v) = -Compare(v, u)
             /\ Compare(u, v) = 0 <=> TokensOf[u] = TokensOf[v]
             /\ Compare(u, v) <= 0 /\ Compare(v, w) <= 0 => Compare(u, w) <= 0
  <2>1. \A i \in Range(site'[s].index) : i \in Items
    <3>1. site'[s].index \in Seq(Items)
      BY <1>1 DEF RemoteInv, SitesOK
    <3>2. \A i \in DOMAIN site'[s].index : site'[s].index[i] \in Items
      BY <3>1
    <3> QED BY <3>2 DEF Range
  <2>2. u \in Versions /\ v \in Versions /\ w \in Versions
    BY <2>1 DEF Items
  <2> QED BY <2>2, CompareIsOpposite, CompareIsZero, CompareIsTransitive
<1>2. RemoteInv /\ RemoteInv' =>
        [\A s \in Sites : site'[s].index # site[s].index =>
            \A u, v, w \in {i.version : i \in Range(site'[s].index)} :
                /\ Compare(u, v) = -Compare(v, u)
                /\ Compare(u, v) = 0 <=> TokensOf[u] = TokensOf[v]
                /\ Compare(u, v) <= 0 /\ Compare(v, w) <= 0 => Compare(u, w) <= 0]_remoteVars
  BY <1>1
<1> QED BY <1>2, RemoteInvHolds, PTL DEF VersionsAreOrdered

(***************************************************************************)
(* A source changes only by an edit of that source, to what the edit says; *)
(* and the edit says truly whether the source was there.                   *)
(***************************************************************************)
THEOREM RemoteEditsKeepOtherSources == RemoteSpec => EditsKeepOtherSources
<1>1. ASSUME RemoteInv, RemoteNext, NEW s \in Sources, sources'[s] # sources[s]
      PROVE  \E e \in Editors : /\ edit[e].pc = "locked" /\ edit'[e].pc = "done"
                                /\ edit[e].id = s /\ sources'[s] = edit[e].config
                                /\ edit'[e].answer \in
                                      {"error", IF sources[s] = NONE THEN "new" ELSE "old"}
  <2>1. PICK e \in Editors : Save(e)
    <3>1. UNCHANGED sources \/ \E e \in Editors : Save(e)
      BY ZenonT(40), <1>1 DEF RemoteNext, Load, LockTimeout, PublishFile, PublishIndex, Begin,
         FetchFails, FetchIndex, Download, Store
    <3> QED BY <1>1, <3>1
  <2>2. EditsOK
    BY <1>1 DEF RemoteInv
  <2>3. /\ edit[e].pc = "locked" /\ edit[e].id \in Sources
        /\ sources' = sources \/ sources' = [sources EXCEPT ![edit[e].id] = edit[e].config]
    BY <2>1, <2>2, SaveFacts
  <2>4. edit[e].id = s /\ sources'[s] = edit[e].config
    BY <1>1, <2>2, <2>3 DEF EditsOK
  <2>5. PICK ans \in {"error", IF sources[edit[e].id] = NONE THEN "new" ELSE "old"} :
          Answered(e, ans)
    BY <2>1, <2>2, SaveFacts
  <2>6. edit'[e].pc = "done" /\ edit'[e].answer = ans
    BY <2>2, <2>5, AnsweredFacts
  <2> QED BY <2>3, <2>4, <2>5, <2>6
<1>2. RemoteInv /\ [RemoteNext]_remoteVars =>
        [\A s \in Sources : sources'[s] # sources[s] =>
            \E e \in Editors : /\ edit[e].pc = "locked" /\ edit'[e].pc = "done"
                               /\ edit[e].id = s /\ sources'[s] = edit[e].config
                               /\ edit'[e].answer \in
                                     {"error", IF sources[s] = NONE THEN "new" ELSE "old"}]_remoteVars
  BY <1>1
<1> QED BY <1>2, RemoteInvHolds, PTL DEF RemoteSpec, EditsKeepOtherSources

(***************************************************************************)
(* What is stored has the version that was asked for, or one not older     *)
(* than any in the index, and is what the checksum of the caller or of the *)
(* index names, though the site publishes between the two requests.        *)
(***************************************************************************)
THEOREM RemoteInstallsWhatWasNamed == RemoteSpec => InstallsWhatWasNamed
<1>1. ASSUME RemoteInv, RemoteNext, NEW c \in Installers, catalog' # catalog, call'[c] # call[c]
      PROVE  LET b == call[c].bundle
                 item == call[c].found
                 ask == call[c].ask
             IN  /\ b.id = ask.id
                 /\ IF ask.version # NONE THEN b.version = ask.version
                    ELSE \A v \in call[c].offered : Compare(v, b.version) <= 0
                 /\ b = IF ask.sha # NONE THEN ask.sha
                        ELSE IF item.sha # NONE THEN item.means ELSE b
  <2>1. PICK d \in Installers : Store(d)
    <3>1. UNCHANGED catalog \/ \E d \in Installers : Store(d)
      BY <1>1, Zenon DEF RemoteNext, Load, LockTimeout, Save, PublishFile, PublishIndex, Begin,
         FetchFails, FetchIndex, Download
    <3> QED BY <1>1, <3>1
  <2>2. PICK ans : Settle(d, ans)
    BY <2>1, StoreFacts
  <2>3. c = d
    BY <1>1, <2>2 DEF Settle, RemoteInv, CallsOK
  <2>4. call[c].pc = "store" /\ CallOK(call[c])
    BY <1>1, <2>1, <2>3, StoreFacts DEF RemoteInv, CallsOK
  <2> DEFINE b == call[c].bundle
             item == call[c].found
             ask == call[c].ask
  <2>5. Matches(item, call[c].offered, ask) /\ Proven(b, item, ask)
    BY <2>4 DEF CallOK
  <2>6. item.sha \in {NONE, item.means}
    BY <2>5 DEF Matches, Items
  <2>7. b.id = ask.id /\ b.version = item.version
    BY <2>5 DEF Matches, Proven
  <2>8. IF ask.version # NONE THEN b.version = ask.version
        ELSE \A v \in call[c].offered : Compare(v, b.version) <= 0
    BY <2>5, <2>7 DEF Matches
  <2>9. b = IF ask.sha # NONE THEN ask.sha ELSE IF item.sha # NONE THEN item.means ELSE b
    BY <2>5, <2>6 DEF Proven
  <2> QED BY <2>7, <2>8, <2>9
<1>2. RemoteInv /\ [RemoteNext]_remoteVars =>
        [\A c \in Installers : catalog' # catalog /\ call'[c] # call[c] =>
            LET b == call[c].bundle
                item == call[c].found
                ask == call[c].ask
            IN  /\ b.id = ask.id
                /\ IF ask.version # NONE THEN b.version = ask.version
                   ELSE \A v \in call[c].offered : Compare(v, b.version) <= 0
                /\ b = IF ask.sha # NONE THEN ask.sha
                       ELSE IF item.sha # NONE THEN item.means ELSE b]_remoteVars
  BY <1>1, Zenon
<1> QED BY <1>2, RemoteInvHolds, PTL DEF RemoteSpec, InstallsWhatWasNamed

-----------------------------------------------------------------------------
(***************************************************************************)
(* Templates.  Paths are sequences: what a prefix is, what is above a path, *)
(* and what an array gets when an element is written.                      *)
(***************************************************************************)
Paths == Seq(PathTokens)

(* A prefix has the same tokens as far as it goes.                         *)
LEMMA PrefixIs ==
  ASSUME NEW p \in Paths, NEW q \in Paths
  PROVE  IsPrefix(p, q) <=> Len(p) <= Len(q) /\ \A i \in 1 .. Len(p) : p[i] = q[i]
<1>1. CASE Len(p) <= Len(q)
  <2>1. /\ SubSeq(p, 1, Len(p)) \in Seq(PathTokens) /\ SubSeq(q, 1, Len(p)) \in Seq(PathTokens)
        /\ Len(SubSeq(p, 1, Len(p))) = Len(p) /\ Len(SubSeq(q, 1, Len(p))) = Len(p)
    BY <1>1 DEF Paths
  <2>2. /\ \A i \in 1 .. Len(p) : SubSeq(p, 1, Len(p))[i] = p[i]
        /\ \A i \in 1 .. Len(p) : SubSeq(q, 1, Len(p))[i] = q[i]
    BY <1>1 DEF Paths
  <2>3. SubSeq(p, 1, Len(p)) = SubSeq(q, 1, Len(p)) <=> \A i \in 1 .. Len(p) : p[i] = q[i]
    BY <2>1, <2>2
  <2> QED BY <1>1, <2>3 DEF IsPrefix
<1>2. CASE ~(Len(p) <= Len(q)) BY <1>2 DEF IsPrefix
<1> QED BY <1>1, <1>2

(* What is above a path is its proper prefixes.                            *)
LEMMA AboveIs ==
  ASSUME NEW path \in Paths, NEW p
  PROVE  p \in Above(path) <=> p \in Paths /\ Len(p) < Len(path) /\ IsPrefix(p, path)
<1>1. ASSUME NEW n \in 0 .. Len(path) - 1
      PROVE  /\ SubSeq(path, 1, n) \in Paths /\ Len(SubSeq(path, 1, n)) = n
             /\ \A i \in 1 .. n : SubSeq(path, 1, n)[i] = path[i]
  BY DEF Paths
<1>2. ASSUME p \in Above(path)
      PROVE  p \in Paths /\ Len(p) < Len(path) /\ IsPrefix(p, path)
  <2>1. PICK n \in 0 .. Len(path) - 1 : p = SubSeq(path, 1, n) BY <1>2 DEF Above
  <2>2. /\ p \in Paths /\ Len(p) = n /\ \A i \in 1 .. n : p[i] = path[i] BY <1>1, <2>1
  <2>3. Len(path) \in Nat BY DEF Paths
  <2>4. Len(p) < Len(path) BY <2>2, <2>3
  <2> QED BY <2>2, <2>4, PrefixIs
<1>3. ASSUME p \in Paths, Len(p) < Len(path), IsPrefix(p, path)
      PROVE  p \in Above(path)
  <2>1. Len(p) \in 0 .. Len(path) - 1 BY <1>3 DEF Paths
  <2>2. \A i \in 1 .. Len(p) : p[i] = path[i] BY <1>3, PrefixIs
  <2>3. SubSeq(path, 1, Len(p)) \in Paths /\ Len(SubSeq(path, 1, Len(p))) = Len(p)
        /\ \A i \in 1 .. Len(p) : SubSeq(path, 1, Len(p))[i] = path[i]
    BY <1>1, <2>1
  <2>4. p = SubSeq(path, 1, Len(p)) BY <1>3, <2>2, <2>3 DEF Paths
  <2> QED BY <2>1, <2>4 DEF Above
<1> QED BY <1>2, <1>3

(* The front of a path is the one next above it.                           *)
LEMMA FrontIs ==
  ASSUME NEW p \in Paths, p # <<>>
  PROVE  /\ Front(p) \in Paths /\ Len(Front(p)) = Len(p) - 1 /\ Len(p) \in Nat \ {0}
         /\ \A i \in 1 .. Len(p) - 1 : Front(p)[i] = p[i]
         /\ Last(p) \in PathTokens /\ Last(p) = p[Len(p)]
<1>1. p \in Seq(PathTokens) /\ Len(p) \in Nat \ {0} BY DEF Paths
<1>2. /\ SubSeq(p, 1, Len(p) - 1) \in Seq(PathTokens) /\ Len(SubSeq(p, 1, Len(p) - 1)) = Len(p) - 1
      /\ \A i \in 1 .. Len(p) - 1 : SubSeq(p, 1, Len(p) - 1)[i] = p[i]
  <2>1. ASSUME NEW n \in 0 .. Len(p)
        PROVE  /\ SubSeq(p, 1, n) \in Seq(PathTokens) /\ Len(SubSeq(p, 1, n)) = n
               /\ \A i \in 1 .. n : SubSeq(p, 1, n)[i] = p[i]
    BY <1>1
  <2>2. Len(p) - 1 \in 0 .. Len(p) BY <1>1
  <2> QED BY <2>1, <2>2
<1>3. p[Len(p)] \in PathTokens BY <1>1
<1> QED BY <1>1, <1>2, <1>3 DEF Front, Last, Paths

(* A token that is appended can be taken off again.                        *)
LEMMA AppendIs ==
  ASSUME NEW p \in Paths, NEW t \in PathTokens
  PROVE  /\ Append(p, t) \in Paths /\ Append(p, t) # <<>>
         /\ Front(Append(p, t)) = p /\ Last(Append(p, t)) = t
         /\ Len(Append(p, t)) = Len(p) + 1 /\ Len(p) \in Nat
         /\ \A i \in 1 .. Len(p) : Append(p, t)[i] = p[i]
<1>1. /\ Append(p, t) \in Paths /\ Append(p, t) # <<>>
      /\ Len(Append(p, t)) = Len(p) + 1 /\ Len(p) \in Nat
      /\ \A i \in 1 .. Len(p) : Append(p, t)[i] = p[i]
      /\ Append(p, t)[Len(p) + 1] = t
  BY DEF Paths
<1>2. /\ Front(Append(p, t)) \in Paths /\ Len(Front(Append(p, t))) = Len(p)
      /\ \A i \in 1 .. Len(p) : Front(Append(p, t))[i] = p[i]
  <2> DEFINE q == Append(p, t)
  <2>1. q \in Paths /\ q # <<>> /\ Len(q) - 1 = Len(p) /\ \A i \in 1 .. Len(p) : q[i] = p[i] BY <1>1
  <2> HIDE DEF q
  <2>2. /\ Front(q) \in Paths /\ Len(Front(q)) = Len(p)
        /\ \A i \in 1 .. Len(p) : Front(q)[i] = p[i]
    BY <2>1, FrontIs
  <2> QED BY <2>2 DEF q
<1>3. Front(Append(p, t)) = p BY <1>2 DEF Paths
<1> QED BY <1>1, <1>3 DEF Last

(* A path that begins with another is that one, or its front begins with   *)
(* it.                                                                     *)
LEMMA UnderFront ==
  ASSUME NEW path \in Paths, NEW p \in Paths, p # <<>>
  PROVE  IsPrefix(path, p) <=> path = p \/ IsPrefix(path, Front(p))
<1> DEFINE f == Front(p)
<1>1. /\ f \in Paths /\ Len(f) = Len(p) - 1 /\ Len(p) \in Nat \ {0}
      /\ \A i \in 1 .. Len(p) - 1 : f[i] = p[i]
  BY FrontIs
<1> HIDE DEF f
<1>2. Len(path) \in Nat BY DEF Paths
<1>3. ASSUME IsPrefix(path, f) PROVE IsPrefix(path, p)
  <2>1. Len(path) <= Len(f) /\ \A i \in 1 .. Len(path) : path[i] = f[i] BY <1>1, <1>3, PrefixIs
  <2>2. Len(path) <= Len(p) /\ \A i \in 1 .. Len(path) : path[i] = p[i] BY <1>1, <1>2, <2>1
  <2> QED BY <2>2, PrefixIs
<1>4. ASSUME IsPrefix(path, p), path # p PROVE IsPrefix(path, f)
  <2>1. Len(path) <= Len(p) /\ \A i \in 1 .. Len(path) : path[i] = p[i] BY <1>4, PrefixIs
  <2>2. Len(path) # Len(p) BY <1>4, <2>1 DEF Paths
  <2>3. Len(path) <= Len(f) /\ \A i \in 1 .. Len(path) : path[i] = f[i] BY <1>1, <1>2, <2>1, <2>2
  <2> QED BY <1>1, <2>3, PrefixIs
<1>5. IsPrefix(p, p) BY PrefixIs, <1>1
<1> QED BY <1>3, <1>4, <1>5 DEF f

(* Nothing above a path is at the path or below.                           *)
LEMMA AboveNotUnder ==
  ASSUME NEW path \in Paths, NEW p \in Above(path)
  PROVE  p \in Paths /\ ~IsPrefix(path, p) /\ p # path
<1>1. p \in Paths /\ Len(p) < Len(path) BY AboveIs
<1>2. Len(p) \in Nat /\ Len(path) \in Nat BY <1>1 DEF Paths
<1> QED BY <1>1, <1>2, PrefixIs

(* The path and what is above it, but for the root, lie below something    *)
(* above it.                                                               *)
LEMMA AboveFront ==
  ASSUME NEW path \in Paths, NEW p \in Above(path) \cup {path}, p # <<>>
  PROVE  Front(p) \in Above(path) /\ NextToken(path, Front(p)) = Last(p)
<1>1. p \in Paths /\ Len(p) <= Len(path) /\ IsPrefix(p, path)
  <2>1. CASE p \in Above(path)
    <3>1. p \in Paths /\ Len(p) < Len(path) /\ IsPrefix(p, path) BY <2>1, AboveIs
    <3>2. Len(p) \in Nat /\ Len(path) \in Nat BY <3>1 DEF Paths
    <3> QED BY <3>1, <3>2
  <2>2. CASE p = path
    <3>1. Len(path) \in Nat BY DEF Paths
    <3> QED BY <2>2, <3>1, PrefixIs
  <2> QED BY <2>1, <2>2
<1> DEFINE f == Front(p)
<1>2. /\ f \in Paths /\ Len(f) = Len(p) - 1 /\ Len(p) \in Nat \ {0}
      /\ \A i \in 1 .. Len(p) - 1 : f[i] = p[i] /\ Last(p) = p[Len(p)]
  BY <1>1, FrontIs
<1>3. Last(p) = p[Len(p)] BY <1>1, FrontIs
<1> HIDE DEF f
<1>4. Len(path) \in Nat BY DEF Paths
<1>5. \A i \in 1 .. Len(p) : p[i] = path[i] BY <1>1, PrefixIs
<1>6. Len(f) <= Len(path) /\ Len(f) < Len(path) /\ \A i \in 1 .. Len(f) : f[i] = path[i]
  BY <1>1, <1>2, <1>4, <1>5
<1>7. f \in Above(path) BY <1>2, <1>6, PrefixIs, AboveIs
<1>8. path[Len(f) + 1] = p[Len(p)] BY <1>2, <1>5
<1> QED BY <1>3, <1>7, <1>8 DEF f, NextToken

(* Padding adds elements to arrays on the way, and with one all before it. *)
LEMMA PaddingIs ==
  ASSUME NEW path \in Paths, NEW p \in Padding(path)
  PROVE  /\ p \in Paths /\ p # <<>>
         /\ Front(p) \in Above(path) /\ Last(p) \in DOMAIN IndexOf
         /\ Container(NextToken(path, Front(p))) = "arr"
         /\ \A t \in DOMAIN IndexOf :
               IndexOf[t] < IndexOf[Last(p)] => Append(Front(p), t) \in Padding(path)
<1> DEFINE Up(q) == {u \in DOMAIN IndexOf : IndexOf[u] <= IndexOf[NextToken(path, q)]}
           Arrays == {q \in Above(path) : Container(NextToken(path, q)) = "arr"}
<1>1. Padding(path) = UNION {{Append(q, t) : t \in Up(q)} : q \in Arrays} BY DEF Padding
<1>2. PICK q \in Arrays : \E t \in Up(q) : p = Append(q, t) BY <1>1
<1>3. PICK t \in Up(q) : p = Append(q, t) BY <1>2
<1>4. q \in Paths BY AboveNotUnder
<1>5. t \in PathTokens /\ t \in DOMAIN IndexOf BY TemplateAssumption
<1>6. p \in Paths /\ p # <<>> /\ Front(p) = q /\ Last(p) = t BY <1>3, <1>4, <1>5, AppendIs
<1>7. NextToken(path, q) \in DOMAIN IndexOf BY DEF Container
<1>8. ASSUME NEW u \in DOMAIN IndexOf, IndexOf[u] < IndexOf[t]
      PROVE  u \in Up(q)
  <2>1. IndexOf[u] \in Nat /\ IndexOf[t] \in Nat /\ IndexOf[NextToken(path, q)] \in Nat
    BY <1>5, <1>7, TemplateAssumption
  <2>2. IndexOf[t] <= IndexOf[NextToken(path, q)] OBVIOUS
  <2> QED BY <1>8, <2>1, <2>2
<1>9. \A u \in Up(q) : Append(q, u) \in Padding(path) BY <1>1
<1> HIDE DEF Up
<1> QED BY <1>5, <1>6, <1>8, <1>9

(* The elements before the index that is written are there.                *)
LEMMA PaddingHas ==
  ASSUME NEW path \in Paths, NEW p \in Above(path) \cup {path}, p # <<>>,
         Last(p) \in DOMAIN IndexOf, NEW t \in DOMAIN IndexOf, IndexOf[t] < IndexOf[Last(p)]
  PROVE  Append(Front(p), t) \in Padding(path)
<1>1. Front(p) \in Above(path) /\ NextToken(path, Front(p)) = Last(p) BY AboveFront
<1>2. Container(NextToken(path, Front(p))) = "arr" BY <1>1 DEF Container
<1>3. IndexOf[t] \in Nat /\ IndexOf[Last(p)] \in Nat BY TemplateAssumption
<1>4. IndexOf[t] <= IndexOf[NextToken(path, Front(p))] BY <1>1, <1>3
<1> QED BY <1>1, <1>2, <1>4 DEF Padding

-----------------------------------------------------------------------------
(***************************************************************************)
(* A value is written: the document stays a tree.                          *)
(***************************************************************************)
(* Where setJSONPointer writes, and what it leaves alone.                  *)
Written(new, doc, path, value) ==
    /\ DOMAIN new = {p \in DOMAIN doc : ~IsPrefix(path, p)}
                     \cup Above(path) \cup Padding(path) \cup {path}
    /\ DOMAIN new \subseteq Paths
    /\ At(new, path) = value
    /\ \A p \in Above(path) : At(new, p) = Container(NextToken(path, p))
    /\ \A p : p \notin Above(path) /\ ~IsPrefix(path, p) => At(new, p) = At(doc, p)

(* What a write leaves, stated without the definition of setJSONPointer.   *)
LEMMA SetIs ==
  ASSUME NEW doc, DOMAIN doc \subseteq Paths, NEW path \in Paths, NEW value
  PROVE  Written(SetJSONPointer(doc, path, value), doc, path, value)
<1> DEFINE new == SetJSONPointer(doc, path, value)
           places == {p \in DOMAIN doc : ~IsPrefix(path, p)} \cup Above(path) \cup Padding(path) \cup {path}
           there(p) == IF p = path THEN value
                       ELSE IF p \in Above(path) THEN Container(NextToken(path, p)) ELSE At(doc, p)
<1>1. new = [p \in places |-> there(p)] BY Zenon DEF SetJSONPointer
<1>2. DOMAIN new = places /\ \A p \in places : new[p] = there(p) BY <1>1
<1>3. places \subseteq Paths BY AboveNotUnder, PaddingIs
<1>4. At(new, path) = value BY <1>2 DEF At
<1>5. ASSUME NEW p \in Above(path) PROVE At(new, p) = Container(NextToken(path, p))
  <2>1. p # path BY AboveNotUnder
  <2>2. p \in places OBVIOUS
  <2> HIDE DEF new, places
  <2>3. new[p] = Container(NextToken(path, p)) BY <1>2, <2>1, <2>2
  <2> QED BY <1>2, <2>2, <2>3 DEF At
<1>6. ASSUME NEW p, p \notin Above(path), ~IsPrefix(path, p) PROVE At(new, p) = At(doc, p)
  <2>1. p # path BY <1>6, PrefixIs
  <2>2. CASE p \in places
    <3> HIDE DEF new, places
    <3>1. new[p] = At(doc, p) BY <1>2, <1>6, <2>1, <2>2
    <3> QED BY <1>2, <2>2, <3>1 DEF At
  <2>3. CASE p \notin places
    <3>1. p \notin DOMAIN doc BY <1>6, <2>3
    <3>2. p \notin DOMAIN new BY <1>2, <2>3
    <3> QED BY <3>1, <3>2 DEF At
  <2> QED BY <2>2, <2>3
<1> HIDE DEF new, there
<1>7. Written(new, doc, path, value) BY <1>2, <1>3, <1>4, <1>5, <1>6 DEF Written
<1> QED BY <1>7 DEF new

(* A tree stays one.                                                       *)
LEMMA SetKeepsTree ==
  ASSUME NEW doc, DOMAIN doc \subseteq Paths, IsTree(doc),
         NEW path \in Paths, Fits(doc, path), NEW value
  PROVE  IsTree(SetJSONPointer(doc, path, value))
<1> DEFINE new == SetJSONPointer(doc, path, value)
<1>1. /\ DOMAIN new = {p \in DOMAIN doc : ~IsPrefix(path, p)}
                      \cup Above(path) \cup Padding(path) \cup {path}
      /\ DOMAIN new \subseteq Paths
      /\ \A p \in Above(path) : At(new, p) = Container(NextToken(path, p))
      /\ \A p : p \notin Above(path) /\ ~IsPrefix(path, p) => At(new, p) = At(doc, p)
  <2>1. Written(new, doc, path, value) BY SetIs
  <2> HIDE DEF new
  <2> QED BY <2>1 DEF Written
<1> HIDE DEF new
<1> SUFFICES ASSUME NEW p \in DOMAIN new, p # <<>>
             PROVE  /\ At(new, Front(p)) = Container(Last(p))
                    /\ Last(p) \in DOMAIN IndexOf =>
                         \A t \in DOMAIN IndexOf :
                            IndexOf[t] < IndexOf[Last(p)] => Append(Front(p), t) \in DOMAIN new
  BY DEF IsTree, new
<1>2. CASE p \in Above(path) \cup {path}
  <2>1. Front(p) \in Above(path) /\ NextToken(path, Front(p)) = Last(p) BY <1>2, AboveFront
  <2>2. At(new, Front(p)) = Container(Last(p)) BY <1>1, <2>1
  <2>3. ASSUME Last(p) \in DOMAIN IndexOf, NEW t \in DOMAIN IndexOf, IndexOf[t] < IndexOf[Last(p)]
        PROVE  Append(Front(p), t) \in Padding(path)
    BY <1>2, <2>3, PaddingHas
  <2> QED BY <1>1, <2>2, <2>3
<1>3. CASE p \in Padding(path)
  <2>1. /\ Front(p) \in Above(path) /\ Last(p) \in DOMAIN IndexOf
        /\ Container(NextToken(path, Front(p))) = "arr"
        /\ \A t \in DOMAIN IndexOf :
              IndexOf[t] < IndexOf[Last(p)] => Append(Front(p), t) \in Padding(path)
    BY <1>3, PaddingIs
  <2>2. At(new, Front(p)) = Container(Last(p)) BY <1>1, <2>1 DEF Container
  <2> QED BY <1>1, <2>1, <2>2
<1>4. CASE p \in DOMAIN doc /\ ~IsPrefix(path, p)
  <2>1. p \in Paths BY <1>4
  <2>2. /\ At(doc, Front(p)) = Container(Last(p))
        /\ Last(p) \in DOMAIN IndexOf =>
             \A t \in DOMAIN IndexOf :
                IndexOf[t] < IndexOf[Last(p)] => Append(Front(p), t) \in DOMAIN doc
    BY <1>4 DEF IsTree
  <2>3. Front(p) \in Paths /\ ~IsPrefix(path, Front(p)) BY <1>4, <2>1, UnderFront, FrontIs
  <2>4. At(new, Front(p)) = Container(Last(p))
    <3>1. CASE Front(p) \in Above(path)
      <4>1. At(doc, Front(p)) \in {"null", Container(NextToken(path, Front(p)))}
        BY <3>1 DEF Fits
      <4>2. Container(Last(p)) # "null" BY DEF Container
      <4> QED BY <1>1, <2>2, <3>1, <4>1, <4>2
    <3>2. CASE Front(p) \notin Above(path) BY <1>1, <2>2, <2>3, <3>2
    <3> QED BY <3>1, <3>2
  <2>5. ASSUME Last(p) \in DOMAIN IndexOf, NEW t \in DOMAIN IndexOf, IndexOf[t] < IndexOf[Last(p)]
        PROVE  Append(Front(p), t) \in DOMAIN new
    <3> DEFINE q == Append(Front(p), t)
    <3>1. q \in DOMAIN doc BY <2>2, <2>5
    <3>2. t \in PathTokens BY TemplateAssumption
    <3>3. q \in Paths /\ q # <<>> /\ Front(q) = Front(p) BY <2>3, <3>2, AppendIs
    <3> HIDE DEF q
    <3>4. IsPrefix(path, q) => path = q BY <2>3, <3>3, UnderFront
    <3>5. q \in DOMAIN new BY <1>1, <3>1, <3>4
    <3> QED BY <3>5 DEF q
  <2> QED BY <2>4, <2>5
<1> QED BY <1>1, <1>2, <1>3, <1>4

-----------------------------------------------------------------------------
(***************************************************************************)
(* The sort of the bindings has one outcome.                               *)
(***************************************************************************)
LEMMA BeforeIsOrder ==
  ASSUME NEW a \in Bindings, NEW b \in Bindings
  PROVE  /\ ~Before(a, a)
         /\ Before(a, b) \/ Before(b, a) \/ (a.target = b.target /\ a.key = b.key)
         /\ \A c \in Bindings : Before(c, a) /\ Before(a, b) => Before(c, b)
<1>1. a.target \in Nat /\ b.target \in Nat /\ a.key \in Nat /\ b.key \in Nat
  BY TemplateAssumption DEF Bindings
<1>2. ASSUME NEW c \in Bindings, Before(c, a), Before(a, b) PROVE Before(c, b)
  <2>1. c.target \in Nat /\ c.key \in Nat BY TemplateAssumption DEF Bindings
  <2> QED BY <1>1, <1>2, <2>1 DEF Before
<1> QED BY <1>1, <1>2 DEF Before

(* No two bindings are each before the other.                              *)
LEMMA BeforeIsStrict ==
  ASSUME NEW a \in Bindings, NEW b \in Bindings, Before(a, b)
  PROVE  ~Before(b, a) /\ a # b
<1>1. a.target \in Nat /\ b.target \in Nat /\ a.key \in Nat /\ b.key \in Nat
  BY TemplateAssumption DEF Bindings
<1> QED BY <1>1 DEF Before

(* A valid list has no binding twice.                                      *)
LEMMA ValidIsBijection ==
  ASSUME NEW bs \in Seq(Bindings), ValidBindings(bs)
  PROVE  /\ IsFiniteSet(Range(bs)) /\ Cardinality(Range(bs)) = Len(bs) /\ Range(bs) \subseteq Bindings
         /\ \A b \in Range(bs) : \A c \in Range(bs) :
               b.target = c.target /\ b.key = c.key => b = c
<1> DEFINE n == Len(bs)
<1>1. n \in Nat /\ DOMAIN bs = 1 .. n /\ bs \in [1 .. n -> Range(bs)] /\ Range(bs) \subseteq Bindings
  BY DEF Range
<1> HIDE DEF n
<1>2. ASSUME NEW i \in 1 .. n, NEW j \in 1 .. n, bs[i].target = bs[j].target, bs[i].key = bs[j].key
      PROVE  i = j
  BY <1>1, <1>2 DEF ValidBindings
<1>3. \A b \in Range(bs) : \E i \in 1 .. n : bs[i] = b BY <1>1 DEF Range
<1>4. bs \in Bijection(1 .. n, Range(bs))
  <2>1. \A i, j \in 1 .. n : bs[i] = bs[j] => i = j BY <1>2
  <2> QED BY <1>1, <1>3, <2>1 DEF Bijection, Injection, Surjection, IsInjective
<1>5. IsFiniteSet(1 .. n) /\ Cardinality(1 .. n) = n BY <1>1, FS_Interval
<1>6. ExistsBijection(1 .. n, Range(bs)) BY <1>4 DEF ExistsBijection
<1>7. IsFiniteSet(Range(bs)) /\ Cardinality(Range(bs)) = n BY <1>5, <1>6, FS_Bijection
<1>8. ASSUME NEW b \in Range(bs), NEW c \in Range(bs), b.target = c.target, b.key = c.key
      PROVE  b = c
  <2>1. PICK i \in 1 .. n : bs[i] = b BY <1>3
  <2>2. PICK j \in 1 .. n : bs[j] = c BY <1>3
  <2> QED BY <1>2, <1>8, <2>1, <2>2
<1> QED BY <1>1, <1>7, <1>8 DEF n

(* Two bindings of a stored list are of different places or keys, and the  *)
(* sort has put the lesser first.                                          *)
InOrder(s) ==
    /\ s \in Seq(Bindings)
    /\ \A i, j \in DOMAIN s : i < j => Before(s[i], s[j])

(* Whatever the sort does, a stored list is in order and has the bindings  *)
(* of the list that was written.                                           *)
LEMMA CanonicalIs ==
  ASSUME NEW bs \in Seq(Bindings), ValidBindings(bs), NEW s \in CanonicalBindings(bs)
  PROVE  InOrder(s) /\ Len(s) = Len(bs) /\ Range(s) = Range(bs)
<1> DEFINE n == Len(bs)
           R == Range(bs)
<1>1. n \in Nat /\ DOMAIN bs = 1 .. n
  OBVIOUS
<1>2. /\ s \in [1 .. n -> R] /\ Range(s) = R
      /\ \A i, j \in 1 .. n : i < j => ~Before(s[j], s[i])
  BY <1>1 DEF CanonicalBindings
<1>3. /\ IsFiniteSet(R) /\ Cardinality(R) = n /\ R \subseteq Bindings
      /\ \A b \in R : \A c \in R : b.target = c.target /\ b.key = c.key => b = c
  BY ValidIsBijection
<1> HIDE DEF n, R
<1>4. s \in Seq(Bindings) /\ Len(s) = n /\ DOMAIN s = 1 .. n
  <2>1. s \in [1 .. n -> Bindings] BY <1>2, <1>3
  <2> QED BY <1>1, <2>1
<1>5. s \in Injection(1 .. n, R)
  <2>1. IsFiniteSet(1 .. n) /\ Cardinality(1 .. n) = n BY <1>1, FS_Interval
  <2>2. \A b \in Range(s) : \E i \in DOMAIN s : s[i] = b BY DEF Range
  <2>3. s \in Surjection(1 .. n, R) BY <1>2, <1>4, <2>2 DEF Surjection
  <2> QED BY <1>3, <2>1, <2>3, FS_SurjSameCardinalityImpliesInj
<1>6. ASSUME NEW i \in 1 .. n, NEW j \in 1 .. n, i < j
      PROVE  Before(s[i], s[j])
  <2>1. i # j BY <1>1, <1>6
  <2>2. s[i] # s[j] BY <1>5, <2>1 DEF Injection, IsInjective
  <2>3. s[i] \in R /\ s[j] \in R BY <1>2
  <2>4. ~(s[i].target = s[j].target /\ s[i].key = s[j].key) BY <1>3, <2>2, <2>3
  <2>5. ~Before(s[j], s[i]) BY <1>2, <1>6
  <2>6. s[i] \in Bindings /\ s[j] \in Bindings BY <1>3, <2>3
  <2> QED BY <2>4, <2>5, <2>6, BeforeIsOrder
<1> QED BY <1>2, <1>4, <1>6 DEF InOrder, n, R

(* Where two lists in order first differ, the one has a binding before the *)
(* other's.  As this is so both ways round, they do not differ.            *)
LEMMA NextInOrder ==
  ASSUME NEW s, NEW t, InOrder(s), InOrder(t), Range(s) = Range(t),
         NEW i \in DOMAIN s, i \in DOMAIN t, \A j \in DOMAIN s : j < i => s[j] = t[j],
         s[i] # t[i]
  PROVE  Before(s[i], t[i])
<1>1. PICK k \in DOMAIN s : s[k] = t[i]
  <2>1. t[i] \in Range(s) BY DEF Range
  <2> QED BY <2>1 DEF Range
<1>2. DOMAIN s = 1 .. Len(s) /\ Len(s) \in Nat /\ DOMAIN t = 1 .. Len(t) /\ Len(t) \in Nat
  BY DEF InOrder
<1>3. s[i] \in Bindings /\ t[i] \in Bindings BY DEF InOrder
<1>4. CASE k < i
  <2>1. k \in DOMAIN t BY <1>2, <1>4
  <2>2. t[k] \in Bindings /\ t[k] = t[i] BY <1>1, <1>4, <2>1 DEF InOrder
  <2>3. Before(t[k], t[i]) BY <1>4, <2>1 DEF InOrder
  <2> QED BY <1>3, <2>2, <2>3, BeforeIsStrict
<1>5. CASE k = i BY <1>1, <1>5
<1>6. CASE i < k BY <1>1, <1>6 DEF InOrder
<1> QED BY <1>2, <1>4, <1>5, <1>6

(* There is one order only.                                                *)
LEMMA OrderIsUnique ==
  ASSUME NEW s, NEW t, InOrder(s), InOrder(t), Range(s) = Range(t), Len(s) = Len(t)
  PROVE  s = t
<1>1. DOMAIN s = 1 .. Len(s) /\ Len(s) \in Nat /\ DOMAIN t = DOMAIN s BY DEF InOrder
<1> DEFINE D == {i \in DOMAIN s : s[i] # t[i]}
<1>2. SUFFICES ASSUME D # {} PROVE FALSE BY <1>1 DEF InOrder
<1>3. D \in SUBSET Nat BY <1>1
<1> HIDE DEF D
<1>4. PICK i \in D : \A j \in D : i <= j BY <1>2, <1>3, MinIsLeast
<1>5. i \in DOMAIN s /\ i \in DOMAIN t /\ s[i] # t[i] BY <1>1 DEF D
<1>6. \A j \in DOMAIN s : j < i => s[j] = t[j] BY <1>1, <1>4, <1>5 DEF D
<1>7. Before(s[i], t[i]) BY <1>5, <1>6, NextInOrder
<1>8. Before(t[i], s[i]) BY <1>1, <1>5, <1>6, NextInOrder
<1>9. s[i] \in Bindings /\ t[i] \in Bindings BY <1>5 DEF InOrder
<1> QED BY <1>7, <1>8, <1>9, BeforeIsStrict

(* A list can be sorted: a binding's place is the number of those before.  *)
LEMMA SortExists ==
  ASSUME NEW bs \in Seq(Bindings), ValidBindings(bs)
  PROVE  CanonicalBindings(bs) # {}
<1> DEFINE n == Len(bs)
           R == Range(bs)
           Earlier(b) == {c \in R : Before(c, b)}
           rank == [b \in R |-> Cardinality(Earlier(b)) + 1]
<1>1. n \in Nat /\ DOMAIN bs = 1 .. n OBVIOUS
<1>2. /\ IsFiniteSet(R) /\ Cardinality(R) = n /\ R \subseteq Bindings
      /\ \A b \in R : \A c \in R : b.target = c.target /\ b.key = c.key => b = c
  BY ValidIsBijection
<1> HIDE DEF n, R
<1>3. ASSUME NEW b \in R PROVE IsFiniteSet(Earlier(b)) /\ Cardinality(Earlier(b)) \in 0 .. n - 1
  <2>1. b \in Bindings BY <1>2
  <2>2. ~Before(b, b) BY <2>1, BeforeIsOrder
  <2>3. Earlier(b) \in SUBSET (R \ {b}) BY <2>2
  <2> HIDE DEF Earlier
  <2>4. IsFiniteSet(R \ {b}) /\ Cardinality(R \ {b}) = n - 1 BY <1>2, FS_RemoveElement
  <2>5. IsFiniteSet(Earlier(b)) /\ Cardinality(Earlier(b)) <= n - 1 BY <2>3, <2>4, FS_Subset
  <2>6. Cardinality(Earlier(b)) \in Nat BY <2>5, FS_CardinalityType
  <2> QED BY <1>1, <2>5, <2>6
<1>4. ASSUME NEW b \in R, NEW c \in R, Before(b, c)
      PROVE  Cardinality(Earlier(b)) < Cardinality(Earlier(c))
  <2>1. b \in Bindings /\ c \in Bindings BY <1>2
  <2>2. \A d \in R : Before(d, b) => Before(d, c) BY <1>2, <1>4, <2>1, BeforeIsOrder
  <2>3. Earlier(b) \in SUBSET Earlier(c) BY <2>2
  <2>4. b \in Earlier(c) /\ b \notin Earlier(b) BY <1>4, <2>1, BeforeIsOrder
  <2> HIDE DEF Earlier
  <2>5. IsFiniteSet(Earlier(c)) BY <1>3
  <2>6. Cardinality(Earlier(b)) <= Cardinality(Earlier(c)) BY <2>3, <2>5, FS_Subset
  <2>7. Cardinality(Earlier(b)) # Cardinality(Earlier(c)) BY <2>3, <2>4, <2>5, FS_Subset
  <2>8. Cardinality(Earlier(b)) \in Int /\ Cardinality(Earlier(c)) \in Int BY <1>3
  <2> QED BY <2>6, <2>7, <2>8
<1>5. rank \in [R -> 1 .. n] /\ \A b \in R : rank[b] = Cardinality(Earlier(b)) + 1
  <2> HIDE DEF Earlier
  <2>1. \A b \in R : Cardinality(Earlier(b)) + 1 \in 1 .. n BY <1>1, <1>3
  <2> QED BY <2>1
<1>6. \A b, c \in R : Before(b, c) => rank[b] < rank[c]
  <2> HIDE DEF Earlier, rank
  <2> TAKE b, c \in R
  <2> HAVE Before(b, c)
  <2>1. Cardinality(Earlier(b)) < Cardinality(Earlier(c)) BY <1>4
  <2>2. Cardinality(Earlier(b)) \in Int /\ Cardinality(Earlier(c)) \in Int BY <1>3
  <2> QED BY <1>5, <2>1, <2>2
<1> HIDE DEF rank
<1>7. \A b, c \in R : rank[b] = rank[c] => b = c
  <2> TAKE b, c \in R
  <2> HAVE rank[b] = rank[c]
  <2>1. rank[b] \in Int BY <1>5
  <2>2. ~Before(b, c) /\ ~Before(c, b) BY <1>6, <2>1
  <2> QED BY <1>2, <2>2, BeforeIsOrder
<1>8. \A i \in 1 .. n : \E b \in R : rank[b] = i
  <2>1. rank \in Injection(R, 1 .. n) BY <1>5, <1>7 DEF Injection, IsInjective
  <2>2. IsFiniteSet(1 .. n) /\ Cardinality(1 .. n) = n BY <1>1, FS_Interval
  <2>3. rank \in Surjection(R, 1 .. n) BY <1>2, <2>1, <2>2, FS_Injection
  <2> QED BY <2>3 DEF Surjection
<1> DEFINE s == [i \in 1 .. n |-> CHOOSE b \in R : rank[b] = i]
<1>9. \A i \in 1 .. n : s[i] \in R /\ rank[s[i]] = i BY <1>8
<1>10. s \in [1 .. n -> R] BY <1>9
<1> HIDE DEF s
<1>11. \A b \in R : s[rank[b]] = b BY <1>5, <1>7, <1>9
<1>12. Range(s) = R
  <2>1. DOMAIN s = 1 .. n BY <1>10
  <2>2. \A x : x \in Range(s) <=> \E i \in 1 .. n : s[i] = x BY <2>1 DEF Range
  <2>3. \A x : x \in Range(s) => x \in R BY <1>9, <2>2
  <2>4. \A x : x \in R => x \in Range(s) BY <1>5, <1>11, <2>2
  <2> QED BY <2>3, <2>4
<1>13. ASSUME NEW i \in 1 .. n, NEW j \in 1 .. n, i < j PROVE ~Before(s[j], s[i])
  <2>1. Before(s[j], s[i]) => rank[s[j]] < rank[s[i]] BY <1>6, <1>9
  <2> QED BY <1>1, <1>9, <1>13, <2>1
<1>14. s \in CanonicalBindings(bs)
  <2>1. s \in [DOMAIN bs -> Range(bs)] /\ Range(s) = Range(bs) BY <1>1, <1>10, <1>12 DEF R, n
  <2>2. \A i, j \in DOMAIN bs : i < j => ~Before(s[j], s[i]) BY <1>1, <1>13
  <2> QED BY <2>1, <2>2 DEF CanonicalBindings
<1> QED BY <1>14

(* There is one way to sort a valid list, and it does not depend on the    *)
(* order in which the list was written.                                    *)
THEOREM StoredOrderIsUnique ==
  ASSUME NEW bs \in Seq(Bindings), ValidBindings(bs),
         NEW cs \in Seq(Bindings), ValidBindings(cs), Range(bs) = Range(cs)
  PROVE  \E s : CanonicalBindings(bs) = {s} /\ CanonicalBindings(cs) = {s}
<1>1. Len(bs) = Len(cs) BY ValidIsBijection
<1>2. \A s, t \in CanonicalBindings(bs) \cup CanonicalBindings(cs) : s = t
  <2> TAKE s, t \in CanonicalBindings(bs) \cup CanonicalBindings(cs)
  <2>1. InOrder(s) /\ Len(s) = Len(bs) /\ Range(s) = Range(bs) BY <1>1, CanonicalIs
  <2>2. InOrder(t) /\ Len(t) = Len(bs) /\ Range(t) = Range(bs) BY <1>1, CanonicalIs
  <2> QED BY <2>1, <2>2, OrderIsUnique
<1>3. CanonicalBindings(bs) # {} /\ CanonicalBindings(cs) # {} BY SortExists
<1>4. PICK s : s \in CanonicalBindings(bs) BY <1>3
<1>5. CanonicalBindings(bs) = {s} /\ CanonicalBindings(cs) = {s} BY <1>2, <1>3, <1>4
<1> QED BY <1>5

-----------------------------------------------------------------------------
(***************************************************************************)
(* The loop over the bindings, and what holds after n turns.               *)
(***************************************************************************)
Nothing(base) == [doc |-> base, missing |-> {}, failed |-> FALSE]

(* The loop is well defined: there is a function that follows its turns.   *)
Turns(f, n, base, bs, inputs) ==
    f = [k \in 0 .. n |-> IF k = 0 THEN Nothing(base) ELSE Bind(f[k - 1], bs[k], inputs)]

(* By well-foundedness there is no least number of turns without one.      *)
LEMMA TurnsExist ==
  ASSUME NEW base, NEW bs, NEW inputs, NEW n \in Nat
  PROVE  \E f : Turns(f, n, base, bs, inputs)
<1> DEFINE D == {m \in Nat : ~\E f : Turns(f, m, base, bs, inputs)}
<1> SUFFICES ASSUME D # {} PROVE FALSE OBVIOUS
<1>1. D \in SUBSET Nat OBVIOUS
<1> HIDE DEF D
<1>2. PICK m \in D : \A k \in D : m <= k BY <1>1, MinIsLeast
<1>3. m \in Nat /\ ~\E f : Turns(f, m, base, bs, inputs) BY <1>2 DEF D
<1>4. CASE m = 0
  <2> DEFINE f == [k \in 0 .. 0 |-> Nothing(base)]
  <2>1. f = [k \in 0 .. 0 |-> IF k = 0 THEN Nothing(base) ELSE Bind(f[k - 1], bs[k], inputs)]
    <3>1. \A k \in 0 .. 0 : k = 0 OBVIOUS
    <3> QED BY <3>1
  <2> QED BY <1>3, <1>4, <2>1 DEF Turns
<1>5. CASE m # 0
  <2>1. m - 1 \in Nat /\ m - 1 < m BY <1>3, <1>5
  <2>2. m - 1 \notin D BY <1>2, <1>3, <2>1
  <2>3. PICK g : Turns(g, m - 1, base, bs, inputs) BY <2>1, <2>2 DEF D
  <2> DEFINE f == [k \in 0 .. m |-> IF k = m THEN Bind(g[m - 1], bs[m], inputs) ELSE g[k]]
  <2>4. \A k \in 0 .. m - 1 : g[k] = IF k = 0 THEN Nothing(base) ELSE Bind(g[k - 1], bs[k], inputs)
    <3>1. g = [k \in 0 .. m - 1 |-> IF k = 0 THEN Nothing(base) ELSE Bind(g[k - 1], bs[k], inputs)]
      BY <2>3 DEF Turns
    <3> QED BY <3>1, Zenon
  <2>5. \A k \in 0 .. m - 1 : f[k] = g[k]
    BY <1>3
  <2>6. \A k \in 0 .. m : f[k] = IF k = 0 THEN Nothing(base) ELSE Bind(f[k - 1], bs[k], inputs)
    <3> TAKE k \in 0 .. m
    <3>1. CASE k = m
      <4>1. f[m] = Bind(g[m - 1], bs[m], inputs) /\ m - 1 \in 0 .. m - 1 BY <1>3, <1>5, <2>1
      <4>2. f[m] = Bind(f[m - 1], bs[m], inputs) BY <2>5, <4>1
      <4> QED BY <1>5, <3>1, <4>2
    <3>2. CASE k # m /\ k # 0
      <4>1. k \in 0 .. m - 1 /\ k - 1 \in 0 .. m - 1 BY <1>3, <3>2
      <4> HIDE DEF f
      <4> QED BY <2>4, <2>5, <3>2, <4>1
    <3>3. CASE k = 0 /\ k # m
      <4>1. 0 \in 0 .. m - 1 BY <1>3, <1>5
      <4> HIDE DEF f
      <4> QED BY <2>4, <2>5, <3>3, <4>1
    <3> QED BY <3>1, <3>2, <3>3
  <2>7. f = [k \in 0 .. m |-> f[k]] OBVIOUS
  <2> HIDE DEF f
  <2>8. f = [k \in 0 .. m |-> IF k = 0 THEN Nothing(base) ELSE Bind(f[k - 1], bs[k], inputs)]
    BY <2>6, <2>7
  <2> QED BY <1>3, <2>8 DEF Turns
<1> QED BY <1>4, <1>5

(* What the turns of the loop come to.                                     *)
Unrolls(f, base, bs, inputs) ==
    /\ RenderBindings(base, bs, inputs) = f[Len(bs)]
    /\ f[0] = Nothing(base)
    /\ \A n \in 1 .. Len(bs) : f[n] = Bind(f[n - 1], bs[n], inputs)

(* What the loop returns is what its last turn leaves.                     *)
LEMMA RenderBindingsIs ==
  ASSUME NEW base, NEW bs, NEW inputs, Len(bs) \in Nat
  PROVE  \E f : Unrolls(f, base, bs, inputs)
<1> DEFINE done == CHOOSE f : Turns(f, Len(bs), base, bs, inputs)
<1>1. Turns(done, Len(bs), base, bs, inputs) BY TurnsExist
<1>2. RenderBindings(base, bs, inputs) = done[Len(bs)]
  BY DEF RenderBindings, Turns, Nothing
<1> HIDE DEF done
<1>3. done = [k \in 0 .. Len(bs) |-> IF k = 0 THEN Nothing(base) ELSE Bind(done[k - 1], bs[k], inputs)]
  BY <1>1 DEF Turns
<1>4. \A k \in 0 .. Len(bs) : done[k] = IF k = 0 THEN Nothing(base) ELSE Bind(done[k - 1], bs[k], inputs)
  BY <1>3, Zenon
<1>5. 0 \in 0 .. Len(bs) /\ \A n \in 1 .. Len(bs) : n \in 0 .. Len(bs) /\ n # 0 OBVIOUS
<1>6. done[0] = Nothing(base) /\ \A n \in 1 .. Len(bs) : done[n] = Bind(done[n - 1], bs[n], inputs)
  BY <1>4, <1>5
<1> QED BY <1>2, <1>6 DEF Unrolls

Place(b) == PathOf[b.target]

(* The bindings among the first n that put a value in.                     *)
Puts(s, inputs, n) == {i \in 1 .. n : ValueOf(s[i], inputs) # NOVALUE}

Lacking(s, inputs, n, b) ==
    \E i \in 1 .. n : s[i] = b /\ b.required /\ ValueOf(b, inputs) = NOVALUE

(* After n turns: every value is in its place, or a later one took it, and *)
(* what no binding touches is as it was.                                   *)
PlacedIn(doc, n, s, inputs) ==
    \A i \in Puts(s, inputs, n) :
        \/ At(doc, Place(s[i])) = ValueOf(s[i], inputs)
        \/ \E j \in Puts(s, inputs, n) : WritesOver(s[j], s[i])

KeptIn(doc, n, base, s, inputs) ==
    \A p \in DOMAIN base :
        \/ At(doc, p) = base[p]
        \/ \E i \in Puts(s, inputs, n) :
              IsPrefix(Place(s[i]), p) \/ IsStrictPrefix(p, Place(s[i]))

LoopOK(r, n, base, s, inputs) ==
    /\ r \in [doc : {r.doc}, missing : {r.missing}, failed : BOOLEAN]
    /\ ~r.failed =>
          /\ DOMAIN r.doc \subseteq Paths /\ IsTree(r.doc)
          /\ \A b : b \in r.missing <=> Lacking(s, inputs, n, b)
          /\ PlacedIn(r.doc, n, s, inputs) /\ KeptIn(r.doc, n, base, s, inputs)

(* Before the first turn, nothing is touched.                              *)
LEMMA LoopStarts ==
  ASSUME NEW base, DOMAIN base \subseteq Paths, IsTree(base), NEW s, NEW inputs
  PROVE  LoopOK(Nothing(base), 0, base, s, inputs)
<1>1. 1 .. 0 = {} OBVIOUS
<1>2. /\ Nothing(base).doc = base /\ Nothing(base).missing = {} /\ Nothing(base).failed = FALSE
      /\ Nothing(base) \in [doc : {base}, missing : {{}}, failed : BOOLEAN]
  BY DEF Nothing
<1>3. Puts(s, inputs, 0) = {} BY <1>1 DEF Puts
<1>4. \A b : ~Lacking(s, inputs, 0, b) BY <1>1 DEF Lacking
<1>5. PlacedIn(base, 0, s, inputs) BY <1>3 DEF PlacedIn
<1>6. KeptIn(base, 0, base, s, inputs) BY DEF KeptIn, At
<1> QED BY <1>2, <1>4, <1>5, <1>6 DEF LoopOK

(* A turn that has nothing to put in.                                      *)
LEMMA SkipKeepsLoop ==
  ASSUME NEW base, NEW s, InOrder(s), NEW inputs, NEW n \in 1 .. Len(s), NEW r,
         LoopOK(r, n - 1, base, s, inputs), ~r.failed, ValueOf(s[n], inputs) = NOVALUE
  PROVE  LoopOK(Bind(r, s[n], inputs), n, base, s, inputs)
<1> DEFINE b == s[n]
           more == IF b.required THEN r.missing \cup {b} ELSE r.missing
           new == Bind(r, b, inputs)
<1>1. n \in Nat \ {0} /\ Len(s) \in Nat BY DEF InOrder
<1>2. r \in [doc : {r.doc}, missing : {r.missing}, failed : BOOLEAN] BY DEF LoopOK
<1>3. new = IF b.required THEN [r EXCEPT !.missing = @ \cup {b}] ELSE r
  BY DEF Bind
<1>4. /\ new.doc = r.doc /\ new.missing = more /\ new.failed = FALSE
      /\ new \in [doc : {new.doc}, missing : {new.missing}, failed : BOOLEAN]
  <2> HIDE DEF new, b
  <2>1. CASE b.required BY <1>2, <1>3, <2>1
  <2>2. CASE ~b.required BY <1>2, <1>3, <2>2
  <2> QED BY <2>1, <2>2
<1>5. /\ DOMAIN r.doc \subseteq Paths /\ IsTree(r.doc)
      /\ \A c : c \in r.missing <=> Lacking(s, inputs, n - 1, c)
      /\ PlacedIn(r.doc, n - 1, s, inputs) /\ KeptIn(r.doc, n - 1, base, s, inputs)
  BY DEF LoopOK
<1>6. \A i : i \in 1 .. n <=> i \in 1 .. n - 1 \/ i = n BY <1>1
<1>7. Puts(s, inputs, n) = Puts(s, inputs, n - 1)
  <2>1. \A i : i \in Puts(s, inputs, n) <=> i \in Puts(s, inputs, n - 1) BY <1>6 DEF Puts
  <2> QED BY <2>1
<1>8. \A c : c \in more <=> Lacking(s, inputs, n, c)
  <2> TAKE c
  <2>1. Lacking(s, inputs, n, c) <=> Lacking(s, inputs, n - 1, c) \/ (c = s[n] /\ c.required)
    BY <1>6 DEF Lacking
  <2> QED BY <1>5, <2>1
<1>9. PlacedIn(r.doc, n, s, inputs) /\ KeptIn(r.doc, n, base, s, inputs)
  BY <1>5, <1>7 DEF PlacedIn, KeptIn
<1> HIDE DEF new, more
<1>10. LoopOK(new, n, base, s, inputs) BY <1>4, <1>5, <1>8, <1>9 DEF LoopOK
<1> QED BY <1>10 DEF new

(* A turn that writes: what it erases was put in by one before it, of the  *)
(* same place, since places come before those inside them.                 *)
LEMMA WriteKeepsLoop ==
  ASSUME NEW base, NEW s, InOrder(s), NEW inputs, NEW n \in 1 .. Len(s), NEW r,
         DOMAIN base \subseteq Paths,
         LoopOK(r, n - 1, base, s, inputs), ~r.failed, ValueOf(s[n], inputs) # NOVALUE,
         Fits(r.doc, Place(s[n]))
  PROVE  LoopOK(Bind(r, s[n], inputs), n, base, s, inputs)
<1> DEFINE b == s[n]
           path == Place(b)
           value == ValueOf(b, inputs)
           doc == SetJSONPointer(r.doc, path, value)
           new == Bind(r, b, inputs)
<1>1. n \in Nat \ {0} /\ Len(s) \in Nat /\ DOMAIN s = 1 .. Len(s) BY DEF InOrder
<1>2. r \in [doc : {r.doc}, missing : {r.missing}, failed : BOOLEAN] BY DEF LoopOK
<1>3. new = [r EXCEPT !.doc = doc] BY DEF Bind, Place
<1>4. /\ new.doc = doc /\ new.missing = r.missing /\ new.failed = FALSE
      /\ new \in [doc : {new.doc}, missing : {new.missing}, failed : BOOLEAN]
  <2> HIDE DEF new, doc
  <2> QED BY <1>2, <1>3
<1>5. /\ DOMAIN r.doc \subseteq Paths /\ IsTree(r.doc)
      /\ \A c : c \in r.missing <=> Lacking(s, inputs, n - 1, c)
      /\ PlacedIn(r.doc, n - 1, s, inputs) /\ KeptIn(r.doc, n - 1, base, s, inputs)
  BY DEF LoopOK
<1>6. \A i : i \in 1 .. n <=> i \in 1 .. n - 1 \/ i = n BY <1>1
<1>7. \A i \in 1 .. n : s[i] \in Bindings /\ Place(s[i]) \in Paths
  <2>1. \A i \in 1 .. n : s[i] \in Bindings BY <1>1 DEF InOrder
  <2> QED BY <2>1, TemplateAssumption DEF Place, Paths, Bindings
<1>8. path \in Paths /\ path # <<>> BY <1>1, <1>7 DEF Fits
<1> HIDE DEF path
<1>9. Written(doc, r.doc, path, value) /\ IsTree(doc)
  BY <1>5, <1>8, SetIs, SetKeepsTree DEF path
<1> HIDE DEF doc
<1>10. \A i : i \in Puts(s, inputs, n) <=> i \in Puts(s, inputs, n - 1) \/ i = n
  BY <1>6 DEF Puts
<1>11. \A c : c \in r.missing <=> Lacking(s, inputs, n, c)
  <2> TAKE c
  <2>1. Lacking(s, inputs, n, c) <=> Lacking(s, inputs, n - 1, c)
    BY <1>6 DEF Lacking
  <2> QED BY <1>5, <2>1
<1>12. PlacedIn(doc, n, s, inputs)
  <2> SUFFICES ASSUME NEW i \in Puts(s, inputs, n)
               PROVE  \/ At(doc, Place(s[i])) = ValueOf(s[i], inputs)
                      \/ \E j \in Puts(s, inputs, n) : WritesOver(s[j], s[i])
    BY DEF PlacedIn
  <2>1. CASE i = n BY <1>9, <2>1 DEF Written, path
  <2>2. CASE i # n
    <3>1. i \in Puts(s, inputs, n - 1) /\ i \in 1 .. n - 1 /\ i \in 1 .. n BY <1>6, <1>10, <2>2 DEF Puts
    <3> DEFINE p == Place(s[i])
    <3>2. p \in Paths /\ s[i] \in Bindings BY <1>7, <3>1
    <3>3. Before(s[i], b)
      <4>1. i < n /\ i \in DOMAIN s /\ n \in DOMAIN s BY <1>1, <3>1
      <4> QED BY <4>1 DEF InOrder
    <3>4. CASE \E j \in Puts(s, inputs, n - 1) : WritesOver(s[j], s[i])
      BY <1>10, <3>4
    <3>5. /\ s[i].target \in Targets /\ b.target \in Targets
          /\ b.target > s[i].target \/ (b.target = s[i].target /\ b.key > s[i].key)
          /\ s[i].target \in Nat /\ b.target \in Nat
      <4>1. s[i].target \in Targets /\ b.target \in Targets /\ s[i].target \in Nat /\ b.target \in Nat
            /\ s[i].key \in Nat /\ b.key \in Nat
        BY <1>1, <1>7, <3>2, TemplateAssumption DEF Bindings
      <4> QED BY <3>3, <4>1 DEF Before
    <3>6. CASE p \in Above(path) \/ IsPrefix(path, p)
      <4> DEFINE from == PathOf[s[i].target]
                 to == PathOf[b.target]
      <4>1. p = from /\ path = to BY DEF Place, path
      <4>2. IsPrefix(from, to) \/ IsPrefix(to, from) BY <1>8, <3>6, <4>1, AboveIs
      <4>3. WritesOver(b, s[i])
        <5>1. CASE IsPrefix(from, to) BY <3>5, <5>1, Zenon DEF WritesOver
        <5>2. CASE ~IsPrefix(from, to)
          <6>1. IsStrictPrefix(to, from) BY <4>2, <5>2 DEF IsStrictPrefix
          <6>2. to # <<>> BY <1>8, <4>1
          <6>3. ~({s[i].target, b.target} \subseteq PlainTargets)
            <7>1. SUFFICES ASSUME s[i].target \in PlainTargets, b.target \in PlainTargets PROVE FALSE
              OBVIOUS
            <7>2. b.target < s[i].target BY <6>1, <6>2, <7>1, TemplateAssumption, Zenon
            <7> QED BY <3>5, <7>2
          <6> QED BY <3>5, <4>2, <5>2, <6>3, Zenon DEF WritesOver
        <5> QED BY <5>1, <5>2
      <4> QED BY <1>10, <4>3
    <3>7. CASE /\ p \notin Above(path) /\ ~IsPrefix(path, p)
               /\ At(r.doc, p) = ValueOf(s[i], inputs)
      BY <1>9, <3>7 DEF Written
    <3> QED BY <1>5, <3>1, <3>4, <3>6, <3>7 DEF PlacedIn
  <2> QED BY <2>1, <2>2
<1>13. KeptIn(doc, n, base, s, inputs)
  <2> SUFFICES ASSUME NEW p \in DOMAIN base
               PROVE  \/ At(doc, p) = base[p]
                      \/ \E i \in Puts(s, inputs, n) :
                            IsPrefix(Place(s[i]), p) \/ IsStrictPrefix(p, Place(s[i]))
    BY DEF KeptIn
  <2>1. CASE \E i \in Puts(s, inputs, n - 1) :
                IsPrefix(Place(s[i]), p) \/ IsStrictPrefix(p, Place(s[i]))
    BY <1>10, <2>1
  <2>2. CASE p \in Above(path)
    <3>1. IsStrictPrefix(p, path) BY <1>8, <2>2, AboveIs, AboveNotUnder DEF IsStrictPrefix
    <3> QED BY <1>10, <3>1 DEF path
  <2>3. CASE IsPrefix(path, p) BY <1>10, <2>3 DEF path
  <2>4. CASE p \notin Above(path) /\ ~IsPrefix(path, p) /\ At(r.doc, p) = base[p]
    BY <1>9, <2>4 DEF Written
  <2> QED BY <1>5, <2>1, <2>2, <2>3, <2>4 DEF KeptIn
<1>14. DOMAIN doc \subseteq Paths BY <1>9 DEF Written
<1> HIDE DEF new
<1>15. LoopOK(new, n, base, s, inputs) BY <1>4, <1>9, <1>11, <1>12, <1>13, <1>14 DEF LoopOK
<1> QED BY <1>15 DEF new

(* A turn fails, reports a missing input, skips the binding or writes it.  *)
LEMMA BindKeepsLoop ==
  ASSUME NEW base, NEW s, InOrder(s), NEW inputs, NEW n \in 1 .. Len(s), NEW r,
         DOMAIN base \subseteq Paths, LoopOK(r, n - 1, base, s, inputs)
  PROVE  LoopOK(Bind(r, s[n], inputs), n, base, s, inputs)
<1>1. r \in [doc : {r.doc}, missing : {r.missing}, failed : BOOLEAN] BY DEF LoopOK
<1>2. CASE r.failed
  <2>1. Bind(r, s[n], inputs) = r BY <1>2 DEF Bind
  <2>2. LoopOK(r, n, base, s, inputs) BY <1>1, <1>2 DEF LoopOK
  <2> QED BY <2>1, <2>2
<1>3. CASE ~r.failed /\ ValueOf(s[n], inputs) = NOVALUE BY <1>3, SkipKeepsLoop
<1>4. CASE /\ ~r.failed /\ ValueOf(s[n], inputs) # NOVALUE
           /\ Fits(r.doc, Place(s[n]))
  BY <1>4, WriteKeepsLoop
<1>5. CASE /\ ~r.failed /\ ValueOf(s[n], inputs) # NOVALUE
           /\ ~Fits(r.doc, Place(s[n]))
  <2> DEFINE new == [r EXCEPT !.failed = TRUE]
  <2>1. Bind(r, s[n], inputs) = new BY <1>5 DEF Bind, Place
  <2>2. new \in [doc : {new.doc}, missing : {new.missing}, failed : BOOLEAN] /\ new.failed
    BY <1>1
  <2> HIDE DEF new
  <2>3. LoopOK(new, n, base, s, inputs) BY <2>2 DEF LoopOK
  <2> QED BY <2>1, <2>3
<1> QED BY <1>1, <1>2, <1>3, <1>4, <1>5

(* What the loop over the bindings leaves.                                 *)
LEMMA LoopEnds ==
  ASSUME NEW base, DOMAIN base \subseteq Paths, IsTree(base), NEW s, InOrder(s), NEW inputs
  PROVE  LoopOK(RenderBindings(base, s, inputs), Len(s), base, s, inputs)
<1>1. Len(s) \in Nat BY DEF InOrder
<1>0. PICK f : Unrolls(f, base, s, inputs) BY <1>1, RenderBindingsIs
<1>2. /\ RenderBindings(base, s, inputs) = f[Len(s)]
      /\ f[0] = Nothing(base)
      /\ \A n \in 1 .. Len(s) : f[n] = Bind(f[n - 1], s[n], inputs)
  BY <1>0 DEF Unrolls
<1> DEFINE D == {n \in 0 .. Len(s) : ~LoopOK(f[n], n, base, s, inputs)}
<1>3. SUFFICES ASSUME D # {} PROVE FALSE
  <2>1. Len(s) \in 0 .. Len(s) BY <1>1
  <2>2. D = {} => LoopOK(f[Len(s)], Len(s), base, s, inputs) BY <2>1
  <2> HIDE DEF D
  <2> QED BY <1>2, <2>2
<1>4. D \in SUBSET Nat OBVIOUS
<1> HIDE DEF D
<1>5. PICK m \in D : \A n \in D : m <= n BY <1>3, <1>4, MinIsLeast
<1>6. m \in 0 .. Len(s) /\ ~LoopOK(f[m], m, base, s, inputs) BY <1>5 DEF D
<1>7. CASE m = 0 BY <1>2, <1>6, <1>7, LoopStarts
<1>8. CASE m # 0
  <2>1. m \in 1 .. Len(s) /\ m - 1 \in 0 .. Len(s) /\ ~(m <= m - 1) BY <1>1, <1>6, <1>8
  <2>2. LoopOK(f[m - 1], m - 1, base, s, inputs) BY <1>5, <2>1 DEF D
  <2>3. LoopOK(Bind(f[m - 1], s[m], inputs), m, base, s, inputs) BY <2>1, <2>2, BindKeepsLoop
  <2> QED BY <1>2, <1>6, <2>1, <2>3
<1> QED BY <1>7, <1>8

(* An answer is a document only if the loop did not fail and lacked no     *)
(* input, and reports missing inputs only if it lacked some.               *)
LEMMA AnswerIs ==
  ASSUME NEW t, NEW output, NEW inputs
  PROVE  LET r == RenderBindings(t.base, t.bindings, inputs)
             a == RenderTemplate(t, output, inputs)
         IN  /\ a.answer = "ok" => a.doc = r.doc /\ ~r.failed
             /\ a.answer = "unresolved" => a.missing # {}
             /\ a.missing # {} => a.missing = r.missing /\ ~r.failed
             /\ a # NoAnswer
<1> DEFINE r == RenderBindings(t.base, t.bindings, inputs)
           a == RenderTemplate(t, output, inputs)
           kind == IF output = "AUTO" THEN t.kind ELSE output
           A(x) == [answer |-> x, doc |-> <<>>, missing |-> {}]
<1>1. a = IF kind # t.kind \/ r.failed THEN A("invalid")
          ELSE IF r.missing # {} THEN [A("unresolved") EXCEPT !.missing = r.missing]
          ELSE IF ~Shaped(kind, r.doc) THEN A("invalid")
          ELSE [A("ok") EXCEPT !.doc = r.doc]
  BY Zenon DEF RenderTemplate
<1> HIDE DEF r, kind, a
<1>2. /\ a.answer = "ok" => a.doc = r.doc /\ ~r.failed
      /\ a.answer = "unresolved" => a.missing # {}
      /\ a.missing # {} => a.missing = r.missing /\ ~r.failed
      /\ a.answer # "none"
  <2>1. CASE kind # t.kind \/ r.failed BY <1>1, <2>1
  <2>2. CASE ~(kind # t.kind \/ r.failed) /\ r.missing # {} BY <1>1, <2>2
  <2>3. CASE ~(kind # t.kind \/ r.failed) /\ r.missing = {} /\ ~Shaped(kind, r.doc) BY <1>1, <2>3
  <2>4. CASE ~(kind # t.kind \/ r.failed) /\ r.missing = {} /\ Shaped(kind, r.doc) BY <1>1, <2>4
  <2> QED BY <2>1, <2>2, <2>3, <2>4
<1>3. a # NoAnswer BY <1>2 DEF NoAnswer
<1> QED BY <1>2, <1>3 DEF r, a

-----------------------------------------------------------------------------
(***************************************************************************)
(* The invariant of templates, and the theorems.                           *)
(***************************************************************************)
(* The inductive invariant: the answer is that of the stored template for  *)
(* what was given, and a caller that has given what was missing has given  *)
(* all that is required.                                                   *)
TemplateInv ==
    /\ authored \in Authored /\ ValidBindings(authored.bindings)
    /\ template \in Stored(authored)
    /\ given \in [DOMAIN given -> Values]
    /\ answer \in {NoAnswer, RenderTemplate(template, asked, given)}
    /\ again => \A b \in Range(authored.bindings) :
                   b.required => ValueOf(b, given) # NOVALUE

(* What a template as it is stored has of the one its author wrote.        *)
LEMMA StoredIs ==
  ASSUME NEW a \in Authored, ValidBindings(a.bindings), NEW t \in Stored(a)
  PROVE  /\ InOrder(t.bindings) /\ Range(t.bindings) = Range(a.bindings)
         /\ t.base = a.base /\ DOMAIN t.base \subseteq Paths /\ IsTree(t.base)
<1>1. /\ a \in [kind : {"VERB_REQUEST", "PLAN"}, base : {a.base}, bindings : Seq(Bindings)]
      /\ DOMAIN a.base \subseteq Paths /\ IsTree(a.base)
  BY TemplateAssumption DEF Paths
<1>2. PICK s \in CanonicalBindings(a.bindings) : t = [a EXCEPT !.bindings = s] BY DEF Stored
<1>3. t.bindings = s /\ t.base = a.base BY <1>1, <1>2
<1>4. a.bindings \in Seq(Bindings) BY <1>1
<1>5. InOrder(s) /\ Range(s) = Range(a.bindings) BY <1>4, CanonicalIs
<1> QED BY <1>1, <1>3, <1>5

(* What is true of the loop is true of the answer.                         *)
LEMMA AnswerMeansRendered ==
  ASSUME TemplateInv
  PROVE  RendersTemplateWithInputs
<1> DEFINE s == template.bindings
           base == authored.base
           r == RenderBindings(template.base, s, given)
           used == {b \in Range(authored.bindings) : ValueOf(b, given) # NOVALUE}
<1> SUFFICES ASSUME answer.answer = "ok" PROVE RendersTemplateWithInputs
  BY DEF RendersTemplateWithInputs
<1>1. /\ InOrder(s) /\ Range(s) = Range(authored.bindings)
      /\ template.base = base /\ DOMAIN base \subseteq Paths /\ IsTree(base)
  BY StoredIs DEF TemplateInv
<1>2. answer = RenderTemplate(template, asked, given)
  BY DEF TemplateInv, NoAnswer
<1>3. answer.doc = r.doc /\ ~r.failed BY <1>2, AnswerIs
<1>4. LoopOK(r, Len(s), base, s, given) BY <1>1, LoopEnds
<1> HIDE DEF r
<1>5. IsTree(answer.doc) /\ PlacedIn(answer.doc, Len(s), s, given)
      /\ KeptIn(answer.doc, Len(s), base, s, given)
  BY <1>3, <1>4 DEF LoopOK
<1>6. DOMAIN s = 1 .. Len(s) BY <1>1 DEF InOrder
<1> HIDE DEF s
<1>7. \A b \in used : \E i \in Puts(s, given, Len(s)) : s[i] = b BY <1>1, <1>6 DEF Puts, Range
<1>8. \A i \in Puts(s, given, Len(s)) : s[i] \in used BY <1>1, <1>6 DEF Puts, Range
<1> HIDE DEF used
<1>9. ASSUME NEW b \in used
      PROVE  \/ At(answer.doc, Place(b)) = ValueOf(b, given)
             \/ \E c \in used : WritesOver(c, b)
  BY <1>5, <1>7, <1>8 DEF PlacedIn
<1>10. ASSUME NEW p \in DOMAIN base
       PROVE  \/ At(answer.doc, p) = base[p]
              \/ \E b \in used : IsPrefix(Place(b), p) \/ IsStrictPrefix(p, Place(b))
  BY <1>5, <1>8 DEF KeptIn
<1> QED BY <1>5, <1>9, <1>10 DEF RendersTemplateWithInputs, used, Place

(* The bindings reported are the required ones that have no value, and     *)
(* only a first call reports any.                                          *)
LEMMA UnresolvedLacks ==
  ASSUME TemplateInv, answer.missing # {}
  PROVE  /\ \A b : b \in answer.missing <=> /\ b \in Range(authored.bindings)
                                            /\ b.required /\ ValueOf(b, given) = NOVALUE
         /\ ~again
<1> DEFINE s == template.bindings
           r == RenderBindings(template.base, s, given)
<1>1. /\ InOrder(s) /\ Range(s) = Range(authored.bindings)
      /\ DOMAIN template.base \subseteq Paths /\ IsTree(template.base)
  BY StoredIs DEF TemplateInv
<1>2. answer = RenderTemplate(template, asked, given)
  BY DEF TemplateInv, NoAnswer
<1>3. answer.missing = r.missing /\ ~r.failed BY <1>2, AnswerIs
<1>4. LoopOK(r, Len(s), template.base, s, given) BY <1>1, LoopEnds
<1> HIDE DEF r
<1>5. \A b : b \in answer.missing <=> Lacking(s, given, Len(s), b) BY <1>3, <1>4 DEF LoopOK
<1>6. DOMAIN s = 1 .. Len(s) BY <1>1 DEF InOrder
<1> HIDE DEF s
<1>7. \A b : b \in answer.missing <=> /\ b \in Range(authored.bindings)
                                      /\ b.required /\ ValueOf(b, given) = NOVALUE
  BY <1>1, <1>5, <1>6 DEF Lacking, Range
<1> QED BY <1>7 DEF TemplateInv

(* The invariant holds at the start.                                       *)
LEMMA TemplateStarts == TemplateInit => TemplateInv
BY TemplateAssumption DEF TemplateInit, TemplateInv

(* Every step keeps the invariant: a caller gives what all the lacking     *)
(* bindings need.                                                          *)
LEMMA TemplateStep == TemplateInv /\ [TemplateNext]_templateVars => TemplateInv'
<1> SUFFICES ASSUME TemplateInv, [TemplateNext]_templateVars PROVE TemplateInv' OBVIOUS
<1>1. CASE Render BY <1>1 DEF Render, TemplateInv
<1>2. ASSUME NEW more \in Inputs, GiveMissing(more) PROVE TemplateInv'
  <2>1. /\ \A b : b \in answer.missing <=> /\ b \in Range(authored.bindings)
                                           /\ b.required /\ ValueOf(b, given) = NOVALUE
        /\ DOMAIN more = {b.key : b \in answer.missing}
    BY <1>2, UnresolvedLacks DEF GiveMissing
  <2>2. given \in [DOMAIN given -> Values] /\ more \in [DOMAIN more -> Values] /\ NOVALUE \notin Values
    BY TemplateAssumption DEF TemplateInv
  <2>3. given' = [k \in DOMAIN given \cup DOMAIN more |->
                     IF k \in DOMAIN given THEN given[k] ELSE more[k]]
    BY <1>2 DEF GiveMissing
  <2>4. /\ DOMAIN given' = DOMAIN given \cup DOMAIN more
        /\ \A k \in DOMAIN given : given'[k] = given[k] /\ given'[k] \in Values
        /\ \A k \in DOMAIN more \ DOMAIN given : given'[k] = more[k] /\ given'[k] \in Values
    BY <2>2, <2>3
  <2>5. given' \in [DOMAIN given' -> Values] BY <2>2, <2>3
  <2>6. ASSUME NEW b \in Range(authored.bindings), b.required
        PROVE  ValueOf(b, given') # NOVALUE
    <3>1. CASE b.key \in DOMAIN given' BY <2>2, <2>4, <3>1 DEF ValueOf
    <3>2. CASE b.key \notin DOMAIN given'
      <4>1. b.key \notin DOMAIN given /\ b.key \notin DOMAIN more BY <2>4, <3>2
      <4>2. b \notin answer.missing BY <2>1, <4>1
      <4>3. ValueOf(b, given) # NOVALUE BY <2>1, <2>6, <4>2
      <4> QED BY <3>2, <4>1, <4>3 DEF ValueOf
    <3> QED BY <3>1, <3>2
  <2>7. UNCHANGED <<authored, template, asked>> /\ answer' = NoAnswer BY <1>2 DEF GiveMissing
  <2>8. /\ authored' \in Authored /\ ValidBindings(authored'.bindings) /\ template' \in Stored(authored')
    BY <2>7 DEF TemplateInv
  <2> QED BY <2>5, <2>6, <2>7, <2>8 DEF TemplateInv
<1>3. CASE UNCHANGED templateVars BY <1>3 DEF templateVars, TemplateInv
<1> QED BY <1>1, <1>2, <1>3 DEF TemplateNext

(* A list that is reversed has the same bindings and is valid if it was.   *)
LEMMA ReverseIs ==
  ASSUME NEW bs \in Seq(Bindings)
  PROVE  DOMAIN Reverse(bs) = DOMAIN bs /\ Range(Reverse(bs)) = Range(bs)
<1>1. Len(bs) \in Nat /\ DOMAIN bs = 1 .. Len(bs) OBVIOUS
<1>2. DOMAIN Reverse(bs) = 1 .. Len(bs) /\ \A i \in 1 .. Len(bs) : Reverse(bs)[i] = bs[(Len(bs) - i) + 1]
  BY DEF Reverse
<1>3. \A i \in 1 .. Len(bs) : (Len(bs) - i) + 1 \in 1 .. Len(bs) /\ (Len(bs) - ((Len(bs) - i) + 1)) + 1 = i
  BY <1>1
<1>4. ASSUME NEW x \in Range(bs) PROVE x \in Range(Reverse(bs))
  <2>1. PICK i \in 1 .. Len(bs) : bs[i] = x BY <1>1 DEF Range
  <2>2. Reverse(bs)[(Len(bs) - i) + 1] = x BY <1>2, <1>3, <2>1
  <2> QED BY <1>2, <1>3, <2>2 DEF Range
<1>5. ASSUME NEW x \in Range(Reverse(bs)) PROVE x \in Range(bs)
  <2>1. PICK i \in 1 .. Len(bs) : Reverse(bs)[i] = x BY <1>2 DEF Range
  <2> QED BY <1>1, <1>2, <1>3, <2>1 DEF Range
<1> QED BY <1>1, <1>2, <1>4, <1>5

(* Whatever the author's order and the sort, one template is stored.       *)
LEMMA OneIsStored ==
  ASSUME NEW a \in Authored, ValidBindings(a.bindings), NEW t \in Stored(a),
         NEW u \in Stored([a EXCEPT !.bindings = Reverse(@)])
  PROVE  t = u
<1> DEFINE bs == a.bindings
<1>1. a \in [kind : {"VERB_REQUEST", "PLAN"}, base : {a.base}, bindings : Seq(Bindings)]
  BY TemplateAssumption
<1>2. bs \in Seq(Bindings) BY <1>1
<1>3. PICK s \in CanonicalBindings(bs) : t = [a EXCEPT !.bindings = s] BY DEF Stored
<1> DEFINE ra == [a EXCEPT !.bindings = Reverse(@)]
<1>4. ra.bindings = Reverse(bs) /\ ra = [a EXCEPT !.bindings = Reverse(bs)] BY <1>1
<1>5. PICK v \in CanonicalBindings(Reverse(bs)) : u = [ra EXCEPT !.bindings = v]
  <2> HIDE DEF ra
  <2>1. u \in Stored(ra) BY DEF ra
  <2> QED BY <1>4, <2>1 DEF Stored
<1>6. v \in CanonicalBindings(bs) BY <1>2, ReverseIs DEF CanonicalBindings
<1> HIDE DEF bs
<1>7. InOrder(s) /\ InOrder(v) /\ Range(s) = Range(v) /\ Len(s) = Len(v)
  BY <1>2, <1>6, CanonicalIs DEF bs
<1>8. s = v BY <1>7, OrderIsUnique
<1>9. u = [a EXCEPT !.bindings = v] BY <1>1, <1>5
<1> QED BY <1>3, <1>8, <1>9

(* The invariant says that a repeated call lacks nothing, and one list is  *)
(* rendered.                                                               *)
LEMMA AnswerMeansStable ==
  ASSUME TemplateInv
  PROVE  AnswersAreStable
<1>1. again => answer.answer # "unresolved"
  <2>1. ASSUME answer.answer = "unresolved" PROVE answer.missing # {}
    <3>1. answer = RenderTemplate(template, asked, given) BY <2>1 DEF TemplateInv, NoAnswer
    <3> QED BY <2>1, <3>1, AnswerIs
  <2> QED BY <2>1, UnresolvedLacks
<1>2. ASSUME answer # NoAnswer, NEW t \in Stored([authored EXCEPT !.bindings = Reverse(@)])
      PROVE  answer = RenderTemplate(t, asked, given)
  <2>1. template = t BY <1>2, OneIsStored DEF TemplateInv
  <2> QED BY <1>2, <2>1 DEF TemplateInv
<1> QED BY <1>1, <1>2 DEF AnswersAreStable

(* A rendered template is a tree with every input in its place.            *)
THEOREM TemplatesRenderInputs == TemplateSpec => []RendersTemplateWithInputs
BY TemplateStarts, TemplateStep, AnswerMeansRendered, PTL DEF TemplateSpec

(* One list of bindings is rendered, whatever the author's order and the   *)
(* sort, and to give what was missing is enough.                           *)
THEOREM TemplatesAnswerStably == TemplateSpec => []AnswersAreStable
BY TemplateStarts, TemplateStep, AnswerMeansStable, PTL DEF TemplateSpec
=============================================================================
