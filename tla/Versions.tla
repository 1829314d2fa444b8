------------------------------ MODULE Versions ------------------------------
(***************************************************************************)
(* The order of version strings (catalog/types.go).  A version is split    *)
(* into tokens at dots, dashes, underscores and plus signs; a token that   *)
(* fits an int64 is a number, any other is a word.  A token is modelled by *)
(* its kind and by its place among the tokens of its kind, so "1" and "01" *)
(* are one token, and "1.0" and "1-0" are one list of tokens.              *)
(***************************************************************************)
EXTENDS Integers, Sequences, FiniteSetsExt

CONSTANTS Versions, TokensOf

Tokens == [num : BOOLEAN, val : Nat]

ASSUME VersionAssumption == TokensOf \in [Versions -> Seq(Tokens) \ {<<>>}]

(* Mutant: only the places that both lists have are compared.              *)
CompareCommon(v, w) ==
    LET a == TokensOf[v]
        b == TokensOf[w]
        differ == {i \in 1 .. Min({Len(a), Len(b)}) : a[i] # b[i]}
        i == Min(differ)
    IN  IF differ = {} THEN 0
        ELSE IF a[i].num # b[i].num THEN IF b[i].num THEN -1 ELSE 1
             ELSE IF a[i].val < b[i].val THEN -1 ELSE 1

(* compareVersion: the first place where the lists differ decides; to have *)
(* ended is less than a word, and a word less than a number.               *)
Compare(v, w) ==
    LET a == TokensOf[v]
        b == TokensOf[w]
        Kind(s, i) == IF i > Len(s) THEN 0 ELSE IF s[i].num THEN 2 ELSE 1
        differ == {i \in 1 .. Max({Len(a), Len(b)}) :
                     Kind(a, i) # Kind(b, i) \/ (Kind(a, i) # 0 /\ a[i].val # b[i].val)}
        i == Min(differ)
    IN  IF differ = {} THEN 0
        ELSE IF Kind(a, i) # Kind(b, i)
             THEN IF Kind(a, i) < Kind(b, i) THEN -1 ELSE 1
             ELSE IF a[i].val < b[i].val THEN -1 ELSE 1

(* What LatestVersion may return: sort.Slice leaves the order of equal     *)
(* versions open.                                                          *)
LatestVersions(vs) == {v \in vs : \A w \in vs : Compare(w, v) <= 0}
=============================================================================
