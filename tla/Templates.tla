----------------------------- MODULE Templates -----------------------------
(***************************************************************************)
(* RenderTemplate (catalog/render.go): the inputs of a caller are written  *)
(* into a copy of the template at the JSON pointers its bindings name.     *)
(*                                                                         *)
(* A document maps the paths it has to what is there: an object, an array, *)
(* null or a word.  A path is a sequence of tokens, and a token of digits  *)
(* is an index, whatever zeros it begins with.  A key of an object that    *)
(* consists of digits is no index and no target leads to it.               *)
(***************************************************************************)
EXTENDS Integers, Sequences, SequencesExt

CONSTANTS
    PathTokens,   \* the tokens of paths
    Targets,      \* target paths as strings: numbers in the order of the strings
    PlainTargets, \* those without spaces around and without zeros before an index
    PathOf,       \* what a target is parsed to, <<>> if it cannot be
    IndexOf,      \* the indexes among the tokens, and the number of each
    Keys,         \* input keys: numbers in the order of the strings
    Words,        \* values that are neither objects, arrays nor null
    NOVALUE,      \* no default
    Authored,     \* templates as their authors wrote them
    Inputs        \* what callers give

Values == Words \cup {"null", "obj"}

(* A default that is null is none (DefaultRaw is a pointer).               *)
Bindings == [target : Targets, key : Keys, required : BOOLEAN,
             default : (Values \ {"null"}) \cup {NOVALUE}]

At(doc, path) == IF path \in DOMAIN doc THEN doc[path] ELSE "null"

Container(token) == IF token \in DOMAIN IndexOf THEN "arr" ELSE "obj"

(* A document is a tree: every path leads through containers that fit, and *)
(* an array has no holes.                                                  *)
IsTree(doc) ==
    \A p \in DOMAIN doc : p # <<>> =>
        /\ At(doc, Front(p)) = Container(Last(p))
        /\ Last(p) \in DOMAIN IndexOf =>
             \A t \in DOMAIN IndexOf : IndexOf[t] < IndexOf[Last(p)] => Append(Front(p), t) \in DOMAIN doc

ASSUME TemplateAssumption ==
    /\ Targets \subseteq Nat /\ Keys \subseteq Nat
    /\ Words \cap {"null", "obj", "arr"} = {} /\ NOVALUE \notin Values
    /\ IndexOf \in [DOMAIN IndexOf -> Nat] /\ DOMAIN IndexOf \subseteq PathTokens
    /\ PathOf \in [Targets -> Seq(PathTokens)]
    /\ PlainTargets \subseteq Targets
    /\ \A s, t \in PlainTargets :
          PathOf[s] # <<>> /\ IsStrictPrefix(PathOf[s], PathOf[t]) => s < t
    /\ \A t \in Authored :
          /\ t \in [kind : {"VERB_REQUEST", "PLAN"}, base : {t.base}, bindings : Seq(Bindings)]
          /\ t.base \in [DOMAIN t.base -> Values \cup {"arr"}]
          /\ DOMAIN t.base \subseteq Seq(PathTokens) /\ IsTree(t.base)
    /\ \A given \in Inputs : given \in [DOMAIN given -> Values] /\ DOMAIN given \subseteq Keys

-----------------------------------------------------------------------------
(* validateBindings, without which a template is not stored.  The code     *)
(* compares without the spaces around a target and accepts fewer lists.    *)
ValidBindings(bs) ==
    \A i, j \in DOMAIN bs :
        <<bs[i].target, bs[i].key>> = <<bs[j].target, bs[j].key>> => i = j

(* Mutant: bindings of one target are left as they come.                   *)
BeforeByTarget(a, b) == a.target < b.target

Before(a, b) == a.target < b.target \/ (a.target = b.target /\ a.key < b.key)

(* CanonicalizeBundle: the orders in which bindings may be stored.  The    *)
(* sort is not stable.                                                     *)
CanonicalBindings(bs) ==
    {s \in [DOMAIN bs -> Range(bs)] :
        Range(s) = Range(bs) /\ \A i, j \in DOMAIN bs : i < j => ~Before(s[j], s[i])}

-----------------------------------------------------------------------------
Above(path) == {SubSeq(path, 1, n) : n \in 0 .. Len(path) - 1}

NextToken(path, above) == path[Len(above) + 1]

(* A path leads through nulls, which become what it needs, and containers. *)
Fits(doc, path) ==
    path # <<>> /\ \A p \in Above(path) : At(doc, p) \in {"null", Container(NextToken(path, p))}

(* The elements an array gets up to the index that is written.             *)
Padding(path) ==
    UNION {{Append(p, t) : t \in {u \in DOMAIN IndexOf : IndexOf[u] <= IndexOf[NextToken(path, p)]}} :
             p \in {q \in Above(path) : Container(NextToken(path, q)) = "arr"}}

(* setJSONPointer: what was at the path or below is gone.                  *)
SetJSONPointer(doc, path, value) ==
    LET kept == {p \in DOMAIN doc : ~IsPrefix(path, p)}
    IN  [p \in kept \cup Above(path) \cup Padding(path) \cup {path} |->
            IF p = path THEN value
            ELSE IF p \in Above(path) THEN Container(NextToken(path, p)) ELSE At(doc, p)]

-----------------------------------------------------------------------------
(* What a binding puts in, NOVALUE if it has nothing.                      *)
ValueOf(b, inputs) == IF b.key \in DOMAIN inputs THEN inputs[b.key] ELSE b.default

(* Mutant: the first input that is missing ends the loop.                  *)
BindStops(r, b, inputs) ==
    LET value == ValueOf(b, inputs)
    IN  IF r.failed \/ r.missing # {} THEN r
        ELSE IF value = NOVALUE THEN IF b.required THEN [r EXCEPT !.missing = {b}] ELSE r
        ELSE IF ~Fits(r.doc, PathOf[b.target]) THEN [r EXCEPT !.failed = TRUE]
        ELSE [r EXCEPT !.doc = SetJSONPointer(r.doc, PathOf[b.target], value)]

(* One turn of the loop over the bindings.                                 *)
Bind(r, b, inputs) ==
    LET value == ValueOf(b, inputs)
    IN  IF r.failed THEN r
        ELSE IF value = NOVALUE THEN IF b.required THEN [r EXCEPT !.missing = @ \cup {b}] ELSE r
        ELSE IF ~Fits(r.doc, PathOf[b.target]) THEN [r EXCEPT !.failed = TRUE]
        ELSE [r EXCEPT !.doc = SetJSONPointer(r.doc, PathOf[b.target], value)]

(* The loop over the bindings.                                             *)
RenderBindings(base, bs, inputs) ==
    LET done[n \in 0 .. Len(bs)] ==
            IF n = 0 THEN [doc |-> base, missing |-> {}, failed |-> FALSE]
            ELSE Bind(done[n - 1], bs[n], inputs)
    IN  done[Len(bs)]

(* validateRenderedShape.                                                  *)
Shaped(kind, doc) ==
    IF kind = "PLAN"
    THEN At(doc, <<"steps">>) = "arr" /\ \E p \in DOMAIN doc : Len(p) = 2 /\ p[1] = "steps"
    ELSE At(doc, <<"connector_id">>) \in Words /\ At(doc, <<"verb">>) \in Words
         /\ At(doc, <<"request">>) = "obj"

(* A template is [kind, base, bindings]; output is an output kind. A       *)
(* failure to write comes before missing inputs, these before the shape.   *)
RenderTemplate(t, output, inputs) ==
    LET kind == IF output = "AUTO" THEN t.kind ELSE output
        r == RenderBindings(t.base, t.bindings, inputs)
        Answer(answer) == [answer |-> answer, doc |-> <<>>, missing |-> {}]
    IN  IF kind # t.kind \/ r.failed THEN Answer("invalid")
        ELSE IF r.missing # {} THEN [Answer("unresolved") EXCEPT !.missing = r.missing]
        ELSE IF ~Shaped(kind, r.doc) THEN Answer("invalid")
        ELSE [Answer("ok") EXCEPT !.doc = r.doc]

-----------------------------------------------------------------------------
VARIABLES
    authored, \* the template as its author wrote it
    template, \* the template as it is stored
    asked,    \* the output kind the caller asks for
    given,    \* the inputs of the caller
    answer,   \* the last answer
    again     \* whether the caller has given what was missing

templateVars == <<authored, template, asked, given, answer, again>>

NoAnswer == [answer |-> "none", doc |-> <<>>, missing |-> {}]

Stored(t) == {[t EXCEPT !.bindings = s] : s \in CanonicalBindings(t.bindings)}

TemplateInit ==
    /\ authored \in {t \in Authored : ValidBindings(t.bindings)}
    /\ template \in Stored(authored)
    /\ asked \in {"AUTO", "VERB_REQUEST", "PLAN"}
    /\ given \in Inputs
    /\ answer = NoAnswer
    /\ again = FALSE

Render ==
    /\ answer = NoAnswer
    /\ answer' = RenderTemplate(template, asked, given)
    /\ UNCHANGED <<authored, template, asked, given, again>>

(* The caller gives what was reported missing and calls again.             *)
GiveMissing(more) ==
    /\ answer.missing # {} /\ DOMAIN more = {b.key : b \in answer.missing}
    /\ given' = [k \in DOMAIN given \cup DOMAIN more |-> IF k \in DOMAIN given THEN given[k] ELSE more[k]]
    /\ answer' = NoAnswer
    /\ again' = TRUE
    /\ UNCHANGED <<authored, template, asked>>

TemplateNext ==
    \/ Render
    \/ \E more \in Inputs : GiveMissing(more)

TemplateSpec == TemplateInit /\ [][TemplateNext]_templateVars

-----------------------------------------------------------------------------
(* Binding c comes after b and may write over what b put in: its place is  *)
(* that of b or inside it.  Only if one of them is not written plainly can *)
(* it be a place around that of b, for strings in order have the container *)
(* before what is in it.                                                   *)
WritesOver(c, b) ==
    /\ c.target > b.target \/ (c.target = b.target /\ c.key > b.key)
    /\ \/ IsPrefix(PathOf[b.target], PathOf[c.target])
       \/ /\ IsPrefix(PathOf[c.target], PathOf[b.target])
          /\ ~({b.target, c.target} \subseteq PlainTargets)

(* What is rendered is the template with the inputs in it.  It is a tree;  *)
(* every value is where its binding puts it, unless a later one wrote over *)
(* it; and what no binding touches is as the author wrote it.              *)
RendersTemplateWithInputs ==
    answer.answer = "ok" =>
        LET doc == answer.doc
            used == {b \in Range(authored.bindings) : ValueOf(b, given) # NOVALUE}
            Place(b) == PathOf[b.target]
        IN  /\ IsTree(doc)
            /\ \A b \in used :
                 \/ At(doc, Place(b)) = ValueOf(b, given)
                 \/ \E c \in used : WritesOver(c, b)
            /\ \A p \in DOMAIN authored.base :
                 At(doc, p) = authored.base[p]
                 \/ \E b \in used : IsPrefix(Place(b), p) \/ IsStrictPrefix(p, Place(b))

(* Neither the order in which an author writes the bindings nor what the   *)
(* sort does with them makes a difference, and a caller that gives all     *)
(* that was reported missing is not told of missing inputs again.          *)
AnswersAreStable ==
    /\ again => answer.answer # "unresolved"
    /\ answer # NoAnswer =>
         \A t \in Stored([authored EXCEPT !.bindings = Reverse(@)]) :
             answer = RenderTemplate(t, asked, given)
=============================================================================
