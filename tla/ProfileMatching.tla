-------------------------- MODULE ProfileMatching --------------------------
(***************************************************************************)
(* How internal/orchestration/unbounded_profiles.go compares what a        *)
(* request needs with what an unbounded profile allows, and the profile it *)
(* builds when none fits.  Operators only: no state.                       *)
(*                                                                         *)
(* A name (of a slot, an intent, a mode, a target, a secret type) is a     *)
(* natural number, ordered as the strings are and trimmed; 0 is the empty  *)
(* string.  Fold(n) is n in lower case: strings.EqualFold compares folded  *)
(* names, while maps, sorting and the hash tell the cases apart.           *)
(***************************************************************************)
EXTENDS Naturals, FiniteSets, Sequences, SequencesExt

CONSTANTS
    Fold(_),       \* the name in lower case
    AutoId(_)      \* "mcp.auto." and the first 12 digits of the SHA-256 of
                   \* a normalised list of requirements

(***************************************************************************)
(* UnboundedRequirement and UnboundedProfileSlot.  dedupeAndSort is a      *)
(* function of the set of its non-empty elements, so lists it produced are *)
(* sets.  Required is left out: NormalizeRequirements forces it to true.   *)
(***************************************************************************)
Requirement == [slot : Nat, intent : Nat, types : SUBSET Nat, mode : Nat, target : Nat]
Slot == [intents : SUBSET Nat, types : SUBSET Nat, modes : SUBSET Nat, targets : SUBSET Nat]

Complete(r) == r.slot # 0 /\ r.mode # 0 /\ r.target # 0

(***************************************************************************)
(* The order of sort.Slice in NormalizeRequirements: slot, mode, target,   *)
(* intent.  It ignores the secret types.                                   *)
(***************************************************************************)
Less(a, b) ==
    LET key(r) == << r.slot, r.mode, r.target, r.intent >>
    IN  \E i \in 1..4 : /\ key(a)[i] < key(b)[i]
                        /\ \A j \in 1..(i - 1) : key(a)[j] = key(b)[j]

(***************************************************************************)
(* Incomplete requirements go, the others are sorted.  Lists as short as   *)
(* these (up to 12) are sorted by insertion, which keeps equal elements in *)
(* their order; nothing removes duplicates.                                *)
(***************************************************************************)
NormalizeRequirements(reqs) ==
    LET clean(i) == [reqs[i] EXCEPT !.types = @ \ {0}]
        kept == {i \in DOMAIN reqs : Complete(reqs[i])}
        precedes(i, j) == \/ Less(reqs[i], reqs[j])
                          \/ i < j /\ ~Less(reqs[j], reqs[i])
        rank(i) == 1 + Cardinality({j \in kept : precedes(j, i)})
    IN  [k \in 1..Cardinality(kept) |-> clean(CHOOSE i \in kept : rank(i) = k)]

ContainsName(items, name) == \E item \in items : Fold(item) = Fold(name)
Overlap(a, b) == \E name \in a : ContainsName(b, name)

(***************************************************************************)
(* scoreProfileMatch.  An empty list of a slot allows everything.          *)
(***************************************************************************)
Meets(slot, r) ==
    /\ r.intent # 0 /\ slot.intents # {} => ContainsName(slot.intents, r.intent)
    /\ r.types # {} /\ slot.types # {} => Overlap(r.types, slot.types)
    /\ slot.modes # {} => ContainsName(slot.modes, r.mode)
    /\ slot.targets # {} => ContainsName(slot.targets, r.target)

Missing(slots, reqs) ==
    {r \in Range(reqs) : ~(r.slot \in DOMAIN slots /\ Meets(slots[r.slot], r))}

\* The score of slots that miss nothing; no other score is compared.  Three
\* points for each requirement, one for its intent and one for its types if
\* the slot restricts them too.
Score(slots, reqs) ==
    3 * Len(reqs)
        + Cardinality({i \in DOMAIN reqs : reqs[i].intent # 0})
        + Cardinality({i \in DOMAIN reqs : reqs[i].types # {} /\ slots[reqs[i].slot].types # {}})

(***************************************************************************)
(* ResolveUnboundedProfile's choice among the profiles it read (a set of   *)
(* [id, slots]): the highest score, then the lowest id.                    *)
(***************************************************************************)
Matching(read, reqs) == {p \in read : Missing(p.slots, reqs) = {}}
Outranks(p, q, reqs) ==
    \/ Score(p.slots, reqs) > Score(q.slots, reqs)
    \/ Score(p.slots, reqs) = Score(q.slots, reqs) /\ p.id <= q.id
(* Mutant: the ranking upside down. *)
BestReversed(read, reqs) ==
    CHOOSE p \in Matching(read, reqs) : \A q \in Matching(read, reqs) : Outranks(q, p, reqs)

Best(read, reqs) ==
    CHOOSE p \in Matching(read, reqs) : \A q \in Matching(read, reqs) : Outranks(p, q, reqs)

(* Mutant: a requirement replaces what the slot had from the one before. *)
BuildMinimalOverwriting(reqs) ==
    [s \in {r.slot : r \in Range(reqs)} |->
        LET last == CHOOSE i \in DOMAIN reqs :
                        reqs[i].slot = s /\ \A j \in DOMAIN reqs : reqs[j].slot = s => j <= i
        IN  [intents |-> {reqs[last].intent} \ {0}, types |-> reqs[last].types,
             modes |-> {reqs[last].mode}, targets |-> {reqs[last].target}]]

(***************************************************************************)
(* BuildMinimalProfile of a normalised list: one slot per slot name, which *)
(* allows what the requirements on that slot ask for.                      *)
(***************************************************************************)
BuildMinimalProfile(reqs) ==
    [s \in {r.slot : r \in Range(reqs)} |->
        LET mine == {r \in Range(reqs) : r.slot = s}
        IN  [intents |-> {r.intent : r \in mine} \ {0},
             types   |-> UNION {r.types : r \in mine},
             modes   |-> {r.mode : r \in mine},
             targets |-> {r.target : r \in mine}]]
=============================================================================
