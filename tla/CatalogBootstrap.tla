--------------------------- MODULE CatalogBootstrap ---------------------------
(***************************************************************************)
(* How a process of the program starts: it seeds the catalog with the      *)
(* cookbooks bundled with its release, unless the marker file says that    *)
(* this release has been seeded, and serves once every cookbook that the   *)
(* routing registry names is there.  Several processes may start at once:  *)
(* the bridge spawns one per tool call.                                    *)
(*                                                                         *)
(* Upserts are atomic (CatalogSpec).  The marker is not written under the  *)
(* catalog's lock: every starter truncates, writes and renames the one     *)
(* temporary file marker.tmp.  The model keeps inodes, because a starter   *)
(* goes on writing to the inode it opened wherever that has been renamed.  *)
(***************************************************************************)
EXTENDS Integers, FiniteSets, FiniteSetsExt

CONSTANTS
    Starters,    \* the process slots; a slot may be started again and again
    Releases,    \* the releases of the program, each with bundles and registry
    Lean,        \* those whose bundles lack entries that other releases route to
    Bundles,     \* the bundled cookbooks: numbers, in path order
    Required,    \* those in which the routing registry names entries
    Editable,    \* bound: those that callers touch in a run
    Inodes,      \* enough inode numbers: one per starter, the marker, the temp
    EMPTY, TORN, \* a file with no bytes, with bytes that are not valid JSON
    USER,        \* a caller's cookbook that still has all the routed entries
    STRIPPED,    \* a caller's cookbook without an entry that is routed
    DELETED,     \* a cookbook that a caller of catalog_delete removed
    NONE

ASSUME BootAssumption ==
    /\ Bundles \subseteq Nat /\ Required \subseteq Bundles /\ Editable \subseteq Bundles
    /\ IsFiniteSet(Starters)
    /\ Inodes \subseteq Nat /\ IsFiniteSet(Inodes)
    /\ Cardinality(Inodes) >= Cardinality(Starters) + 2
    /\ NONE \notin {EMPTY, TORN, USER, STRIPPED, DELETED} /\ EMPTY # TORN
    /\ USER \notin {STRIPPED, DELETED} /\ STRIPPED # DELETED
    /\ Releases \cap {EMPTY, TORN, USER, STRIPPED, DELETED, NONE} = {}
    /\ Lean \subseteq Releases
    /\ NONE \notin Inodes

VARIABLES
    cat,      \* the catalog: what each bundled cookbook now holds
    marker,   \* the inode of .bundled-cookbooks-seed.v1.json
    tmp,      \* the inode of .bundled-cookbooks-seed.v1.json.tmp
    data,     \* the contents of the inodes
    proc,     \* per slot: the process in it
    overlap,  \* ghost: two starters have had the temporary file open at once
    mixed,    \* ghost: two releases have been seeding at once
    pending,  \* ghost: bundles seeded by a starter that has not set the marker
    excused   \* ghost, per cookbook: starters that may overwrite an edit of it

ghosts == <<overlap, mixed, pending, excused>>
bootVars == <<cat, marker, tmp, data, proc, overlap, mixed, pending, excused>>

Unreadable == {EMPTY, TORN}
Edited == {USER, STRIPPED, DELETED}

(* A cookbook that holds what has the entries that release r routes to.    *)
HasEntries(what, r) == what \in {r, USER} \cup (Releases \ Lean)

(* rel: its release; left: what its loop has still to go through; fd: its  *)
(* open temporary file; missing: the cookbooks whose entries validation    *)
(* did not get; broken: an I/O error or a lock timeout has hit it.         *)
Off == [pc |-> "off", rel |-> NONE, left |-> {}, fd |-> NONE, missing |-> {},
        broken |-> FALSE]

BootInit ==
    /\ cat = [b \in Bundles |-> NONE]
    /\ marker = NONE /\ tmp = NONE
    /\ data = [i \in Inodes |-> EMPTY]
    /\ proc = [p \in Starters |-> Off]
    /\ overlap = FALSE /\ mixed = FALSE
    /\ pending = {}
    /\ excused = [b \in Bundles |-> {}]

-----------------------------------------------------------------------------

Referenced == {marker, tmp} \cup {proc[p].fd : p \in Starters}

(* The contents are d, less those of inodes that nothing refers to.        *)
Contents(d) == data' = [i \in Inodes |-> IF i \in Referenced' THEN d[i] ELSE EMPTY]

(* Bootstrap is over for p, well or badly. *)
Ends(p, from, how) ==
    /\ proc[p].pc = from
    /\ proc' = [proc EXCEPT ![p] = [Off EXCEPT !.pc = how, !.missing = proc[p].missing,
                                                !.broken = proc[p].broken]]

Breaks(p, from) ==
    /\ proc[p].pc = from
    /\ proc' = [proc EXCEPT ![p] = [Off EXCEPT !.pc = "failed", !.broken = TRUE]]

Seeding(p) == proc[p].pc \in {"seed", "write", "rename"}
TmpOpen(p) == proc[p].pc \in {"write", "rename"}

(* main calls bootstrapCatalog, with the bundles of release r at hand. *)
Start(p, r) ==
    /\ proc[p].pc = "off"
    /\ proc' = [proc EXCEPT ![p].pc = "marker", ![p].rel = r]
    /\ UNCHANGED <<cat, marker, tmp, data, ghosts>>

Seeds(p) ==
    /\ proc' = [proc EXCEPT ![p].pc = "seed", ![p].left = Bundles]
    /\ mixed' = (mixed \/ \E q \in Starters \ {p} : Seeding(q) /\ proc[q].rel # proc[p].rel)

(* Mutant: a marker that cannot be read counts as no marker. *)
ReadMarkerLenient(p) ==
    /\ proc[p].pc = "marker"
    /\ IF marker # NONE /\ data[marker] = proc[p].rel
       THEN proc' = [proc EXCEPT ![p].pc = "validate", ![p].left = Required]
            /\ UNCHANGED <<mixed, excused>>
       ELSE Seeds(p) /\ UNCHANGED excused
    /\ UNCHANGED <<cat, marker, tmp, data, overlap, pending>>

(* readSeedManifest and what seedCatalogFromBundledCookbooks makes of it. *)
ReadMarker(p) ==
    /\ proc[p].pc = "marker"
    /\ \/ /\ marker = NONE
          /\ Seeds(p) /\ UNCHANGED excused
       \/ /\ marker # NONE /\ data[marker] \in Unreadable
          /\ Ends(p, "marker", "failed") /\ UNCHANGED <<mixed, excused>>
       \/ /\ marker # NONE /\ data[marker] = proc[p].rel
          /\ proc' = [proc EXCEPT ![p].pc = "validate", ![p].left = Required]
          /\ UNCHANGED <<mixed, excused>>
       \/ /\ marker # NONE /\ data[marker] \in Releases \ {proc[p].rel}
          /\ Seeds(p)
          /\ excused' = [b \in Bundles |-> IF cat[b] \in Edited THEN excused[b] \cup {p}
                                                            ELSE {}]
    /\ UNCHANGED <<cat, marker, tmp, data, overlap, pending>>

Stored(p, b) ==
    /\ cat' = [cat EXCEPT ![b] = proc[p].rel]
    /\ pending' = pending \cup {b}
    /\ excused' = [excused EXCEPT ![b] = {}]

(* UpsertBundle with OVERWRITE, in path order.  It may fail, before or     *)
(* after the bundle file was replaced.                                     *)
SeedNext(p) ==
    LET b == Min(proc[p].left) IN
    /\ proc[p].pc = "seed" /\ proc[p].left # {}
    /\ \/ proc' = [proc EXCEPT ![p].left = @ \ {b}] /\ Stored(p, b)
       \/ Breaks(p, "seed") /\ (Stored(p, b) \/ UNCHANGED <<cat, pending, excused>>)
    /\ UNCHANGED <<marker, tmp, data, overlap, mixed>>

(* The open of os.WriteFile, at whatever point of the seeding. *)
OpensTmp(p) ==
    LET inode == IF tmp = NONE THEN Min(Inodes \ Referenced) ELSE tmp IN
    /\ tmp' = inode
    /\ data' = [data EXCEPT ![inode] = EMPTY]
    /\ proc' = [proc EXCEPT ![p].pc = "write", ![p].fd = inode, ![p].left = {}]
    /\ overlap' = (overlap \/ \E q \in Starters \ {p} : TmpOpen(q))
    /\ UNCHANGED <<cat, marker, mixed, pending, excused>>

(* Mutant: the marker is set before the bundles are in the catalog. *)
OpenTmpEarly(p) == proc[p].pc = "seed" /\ OpensTmp(p)

(* All bundles are in: the temporary file is created or truncated. *)
OpenTmp(p) == proc[p].pc = "seed" /\ proc[p].left = {} /\ OpensTmp(p)

(* Mutant: the error of os.WriteFile is not looked at. *)
WriteTmpUnchecked(p) ==
    LET inode == proc[p].fd IN
    /\ UNCHANGED <<cat, marker, tmp, ghosts>>
    /\ proc[p].pc = "write"
    /\ proc' = [proc EXCEPT ![p].pc = "rename", ![p].fd = NONE]
    /\ \E bytes \in {proc[p].rel, TORN} : Contents([data EXCEPT ![inode] = bytes])

(* The write of os.WriteFile.  Over bytes that another starter has put     *)
(* there since, it leaves a torn file if they were more than its own.      *)
WriteTmp(p) ==
    LET inode == proc[p].fd IN
    /\ UNCHANGED <<cat, marker, tmp, ghosts>>
    /\ \/ /\ proc[p].pc = "write"
          /\ proc' = [proc EXCEPT ![p].pc = "rename", ![p].fd = NONE]
          /\ \/ Contents([data EXCEPT ![inode] = proc[p].rel])
             \/ data[inode] # EMPTY /\ Contents([data EXCEPT ![inode] = TORN])
       \/ Breaks(p, "write") /\ Contents([data EXCEPT ![inode] = TORN])

Renames(p) ==
    /\ marker' = tmp /\ tmp' = NONE
    /\ proc' = [proc EXCEPT ![p].pc = "validate", ![p].left = Required]
    /\ Contents(data)
    /\ pending' = {}

(* os.Rename moves what is now called marker.tmp; there may be no such     *)
(* file any more, or the rename may fail.                                  *)
RenameTmp(p) ==
    /\ proc[p].pc = "rename"
    /\ \/ tmp # NONE /\ Renames(p)
       \/ tmp = NONE /\ Ends(p, "rename", "failed") /\ UNCHANGED <<marker, tmp, data, pending>>
       \/ Breaks(p, "rename") /\ UNCHANGED <<marker, tmp, data, pending>>
    /\ UNCHANGED <<cat, overlap, mixed, excused>>

(* GetEntry for the routes into cookbook b.  It fails if the cookbook is   *)
(* not there, if it lacks one of the entries, or if it cannot be read.     *)
LookUp(p, b) ==
    \E readable \in BOOLEAN :
        proc' = [proc EXCEPT
                   ![p].left = @ \ {b},
                   ![p].missing = IF readable /\ HasEntries(cat[b], proc[p].rel)
                                  THEN @ ELSE @ \cup {b},
                   ![p].broken = @ \/ ~readable]

(* validateRouteCatalogConsistency looks the entries of all routes up, and *)
(* then the process serves or exits.                                       *)
Validate(p) ==
    /\ proc[p].pc = "validate"
    /\ \/ proc[p].left # {} /\ LookUp(p, Min(proc[p].left))
       \/ /\ proc[p].left = {}
          /\ Ends(p, "validate", IF proc[p].missing = {} THEN "serving" ELSE "failed")
    /\ UNCHANGED <<cat, marker, tmp, data, ghosts>>

(* The process exits, or is killed wherever it stands. *)
Exit(p) ==
    /\ proc[p].pc # "off"
    /\ proc' = [proc EXCEPT ![p] = Off]
    /\ excused' = [b \in Bundles |-> excused[b] \ {p}]
    /\ UNCHANGED <<cat, marker, tmp, overlap, mixed, pending>>
    /\ Contents(data)

(* A caller of a serving process replaces or deletes a bundled cookbook.   *)
Edit(p, b) ==
    /\ proc[p].pc = "serving"
    /\ \E what \in Edited : cat' = [cat EXCEPT ![b] = what]
    /\ excused' = [excused EXCEPT ![b] = {q \in Starters : Seeding(q)}]
    /\ UNCHANGED <<marker, tmp, data, proc, overlap, mixed, pending>>

Steps(p) ==
    ReadMarker(p) \/ SeedNext(p) \/ OpenTmp(p) \/ WriteTmp(p) \/ RenameTmp(p) \/ Validate(p)

BootNext ==
    \E p \in Starters :
        \/ \E r \in Releases : Start(p, r)
        \/ Steps(p)
        \/ Exit(p)
        \/ \E b \in Editable : Edit(p, b)

BootSpec == BootInit /\ [][BootNext]_bootVars

-----------------------------------------------------------------------------

(* A marker that cannot be read stops every later start, of any release.   *)
(* No crash and no I/O error of a starter leaves one: it takes two         *)
(* starters that had the temporary file open at the same time.             *)
UnreadableMarkerNeedsOverlap ==
    marker # NONE /\ data[marker] \in Unreadable => overlap

(* The marker tells which release the catalog holds: a starter that skips  *)
(* seeding because of it finds every bundle of its release, or what a      *)
(* caller made of it.  Excepted are two releases that seeded at once, and  *)
(* the bundles of a starter that stopped before it set its marker.         *)
MarkerNamesCatalog ==
    marker # NONE /\ data[marker] \in Releases /\ ~mixed =>
        \A b \in Bundles \ pending : cat[b] \in Edited \cup {data[marker]}

(* What a caller stored over a bundled cookbook is lost only to a change   *)
(* of release, or to a starter that was already seeding when it was        *)
(* stored; never to a restart of the same release.                         *)
LostEditsHaveACause ==
    [][\A b \in Bundles :
          cat[b] \in Edited /\ cat'[b] \in Releases =>
             \E p \in excused[b] : Seeding(p) /\ proc[p].rel = cat'[b]]_bootVars

(* Why a required cookbook may fail a starter that could read it: a caller *)
(* deleted it or stored one without the entry; or it is of another release *)
(* because two releases have been seeding at once, because a starter died  *)
(* after storing it, or because the other release has set its marker since *)
(* this starter passed its own.                                            *)
MissHasACause(p, b) ==
    \/ cat[b] \in {DELETED, STRIPPED}
    \/ /\ cat[b] \in Releases \ {proc[p].rel}
       /\ mixed \/ b \in pending \/ data[marker] # proc[p].rel

(* A start fails only after an I/O error, because starters overlapped, or  *)
(* for a required cookbook it misses for one of these causes: never for a  *)
(* cookbook that was not seeded, or one of its own release.                *)
FailureHasACause ==
    /\ [](\A p \in Starters :
            proc[p].pc = "failed" /\ ~proc[p].broken /\ ~overlap => proc[p].missing # {})
    /\ [][\A p \in Starters : \A b \in proc'[p].missing \ proc[p].missing :
            proc'[p].broken \/ MissHasACause(p, b)]_bootVars
=============================================================================
