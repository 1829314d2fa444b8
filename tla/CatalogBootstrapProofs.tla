----------------------- MODULE CatalogBootstrapProofs -----------------------
(***************************************************************************)
(* What the marker file and the catalog tell each other, for any number of *)
(* starters, releases and bundled cookbooks.                               *)
(*                                                                         *)
(* BootInv is the inductive invariant.  Its parts say what a starter has   *)
(* done by the place it has come to (Progress), what is true while no two  *)
(* starters have had the temporary file open at once (Alone), what is true *)
(* while no two releases have been seeding at once (OneRelease), and which *)
(* starters may still overwrite an edit (Excusable).                       *)
(***************************************************************************)
EXTENDS CatalogBootstrap, FiniteSetTheorems, WellFoundedInduction, TLAPS

-----------------------------------------------------------------------------
(* The inductive invariant                                                 *)

ProcessPCs ==
    {"off", "marker", "seed", "write", "rename", "validate", "serving", "failed"}

Processes ==
    [pc : ProcessPCs, rel : Releases \cup {NONE}, left : SUBSET Bundles,
     fd : Inodes \cup {NONE}, missing : SUBSET Bundles, broken : BOOLEAN]

BootTypeOK ==
    /\ cat \in [Bundles -> Releases \cup Edited \cup {NONE}]
    /\ marker \in Inodes \cup {NONE} /\ tmp \in Inodes \cup {NONE}
    /\ data \in [Inodes -> Releases \cup Unreadable]
    /\ proc \in [Starters -> Processes]
    /\ overlap \in BOOLEAN /\ mixed \in BOOLEAN
    /\ pending \subseteq Bundles
    /\ excused \in [Bundles -> SUBSET Starters]

(* What p has done by the place it has come to.                            *)
Progress(p) ==
    /\ proc[p].pc \in {"marker", "seed", "write", "rename", "validate"} => proc[p].rel \in Releases
    /\ proc[p].pc = "write" <=> proc[p].fd # NONE
    /\ TmpOpen(p) => proc[p].left = {}
    /\ proc[p].pc \in {"validate", "serving"} => marker # NONE
    /\ proc[p].pc = "validate" => proc[p].left \subseteq Required
    /\ Seeding(p) => \A b \in Bundles \ proc[p].left : cat[b] # NONE

(* Nothing is edited before the first marker, and nothing missing after.   *)
MarkerSet ==
    /\ marker = NONE => \A b \in Bundles : cat[b] \notin Edited
    /\ marker # NONE => marker # tmp /\ \A b \in Bundles : cat[b] # NONE

(* While no two starters have had the temporary file open.                 *)
Alone ==
    ~overlap =>
        /\ \A p, q \in Starters : TmpOpen(p) /\ TmpOpen(q) => p = q
        /\ \A p \in Starters :
             /\ proc[p].pc = "write" => tmp = proc[p].fd /\ data[tmp] = EMPTY
             /\ proc[p].pc = "rename" => tmp # NONE /\ data[tmp] = proc[p].rel
             /\ proc[p].pc = "failed" /\ ~proc[p].broken => proc[p].missing # {}
        /\ marker # NONE => data[marker] \in Releases

(* While no two releases have been seeding.                                *)
OneRelease ==
    ~mixed =>
        /\ \A p, q \in Starters : Seeding(p) /\ Seeding(q) => proc[p].rel = proc[q].rel
        /\ \A p \in Starters :
             /\ TmpOpen(p) /\ tmp # NONE => data[tmp] \in Unreadable \cup {proc[p].rel}
             /\ Seeding(p) => \A b \in Bundles \ proc[p].left : cat[b] \in Edited \cup {proc[p].rel}

(* A starter that has still to seed a bundle is excused for its edit.      *)
Excusable ==
    \A p \in Starters : Seeding(p) =>
        \A b \in proc[p].left : cat[b] \in Edited => p \in excused[b]

BootInv ==
    /\ BootTypeOK
    /\ \A p \in Starters : Progress(p)
    /\ MarkerSet /\ Alone /\ OneRelease /\ Excusable
    /\ MarkerNamesCatalog

-----------------------------------------------------------------------------
(* The least element of a set of numbers                                   *)

(* A set of natural numbers has a least element, by well-foundedness.      *)
LEMMA LeastExists ==
  ASSUME NEW S \in SUBSET Nat, S # {}
  PROVE  \E m \in S : \A n \in S : m <= n
<1> DEFINE R == {ss \in Nat \X Nat : ss[1] < ss[2]}
<1>1. IsWellFoundedOn(R, Nat)
  BY NatLessThanWellFounded DEF OpToRel
<1>2. \A n, m \in S : n < m => <<n, m>> \in R
  OBVIOUS
<1> HIDE DEF R
<1>3. PICK m \in S : \A n \in S : <<n, m>> \notin R
  BY <1>1, WFMin
<1>4. \A n \in S : m \in Nat /\ n \in Nat /\ ~(n < m)
  BY <1>2, <1>3
<1>5. QED
  BY <1>4

LEMMA MinIsLeast ==
  ASSUME NEW S \in SUBSET Nat, S # {}
  PROVE  Min(S) \in S /\ \A n \in S : Min(S) <= n
BY LeastExists DEF Min

(* There is a free inode for a temporary file that does not exist.         *)
LEMMA FreshInode ==
  ASSUME BootTypeOK, tmp = NONE
  PROVE  Min(Inodes \ Referenced) \in Inodes \ Referenced
<1> DEFINE fds == {proc[p].fd : p \in Starters}
           f == [p \in Starters |-> proc[p].fd]
<1>1. f \in Surjection(Starters, fds)
  BY DEF Surjection
<1>2. IsFiniteSet(fds) /\ Cardinality(fds) <= Cardinality(Starters) /\ Cardinality(Starters) \in Nat
  BY <1>1, FS_Surjection, FS_CardinalityType, BootAssumption
<1>3. /\ IsFiniteSet(fds \cup {marker})
      /\ Cardinality(fds \cup {marker}) <= Cardinality(Starters) + 1
  BY <1>2, FS_AddElement, FS_CardinalityType
<1>4. ASSUME Inodes \subseteq Referenced PROVE FALSE
  <2>1. Inodes \subseteq fds \cup {marker}
    BY <1>4, BootAssumption DEF Referenced
  <2>2. Cardinality(Inodes) <= Cardinality(fds \cup {marker})
    BY <1>3, <2>1, FS_Subset
  <2>3. /\ Cardinality(Inodes) >= Cardinality(Starters) + 2
        /\ Cardinality(Inodes) \in Nat /\ Cardinality(fds \cup {marker}) \in Nat
    BY <1>3, BootAssumption, FS_CardinalityType
  <2>4. QED
    BY <1>2, <1>3, <2>2, <2>3
<1>5. Inodes \ Referenced # {} /\ Inodes \ Referenced \in SUBSET Nat
  BY <1>4, BootAssumption
<1>6. QED
  BY <1>5, MinIsLeast

-----------------------------------------------------------------------------
(* Steps by which a starter leaves or does not enter the seeding           *)

Others(p) ==
    /\ proc' \in [Starters -> Processes]
    /\ \A q \in Starters \ {p} : proc'[q] = proc[q]

SameContents ==
    /\ data' \in [Inodes -> Releases \cup Unreadable]
    /\ \A i \in Inodes : i \in Referenced' => data'[i] = data[i]

(* p is not seeding after its step, and has not changed the files.         *)
Aside(p) ==
    /\ Others(p) /\ ~Seeding(p)' /\ Progress(p)'
    /\ UNCHANGED <<cat, marker, tmp, overlap, mixed, pending>>
    /\ SameContents
    /\ excused' \in [Bundles -> SUBSET Starters]
    /\ \A b \in Bundles : \A q \in Starters \ {p} : q \in excused[b] => q \in excused'[b]
    /\ ~overlap /\ proc'[p].pc = "failed" /\ ~proc'[p].broken => proc'[p].missing # {}

LEMMA AsideKeeps ==
  ASSUME BootInv, NEW p \in Starters, Aside(p)
  PROVE  BootInv'
<1>1. BootTypeOK'
  BY DEF Aside, Others, SameContents, BootInv, BootTypeOK, Unreadable, Edited
<1>2. \A q \in Starters : Progress(q)'
  BY DEF Aside, Others, BootInv, Progress, Seeding, TmpOpen
<1>3. MarkerSet'
  BY DEF Aside, BootInv, MarkerSet, Edited
<1>4. marker # NONE => data'[marker] = data[marker]
  BY DEF Aside, SameContents, Referenced, BootInv, BootTypeOK
<1>5. tmp # NONE => data'[tmp] = data[tmp]
  BY DEF Aside, SameContents, Referenced, BootInv, BootTypeOK
<1>6. \A q \in Starters : Seeding(q)' => q # p /\ Seeding(q) /\ proc'[q] = proc[q]
  BY DEF Aside, Others, Seeding
<1>7. \A q \in Starters : /\ TmpOpen(q) <=> proc[q].pc \in {"write", "rename"}
                          /\ TmpOpen(q)' <=> proc'[q].pc \in {"write", "rename"}
                          /\ TmpOpen(q) => Seeding(q)
                          /\ TmpOpen(q)' => Seeding(q)'
  BY DEF TmpOpen, Seeding
<1>8. Alone'
  <2> SUFFICES ASSUME ~overlap PROVE Alone'
    BY DEF Aside, Alone
  <2>1. \A q, r \in Starters : TmpOpen(q)' /\ TmpOpen(r)' => q = r
    BY <1>6, <1>7 DEF BootInv, Alone
  <2>2. \A q \in Starters : /\ proc'[q].pc = "write" => tmp = proc'[q].fd /\ data'[tmp] = EMPTY
                            /\ proc'[q].pc = "rename" => tmp # NONE /\ data'[tmp] = proc'[q].rel
    <3> TAKE q \in Starters
    <3>1. CASE proc'[q].pc \notin {"write", "rename"}
      BY <3>1
    <3>2. CASE proc'[q].pc \in {"write", "rename"}
      <4>1. proc'[q] = proc[q]
        BY <1>6, <1>7, <3>2
      <4>2. proc[q].pc = "write" => tmp # NONE
        BY DEF BootInv, Alone, Progress
      <4>3. QED
        BY <1>5, <4>1, <4>2 DEF BootInv, Alone
    <3>3. QED
      BY <3>1, <3>2
  <2>3. \A q \in Starters : proc'[q].pc = "failed" /\ ~proc'[q].broken => proc'[q].missing # {}
    BY DEF Aside, Others, BootInv, Alone
  <2>4. marker # NONE => data'[marker] \in Releases
    BY <1>4 DEF BootInv, Alone
  <2>5. QED
    BY <2>1, <2>2, <2>3, <2>4 DEF Aside, Alone
<1>9. OneRelease'
  BY <1>5, <1>6, <1>7 DEF Aside, BootInv, OneRelease, Unreadable, Edited
<1>10. Excusable'
  <2>1. \A q \in Starters : proc[q].left \subseteq Bundles
    BY DEF BootInv, BootTypeOK, Processes
  <2>2. QED
    BY <1>6, <2>1 DEF Aside, BootInv, Excusable, Edited
<1>11. MarkerNamesCatalog'
  BY <1>4 DEF Aside, BootInv, MarkerNamesCatalog, Edited
<1>12. QED
  BY <1>1, <1>2, <1>3, <1>8, <1>9, <1>10, <1>11 DEF BootInv

(* What is left of a process once its bootstrap is over.                   *)
LEMMA EndsFacts ==
  ASSUME BootInv, NEW p \in Starters, NEW from, NEW how \in {"failed", "serving"},
         Ends(p, from, how)
  PROVE  /\ Others(p) /\ proc[p].pc = from
         /\ proc'[p].pc = how /\ proc'[p].fd = NONE
         /\ proc'[p].missing = proc[p].missing /\ proc'[p].broken = proc[p].broken
BY DEF Ends, Others, BootInv, BootTypeOK, Processes, ProcessPCs, Off

LEMMA BreaksFacts ==
  ASSUME BootInv, NEW p \in Starters, NEW from, Breaks(p, from)
  PROVE  /\ Others(p) /\ proc[p].pc = from
         /\ proc'[p] = [Off EXCEPT !.pc = "failed", !.broken = TRUE]
BY DEF Breaks, Others, BootInv, BootTypeOK, Processes, ProcessPCs, Off

LEMMA SameData == ASSUME BootInv, UNCHANGED data PROVE SameContents
BY DEF SameContents, BootInv, BootTypeOK

(* Contents keeps what is referred to.                                     *)
LEMMA ContentsFacts ==
  ASSUME NEW d \in [Inodes -> Releases \cup Unreadable], Contents(d)
  PROVE  /\ data' \in [Inodes -> Releases \cup Unreadable]
         /\ \A i \in Inodes : i \in Referenced' => data'[i] = d[i]
         /\ \A i \in Inodes : data'[i] \in {d[i], EMPTY}
BY DEF Contents, Unreadable

LEMMA StartKeeps ==
  ASSUME BootInv, NEW p \in Starters, NEW r \in Releases, Start(p, r)
  PROVE  BootInv'
<1>1. /\ proc[p].pc = "off" /\ proc[p] \in Processes
      /\ proc' = [proc EXCEPT ![p].pc = "marker", ![p].rel = r]
      /\ UNCHANGED <<cat, marker, tmp, data, overlap, mixed, pending, excused>>
  BY DEF Start, BootInv, BootTypeOK, ghosts
<1>2. /\ Others(p) /\ proc'[p].pc = "marker" /\ proc'[p].rel = r /\ proc'[p].fd = proc[p].fd
      /\ proc'[p].missing = proc[p].missing
  BY <1>1 DEF Others, BootInv, BootTypeOK, Processes, ProcessPCs
<1>3. Progress(p)' /\ ~Seeding(p)'
  BY <1>1, <1>2 DEF Progress, BootInv, Seeding, TmpOpen
<1>4. Aside(p)
  BY <1>1, <1>2, <1>3, SameData DEF Aside, BootInv, BootTypeOK
<1>5. QED
  BY <1>4, AsideKeeps

LEMMA ValidateKeeps ==
  ASSUME BootInv, NEW p \in Starters, Validate(p)
  PROVE  BootInv'
<1> DEFINE b == Min(proc[p].left)
<1>1. /\ proc[p].pc = "validate" /\ proc[p] \in Processes /\ Progress(p)
      /\ UNCHANGED <<cat, marker, tmp, data, overlap, mixed, pending, excused>>
  BY DEF Validate, BootInv, BootTypeOK, ghosts
<1>2. CASE proc[p].left # {} /\ LookUp(p, b)
  <2>1. b \in Bundles
    <3>1. proc[p].left \subseteq Bundles /\ proc[p].left \in SUBSET Nat
      BY <1>1, BootAssumption DEF Processes
    <3>2. QED
      BY <1>2, <3>1, MinIsLeast
  <2> HIDE DEF b
  <2>2. PICK readable \in BOOLEAN :
          proc' = [proc EXCEPT
                     ![p].left = @ \ {b},
                     ![p].missing = IF readable /\ HasEntries(cat[b], proc[p].rel)
                                    THEN @ ELSE @ \cup {b},
                     ![p].broken = @ \/ ~readable]
    BY <1>2 DEF LookUp
  <2>3. PICK missing \in SUBSET Bundles, broken \in BOOLEAN :
          proc' = [proc EXCEPT ![p].left = @ \ {b}, ![p].missing = missing, ![p].broken = broken]
    BY <1>1, <2>1, <2>2, Zenon DEF Processes, BootInv, BootTypeOK
  <2>4. /\ Others(p) /\ proc'[p].pc = "validate" /\ proc'[p].rel = proc[p].rel
        /\ proc'[p].fd = proc[p].fd /\ proc'[p].left = proc[p].left \ {b}
    BY <1>1, <2>3 DEF Others, BootInv, BootTypeOK, Processes, ProcessPCs
  <2>5. Progress(p)' /\ ~Seeding(p)'
    BY <1>1, <2>4 DEF Progress, Seeding, TmpOpen
  <2>6. Aside(p)
    BY <1>1, <2>4, <2>5, SameData DEF Aside, BootInv, BootTypeOK
  <2>7. QED
    BY <2>6, AsideKeeps
<1>3. CASE proc[p].left = {} /\ Ends(p, "validate", IF proc[p].missing = {} THEN "serving" ELSE "failed")
  <2>1. PICK how \in {"failed", "serving"} :
          Ends(p, "validate", how) /\ (how = "failed" => proc[p].missing # {})
    BY <1>3
  <2>2. Others(p) /\ proc'[p].pc = how /\ proc'[p].fd = NONE /\ proc'[p].missing = proc[p].missing
    BY <2>1, EndsFacts
  <2>3. Progress(p)' /\ ~Seeding(p)'
    BY <1>1, <2>2 DEF Progress, Seeding, TmpOpen, Off
  <2>4. Aside(p)
    BY <1>1, <2>1, <2>2, <2>3, SameData DEF Aside, BootInv, BootTypeOK, Off
  <2>5. QED
    BY <2>4, AsideKeeps
<1>4. QED
  BY <1>2, <1>3 DEF Validate

LEMMA ExitKeeps ==
  ASSUME BootInv, NEW p \in Starters, Exit(p)
  PROVE  BootInv'
<1>1. Others(p) /\ proc'[p] = Off
  BY DEF Exit, Others, BootInv, BootTypeOK, Processes, ProcessPCs, Off
<1>2. Progress(p)' /\ ~Seeding(p)'
  BY <1>1 DEF Progress, Seeding, TmpOpen, Off
<1>3. SameContents
  BY ContentsFacts DEF SameContents, Exit, BootInv, BootTypeOK
<1>4. Aside(p)
  BY <1>1, <1>2, <1>3 DEF Aside, Exit, BootInv, BootTypeOK, Off
<1>5. QED
  BY <1>4, AsideKeeps

(* An I/O error before anything was stored.                                *)
LEMMA BreaksKeeps ==
  ASSUME BootInv, NEW p \in Starters, NEW from, Breaks(p, from),
         UNCHANGED <<cat, marker, tmp, data, ghosts>>
  PROVE  BootInv'
<1>1. Others(p) /\ proc'[p] = [Off EXCEPT !.pc = "failed", !.broken = TRUE]
  BY BreaksFacts
<1>2. Progress(p)' /\ ~Seeding(p)'
  BY <1>1 DEF Progress, Seeding, TmpOpen, Off
<1>3. Aside(p)
  BY <1>1, <1>2, SameData DEF Aside, BootInv, BootTypeOK, Off, ghosts
<1>4. QED
  BY <1>3, AsideKeeps

(* A start that fails for want of a file it can read or rename.            *)
LEMMA FailsKeeps ==
  ASSUME BootInv, NEW p \in Starters, NEW from, Ends(p, from, "failed"), overlap,
         UNCHANGED <<cat, marker, tmp, data, ghosts>>
  PROVE  BootInv'
<1>1. Others(p) /\ proc'[p].pc = "failed" /\ proc'[p].fd = NONE /\ proc'[p].missing = proc[p].missing
  BY EndsFacts
<1>2. Progress(p)' /\ ~Seeding(p)'
  BY <1>1 DEF Progress, Seeding, TmpOpen, Off, BootInv, ghosts
<1>3. Aside(p)
  BY <1>1, <1>2, SameData DEF Aside, BootInv, BootTypeOK, Off, ghosts
<1>4. QED
  BY <1>3, AsideKeeps

-----------------------------------------------------------------------------
(* Steps of the seeding                                                    *)

(* A starter whose release the marker does not name begins to seed.        *)
LEMMA SeedsKeeps ==
  ASSUME BootInv, NEW p \in Starters, proc[p].pc = "marker", Seeds(p),
         UNCHANGED <<cat, marker, tmp, data, overlap, pending>>,
         excused' \in [Bundles -> SUBSET Starters],
         \A b \in Bundles : cat[b] \in Edited => excused'[b] = excused[b] \cup {p}
  PROVE  BootInv'
<1>1. proc[p] \in Processes /\ Progress(p)
  BY DEF BootInv, BootTypeOK
<1>2. /\ Others(p) /\ proc'[p].pc = "seed" /\ proc'[p].left = Bundles
      /\ proc'[p].rel = proc[p].rel /\ proc'[p].fd = proc[p].fd
      /\ proc'[p].missing = proc[p].missing
  BY ZenonT(40) DEF Seeds, Others, BootInv, BootTypeOK, Processes, ProcessPCs
<1>3. mixed' = (mixed \/ \E q \in Starters \ {p} : Seeding(q) /\ proc[q].rel # proc[p].rel)
  BY DEF Seeds
<1>4. BootTypeOK'
  BY <1>2, <1>3 DEF Others, BootInv, BootTypeOK, Unreadable, Edited
<1>5. \A q \in Starters : Progress(q)'
  BY <1>1, <1>2 DEF Others, BootInv, Progress, Seeding, TmpOpen
<1>6. MarkerSet'
  BY DEF BootInv, MarkerSet, Edited
<1>7. \A q \in Starters : /\ TmpOpen(q)' <=> TmpOpen(q)
                          /\ TmpOpen(q) => q # p /\ Seeding(q) /\ proc'[q] = proc[q]
                          /\ Seeding(q)' <=> q = p \/ Seeding(q)
  BY <1>2 DEF TmpOpen, Seeding, Others
<1>8. Alone'
  BY <1>2, <1>7 DEF Others, BootInv, Alone
<1>9. OneRelease'
  <2> SUFFICES ASSUME ~mixed' PROVE OneRelease'
    BY DEF OneRelease
  <2>1. ~mixed /\ \A q \in Starters \ {p} : Seeding(q) => proc[q].rel = proc[p].rel
    BY <1>3
  <2>2. \A q, r \in Starters : Seeding(q)' /\ Seeding(r)' => proc'[q].rel = proc'[r].rel
    BY <1>2, <1>7, <2>1 DEF Others, BootInv, OneRelease
  <2>3. \A q \in Starters : TmpOpen(q)' /\ tmp' # NONE =>
                              data'[tmp'] \in Unreadable \cup {proc'[q].rel}
    BY <1>7, <2>1 DEF BootInv, OneRelease
  <2>4. \A q \in Starters : Seeding(q)' =>
          \A b \in Bundles \ proc'[q].left : cat'[b] \in Edited \cup {proc'[q].rel}
    BY <1>2, <1>7, <2>1 DEF Others, BootInv, OneRelease
  <2>5. QED
    BY <2>2, <2>3, <2>4 DEF OneRelease, Unreadable, Edited
<1>10. Excusable'
  <2>1. \A q \in Starters : proc[q].left \subseteq Bundles
    BY DEF BootInv, BootTypeOK, Processes
  <2>2. QED
    BY <1>2, <1>7, <2>1 DEF Others, BootInv, Excusable, Edited
<1>11. MarkerNamesCatalog'
  BY <1>3 DEF BootInv, MarkerNamesCatalog, Edited
<1>12. QED
  BY <1>4, <1>5, <1>6, <1>8, <1>9, <1>10, <1>11 DEF BootInv

LEMMA ReadMarkerKeeps ==
  ASSUME BootInv, NEW p \in Starters, ReadMarker(p)
  PROVE  BootInv'
<1>1. /\ proc[p].pc = "marker" /\ proc[p] \in Processes /\ Progress(p) /\ proc[p].rel \in Releases
      /\ UNCHANGED <<cat, marker, tmp, data, overlap, pending>>
      /\ excused \in [Bundles -> SUBSET Starters]
  BY DEF ReadMarker, BootInv, BootTypeOK, Progress
<1>2. CASE marker = NONE
  <2>1. Seeds(p) /\ UNCHANGED excused
    BY <1>2 DEF ReadMarker
  <2>2. \A b \in Bundles : cat[b] \notin Edited
    BY <1>2 DEF BootInv, MarkerSet
  <2>3. QED
    BY <1>1, <2>1, <2>2, SeedsKeeps
<1>3. CASE marker # NONE /\ data[marker] \in Unreadable /\ Ends(p, "marker", "failed")
           /\ UNCHANGED <<mixed, excused>>
  <2>1. overlap
    BY <1>3, BootAssumption DEF BootInv, BootTypeOK, Alone, Unreadable
  <2>2. QED
    BY <1>1, <1>3, <2>1, FailsKeeps DEF ghosts
<1>4. CASE /\ marker # NONE /\ UNCHANGED <<mixed, excused>>
           /\ proc' = [proc EXCEPT ![p].pc = "validate", ![p].left = Required]
  <2>1. /\ Others(p) /\ proc'[p].pc = "validate" /\ proc'[p].left = Required
        /\ proc'[p].rel = proc[p].rel /\ proc'[p].fd = proc[p].fd
        /\ proc'[p].missing = proc[p].missing
    <3>1. proc \in [Starters -> Processes] BY DEF BootInv, BootTypeOK
    <3>2. Required \in SUBSET Bundles BY BootAssumption
    <3>3. [proc[p] EXCEPT !.pc = "validate", !.left = Required] \in Processes
      BY <1>1, <3>2 DEF Processes, ProcessPCs
    <3>4. proc' = [proc EXCEPT ![p] = [proc[p] EXCEPT !.pc = "validate", !.left = Required]]
      BY <1>4
    <3>5. Others(p) /\ proc'[p] = [proc[p] EXCEPT !.pc = "validate", !.left = Required]
      BY <3>1, <3>3, <3>4 DEF Others
    <3> QED BY <1>1, <3>5 DEF Processes
  <2>2. Progress(p)' /\ ~Seeding(p)'
    BY <1>1, <1>4, <2>1 DEF Progress, Seeding, TmpOpen
  <2>3. Aside(p)
    BY <1>1, <1>4, <2>1, <2>2, SameData DEF Aside, BootInv, BootTypeOK
  <2>4. QED
    BY <2>3, AsideKeeps
<1>5. CASE /\ Seeds(p)
           /\ excused' = [b \in Bundles |-> IF cat[b] \in Edited THEN excused[b] \cup {p} ELSE {}]
  <2>1. excused' \in [Bundles -> SUBSET Starters]
    BY <1>1, <1>5
  <2>2. \A b \in Bundles : cat[b] \in Edited => excused'[b] = excused[b] \cup {p}
    BY <1>5
  <2>3. QED
    BY <1>1, <1>5, <2>1, <2>2, SeedsKeeps
<1>6. QED
  BY <1>2, <1>3, <1>4, <1>5 DEF ReadMarker

(* A bundle is stored: p goes on with the rest, or breaks.                 *)
LEMMA StoredKeeps ==
  ASSUME BootInv, NEW p \in Starters, NEW b \in proc[p].left, proc[p].pc = "seed",
         Stored(p, b), UNCHANGED <<marker, tmp, data, overlap, mixed>>,
         proc' = [proc EXCEPT ![p].left = @ \ {b}] \/ Breaks(p, "seed")
  PROVE  BootInv'
<1>1. proc[p] \in Processes /\ Progress(p) /\ proc[p].rel \in Releases /\ b \in Bundles
  BY DEF BootInv, BootTypeOK, Progress, Processes
<1>2. /\ Others(p)
      /\ \/ /\ proc'[p].pc = "seed" /\ proc'[p].rel = proc[p].rel /\ proc'[p].fd = proc[p].fd
            /\ proc'[p].left = proc[p].left \ {b} /\ proc'[p].missing = proc[p].missing
         \/ /\ proc'[p].pc = "failed" /\ proc'[p].fd = NONE /\ proc'[p].missing = {}
            /\ proc'[p].broken
  <2>1. CASE proc' = [proc EXCEPT ![p].left = @ \ {b}]
    BY <1>1, <2>1 DEF Others, BootInv, BootTypeOK, Processes
  <2>2. CASE Breaks(p, "seed")
    BY <2>2, BreaksFacts DEF Off
  <2>3. QED
    BY <2>1, <2>2
<1>3. /\ cat' = [cat EXCEPT ![b] = proc[p].rel] /\ pending' = pending \cup {b}
      /\ excused' = [excused EXCEPT ![b] = {}]
  BY DEF Stored
<1>4. /\ cat'[b] = proc[p].rel /\ \A a \in Bundles \ {b} : cat'[a] = cat[a] /\ excused'[a] = excused[a]
      /\ proc[p].rel # NONE /\ proc[p].rel \notin Edited
  BY <1>1, <1>3, BootAssumption DEF BootInv, BootTypeOK, Edited
<1>5. BootTypeOK'
  BY <1>1, <1>2, <1>3 DEF Others, BootInv, BootTypeOK, Unreadable, Edited
<1>6. \A q \in Starters : proc[q].left \subseteq Bundles /\ proc[q].missing \subseteq Bundles
  BY DEF BootInv, BootTypeOK, Processes
<1>7. \A q \in Starters : Progress(q)'
  BY <1>1, <1>2, <1>4, <1>6 DEF Others, BootInv, Progress, Seeding, TmpOpen
<1>8. MarkerSet'
  BY <1>4 DEF BootInv, MarkerSet, Edited
<1>9. \A q \in Starters : /\ TmpOpen(q)' <=> TmpOpen(q)
                          /\ TmpOpen(q) => q # p /\ Seeding(q) /\ proc'[q] = proc[q]
                          /\ Seeding(q)' => Seeding(q) /\ proc'[q].rel = proc[q].rel
                          /\ Seeding(p)
  BY <1>2 DEF TmpOpen, Seeding, Others
<1>10. Alone'
  BY <1>2, <1>9 DEF Others, BootInv, Alone
<1>11. OneRelease'
  <2> SUFFICES ASSUME ~mixed PROVE OneRelease'
    BY DEF OneRelease
  <2>1. \A q, r \in Starters : Seeding(q)' /\ Seeding(r)' => proc'[q].rel = proc'[r].rel
    BY <1>9 DEF BootInv, OneRelease
  <2>2. \A q \in Starters : TmpOpen(q)' /\ tmp' # NONE =>
                              data'[tmp'] \in Unreadable \cup {proc'[q].rel}
    BY <1>9 DEF BootInv, OneRelease
  <2>3. \A q \in Starters : Seeding(q)' =>
          \A a \in Bundles \ proc'[q].left : cat'[a] \in Edited \cup {proc'[q].rel}
    <3> SUFFICES ASSUME NEW q \in Starters, Seeding(q)', NEW a \in Bundles \ proc'[q].left
                 PROVE  cat'[a] \in Edited \cup {proc'[q].rel}
      OBVIOUS
    <3>1. CASE a = b
      BY <1>4, <1>9, <3>1 DEF BootInv, OneRelease
    <3>2. CASE a # b
      <4>1. a \notin proc[q].left
        BY <1>2, <3>2 DEF Others, Seeding
      <4>2. QED
        BY <1>4, <1>9, <3>2, <4>1 DEF BootInv, OneRelease
    <3>3. QED
      BY <3>1, <3>2
  <2>4. QED
    BY <2>1, <2>2, <2>3 DEF OneRelease, Unreadable, Edited
<1>12. Excusable'
  <2> SUFFICES ASSUME NEW q \in Starters, Seeding(q)', NEW a \in proc'[q].left, cat'[a] \in Edited
               PROVE  q \in excused'[a]
    BY DEF Excusable, Edited
  <2>1. a \in proc[q].left /\ a \in Bundles /\ a # b
    BY <1>2, <1>4, <1>6 DEF Others, Seeding
  <2>2. QED
    BY <1>4, <1>9, <2>1 DEF BootInv, Excusable
<1>13. MarkerNamesCatalog'
  BY <1>3, <1>4 DEF BootInv, MarkerNamesCatalog, Edited
<1>14. QED
  BY <1>5, <1>7, <1>8, <1>10, <1>11, <1>12, <1>13 DEF BootInv

LEMMA SeedNextKeeps ==
  ASSUME BootInv, NEW p \in Starters, SeedNext(p)
  PROVE  BootInv'
<1> DEFINE b == Min(proc[p].left)
<1>1. /\ proc[p].pc = "seed" /\ proc[p].left # {}
      /\ UNCHANGED <<marker, tmp, data, overlap, mixed>>
  BY DEF SeedNext
<1>2. b \in proc[p].left
  <2>1. proc[p].left \subseteq Bundles /\ proc[p].left \in SUBSET Nat
    BY BootAssumption DEF BootInv, BootTypeOK, Processes
  <2>2. QED
    BY <1>1, <2>1, MinIsLeast
<1>3. \/ Stored(p, b) /\ (proc' = [proc EXCEPT ![p].left = @ \ {b}] \/ Breaks(p, "seed"))
      \/ Breaks(p, "seed") /\ UNCHANGED <<cat, pending, excused>>
  BY Zenon DEF SeedNext
<1> HIDE DEF b
<1>4. QED
  BY <1>1, <1>2, <1>3, StoredKeeps, BreaksKeeps DEF ghosts

-----------------------------------------------------------------------------
(* Steps of the marker                                                     *)

LEMMA OpenTmpKeeps ==
  ASSUME BootInv, NEW p \in Starters, OpenTmp(p)
  PROVE  BootInv'
<1> DEFINE inode == IF tmp = NONE THEN Min(Inodes \ Referenced) ELSE tmp
<1>1. /\ proc[p].pc = "seed" /\ proc[p].left = {} /\ proc[p] \in Processes /\ Progress(p)
      /\ proc[p].rel \in Releases
      /\ UNCHANGED <<cat, marker, mixed, pending, excused>>
  BY DEF OpenTmp, OpensTmp, BootInv, BootTypeOK, Progress
<1>2. inode \in Inodes /\ inode # NONE /\ inode # marker
  <2>1. CASE tmp = NONE
    BY <2>1, FreshInode, BootAssumption DEF BootInv, Referenced
  <2>2. CASE tmp # NONE
    BY <2>2, BootAssumption DEF BootInv, BootTypeOK, MarkerSet
  <2>3. QED
    BY <2>1, <2>2
<1>3. /\ tmp' = inode /\ data' = [data EXCEPT ![inode] = EMPTY]
      /\ proc' = [proc EXCEPT ![p].pc = "write", ![p].fd = inode, ![p].left = {}]
      /\ overlap' = (overlap \/ \E q \in Starters \ {p} : TmpOpen(q))
  BY Zenon DEF OpenTmp, OpensTmp
<1> HIDE DEF inode
<1>4. /\ Others(p) /\ proc'[p].pc = "write" /\ proc'[p].fd = inode /\ proc'[p].left = {}
      /\ proc'[p].rel = proc[p].rel /\ proc'[p].missing = proc[p].missing
  BY <1>1, <1>2, <1>3 DEF Others, BootInv, BootTypeOK, Processes, ProcessPCs
<1>5. /\ data'[inode] = EMPTY /\ \A i \in Inodes \ {inode} : data'[i] = data[i]
      /\ data' \in [Inodes -> Releases \cup Unreadable]
  BY <1>2, <1>3 DEF BootInv, BootTypeOK, Unreadable
<1>6. marker # NONE => marker \in Inodes /\ data'[marker] = data[marker]
  BY <1>2, <1>5 DEF BootInv, BootTypeOK
<1>7. BootTypeOK'
  BY <1>1, <1>2, <1>3, <1>4, <1>5 DEF Others, BootInv, BootTypeOK, Edited, Unreadable
<1>8. \A q \in Starters : Progress(q)'
  BY <1>1, <1>2, <1>4 DEF Others, BootInv, Progress, Seeding, TmpOpen
<1>9. MarkerSet'
  BY <1>1, <1>2, <1>3 DEF BootInv, MarkerSet, Edited
<1>10. \A q \in Starters : /\ TmpOpen(q)' <=> q = p \/ TmpOpen(q)
                           /\ Seeding(q)' <=> Seeding(q)
                           /\ Seeding(p) /\ proc'[q].rel = proc[q].rel
                           /\ Seeding(q) => proc'[q].left = proc[q].left
  BY <1>1, <1>4 DEF TmpOpen, Seeding, Others
<1>11. Alone'
  <2> SUFFICES ASSUME ~overlap' PROVE Alone'
    BY DEF Alone
  <2>1. ~overlap /\ \A q \in Starters \ {p} : ~TmpOpen(q)
    BY <1>3
  <2>2. \A q \in Starters \ {p} : proc'[q].pc \notin {"write", "rename"} /\ proc'[q] = proc[q]
    BY <1>4, <2>1 DEF TmpOpen, Others
  <2>3. \A q, r \in Starters : TmpOpen(q)' /\ TmpOpen(r)' => q = r
    BY <1>10, <2>1
  <2>4. marker # NONE => data'[marker] \in Releases
    BY <1>6, <2>1 DEF BootInv, Alone
  <2>5. \A q \in Starters : proc'[q].pc = "failed" /\ ~proc'[q].broken => proc'[q].missing # {}
    BY <1>4, <2>1, <2>2 DEF BootInv, Alone
  <2>6. QED
    BY <1>1, <1>3, <1>4, <1>5, <2>2, <2>3, <2>4, <2>5 DEF Alone
<1>12. OneRelease'
  <2>1. data'[tmp'] \in Unreadable
    BY <1>3, <1>5 DEF Unreadable
  <2>2. QED
    BY <1>1, <1>10, <2>1 DEF BootInv, OneRelease, Unreadable, Edited
<1>13. Excusable'
  BY <1>1, <1>10 DEF BootInv, Excusable, Edited
<1>14. MarkerNamesCatalog'
  BY <1>1, <1>6 DEF BootInv, MarkerNamesCatalog, Edited
<1>15. QED
  BY <1>7, <1>8, <1>9, <1>11, <1>12, <1>13, <1>14 DEF BootInv

(* The bytes go to the inode that p has opened, whatever it is called now. *)
LEMMA WriteTmpKeeps ==
  ASSUME BootInv, NEW p \in Starters, WriteTmp(p)
  PROVE  BootInv'
<1> DEFINE inode == proc[p].fd
<1>1. PICK bytes \in {proc[p].rel, TORN} :
        /\ proc[p].pc = "write" /\ Contents([data EXCEPT ![inode] = bytes])
        /\ UNCHANGED <<cat, marker, tmp, ghosts>>
        /\ \/ /\ proc' = [proc EXCEPT ![p].pc = "rename", ![p].fd = NONE]
              /\ bytes = TORN => data[inode] # EMPTY
           \/ bytes = TORN /\ Breaks(p, "write")
  <2>1. /\ proc[p].pc = "write" /\ UNCHANGED <<cat, marker, tmp, ghosts>>
        /\ \/ /\ proc' = [proc EXCEPT ![p].pc = "rename", ![p].fd = NONE]
              /\ \/ Contents([data EXCEPT ![inode] = proc[p].rel])
                 \/ data[inode] # EMPTY /\ Contents([data EXCEPT ![inode] = TORN])
           \/ Breaks(p, "write") /\ Contents([data EXCEPT ![inode] = TORN])
    BY Zenon DEF WriteTmp, Breaks
  <2> HIDE DEF inode
  <2>2. CASE /\ proc' = [proc EXCEPT ![p].pc = "rename", ![p].fd = NONE]
             /\ Contents([data EXCEPT ![inode] = proc[p].rel])
    <3> WITNESS proc[p].rel \in {proc[p].rel, TORN}
    <3>1. proc[p].rel # TORN
      BY <2>1, BootAssumption DEF BootInv, Progress
    <3>2. QED
      BY <2>1, <2>2, <3>1
  <2>3. CASE /\ proc' = [proc EXCEPT ![p].pc = "rename", ![p].fd = NONE]
             /\ data[inode] # EMPTY /\ Contents([data EXCEPT ![inode] = TORN])
    BY <2>1, <2>3
  <2>4. CASE Breaks(p, "write") /\ Contents([data EXCEPT ![inode] = TORN])
    BY <2>1, <2>4
  <2>5. QED
    BY <2>1, <2>2, <2>3, <2>4
<1>2. /\ proc[p] \in Processes /\ Progress(p) /\ proc[p].rel \in Releases
      /\ inode \in Inodes /\ proc[p].left = {} /\ Seeding(p) /\ TmpOpen(p)
  BY <1>1 DEF BootInv, BootTypeOK, Progress, Processes, Seeding, TmpOpen
<1>3. [data EXCEPT ![inode] = bytes] \in [Inodes -> Releases \cup Unreadable]
  BY <1>2 DEF BootInv, BootTypeOK, Unreadable
<1>4. /\ data' \in [Inodes -> Releases \cup Unreadable]
      /\ \A i \in Inodes : i \in Referenced' => data'[i] = IF i = inode THEN bytes ELSE data[i]
  BY <1>1, <1>3, ContentsFacts DEF BootInv, BootTypeOK
<1>5. /\ marker # NONE => data'[marker] = IF marker = inode THEN bytes ELSE data[marker]
      /\ tmp # NONE => data'[tmp] = IF tmp = inode THEN bytes ELSE data[tmp]
  BY <1>1, <1>4 DEF Referenced, BootInv, BootTypeOK
<1>6. /\ Others(p) /\ proc'[p].fd = NONE
      /\ \/ /\ proc'[p].pc = "rename" /\ proc'[p].rel = proc[p].rel /\ proc'[p].left = {}
            /\ proc'[p].missing = proc[p].missing
         \/ /\ proc'[p].pc = "failed" /\ proc'[p].missing = {} /\ proc'[p].broken
  <2>1. CASE proc' = [proc EXCEPT ![p].pc = "rename", ![p].fd = NONE]
    BY <1>2, <2>1 DEF Others, BootInv, BootTypeOK, Processes, ProcessPCs
  <2>2. CASE Breaks(p, "write")
    <3>1. Others(p) /\ proc'[p] = [Off EXCEPT !.pc = "failed", !.broken = TRUE]
      BY <2>2, BreaksFacts
    <3>2. QED
      BY <3>1 DEF Off
  <2>3. QED
    BY <1>1, <2>1, <2>2
<1>7. BootTypeOK'
  BY <1>1, <1>4, <1>6 DEF Others, BootInv, BootTypeOK, ghosts, Edited, Unreadable
<1>8. \A q \in Starters : Progress(q)'
  BY <1>1, <1>2, <1>6 DEF Others, BootInv, Progress, Seeding, TmpOpen
<1>9. MarkerSet'
  BY <1>1 DEF BootInv, MarkerSet, Edited
<1>10. \A q \in Starters : /\ TmpOpen(q)' => TmpOpen(q)
                           /\ Seeding(q)' => /\ Seeding(q) /\ proc'[q].rel = proc[q].rel
                                             /\ proc'[q].left = proc[q].left
  BY <1>2, <1>6 DEF TmpOpen, Seeding, Others
<1>11. Alone'
  <2> SUFFICES ASSUME ~overlap PROVE Alone'
    BY <1>1 DEF Alone, ghosts
  <2>1. \A q \in Starters \ {p} : ~TmpOpen(q) /\ proc'[q] = proc[q]
    BY <1>2, <1>6 DEF BootInv, Alone, Others
  <2>2. \A q \in Starters \ {p} : proc'[q].pc \notin {"write", "rename"}
    BY <2>1 DEF TmpOpen
  <2>3. tmp = inode /\ data[tmp] = EMPTY /\ tmp # NONE
    BY <1>1, <1>2, BootAssumption DEF BootInv, Alone
  <2>4. proc'[p].pc = "rename" => bytes = proc[p].rel
    <3>1. bytes = TORN => Breaks(p, "write")
      BY <1>1, <2>3
    <3>2. Breaks(p, "write") => proc'[p].pc = "failed"
      BY BreaksFacts DEF Off
    <3>3. QED
      BY <1>1, <3>1, <3>2
  <2>5. marker # NONE => data'[marker] \in Releases
    BY <1>5, <2>3 DEF BootInv, Alone, MarkerSet
  <2>6. \A q, r \in Starters : TmpOpen(q)' /\ TmpOpen(r)' => q = r
    BY <1>10, <2>1
  <2>7. \A q \in Starters : proc'[q].pc = "failed" /\ ~proc'[q].broken => proc'[q].missing # {}
    BY <1>6, <2>1 DEF BootInv, Alone
  <2>8. \A q \in Starters : /\ proc'[q].pc # "write"
                            /\ proc'[q].pc = "rename" => tmp # NONE /\ data'[tmp] = proc'[q].rel
    BY <1>5, <1>6, <2>2, <2>3, <2>4
  <2>9. QED
    BY <1>1, <2>5, <2>6, <2>7, <2>8 DEF Alone
<1>12. OneRelease'
  <2> SUFFICES ASSUME ~mixed PROVE OneRelease'
    BY <1>1 DEF OneRelease, ghosts
  <2>1. \A q \in Starters : TmpOpen(q)' /\ tmp # NONE => data'[tmp] \in Unreadable \cup {proc'[q].rel}
    <3> SUFFICES ASSUME NEW q \in Starters, TmpOpen(q)', tmp # NONE
                 PROVE  data'[tmp] \in Unreadable \cup {proc'[q].rel}
      OBVIOUS
    <3>1. TmpOpen(q) /\ Seeding(q) /\ proc'[q].rel = proc[q].rel /\ proc[q].rel = proc[p].rel
      BY <1>2, <1>10 DEF BootInv, OneRelease, TmpOpen, Seeding
    <3>2. QED
      BY <1>5, <3>1 DEF BootInv, OneRelease, Unreadable
  <2>2. QED
    BY <1>1, <1>10, <2>1 DEF BootInv, OneRelease, Unreadable, Edited
<1>13. Excusable'
  BY <1>1, <1>10 DEF BootInv, Excusable, Edited, ghosts
<1>14. MarkerNamesCatalog'
  <2> SUFFICES ASSUME marker # NONE, data'[marker] \in Releases, ~mixed, NEW b \in Bundles \ pending
               PROVE  cat[b] \in Edited \cup {data'[marker]}
    BY <1>1 DEF MarkerNamesCatalog, ghosts, Edited
  <2>1. CASE marker = inode
    <3>1. data'[marker] = proc[p].rel
      BY <1>5, <2>1, BootAssumption
    <3>2. QED
      BY <1>2, <3>1 DEF BootInv, OneRelease
  <2>2. CASE marker # inode
    BY <1>5, <2>2 DEF BootInv, MarkerNamesCatalog
  <2>3. QED
    BY <2>1, <2>2
<1>15. QED
  BY <1>7, <1>8, <1>9, <1>11, <1>12, <1>13, <1>14 DEF BootInv

(* The marker is set: all bundles are in, and tmp is what p wrote unless   *)
(* starters overlapped.                                                    *)
LEMMA RenamesKeeps ==
  ASSUME BootInv, NEW p \in Starters, proc[p].pc = "rename", tmp # NONE, Renames(p),
         UNCHANGED <<cat, overlap, mixed, excused>>
  PROVE  BootInv'
<1>1. /\ proc[p] \in Processes /\ Progress(p) /\ proc[p].rel \in Releases
      /\ proc[p].left = {} /\ Seeding(p) /\ TmpOpen(p) /\ tmp \in Inodes
      /\ \A b \in Bundles : cat[b] # NONE
  BY DEF BootInv, BootTypeOK, Progress, Seeding, TmpOpen
<1>2. /\ marker' = tmp /\ tmp' = NONE /\ pending' = {} /\ Contents(data)
      /\ proc' = [proc EXCEPT ![p].pc = "validate", ![p].left = Required]
  BY DEF Renames
<1>3. /\ Others(p) /\ proc'[p].pc = "validate" /\ proc'[p].left = Required
      /\ proc'[p].rel = proc[p].rel /\ proc'[p].fd = proc[p].fd
      /\ proc'[p].missing = proc[p].missing
  BY <1>1, <1>2, BootAssumption DEF Others, BootInv, BootTypeOK, Processes, ProcessPCs
<1>4. data' \in [Inodes -> Releases \cup Unreadable] /\ data'[marker'] = data[tmp]
  <2>1. data \in [Inodes -> Releases \cup Unreadable] /\ marker' \in Inodes
    BY <1>1, <1>2 DEF BootInv, BootTypeOK
  <2>2. /\ data' \in [Inodes -> Releases \cup Unreadable]
        /\ \A i \in Inodes : i \in Referenced' => data'[i] = data[i]
    BY <1>2, <2>1, ContentsFacts
  <2>3. QED
    BY <1>2, <2>1, <2>2 DEF Referenced
<1>5. BootTypeOK'
  BY <1>1, <1>2, <1>3, <1>4 DEF Others, BootInv, BootTypeOK, Edited, Unreadable
<1>6. \A q \in Starters : Progress(q)'
  BY <1>1, <1>2, <1>3 DEF Others, BootInv, Progress, Seeding, TmpOpen
<1>7. MarkerSet'
  BY <1>1, <1>2 DEF MarkerSet, Edited
<1>8. \A q \in Starters : /\ Seeding(q)' <=> q # p /\ Seeding(q)
                          /\ TmpOpen(q)' <=> q # p /\ TmpOpen(q)
                          /\ TmpOpen(q) <=> proc[q].pc \in {"write", "rename"}
                          /\ TmpOpen(q)' <=> proc'[q].pc \in {"write", "rename"}
                          /\ q # p => proc'[q] = proc[q]
  BY <1>3 DEF TmpOpen, Seeding, Others
<1>9. Alone'
  <2> SUFFICES ASSUME ~overlap PROVE Alone'
    BY DEF Alone
  <2>1. \A q \in Starters : ~TmpOpen(q)'
    BY <1>1, <1>8 DEF BootInv, Alone
  <2>2. data'[marker'] \in Releases
    BY <1>1, <1>4 DEF BootInv, Alone
  <2>3. \A q \in Starters : proc'[q].pc = "failed" /\ ~proc'[q].broken => proc'[q].missing # {}
    BY <1>3, <1>8 DEF BootInv, Alone
  <2>4. \A q \in Starters : proc'[q].pc \notin {"write", "rename"}
    BY <1>8, <2>1
  <2>5. QED
    BY <2>1, <2>2, <2>3, <2>4 DEF Alone
<1>10. OneRelease'
  <2> SUFFICES ASSUME ~mixed PROVE OneRelease'
    BY DEF OneRelease
  <2>1. \A q, r \in Starters : Seeding(q)' /\ Seeding(r)' => proc'[q].rel = proc'[r].rel
    BY <1>8 DEF BootInv, OneRelease
  <2>2. \A q \in Starters : Seeding(q)' =>
          \A b \in Bundles \ proc'[q].left : cat'[b] \in Edited \cup {proc'[q].rel}
    BY <1>8 DEF BootInv, OneRelease
  <2>3. QED
    BY <1>2, <2>1, <2>2 DEF OneRelease, Edited
<1>11. Excusable'
  BY <1>8 DEF BootInv, Excusable, Edited
<1>12. MarkerNamesCatalog'
  <2> SUFFICES ASSUME data[tmp] \in Releases, ~mixed, NEW b \in Bundles
               PROVE  cat[b] \in Edited \cup {data[tmp]}
    BY <1>2, <1>4 DEF MarkerNamesCatalog, Edited
  <2>1. data[tmp] \in Unreadable \cup {proc[p].rel}
    BY <1>1 DEF BootInv, OneRelease
  <2>2. data[tmp] = proc[p].rel
    BY <2>1, BootAssumption DEF Unreadable
  <2>3. QED
    BY <1>1, <2>2 DEF BootInv, OneRelease
<1>13. QED
  BY <1>5, <1>6, <1>7, <1>9, <1>10, <1>11, <1>12 DEF BootInv

LEMMA RenameTmpKeeps ==
  ASSUME BootInv, NEW p \in Starters, RenameTmp(p)
  PROVE  BootInv'
<1>1. proc[p].pc = "rename" /\ UNCHANGED <<cat, overlap, mixed, excused>>
  BY DEF RenameTmp
<1>2. CASE tmp # NONE /\ Renames(p)
  BY <1>1, <1>2, RenamesKeeps
<1>3. CASE tmp = NONE /\ Ends(p, "rename", "failed") /\ UNCHANGED <<marker, tmp, data, pending>>
  <2>1. overlap
    BY <1>1, <1>3 DEF BootInv, Alone
  <2>2. QED
    BY <1>1, <1>3, <2>1, FailsKeeps DEF ghosts
<1>4. CASE Breaks(p, "rename") /\ UNCHANGED <<marker, tmp, data, pending>>
  BY <1>1, <1>4, BreaksKeeps DEF ghosts
<1>5. QED
  BY <1>2, <1>3, <1>4 DEF RenameTmp

(* An edit excuses those who are seeding while it is made.                 *)
LEMMA EditKeeps ==
  ASSUME BootInv, NEW p \in Starters, NEW b \in Editable, Edit(p, b)
  PROVE  BootInv'
<1>1. PICK what \in Edited : cat' = [cat EXCEPT ![b] = what]
  BY DEF Edit
<1>2. /\ proc[p].pc = "serving" /\ b \in Bundles /\ marker # NONE
      /\ excused' = [excused EXCEPT ![b] = {q \in Starters : Seeding(q)}]
      /\ UNCHANGED <<marker, tmp, data, proc, overlap, mixed, pending>>
  BY BootAssumption DEF Edit, BootInv, Progress
<1>3. /\ cat'[b] = what /\ what # NONE /\ what \in Edited
      /\ \A a \in Bundles \ {b} : cat'[a] = cat[a] /\ excused'[a] = excused[a]
      /\ \A q \in Starters : Seeding(q) => q \in excused'[b]
  BY <1>1, <1>2, BootAssumption DEF BootInv, BootTypeOK, Edited
<1>4. BootTypeOK'
  BY <1>1, <1>2 DEF BootInv, BootTypeOK, Unreadable
<1>5. \A q \in Starters : proc[q].left \subseteq Bundles /\ proc[q].missing \subseteq Bundles
  BY DEF BootInv, BootTypeOK, Processes
<1>6. \A q \in Starters : (Seeding(q)' <=> Seeding(q)) /\ (TmpOpen(q)' <=> TmpOpen(q))
  BY <1>2 DEF Seeding, TmpOpen
<1>7. \A q \in Starters : Progress(q)'
  BY <1>2, <1>3, <1>5, <1>6 DEF BootInv, Progress
<1>8. MarkerSet'
  BY <1>2, <1>3 DEF BootInv, MarkerSet
<1>9. Alone'
  BY <1>2, <1>6 DEF BootInv, Alone
<1>10. OneRelease'
  BY <1>2, <1>3, <1>6 DEF BootInv, OneRelease, Unreadable
<1>11. Excusable'
  <2> SUFFICES ASSUME NEW q \in Starters, Seeding(q), NEW a \in proc[q].left, cat'[a] \in Edited
               PROVE  q \in excused'[a]
    BY <1>2, <1>6 DEF Excusable, Edited
  <2>1. QED
    BY <1>3, <1>5 DEF BootInv, Excusable
<1>12. MarkerNamesCatalog'
  BY <1>2, <1>3 DEF BootInv, MarkerNamesCatalog
<1>13. QED
  BY <1>4, <1>7, <1>8, <1>9, <1>10, <1>11, <1>12 DEF BootInv

-----------------------------------------------------------------------------
(* The theorems                                                            *)

LEMMA BootInitInv == BootInit => BootInv
<1> SUFFICES ASSUME BootInit PROVE BootInv
  OBVIOUS
<1>1. \A p \in Starters : /\ proc[p] \in Processes /\ proc[p].pc = "off" /\ proc[p].fd = NONE
                          /\ proc[p].left = {} /\ proc[p].missing = {}
  BY DEF BootInit, Off, Processes, ProcessPCs
<1>2. BootTypeOK
  BY <1>1 DEF BootInit, BootTypeOK, Unreadable
<1>3. \A p \in Starters : Progress(p) /\ ~Seeding(p) /\ ~TmpOpen(p)
  BY <1>1 DEF Progress, Seeding, TmpOpen
<1>4. MarkerSet
  BY BootAssumption DEF BootInit, MarkerSet, Edited
<1>5. Alone /\ OneRelease /\ Excusable /\ MarkerNamesCatalog
  BY <1>1, <1>3 DEF BootInit, Alone, OneRelease, Excusable, MarkerNamesCatalog
<1>6. QED
  BY <1>2, <1>3, <1>4, <1>5 DEF BootInv

LEMMA BootStepInv == BootInv /\ [BootNext]_bootVars => BootInv'
<1> SUFFICES ASSUME BootInv, [BootNext]_bootVars PROVE BootInv'
  OBVIOUS
<1>1. ASSUME NEW p \in Starters, NEW r \in Releases, Start(p, r) PROVE BootInv'
  BY <1>1, StartKeeps
<1>2. ASSUME NEW p \in Starters, Steps(p) PROVE BootInv'
  BY <1>2, ReadMarkerKeeps, SeedNextKeeps, OpenTmpKeeps, WriteTmpKeeps, RenameTmpKeeps,
     ValidateKeeps DEF Steps
<1>3. ASSUME NEW p \in Starters, Exit(p) PROVE BootInv'
  BY <1>3, ExitKeeps
<1>4. ASSUME NEW p \in Starters, NEW b \in Editable, Edit(p, b) PROVE BootInv'
  BY <1>4, EditKeeps
<1>5. CASE UNCHANGED bootVars
  BY <1>5 DEF bootVars, BootInv, BootTypeOK, Progress, MarkerSet, Alone, OneRelease, Excusable,
              MarkerNamesCatalog, Seeding, TmpOpen
<1>6. QED
  BY <1>1, <1>2, <1>3, <1>4, <1>5 DEF BootNext

LEMMA BootInvHolds == BootSpec => []BootInv
BY BootInitInv, BootStepInv, PTL DEF BootSpec

(* Every state of the start-up has the shape that its code declares.       *)
THEOREM BootTypeCorrect == BootSpec => []BootTypeOK
<1>1. BootInv => BootTypeOK
  BY DEF BootInv
<1>2. QED
  BY <1>1, BootInvHolds, PTL

(* A marker that cannot be read, which stops every later start, takes two  *)
(* starters that had the temporary file open at once: no number of crashes *)
(* and I/O errors of single starters leaves one.                           *)
THEOREM UnreadableMarkerTakesTwo == BootSpec => []UnreadableMarkerNeedsOverlap
<1>1. BootInv => UnreadableMarkerNeedsOverlap
  BY BootAssumption DEF BootInv, Alone, UnreadableMarkerNeedsOverlap, Unreadable
<1>2. QED
  BY <1>1, BootInvHolds, PTL

(* A starter that skips seeding because of the marker finds every bundle   *)
(* of its release, or what a caller made of it.                            *)
THEOREM MarkerIsTrue == BootSpec => []MarkerNamesCatalog
<1>1. BootInv => MarkerNamesCatalog
  BY DEF BootInv
<1>2. QED
  BY <1>1, BootInvHolds, PTL

(* Only validation makes a starter miss a cookbook: the one it looks up.   *)
LEMMA MissIsLookUp ==
  ASSUME BootInv, BootNext, NEW p \in Starters, NEW b \in proc'[p].missing \ proc[p].missing
  PROVE  /\ proc[p].pc = "validate" /\ b \in Bundles
         /\ proc'[p].broken \/ ~HasEntries(cat[b], proc[p].rel)
<1>1. proc \in [Starters -> Processes] /\ \A q \in Starters : proc[q].missing \subseteq Bundles
  BY DEF BootInv, BootTypeOK, Processes
<1> DEFINE Kept == \A x \in Starters : proc'[x].missing \subseteq proc[x].missing
<1>2. ~Kept
  OBVIOUS
<1>3. \A q \in Starters : Seeds(q) \/ OpensTmp(q) \/ Renames(q) => Kept
  <2> SUFFICES ASSUME NEW q \in Starters, Seeds(q) \/ OpensTmp(q) \/ Renames(q) PROVE Kept
    OBVIOUS
  <2>1. PICK pc, left, fd : proc' = [proc EXCEPT ![q].pc = pc, ![q].left = left, ![q].fd = fd]
    <3>1. CASE Seeds(q)
      <4>1. proc' = [proc EXCEPT ![q].pc = "seed", ![q].left = Bundles, ![q].fd = proc[q].fd]
        BY <1>1, <3>1 DEF Seeds, Processes
      <4>2. QED
        BY <4>1
    <3>2. CASE OpensTmp(q)
      <4>1. PICK inode : proc' = [proc EXCEPT ![q].pc = "write", ![q].fd = inode, ![q].left = {}]
        BY <3>2, Zenon DEF OpensTmp
      <4>2. proc' = [proc EXCEPT ![q].pc = "write", ![q].left = {}, ![q].fd = inode]
        BY <1>1, <4>1 DEF Processes
      <4>3. QED
        BY <4>2
    <3>3. CASE Renames(q)
      <4>1. proc' = [proc EXCEPT ![q].pc = "validate", ![q].left = Required, ![q].fd = proc[q].fd]
        BY <1>1, <3>3 DEF Renames, Processes
      <4>2. QED
        BY <4>1
    <3>4. QED
      BY <3>1, <3>2, <3>3
  <2>2. QED
    BY <1>1, <2>1 DEF Processes
<1>4. \A q \in Starters : \A from, how : Ends(q, from, how) => Kept
  BY <1>1 DEF Ends, Off, Processes
<1>5. \A q \in Starters : \A from : Breaks(q, from) => Kept
  BY <1>1 DEF Breaks, Off, Processes
<1> HIDE DEF Kept
<1>6. PICK q \in Starters :
        \/ \E r \in Releases : Start(q, r)
        \/ Steps(q) \/ Exit(q) \/ \E a \in Editable : Edit(q, a)
  BY DEF BootNext
<1>7. ~(\E r \in Releases : Start(q, r)) /\ ~Exit(q) /\ ~(\E a \in Editable : Edit(q, a))
  BY <1>1, <1>2 DEF Kept, Start, Exit, Edit, Off, Processes
<1>8. ~ReadMarker(q)
  <2>1. proc' = [proc EXCEPT ![q].pc = "validate", ![q].left = Required] => Kept
    BY <1>1 DEF Processes, Kept
  <2>2. QED
    BY <1>2, <1>3, <1>4, <2>1, Zenon DEF ReadMarker
<1>9. ~SeedNext(q)
  <2>1. \A a : proc' = [proc EXCEPT ![q].left = @ \ {a}] => Kept
    BY <1>1 DEF Processes, Kept
  <2>2. QED
    BY <1>2, <1>5, <2>1, Zenon DEF SeedNext
<1>10. ~OpenTmp(q) /\ ~RenameTmp(q)
  BY <1>2, <1>3, <1>4, <1>5, Zenon DEF OpenTmp, RenameTmp
<1>11. ~WriteTmp(q)
  <2>1. proc' = [proc EXCEPT ![q].pc = "rename", ![q].fd = NONE] => Kept
    BY <1>1 DEF Processes, Kept
  <2>2. QED
    BY <1>2, <1>5, <2>1, Zenon DEF WriteTmp
<1>12. PICK a : a = Min(proc[q].left) /\ proc[q].pc = "validate" /\ proc[q].left # {} /\ LookUp(q, a)
  <2>1. Validate(q)
    BY <1>6, <1>7, <1>8, <1>9, <1>10, <1>11 DEF Steps
  <2>2. ~Ends(q, "validate", IF proc[q].missing = {} THEN "serving" ELSE "failed")
    BY <1>2, <1>4, Zenon
  <2>3. QED
    BY <2>1, <2>2, Zenon DEF Validate
<1>13. a \in Bundles
  <2>1. proc[q].left \subseteq Bundles /\ proc[q].left \in SUBSET Nat
    BY <1>1, BootAssumption DEF Processes
  <2>2. QED
    BY <1>12, <2>1, MinIsLeast
<1>14. PICK readable \in BOOLEAN :
         proc' = [proc EXCEPT
                    ![q].left = @ \ {a},
                    ![q].missing = IF readable /\ HasEntries(cat[a], proc[q].rel)
                                   THEN @ ELSE @ \cup {a},
                    ![q].broken = @ \/ ~readable]
  BY <1>12 DEF LookUp
<1>15. p = q
  BY <1>1, <1>14
<1>16. b = a /\ ~(readable /\ HasEntries(cat[a], proc[q].rel))
  BY <1>1, <1>14, <1>15 DEF Processes
<1>17. readable \/ proc'[p].broken
  BY <1>1, <1>14, <1>15 DEF Processes
<1>18. QED
  BY <1>12, <1>13, <1>15, <1>16, <1>17

(* A start fails only for an I/O error, for overlapping starters, or for a *)
(* required cookbook that a caller deleted or stored without the entry, or *)
(* that is of another release for one of the causes named.                 *)
THEOREM FailuresAreExplained == BootSpec => FailureHasACause
<1> DEFINE Missed ==
      \A p \in Starters :
         proc[p].pc = "failed" /\ ~proc[p].broken /\ ~overlap => proc[p].missing # {}
           Caused ==
      \A p \in Starters : \A b \in proc'[p].missing \ proc[p].missing :
         proc'[p].broken \/ MissHasACause(p, b)
<1>1. BootInv => Missed
  BY DEF BootInv, Alone
<1>2. BootInv /\ [BootNext]_bootVars => [Caused]_bootVars
  <2> SUFFICES ASSUME BootInv, BootNext, NEW p \in Starters,
                      NEW b \in proc'[p].missing \ proc[p].missing, ~proc'[p].broken
               PROVE  MissHasACause(p, b)
    OBVIOUS
  <2>1. proc[p].pc = "validate" /\ b \in Bundles /\ ~HasEntries(cat[b], proc[p].rel)
    BY MissIsLookUp
  <2>2. marker # NONE /\ cat[b] # NONE /\ proc[p].rel \in Releases
    BY <2>1 DEF BootInv, Progress, MarkerSet
  <2>3. cat[b] \in {DELETED, STRIPPED} \cup (Releases \ {proc[p].rel})
    BY <2>1, <2>2 DEF HasEntries, BootInv, BootTypeOK, Edited
  <2>4. data[marker] = proc[p].rel /\ ~mixed /\ b \notin pending => cat[b] \in Edited \cup {proc[p].rel}
    BY <2>1, <2>2 DEF BootInv, MarkerNamesCatalog
  <2>5. QED
    BY <2>3, <2>4, BootAssumption DEF MissHasACause, Edited
<1>3. QED
  BY <1>1, <1>2, BootInvHolds, PTL DEF BootSpec, FailureHasACause

(* Only a starter that was seeding when a caller stored a cookbook, or one *)
(* that found the marker of another release, overwrites it.                *)
THEOREM EditsAreLostForACause == BootSpec => LostEditsHaveACause
<1> DEFINE Caused ==
      \A b \in Bundles : cat[b] \in Edited /\ cat'[b] \in Releases =>
         \E p \in excused[b] : Seeding(p) /\ proc[p].rel = cat'[b]
<1>1. BootInv /\ [BootNext]_bootVars => [Caused]_bootVars
  <2> SUFFICES ASSUME BootInv, BootNext, NEW b \in Bundles, cat[b] \in Edited, cat'[b] \in Releases
               PROVE  \E p \in excused[b] : Seeding(p) /\ proc[p].rel = cat'[b]
    OBVIOUS
  <2>1. cat'[b] # cat[b]
    BY BootAssumption DEF Edited
  <2>2. PICK p \in Starters : Steps(p) \/ \E a \in Editable : Edit(p, a)
    BY <2>1 DEF BootNext, Start, Exit
  <2>3. ~(\E a \in Editable : Edit(p, a))
    BY <2>1, BootAssumption DEF Edit, Edited, BootInv, BootTypeOK
  <2>4. SeedNext(p)
    BY <2>1, <2>2, <2>3 DEF Steps, ReadMarker, OpenTmp, OpensTmp, WriteTmp, RenameTmp, Validate
  <2>5. PICK a : a = Min(proc[p].left)
    OBVIOUS
  <2>6. /\ proc[p].pc = "seed" /\ proc[p].left # {}
        /\ Stored(p, a)
    BY <2>1, <2>4, <2>5 DEF SeedNext
  <2>7. a \in proc[p].left
    <3>1. proc[p].left \subseteq Bundles /\ proc[p].left \in SUBSET Nat
      BY BootAssumption DEF BootInv, BootTypeOK, Processes
    <3>2. QED
      BY <2>5, <2>6, <3>1, MinIsLeast
  <2>8. a = b /\ cat'[b] = proc[p].rel
    BY <2>1, <2>6 DEF Stored, BootInv, BootTypeOK
  <2>9. Seeding(p) /\ p \in excused[b]
    BY <2>6, <2>7, <2>8 DEF Seeding, BootInv, Excusable
  <2>10. QED
    BY <2>8, <2>9
<1>2. QED
  BY <1>1, BootInvHolds, PTL DEF BootSpec, LostEditsHaveACause
=============================================================================
