---------------------------- MODULE RemoteCatalog ----------------------------
(***************************************************************************)
(* Remote cookbooks: the file of sources, and the calls that list and      *)
(* install from a source.  An install reads the source, then the index of  *)
(* the site, then one file of it, each in a request of its own, and stores *)
(* the bundle in the local catalog; meanwhile the publisher publishes, the *)
(* sources are edited, and other installs go on.  The catalog is that of   *)
(* CatalogSpec: an upsert takes effect at one instant or fails.            *)
(***************************************************************************)
EXTENDS Versions

CONSTANTS
    Sources,      \* source ids
    Sites,        \* where index URLs lead
    Urls,         \* download URLs of a site
    Bundles,      \* what can be published: [id, version, body]
    Indexes,      \* the indexes a site may publish: sequences of Items
    Files,        \* the files it may publish: pairs of a URL and what is there
    FirstSources, \* what sources.json may hold at the start
    Edits,        \* the edits of sources: [id, config]
    Installers,   \* callers of install and list
    Editors,      \* callers of source upsert and delete
    Asks,         \* what installers ask
    Cookbooks,    \* cookbook ids
    NONE,         \* no source, no bundle, no version or no checksum given
    INVALID,      \* a file that is no bundle: not JSON, cut off or not valid
    MaxPublished, \* bound on what the publisher does
    MaxFaults     \* bound on failures of the network and of file writes

(* sha: the checksum the index names, which here is the bundle it is of.   *)
(* means (ghost): the bundle the publisher had in mind, and made the       *)
(* checksum of, if any.                                                    *)
Items == {i \in [id : Cookbooks, version : Versions, url : Urls,
                 sha : Bundles \cup {NONE}, means : Bundles] : i.sha \in {NONE, i.means}}

Key == Cookbooks \X Versions
Configs == [site : Sites, enabled : BOOLEAN]

ASSUME RemoteAssumption ==
    /\ Indexes \subseteq Seq(Items)
    /\ Files \subseteq Urls \X (Bundles \cup {NONE, INVALID})
    /\ FirstSources \subseteq [Sources -> Configs \cup {NONE}]
    /\ Edits \subseteq [id : Sources, config : Configs \cup {NONE}]
    /\ NONE \notin Editors
    /\ NONE \notin Sites /\ NONE \notin Versions /\ NONE \notin Bundles
    /\ INVALID \notin Bundles /\ INVALID # NONE
    /\ MaxPublished \in Nat /\ MaxFaults \in Nat
    /\ \A b \in Bundles : b.id \in Cookbooks /\ b.version \in Versions
    /\ \A a \in Asks :
         /\ a.tool \in {"list", "install"} /\ a.source \in Sources
         /\ a.id \in Cookbooks /\ a.version \in Versions \cup {NONE}
         /\ a.sha \in Bundles \cup {NONE}
         /\ a.policy \in {"FAIL", "SKIP_IF_EXISTS", "OVERWRITE"}

VARIABLES
    sources,    \* sources.json
    lock,       \* who is inside the write lock
    edit,       \* the calls of the editors
    site,       \* per site: its index, and the file at each URL
    call,       \* the calls of the installers
    catalog,    \* the bundles of the local catalog
    published, faults

remoteVars == <<sources, lock, edit, site, call, catalog, published, faults>>

(* doc: the sources as the editor has read them.  offered (ghost): the     *)
(* versions that the index in hand has of the cookbook; found: the item    *)
(* chosen.                                                                 *)
NoEdit == [pc |-> "idle", id |-> NONE, config |-> NONE,
           doc |-> [s \in Sources |-> NONE], answer |-> "none"]

Idle == [pc |-> "idle", ask |-> NONE, site |-> NONE, found |-> NONE,
         offered |-> {}, bundle |-> NONE, answer |-> "none"]

RemoteInit ==
    /\ sources \in FirstSources
    /\ lock = NONE
    /\ edit = [e \in Editors |-> NoEdit]
    /\ site = [s \in Sites |-> [index |-> <<>>, files |-> [u \in Urls |-> NONE]]]
    /\ call = [c \in Installers |-> Idle]
    /\ catalog = [k \in Key |-> NONE]
    /\ published = 0
    /\ faults = 0

Fault == faults < MaxFaults /\ faults' = faults + 1

-----------------------------------------------------------------------------
(* UpsertSource (a config) and DeleteSource (NONE), under the write lock.  *)

(* Mutant: the sources are read before the lock is taken.                  *)
LoadUnlocked(e, x) ==
    /\ edit[e].pc = "idle"
    /\ edit' = [edit EXCEPT ![e].pc = "locked", ![e].id = x.id, ![e].config = x.config,
                            ![e].doc = sources]
    /\ UNCHANGED <<sources, lock, site, call, catalog, published, faults>>

(* withWriteLock is entered, and loadSources reads the file.               *)
Load(e, x) ==
    /\ edit[e].pc = "idle" /\ lock = NONE
    /\ lock' = e
    /\ edit' = [edit EXCEPT ![e].pc = "locked", ![e].id = x.id, ![e].config = x.config,
                            ![e].doc = sources]
    /\ UNCHANGED <<sources, site, call, catalog, published, faults>>

Answered(e, answer) == edit' = [edit EXCEPT ![e] = [NoEdit EXCEPT !.pc = "done", !.answer = answer]]

(* The lock is not had in time.                                            *)
LockTimeout(e) ==
    /\ edit[e].pc = "idle" /\ lock # NONE
    /\ Fault
    /\ Answered(e, "error")
    /\ UNCHANGED <<sources, lock, site, call, catalog, published>>

(* The changed list replaces the file; a deletion of what is not there     *)
(* writes nothing.  The file may be unreadable, and a write may fail before*)
(* or after the file is replaced.                                          *)
Save(e) ==
    LET id == edit[e].id
        doc == [edit[e].doc EXCEPT ![id] = edit[e].config]
    IN  /\ edit[e].pc = "locked"
        /\ lock' = NONE
        /\ \/ /\ Answered(e, IF edit[e].doc[id] = NONE THEN "new" ELSE "old")
              /\ sources' = doc
              /\ UNCHANGED faults
           \/ /\ Fault
              /\ sources' \in {sources, doc}
              /\ Answered(e, "error")
        /\ UNCHANGED <<site, call, catalog, published>>

-----------------------------------------------------------------------------
(* The publisher (environment): files and indexes change one at a time.    *)
PublishFile(s, f) ==
    /\ published < MaxPublished /\ published' = published + 1
    /\ site' = [site EXCEPT ![s].files[f[1]] = f[2]]
    /\ UNCHANGED <<sources, lock, edit, call, catalog, faults>>

PublishIndex(s, index) ==
    /\ published < MaxPublished /\ published' = published + 1
    /\ site' = [site EXCEPT ![s].index = index]
    /\ UNCHANGED <<sources, lock, edit, call, catalog, faults>>

-----------------------------------------------------------------------------
(* RemoteList and RemoteInstall.                                           *)
Settle(c, answer) == call' = [call EXCEPT ![c].pc = "done", ![c].answer = answer]

SourceOf(ask) == sources[ask.source]

(* A call begins with GetSource, which reads the file without the lock, and*)
(* goes on if the source is enabled.                                       *)
Begin(c, ask) ==
    LET source == SourceOf(ask)
        began == [Idle EXCEPT !.ask = ask]
    IN  /\ call[c].pc \in {"idle", "done"}
        /\ \/ /\ Fault
              /\ call' = [call EXCEPT ![c] = [began EXCEPT !.pc = "done", !.answer = "error"]]
           \/ /\ source = NONE /\ UNCHANGED faults
              /\ call' = [call EXCEPT ![c] = [began EXCEPT !.pc = "done", !.answer = "no_source"]]
           \/ /\ source # NONE /\ ~source.enabled /\ UNCHANGED faults
              /\ call' = [call EXCEPT ![c] = [began EXCEPT !.pc = "done", !.answer = "disabled"]]
           \/ /\ source # NONE /\ source.enabled /\ UNCHANGED faults
              /\ call' = [call EXCEPT ![c] = [began EXCEPT !.pc = "index", !.site = source.site]]
        /\ UNCHANGED <<sources, lock, edit, site, catalog, published>>

(* A request to the site fails: no token, no connection, a status that is  *)
(* not 2xx, an index that is not valid.                                    *)
FetchFails(c) ==
    /\ call[c].pc \in {"index", "file"}
    /\ Fault
    /\ Settle(c, "fetch")
    /\ UNCHANGED <<sources, lock, edit, site, catalog, published>>

(* The places of the items that fit what is asked.                         *)
Candidates(index, id, version) ==
    {i \in DOMAIN index : index[i].id = id /\ (version = NONE \/ index[i].version = version)}

(* Mutant: the last item of the index is taken for the latest.             *)
SelectLastItem(index, id, version) ==
    LET fits == Candidates(index, id, version)
    IN  IF fits = {} THEN {}
        ELSE {index[IF version # NONE THEN Min(fits) ELSE Max(fits)]}

(* selectRemoteItem: the first item of the version that is asked for, or   *)
(* the last one of a latest version.                                       *)
SelectRemoteItem(index, id, version) ==
    LET fits == Candidates(index, id, version)
        latest == LatestVersions({index[i].version : i \in fits})
    IN  IF fits = {} THEN {}
        ELSE IF version # NONE THEN {index[Min(fits)]}
        ELSE {index[Max({i \in fits : index[i].version = v})] : v \in latest}

(* FetchRemoteIndex.  A list is answered with the items, an install goes   *)
(* on with the one it selects.                                             *)
FetchIndex(c) ==
    LET ask == call[c].ask
        index == site[call[c].site].index
        found == SelectRemoteItem(index, ask.id, ask.version)
    IN  /\ call[c].pc = "index"
        /\ \/ ask.tool = "list" /\ Settle(c, "ok")
           \/ ask.tool = "install" /\ found = {} /\ Settle(c, "not_found")
           \/ /\ ask.tool = "install"
              /\ \E i \in found :
                   call' = [call EXCEPT ![c].pc = "file", ![c].found = i,
                              ![c].offered = {j.version : j \in {k \in Range(index) : k.id = ask.id}}]
        /\ UNCHANGED <<sources, lock, edit, site, catalog, published, faults>>

(* The caller's checksum, else that of the index.                          *)
Checksum(c) == IF call[c].ask.sha # NONE THEN call[c].ask.sha ELSE call[c].found.sha

(* What the request for the item's file yields: what the site has, or a    *)
(* body that breaks off, whose error is dropped (io.ReadAll).              *)
Received(c, raw) ==
    \/ raw = site[call[c].site].files[call[c].found.url] /\ UNCHANGED faults
    \/ raw = INVALID /\ Fault

(* ValidateBundle, of a body that decodes.                                 *)
Valid(raw) == raw \in Bundles

(* The file at the item's URL: its checksum is compared, it is decoded and *)
(* validated, and must bear the item's id and version.                     *)
Download(c) ==
    \E raw \in Bundles \cup {NONE, INVALID} :
        LET named == Valid(raw) /\ <<raw.id, raw.version>>
                                        = <<call[c].found.id, call[c].found.version>>
        IN  /\ call[c].pc = "file"
            /\ Received(c, raw)
            /\ \/ raw = NONE /\ Settle(c, "fetch")
               \/ raw # NONE /\ Checksum(c) \notin {NONE, raw} /\ Settle(c, "checksum")
               \/ raw # NONE /\ Checksum(c) \in {NONE, raw} /\ ~named /\ Settle(c, "schema")
               \/ /\ Checksum(c) \in {NONE, raw} /\ named
                  /\ call' = [call EXCEPT ![c].pc = "store", ![c].bundle = raw]
            /\ UNCHANGED <<sources, lock, edit, site, catalog, published>>

(* UpsertBundle, which waits for the write lock; one that fails may have   *)
(* replaced the bundle, unless it did not get the lock in time.            *)
Store(c) ==
    LET b == call[c].bundle
        k == <<b.id, b.version>>
        free == catalog[k] \in {NONE, b} \/ call[c].ask.policy = "OVERWRITE"
        stored == [catalog EXCEPT ![k] = b]
    IN  /\ call[c].pc = "store"
        /\ \/ /\ free /\ lock = NONE
              /\ catalog' = stored /\ Settle(c, "ok") /\ UNCHANGED faults
           \/ /\ ~free /\ lock = NONE /\ UNCHANGED <<catalog, faults>>
              /\ Settle(c, IF call[c].ask.policy = "FAIL" THEN "conflict" ELSE "kept")
           \/ /\ Fault /\ Settle(c, "error")
              /\ catalog' \in IF free /\ lock = NONE THEN {catalog, stored} ELSE {catalog}
        /\ UNCHANGED <<sources, lock, edit, site, published>>

-----------------------------------------------------------------------------
RemoteNext ==
    \/ \E e \in Editors : \/ \E x \in Edits : Load(e, x)
                           \/ LockTimeout(e) \/ Save(e)
    \/ \E s \in Sites : \/ \E f \in Files : PublishFile(s, f)
                        \/ \E index \in Indexes : PublishIndex(s, index)
    \/ \E c \in Installers :
         \/ \E ask \in Asks : Begin(c, ask)
         \/ FetchFails(c) \/ FetchIndex(c) \/ Download(c) \/ Store(c)

RemoteSpec == RemoteInit /\ [][RemoteNext]_remoteVars

-----------------------------------------------------------------------------
(* What is stored has the version that was asked for, or one that is not   *)
(* older than any in the index; and it is what the caller's checksum names *)
(* or, without one, what the publisher meant by the item that was chosen,  *)
(* though the site publishes between the two requests.  Only a bundle of   *)
(* which neither the caller nor the index gave a checksum may be from      *)
(* another publication, and it still bears the item's name.                *)
InstallsWhatWasNamed ==
    [][\A c \in Installers : catalog' # catalog /\ call'[c] # call[c] =>
          LET b == call[c].bundle
              item == call[c].found
              ask == call[c].ask
          IN  /\ b.id = ask.id
              /\ IF ask.version # NONE THEN b.version = ask.version
                 ELSE \A v \in call[c].offered : Compare(v, b.version) <= 0
              /\ b = IF ask.sha # NONE THEN ask.sha
                     ELSE IF item.sha # NONE THEN item.means ELSE b]_remoteVars

(* Whatever index is published, compareVersion is a total order of the     *)
(* token lists of its versions: there is a latest one, in whatever order   *)
(* they are listed, and versions are equal only if their tokens are.       *)
VersionsAreOrdered ==
    [][\A s \in Sites : site'[s].index # site[s].index =>
          \A u, v, w \in {i.version : i \in Range(site'[s].index)} :
              /\ Compare(u, v) = -Compare(v, u)
              /\ Compare(u, v) = 0 <=> TokensOf[u] = TokensOf[v]
              /\ Compare(u, v) <= 0 /\ Compare(v, w) <= 0 => Compare(u, w) <= 0]_remoteVars

(* A source changes only by an edit of that source, to what the edit says: *)
(* editors who work at once lose nothing of each other's.  An edit says    *)
(* truly whether the source was there when it was changed.                 *)
EditsKeepOtherSources ==
    [][\A s \in Sources : sources'[s] # sources[s] =>
          \E e \in Editors : /\ edit[e].pc = "locked" /\ edit'[e].pc = "done"
                             /\ edit[e].id = s /\ sources'[s] = edit[e].config
                             /\ edit'[e].answer \in {"error", IF sources[s] = NONE THEN "new" ELSE "old"}
      ]_remoteVars
=============================================================================
