---------------------------- MODULE CatalogSpec ----------------------------
(***************************************************************************)
(* What the catalog promises its callers about bundles, whatever happens   *)
(* between the first and the last file operation of a call: each call      *)
(* takes effect at one instant or not at all, its answer is the one that   *)
(* instant calls for, and an error may hide an effect but never invents    *)
(* one.  CatalogStore is shown to implement this module.                   *)
(***************************************************************************)
EXTENDS Integers, FiniteSetsExt

CONSTANTS
    Threads, Cookbooks, Versions, Contents,
    NONE,      \* no bundle, or no version given
    CORRUPT    \* a bundle file that is not valid JSON

VARIABLES
    bundles,   \* what is stored under each cookbook id and version
    ask,       \* the request a caller waits on, NONE between calls
    answer     \* the answer that has been settled but not yet returned

specVars == <<bundles, ask, answer>>

Key == Cookbooks \X Versions

Stored(b, id) == {v \in Versions : b[<<id, v>>] # NONE}

AskKey(t) == <<ask[t].id, ask[t].ver>>

Settle(t, how) == answer' = [answer EXCEPT ![t] = how]

Waiting(t) == ask[t] # NONE /\ answer[t] = "none"

Init ==
    /\ bundles = [k \in Key |-> NONE]
    /\ ask = [t \in Threads |-> NONE]
    /\ answer = [t \in Threads |-> "none"]

Ask(t, r) ==
    /\ ask[t] = NONE
    /\ ask' = [ask EXCEPT ![t] = r]
    /\ UNCHANGED <<bundles, answer>>

(* A request without a version is bound to the latest one stored at some   *)
(* instant of the call, and to no other afterwards.                        *)
Pin(t) ==
    /\ Waiting(t) /\ ask[t].ver = NONE
    /\ LET stored == Stored(bundles, ask[t].id) IN
       IF stored = {}
       THEN Settle(t, "not_found") /\ UNCHANGED ask
       ELSE ask' = [ask EXCEPT ![t].ver = Max(stored)] /\ UNCHANGED answer
    /\ UNCHANGED bundles

Upsert(t) ==
    /\ Waiting(t) /\ ask[t].op = "upsert"
    /\ bundles[AskKey(t)] # CORRUPT
    /\ LET old == bundles[AskKey(t)] IN
       CASE old = ask[t].content -> Settle(t, "unchanged") /\ UNCHANGED bundles
         [] old = NONE \/ (old # ask[t].content /\ ask[t].policy = "OVERWRITE") ->
              /\ Settle(t, "changed")
              /\ bundles' = [bundles EXCEPT ![AskKey(t)] = ask[t].content]
         [] OTHER ->
              /\ Settle(t, IF ask[t].policy = "FAIL" THEN "conflict" ELSE "unchanged")
              /\ UNCHANGED bundles
    /\ UNCHANGED ask

Delete(t) ==
    /\ Waiting(t) /\ ask[t].op = "delete" /\ ask[t].ver # NONE
    /\ Settle(t, IF bundles[AskKey(t)] = NONE THEN "absent" ELSE "deleted")
    /\ bundles' = [bundles EXCEPT ![AskKey(t)] = NONE]
    /\ UNCHANGED ask

Get(t) ==
    /\ Waiting(t) /\ ask[t].op = "get" /\ ask[t].ver # NONE
    /\ bundles[AskKey(t)] # CORRUPT
    /\ Settle(t, IF bundles[AskKey(t)] = NONE THEN "not_found" ELSE "found")
    /\ UNCHANGED <<bundles, ask>>

(* The call fails and has had no effect. *)
Refuse(t) ==
    /\ Waiting(t)
    /\ Settle(t, "error")
    /\ UNCHANGED <<bundles, ask>>

(* The call fails after its effect, or in the step that makes it. *)
FailLate(t) ==
    /\ ask[t] # NONE
    /\ \/ answer[t] # "none" /\ UNCHANGED bundles
       \/ /\ answer[t] = "none" /\ ask[t].ver # NONE
          /\ \E c \in IF ask[t].op = "upsert" THEN {ask[t].content} ELSE {NONE} :
                /\ ask[t].op # "get"
                /\ ask[t].op = "upsert" /\ ask[t].policy # "OVERWRITE"
                       => bundles[AskKey(t)] \in {NONE, c}
                /\ bundles' = [bundles EXCEPT ![AskKey(t)] = c]
    /\ Settle(t, "error")
    /\ UNCHANGED ask

Return(t) ==
    /\ answer[t] # "none"
    /\ ask' = [ask EXCEPT ![t] = NONE]
    /\ Settle(t, "none")
    /\ UNCHANGED bundles

(* Some callers die with their process, mid-call or not. *)
Die ==
    /\ \E dead \in SUBSET Threads :
          /\ ask' = [t \in Threads |-> IF t \in dead THEN NONE ELSE ask[t]]
          /\ answer' = [t \in Threads |-> IF t \in dead THEN "none" ELSE answer[t]]
    /\ UNCHANGED bundles

(* Something other than this program ruins a bundle file. *)
Damage ==
    /\ \E k \in Key : bundles[k] # NONE /\ bundles' = [bundles EXCEPT ![k] = CORRUPT]
    /\ UNCHANGED <<ask, answer>>

Policies == {"FAIL", "OVERWRITE", "SKIP_IF_EXISTS"}

BundleRequests ==
    [op : {"upsert"}, id : Cookbooks, ver : Versions, content : Contents,
     policy : Policies]
    \cup
    [op : {"delete", "get"}, id : Cookbooks, ver : Versions \cup {NONE},
     content : {NONE}, policy : {NONE}]

Next ==
    \/ \E t \in Threads :
          \/ \E r \in BundleRequests : Ask(t, r)
          \/ Pin(t) \/ Upsert(t) \/ Delete(t) \/ Get(t)
          \/ Refuse(t) \/ FailLate(t) \/ Return(t)
    \/ Die
    \/ Damage

Spec == Init /\ [][Next]_specVars
=============================================================================
