----------------------------- MODULE IndexReader -----------------------------
(***************************************************************************)
(* A process that opens the index while writers work on it                 *)
(* (SearchEngine::open, search-index/src/engine.rs, with load_delta and    *)
(* load_base, storage.rs).  It reads up to three files, one after the      *)
(* other, and any of them may be replaced in between.  Opened in IndexStore*)
(* is the same without a pause.  An open that fails leaves nothing behind, *)
(* and readers do not touch the index, so one stands for all.              *)
(***************************************************************************)
EXTENDS IndexStore

VARIABLES
  opening,  \* where the open is: "closed", "delta", "meta", "fast", "base", "open"
  loaded,   \* the delta it has read, or Missing
  found,    \* the documents of the engine that was opened
  doubled,  \* history: ids that engine found used twice
  offered,  \* history: what each file was, or a job makes of it, since it began
  calm      \* history: the index has been sound since it began

readVars == <<opening, loaded, found, doubled, offered, calm>>

UnderWay == opening \notin {"closed", "open"}

(* A full build, which takes the index apart. *)
Building == \E w \in Writers : job[w].alone /\ job[w].full

(* What the index has of a file, unless it is taken apart, what it had     *)
(* before a job that is under way, and what the job makes of it.           *)
Offer(f) ==
  (IF Opened = Torn \/ Building THEN {} ELSE {Opened[f]})
    \cup {job[w].before[f] : w \in {v \in Writers : job[v] # Idle /\ job[v].before # Torn}}
    \cup {job[w].goal[f] :
            w \in {v \in Writers : job[v] # Idle /\ (job[v].full \/ f \in job[v].files)}}

-----------------------------------------------------------------------------
(* load_delta; a delta that is torn is an error. *)
LoadDelta ==
  /\ ~UnderWay
  /\ index["delta"] # Torn
  /\ opening' = "delta"
  /\ loaded' = index["delta"]
  /\ offered' = [f \in Files |-> Offer(f)]
  /\ calm' = sound
  /\ found' = NoDocs
  /\ doubled' = 0

GoOn(step) ==
  /\ opening' = step
  /\ UNCHANGED <<loaded, found, doubled, offered, calm>>

Fail ==
  /\ opening' = "closed"
  /\ loaded' = Missing
  /\ found' = NoDocs
  /\ doubled' = 0
  /\ offered' = [f \in Files |-> {}]
  /\ calm' = TRUE

(* fast_index_exists *)
FindFast ==
  /\ opening = "delta"
  /\ GoOn(IF loaded = Missing /\ index["fast"] # Missing THEN "meta" ELSE "base")

(* read_index_metadata *)
ReadMeta ==
  /\ opening = "meta"
  /\ IF index["meta"] = Whole THEN GoOn("fast") ELSE Fail

OpenWith(docs) ==
  IF docs \in Unreadable THEN Fail
  ELSE /\ opening' = "open"
       /\ found' = docs
       /\ UNCHANGED <<loaded, offered, calm>>

(* FastIndex::open *)
OpenFast ==
  /\ opening = "fast"
  /\ OpenWith(index["fast"])
  /\ UNCHANGED doubled

(* load_base *)
LoadBase ==
  /\ opening = "base"
  /\ index["base"] \in Unreadable \/ loaded = Missing
  /\ OpenWith(index["base"])
  /\ UNCHANGED doubled

(* load_base and RuntimeIndex::from_snapshots: of each two documents of one*)
(* id the engine loses one, which the order of a hash map decides.  The    *)
(* other may be a file that never changes, so fewer may be lost here.      *)
MergeBase ==
  /\ opening = "base"
  /\ index["base"] \notin Unreadable /\ loaded # Missing
  /\ doubled' = Doubled(index["base"], loaded)
  /\ \E lost \in SUBSET Files :
       /\ Cardinality(lost) <= doubled'
       /\ OpenWith([f \in Files |-> IF f \in lost THEN Absent
                                    ELSE Overlay(index["base"], loaded)[f]])

Read ==
  /\ LoadDelta \/ FindFast \/ ReadMeta \/ OpenFast \/ LoadBase \/ MergeBase
  /\ UNCHANGED vars

(* The writers, and the history of an open that is under way. *)
WriterStep ==
  /\ Next
  /\ offered' = IF UnderWay /\ calm
                THEN [f \in Files |-> offered[f] \cup Offer(f)']
                ELSE offered
  /\ calm' = (calm /\ (UnderWay => sound'))
  /\ UNCHANGED <<opening, loaded, found, doubled>>

Closed ==
  /\ opening = "closed"
  /\ loaded = Missing
  /\ found = NoDocs
  /\ doubled = 0
  /\ offered = [f \in Files |-> {}]
  /\ calm = TRUE

ReadNext == WriterStep \/ Read

ReadSpec == Init /\ Closed /\ [][ReadNext]_<<vars, readVars>>

-----------------------------------------------------------------------------
(* An open next to jobs that do not overlap finds of each file something it*)
(* was, or some job made of it, while the open was under way, although the *)
(* delta, the base and the fast index are read at different times.  But    *)
(* when a full build put a larger base under the delta it had read, it may *)
(* lose a document for each id that the two then share                     *)
(* (search-index/src/model.rs 114-131).                                    *)
Strange == {f \in Files : found[f] \notin offered[f]}

FoundWasThere ==
  (opening = "open" /\ calm)
    => (\A f \in Strange : found[f] = Absent) /\ Cardinality(Strange) <= doubled
=============================================================================
