------------------------------ MODULE IndexStore ------------------------------
(***************************************************************************)
(* The index directory of a repository and the processes that write it     *)
(* (search-index/src/build.rs, storage.rs): the daemon's watcher, which    *)
(* applies the files it saw change, and command-line or MCP processes,     *)
(* which build or update the whole index.  Nothing locks the directory     *)
(* between processes, and no file in it is replaced atomically: fs::write  *)
(* truncates the file and then fills it, so a reader, or a crash, can find *)
(* a torn one, and two processes can fill the same file.                   *)
(*                                                                         *)
(* A writer is a list of file assignments still to make; everything it     *)
(* reads, the base index and the repository, it reads when it starts.  The *)
(* watcher knows an edit by its last events only: a file that is deleted   *)
(* and made again within one batch stays deleted.                          *)
(***************************************************************************)
EXTENDS Naturals, FiniteSets, Sequences

CONSTANTS
  Files,       \* the files that change
  Contents,    \* contents of a file, fingerprint included
  Absent,      \* what a file that does not exist has for a content
  OtherDocs,   \* number of indexed files that never change
  Missing,     \* an index file that does not exist
  Torn,        \* an index file that is truncated
  Whole,       \* a readable metadata.json, whatever it says
  Watcher,     \* the daemon's watcher thread
  Tools,       \* processes that build or update the index
  MaxEdits     \* bound: edits of the repository

ASSUME StoreAssumption ==
  /\ IsFiniteSet(Files)
  /\ OtherDocs \in Nat
  /\ MaxEdits \in Nat
  /\ Absent \notin Contents
  /\ Watcher \notin Tools
  /\ Missing # Torn /\ Whole # Torn
  /\ {Missing, Torn} \cap [Files -> Contents \cup {Absent}] = {}
  /\ {Missing, Torn} \cap [docs : [Files -> Contents \cup {Absent}],
                           removed : SUBSET Files, above : Nat] = {}

VARIABLES
  disk,     \* the repository: the content of each file
  edits,    \* history: edits so far
  pending,  \* what the watcher's batch says of each file
  index,    \* the index directory: base.bin, fast.idx, delta.bin, metadata
  job,      \* what each writer has still to do
  sound     \* history: no overlap or crash since the last clean full build

vars == <<disk, edits, pending, index, job, sound>>

Writers == {Watcher} \cup Tools

Docs == [Files -> Contents \cup {Absent}]
NoDocs == [f \in Files |-> Absent]
NoEvents == [f \in Files |-> "none"]
IndexFiles == {"base", "fast", "delta", "meta"}
Unreadable == {Missing, Torn}

-----------------------------------------------------------------------------
(* What a reader sees: SearchEngine::open.                                 *)

Size(docs) == Cardinality({f \in Files : docs[f] # Absent})

(* The document ids of a base: a full build numbers from 1, and only full  *)
(* builds write the base, so this is also the largest of them.             *)
Numbered(base) == OtherDocs + Size(base)

(* RuntimeIndex::from_snapshots: a path of the base is dropped when the    *)
(* delta removes it, and the documents of the delta are added.             *)
Overlay(base, delta) ==
  [f \in Files |-> IF delta.docs[f] # Absent THEN delta.docs[f]
                   ELSE IF f \in delta.removed THEN Absent ELSE base[f]]

(* The documents of a delta are numbered above those of the base it was    *)
(* made on.  Over a base that has more, up to this many ids stand for two  *)
(* documents each, and doc_lookup, by id, has only one of the two.         *)
Doubled(base, delta) ==
  IF Numbered(base) <= delta.above THEN 0
  ELSE LET taken == Numbered(base) - delta.above
       IN IF Size(delta.docs) < taken THEN Size(delta.docs) ELSE taken

IdsAreApart ==
  \/ index["base"] \in Unreadable
  \/ index["delta"] \in Unreadable
  \/ Doubled(index["base"], index["delta"]) = 0

(* The documents an engine opened now would search, less any it loses when *)
(* ids are not apart, or Torn for an error.  The fast index is only used   *)
(* without a delta.                                                        *)
OpenedFast == IF index["meta"] = Whole THEN index["fast"] ELSE Torn

OpenedLegacy ==
  IF index["base"] \in Unreadable THEN Torn
  ELSE IF index["delta"] = Missing THEN index["base"]
  ELSE Overlay(index["base"], index["delta"])

OpenedFastFirst ==
  IF index["delta"] = Torn THEN Torn
  ELSE IF index["fast"] # Missing THEN OpenedFast ELSE OpenedLegacy

Opened ==
  IF index["delta"] = Torn THEN Torn
  ELSE IF index["fast"] # Missing /\ index["delta"] = Missing THEN OpenedFast
  ELSE OpenedLegacy

-----------------------------------------------------------------------------
(* The writers.                                                            *)

(* fs::write *)
Write(file, value) == <<[file |-> file, value |-> Torn],
                        [file |-> file, value |-> value]>>
Remove(file) == <<[file |-> file, value |-> Missing]>>

(* A list that replaces the base is a full build. *)
IsFull(ops) == \E i \in DOMAIN ops : ops[i].file = "base"

Idle ==
  [ops |-> <<>>, files |-> {}, goal |-> NoDocs, alone |-> TRUE,
   before |-> Torn, full |-> FALSE]

(* persist_full_index *)
FullKeepsFast(docs) ==
  Write("base", docs) \o Remove("delta") \o Write("meta", Whole)
FullDropsDeltaFirst(docs) ==
  Remove("delta") \o Write("base", docs) \o Write("fast", docs) \o Write("meta", Whole)
FullKeepsDelta(docs) ==
  Write("base", docs) \o Write("fast", docs) \o Write("meta", Whole)
Full(docs) ==
  Write("base", docs) \o Write("fast", docs) \o Remove("delta")
    \o Write("meta", Whole)

Delta(docs, removed, above) ==
  Write("delta", [docs |-> docs, removed |-> removed, above |-> above])
    \o Write("meta", Whole)

(* merge_threshold_ratio is 0.25; a changed file counts twice. *)
TooMany(base, changes) ==
  Numbered(base) = 0 \/ 4 * changes >= Numbered(base)

Present(docs, files) == {f \in files : docs[f] # Absent}
Only(docs, files) == [f \in Files |-> IF f \in files THEN docs[f] ELSE Absent]

(* update_index compares the repository with the base, not with the index  *)
(* a reader sees.                                                          *)
UpdateOps(base) ==
  LET differ == {f \in Files : disk[f] # base[f]}
      added == Present(disk, differ)
      removed == Present(base, differ)
  IN IF TooMany(base, Cardinality(added) + Cardinality(removed)) THEN Full(disk)
     ELSE IF differ = {} THEN Remove("delta") \o Write("meta", Whole)
     ELSE Delta(Only(disk, added), removed, Numbered(base))

(* apply_incremental_changes of a batch: a removed path counts whether the *)
(* base has it or not, and the new delta holds this batch and nothing else.*)
Touched == {f \in Files : pending[f] # "none"}
Scanned == {f \in Files : pending[f] = "changed" /\ disk[f] # Absent}

ApplyOps(base) ==
  LET removed == (Touched \ Scanned) \cup Present(base, Scanned)
  IN IF TooMany(base, Cardinality(Scanned) + Cardinality(removed))
     THEN Full(disk)
     ELSE Delta(Only(disk, Scanned), removed, Numbered(base))

Begin(w, ops, files, goal) ==
  /\ job' = [job EXCEPT ![w] =
               [ops |-> ops, files |-> files, goal |-> goal,
                alone |-> \A v \in Writers : job[v] = Idle,
                before |-> Opened, full |-> IsFull(ops)]]
  /\ UNCHANGED <<disk, edits, index, sound>>

(* build_index *)
Build(w) ==
  /\ job[w] = Idle
  /\ Begin(w, Full(disk), Files, disk)
  /\ UNCHANGED pending

(* update_index; without a readable base it is an error. *)
Update(w) ==
  /\ job[w] = Idle
  /\ index["base"] \notin Unreadable
  /\ Begin(w, UpdateOps(index["base"]), Files, disk)
  /\ UNCHANGED pending

(* The watcher applies the events it has; when the base cannot be read     *)
(* they are lost.                                                          *)
Apply ==
  /\ job[Watcher] = Idle
  /\ pending # NoEvents
  /\ pending' = NoEvents
  /\ IF index["base"] \in Unreadable
     THEN UNCHANGED <<disk, edits, index, job, sound>>
     ELSE LET ops == ApplyOps(index["base"])
          IN Begin(Watcher, ops, Touched,
                   IF IsFull(ops) THEN disk ELSE Only(disk, Scanned))

(* The next assignment of a writer.  A file it truncated and finds filled, *)
(* or gone, another writer has opened since: the two contents may mix, or  *)
(* this one goes to a file that is no longer in the directory.             *)
Outcomes(op) ==
  IF op.value \in Unreadable \/ index[op.file] = Torn THEN {op.value}
  ELSE {op.value, Torn, index[op.file]}

Step(w) ==
  LET op == Head(job[w].ops) IN
  /\ job[w].ops # <<>>
  /\ \E value \in Outcomes(op) : index' = [index EXCEPT ![op.file] = value]
  /\ job' = [v \in Writers |->
               IF v = w THEN IF Len(job[w].ops) = 1 THEN Idle
                             ELSE [job[w] EXCEPT !.ops = Tail(@)]
               ELSE IF job[v] = Idle THEN Idle
               ELSE [job[v] EXCEPT !.alone = FALSE]]
  /\ sound' = (job[w].alone /\ (sound \/ (Len(job[w].ops) = 1 /\ job[w].full)))
  /\ UNCHANGED <<disk, edits, pending>>

(* A writer is killed; what the watcher had queued dies with the daemon. *)
Crash(w) ==
  /\ job[w] # Idle
  /\ job' = [job EXCEPT ![w] = Idle]
  /\ pending' = IF w = Watcher THEN NoEvents ELSE pending
  /\ sound' = FALSE
  /\ UNCHANGED <<disk, edits, index>>

(* A file changes and the watcher is told (apply_event): Deleted sticks. *)
Noted(f, x) ==
  IF x = Absent \/ pending[f] = "deleted" THEN "deleted" ELSE "changed"

Edit(f, x) ==
  /\ edits < MaxEdits
  /\ x # disk[f]
  /\ edits' = edits + 1
  /\ disk' = [disk EXCEPT ![f] = x]
  /\ pending' = [pending EXCEPT ![f] = Noted(f, x)]
  /\ UNCHANGED <<index, job, sound>>

-----------------------------------------------------------------------------
(* A built index, and a watcher that was started on it. *)
Init ==
  /\ disk \in Docs
  /\ edits = 0
  /\ pending = NoEvents
  /\ index = [file \in IndexFiles |->
                CASE file = "meta" -> Whole
                  [] file = "delta" -> Missing
                  [] OTHER -> disk]
  /\ job = [w \in Writers |-> Idle]
  /\ sound = TRUE

Work ==
  \/ \E w \in Tools : Build(w) \/ Update(w)
  \/ Apply
  \/ \E w \in Writers : Step(w)
  \/ \E f \in Files, x \in Contents \cup {Absent} : Edit(f, x)

Next == Work \/ \E w \in Writers : Crash(w)

Spec == Init /\ [][Next]_vars

(* Nobody is killed, and the watcher goes on with its work. *)
FairSpec == Init /\ [][Work]_vars /\ WF_vars(Apply) /\ WF_vars(Step(Watcher))

-----------------------------------------------------------------------------
(* Properties.                                                             *)

DeltaType == [docs : Docs, removed : SUBSET Files, above : Nat]
Values == Docs \cup DeltaType \cup {Missing, Torn, Whole}

(* Each index file holds what belongs there, or is torn or missing. *)
TypeOK ==
  /\ disk \in Docs
  /\ edits \in 0..MaxEdits
  /\ pending \in [Files -> {"none", "changed", "deleted"}]
  /\ sound \in BOOLEAN
  /\ DOMAIN index = IndexFiles
  /\ index["base"] \in Docs \cup {Torn}
  /\ index["fast"] \in Docs \cup {Torn}
  /\ index["delta"] \in DeltaType \cup {Torn, Missing}
  /\ index["meta"] \in {Torn, Whole}
  /\ \A w \in Writers :
       /\ job[w].ops \in Seq([file : IndexFiles, value : Values])
       /\ job[w].files \in SUBSET Files
       /\ job[w].goal \in Docs
       /\ job[w].before \in Docs \cup {Torn}
       /\ job[w].alone \in BOOLEAN
       /\ job[w].full \in BOOLEAN

(* A writer that finishes a job no other took part in has made what it     *)
(* scanned visible: the whole repository after build_index or              *)
(* update_index, its batch after apply_incremental_changes.  The delta, the*)
(* base and the fast index are three copies that this has to keep apart,   *)
(* and the ids of the delta must not be those of other documents.          *)
(* An update or a batch promises so on a sound index only: the base it     *)
(* compares with is taken to be what the fast index holds.                 *)
Finishes(w) == Step(w) /\ Len(job[w].ops) = 1 /\ job[w].alone

FinishedJobIsVisible ==
  [][ \A w \in Writers :
        (Finishes(w) /\ sound)
          => /\ Opened' # Torn /\ IdsAreApart'
             /\ \A f \in job[w].files : Opened'[f] = job[w].goal[f]
    ]_vars

(* A full build repairs the index, whatever crashes or other writers left  *)
(* behind: docs/regression-test-plan.md:719 "interrupted daemon stop/start *)
(* does not leave unrecoverable state".                                    *)
BuildRecovers ==
  [][ \A w \in Writers :
        (Finishes(w) /\ job[w].full)
          => Opened' = job[w].goal /\ IdsAreApart' ]_vars

(* A batch leaves the files outside of it searchable as they were, or finds*)
(* them changed: "updated content becomes searchable" and stays so, however*)
(* many batches follow (docs/regression-test-plan.md:493).  The code does  *)
(* not keep this: see the README.                                          *)
BatchKeepsOthers ==
  [][ (Finishes(Watcher) /\ job[Watcher].before # Torn)
        => \A f \in Files \ job[Watcher].files :
             Opened'[f] \in {job[Watcher].before[f], job[Watcher].goal[f],
                            disk[f]} ]_vars

(* The content of a changed file is searchable at some time, unless the    *)
(* file changes again first; later batches may take it away again.         *)
EditBecomesSearchable ==
  \A f \in Files, x \in Contents :
    (pending[f] = "changed" /\ disk[f] = x)
      ~> (disk[f] # x \/ (Opened # Torn /\ Opened[f] = x /\ IdsAreApart))
=============================================================================
