--------------------------- MODULE IndexStoreProofs --------------------------
(***************************************************************************)
(* Proofs about IndexStore and IndexReader: what a writer that nobody      *)
(* interferes with has made of the index directory when it finishes, and   *)
(* what a reader finds next to it, for every set of files, contents and    *)
(* writers, whatever crashes and other writers left behind.                *)
(***************************************************************************)
EXTENDS IndexReader, FiniteSetTheorems, TLAPS

(* What may stand in an index file.                                        *)
ValuesOf(file) ==
  IF file \in {"base", "fast"} THEN Docs \cup {Torn}
  ELSE IF file = "delta" THEN DeltaType \cup {Missing, Torn}
  ELSE {Torn, Whole}

OpType == {op \in [file : IndexFiles, value : Values] : op.value \in ValuesOf(op.file)}

JobType ==
  [ops : Seq(OpType), files : SUBSET Files, goal : Docs, alone : BOOLEAN,
   before : Docs \cup {Torn}, full : BOOLEAN]

StoreType ==
  /\ disk \in Docs
  /\ edits \in 0..MaxEdits
  /\ pending \in [Files -> {"none", "changed", "deleted"}]
  /\ sound \in BOOLEAN
  /\ index \in [IndexFiles -> Values]
  /\ \A file \in IndexFiles : index[file] \in ValuesOf(file)
  /\ job \in [Writers -> JobType]
  /\ \A w \in Writers : job[w].ops = <<>> => job[w] = Idle

(* What is left of a list of assignments, and one assignment.              *)
IsRestOf(ops, all) ==
  /\ Len(ops) <= Len(all)
  /\ \A i \in 1..Len(ops) : ops[i] = all[Len(all) - Len(ops) + i]

Busy(w) == job[w].ops # <<>> /\ job[w].alone

(* Of two writers one has begun while the other was at work.               *)
AloneInv == \A v, w \in Writers : Busy(v) /\ Busy(w) => v = w

(* A full build no other writer has interfered with has done what is not   *)
(* left of it.                                                             *)
FullDone(n, docs) ==
  /\ n = 6 => index["base"] = Torn
  /\ n <= 5 => index["base"] = docs
  /\ n = 4 => index["fast"] = Torn
  /\ n <= 3 => index["fast"] = docs
  /\ n <= 2 => index["delta"] = Missing
  /\ n = 1 => index["meta"] = Torn
  /\ n = 0 => index["meta"] = Whole
FullInv ==
  \A w \in Writers :
    (Busy(w) /\ job[w].full) =>
      IsRestOf(job[w].ops, Full(job[w].goal)) /\ FullDone(Len(job[w].ops), job[w].goal)

(* The same of a delta, whose base stays, and of the removal of one.       *)
NoDelta == Remove("delta") \o Write("meta", Whole)
DeltaDone(n, delta) ==
  /\ n = 3 => index["delta"] = Torn
  /\ n <= 2 => index["delta"] = delta
  /\ n = 1 => index["meta"] = Torn
  /\ n = 0 => index["meta"] = Whole
NoDeltaDone(n) ==
  /\ n <= 2 => index["delta"] = Missing
  /\ n = 1 => index["meta"] = Torn
  /\ n = 0 => index["meta"] = Whole

(* A delta over the base it was made on makes the goal visible.            *)
Fits(delta, base, files, goal) ==
  /\ delta.above = Numbered(base)
  /\ \A f \in files : Overlay(base, delta)[f] = goal[f]

PartInv ==
  \A w \in Writers :
    (Busy(w) /\ ~job[w].full) =>
      /\ index["base"] \in Docs
      /\ \/ \E delta \in DeltaType :
              /\ IsRestOf(job[w].ops, Delta(delta.docs, delta.removed, delta.above))
              /\ DeltaDone(Len(job[w].ops), delta)
              /\ Fits(delta, index["base"], job[w].files, job[w].goal)
         \/ /\ IsRestOf(job[w].ops, NoDelta)
            /\ NoDeltaDone(Len(job[w].ops))
            /\ job[w].files = Files
            /\ \A f \in job[w].files : index["base"][f] = job[w].goal[f]

(* In a sound index the base and the fast index are the same, unless a full*)
(* build is under way that nobody interferes with.                         *)
SoundInv ==
  sound => \/ index["base"] \in Docs /\ index["fast"] = index["base"]
           \/ \E w \in Writers : Busy(w) /\ job[w].full

(* In it the metadata is whole, and the delta can be read, but for a writer*)
(* that nobody interferes with.                                            *)
MetaInv ==
  sound => index["meta"] = Whole \/ \E w \in Writers : Busy(w) /\ Len(job[w].ops) = 1
CleanInv == (sound /\ \A w \in Writers : ~Busy(w)) => index["delta"] # Torn

(* A delta says of some files what their documents are.                    *)
Covers(delta, f) == delta.docs[f] # Absent \/ f \in delta.removed
Agrees(delta, docs) == \A f \in Files : Covers(delta, f) => docs[f] = delta.docs[f]

(* What a full build remembers of a sound index that it takes apart: all of*)
(* it, and once the base is gone what the delta or the fast index, still in*)
(* place, says.                                                            *)
BeforeInv ==
  \A w \in Writers :
    (sound /\ Busy(w) /\ job[w].full) =>
      /\ Len(job[w].ops) = 7 =>
           index["base"] \in Docs /\ job[w].before = Opened /\ Opened \in Docs
      /\ (Len(job[w].ops) \in 3..6 /\ index["delta"] \in DeltaType) =>
           job[w].before \in Docs /\ Agrees(index["delta"], job[w].before)
      /\ (Len(job[w].ops) \in 5..6 /\ index["delta"] = Missing) =>
           job[w].before \in Docs /\ index["fast"] = job[w].before

IndexInv ==
  /\ StoreType /\ AloneInv /\ FullInv /\ PartInv /\ SoundInv
  /\ MetaInv /\ CleanInv /\ BeforeInv

-----------------------------------------------------------------------------
(* The lists of assignments.                                               *)

(* The kinds of content are apart.                                         *)
LEMMA KindsAreApart ==
  /\ Missing # Torn /\ Whole # Torn
  /\ Missing \notin Docs /\ Torn \notin Docs
  /\ Missing \notin DeltaType /\ Torn \notin DeltaType
BY StoreAssumption DEF StoreAssumption, Docs, DeltaType

(* Assignments in a row.                                                   *)
LEMMA FourInARow ==
  ASSUME NEW S, NEW a \in S, NEW b \in S, NEW c \in S, NEW d \in S,
         NEW s, s = <<a, b>> \o <<c, d>>
  PROVE  s \in Seq(S) /\ Len(s) = 4 /\ s[1] = a /\ s[2] = b /\ s[3] = c /\ s[4] = d
OBVIOUS

(* The same for three,                                                     *)
LEMMA ThreeInARow ==
  ASSUME NEW S, NEW a \in S, NEW b \in S, NEW c \in S, NEW s, s = <<a>> \o <<b, c>>
  PROVE  s \in Seq(S) /\ Len(s) = 3 /\ s[1] = a /\ s[2] = b /\ s[3] = c
OBVIOUS

(* and for seven.                                                          *)
LEMMA SevenInARow ==
  ASSUME NEW S, NEW a \in S, NEW b \in S, NEW c \in S, NEW d \in S,
         NEW e \in S, NEW f \in S, NEW g \in S,
         NEW s, s = <<a, b>> \o <<c, d>> \o <<e>> \o <<f, g>>
  PROVE  /\ s \in Seq(S) /\ Len(s) = 7
         /\ s[1] = a /\ s[2] = b /\ s[3] = c /\ s[4] = d /\ s[5] = e /\ s[6] = f /\ s[7] = g
OBVIOUS

(* A sequence over a set is one over a larger set.                         *)
LEMMA SequenceOfMore ==
  ASSUME NEW S, NEW T, S \subseteq T, NEW s \in Seq(S)
  PROVE  s \in Seq(T)
OBVIOUS

(* The assignments of all lists.                                           *)
Assign(file, value) == [file |-> file, value |-> value]

(* They are assignments of the type of a job.                              *)
LEMMA AssignsAreOps ==
  /\ Assign("base", Torn) \in OpType
  /\ \A docs \in Docs : Assign("base", docs) \in OpType /\ Assign("fast", docs) \in OpType
  /\ Assign("fast", Torn) \in OpType
  /\ Assign("delta", Missing) \in OpType /\ Assign("delta", Torn) \in OpType
  /\ \A delta \in DeltaType : Assign("delta", delta) \in OpType
  /\ Assign("meta", Torn) \in OpType /\ Assign("meta", Whole) \in OpType
BY DEF OpType, ValuesOf, IndexFiles, Values, Assign

(* persist_full_index: base, fast index, no delta, metadata.               *)
LEMMA FullOps ==
  ASSUME NEW docs \in Docs
  PROVE  /\ Full(docs) \in Seq(OpType) /\ Len(Full(docs)) = 7
         /\ Full(docs)[1] = Assign("base", Torn)
         /\ Full(docs)[2] = Assign("base", docs)
         /\ Full(docs)[3] = Assign("fast", Torn)
         /\ Full(docs)[4] = Assign("fast", docs)
         /\ Full(docs)[5] = Assign("delta", Missing)
         /\ Full(docs)[6] = Assign("meta", Torn)
         /\ Full(docs)[7] = Assign("meta", Whole)
         /\ IsFull(Full(docs))
<1>1. Full(docs) = <<Assign("base", Torn), Assign("base", docs)>>
                     \o <<Assign("fast", Torn), Assign("fast", docs)>>
                     \o <<Assign("delta", Missing)>>
                     \o <<Assign("meta", Torn), Assign("meta", Whole)>>
  BY DEF Full, Write, Remove, Assign
<1>2. /\ Full(docs) \in Seq(OpType) /\ Len(Full(docs)) = 7
      /\ Full(docs)[1] = Assign("base", Torn)
      /\ Full(docs)[2] = Assign("base", docs)
      /\ Full(docs)[3] = Assign("fast", Torn)
      /\ Full(docs)[4] = Assign("fast", docs)
      /\ Full(docs)[5] = Assign("delta", Missing)
      /\ Full(docs)[6] = Assign("meta", Torn)
      /\ Full(docs)[7] = Assign("meta", Whole)
  BY <1>1, AssignsAreOps, SevenInARow
<1>3. 1 \in DOMAIN Full(docs) /\ Full(docs)[1].file = "base"
  BY <1>2 DEF Assign
<1>. QED
  BY <1>2, <1>3 DEF IsFull

(* write_delta: the delta file, then the metadata.                         *)
LEMMA DeltaOps ==
  ASSUME NEW delta \in DeltaType, NEW ops, ops = Delta(delta.docs, delta.removed, delta.above)
  PROVE  /\ ops \in Seq(OpType) /\ Len(ops) = 4
         /\ ops[1] = Assign("delta", Torn) /\ ops[2] = Assign("delta", delta)
         /\ ops[3] = Assign("meta", Torn) /\ ops[4] = Assign("meta", Whole)
         /\ ~IsFull(ops)
<1>1. [docs |-> delta.docs, removed |-> delta.removed, above |-> delta.above] = delta
  BY DEF DeltaType
<1>2. ops = <<Assign("delta", Torn), Assign("delta", delta)>>
              \o <<Assign("meta", Torn), Assign("meta", Whole)>>
  BY <1>1 DEF Delta, Write, Assign
<1>3. /\ ops \in Seq(OpType) /\ Len(ops) = 4
      /\ ops[1] = Assign("delta", Torn) /\ ops[2] = Assign("delta", delta)
      /\ ops[3] = Assign("meta", Torn) /\ ops[4] = Assign("meta", Whole)
  BY <1>2, AssignsAreOps, FourInARow
<1>4. \A i \in DOMAIN ops : ops[i].file # "base"
  <2>1. \A i \in DOMAIN ops : i \in {1, 2, 3, 4}
    BY <1>3
  <2>. QED
    BY <1>3, <2>1 DEF Assign
<1>. QED
  BY <1>3, <1>4 DEF IsFull

(* An update without a change removes the delta, then writes the metadata. *)
LEMMA NoDeltaOps ==
  /\ NoDelta \in Seq(OpType) /\ Len(NoDelta) = 3
  /\ NoDelta[1] = Assign("delta", Missing)
  /\ NoDelta[2] = Assign("meta", Torn) /\ NoDelta[3] = Assign("meta", Whole)
  /\ ~IsFull(NoDelta)
<1>1. NoDelta = <<Assign("delta", Missing)>> \o <<Assign("meta", Torn), Assign("meta", Whole)>>
  BY DEF NoDelta, Write, Remove, Assign
<1>2. /\ NoDelta \in Seq(OpType) /\ Len(NoDelta) = 3
      /\ NoDelta[1] = Assign("delta", Missing)
      /\ NoDelta[2] = Assign("meta", Torn) /\ NoDelta[3] = Assign("meta", Whole)
  BY <1>1, AssignsAreOps, ThreeInARow
<1>3. \A i \in DOMAIN NoDelta : NoDelta[i].file # "base"
  <2>1. \A i \in DOMAIN NoDelta : i \in {1, 2, 3}
    BY <1>2
  <2>. QED
    BY <1>2, <2>1 DEF Assign
<1>. QED
  BY <1>2, <1>3 DEF IsFull

(* The documents of a base are so many, and an id of a delta over it is    *)
(* above them all.                                                         *)
LEMMA NumberedIsNat ==
  ASSUME NEW base
  PROVE  Numbered(base) \in Nat
<1>1. IsFiniteSet({f \in Files : base[f] # Absent})
  BY StoreAssumption, FS_Subset
<1>. QED
  BY <1>1, FS_CardinalityType, StoreAssumption DEF Numbered, Size

(* update_index has in its delta what makes the base the repository.       *)
LEMMA UpdateOpsAre ==
  ASSUME disk \in Docs, NEW base \in Docs
  PROVE  \/ UpdateOps(base) = Full(disk)
         \/ UpdateOps(base) = NoDelta /\ \A f \in Files : base[f] = disk[f]
         \/ \E delta \in DeltaType :
              /\ UpdateOps(base) = Delta(delta.docs, delta.removed, delta.above)
              /\ Fits(delta, base, Files, disk)
<1>. DEFINE differ == {f \in Files : disk[f] # base[f]}
            added == Present(disk, differ)
            removed == Present(base, differ)
            delta == [docs |-> Only(disk, added), removed |-> removed,
                      above |-> Numbered(base)]
<1>1. UpdateOps(base) =
        IF TooMany(base, Cardinality(added) + Cardinality(removed)) THEN Full(disk)
        ELSE IF differ = {} THEN NoDelta
        ELSE Delta(Only(disk, added), removed, Numbered(base))
  BY DEF UpdateOps, NoDelta
<1>2. delta \in DeltaType
  BY NumberedIsNat DEF DeltaType, Docs, Only, Present
<1>3. Fits(delta, base, Files, disk)
  BY DEF Fits, Overlay, Only, Present, Docs
<1>4. differ = {} => \A f \in Files : base[f] = disk[f]
  OBVIOUS
<1>5. /\ delta.docs = Only(disk, added) /\ delta.removed = removed
      /\ delta.above = Numbered(base)
  OBVIOUS
<1>. HIDE DEF differ, added, removed, delta
<1>. QED
  BY <1>1, <1>2, <1>3, <1>4, <1>5

(* apply_incremental_changes has in its delta what makes the batch visible.*)
LEMMA ApplyOpsAre ==
  ASSUME disk \in Docs, NEW base \in Docs
  PROVE  \/ ApplyOps(base) = Full(disk)
         \/ \E delta \in DeltaType :
              /\ ApplyOps(base) = Delta(delta.docs, delta.removed, delta.above)
              /\ Fits(delta, base, Touched, Only(disk, Scanned))
<1>. DEFINE removed == (Touched \ Scanned) \cup Present(base, Scanned)
            delta == [docs |-> Only(disk, Scanned), removed |-> removed,
                      above |-> Numbered(base)]
<1>1. \/ ApplyOps(base) = Full(disk)
      \/ ApplyOps(base) = Delta(Only(disk, Scanned), removed, Numbered(base))
  BY DEF ApplyOps
<1>2. delta \in DeltaType
  BY NumberedIsNat DEF DeltaType, Docs, Only, Present, Touched, Scanned
<1>3. Fits(delta, base, Touched, Only(disk, Scanned))
  BY DEF Fits, Overlay, Only, Present, Docs, Touched, Scanned
<1>4. /\ delta.docs = Only(disk, Scanned) /\ delta.removed = removed
      /\ delta.above = Numbered(base)
  OBVIOUS
<1>. HIDE DEF removed, delta
<1>. QED
  BY <1>1, <1>2, <1>3, <1>4

-----------------------------------------------------------------------------
(* Readers.                                                                *)

(* What a reader opens is a set of documents or an error.                  *)
LEMMA OpenedIsDocs ==
  ASSUME StoreType
  PROVE  Opened \in Docs \cup {Torn}
<1>1. /\ index["base"] \in Docs \cup {Torn} /\ index["fast"] \in Docs \cup {Torn}
      /\ index["delta"] \in DeltaType \cup {Missing, Torn}
  BY DEF StoreType, ValuesOf, IndexFiles
<1>2. OpenedFast \in Docs \cup {Torn}
  BY <1>1 DEF OpenedFast
<1>3. ASSUME index["base"] \in Docs, index["delta"] \in DeltaType
      PROVE  Overlay(index["base"], index["delta"]) \in Docs
  BY <1>3 DEF Overlay, Docs, DeltaType
<1>4. CASE index["delta"] = Torn
  BY <1>4 DEF Opened
<1>5. CASE index["delta"] # Torn
  <2>1. OpenedLegacy \in Docs \cup {Torn}
    BY <1>1, <1>3, <1>5, KindsAreApart DEF OpenedLegacy, Unreadable
  <2>. QED
    BY <1>2, <1>5, <2>1 DEF Opened
<1>. QED
  BY <1>4, <1>5

(* A base that can be read has what a delta says, and the rest of its own. *)
LEMMA DeltaAgrees ==
  ASSUME index["base"] \in Docs, index["delta"] \in DeltaType
  PROVE  /\ Opened = Overlay(index["base"], index["delta"]) /\ Opened \in Docs
         /\ Agrees(index["delta"], Opened)
         /\ \A f \in Files : ~Covers(index["delta"], f) => Opened[f] = index["base"][f]
<1>1. index["base"] \notin Unreadable /\ index["delta"] \notin {Torn, Missing}
  BY KindsAreApart DEF Unreadable
<1>2. Opened = Overlay(index["base"], index["delta"])
  BY <1>1 DEF Opened, OpenedLegacy
<1>. QED
  BY <1>2 DEF Overlay, Docs, DeltaType, Agrees, Covers

(* Without a delta a reader that succeeds has opened the fast index.       *)
LEMMA MissingIsOpened ==
  ASSUME StoreType, index["delta"] = Missing, Opened \in Docs
  PROVE  Opened = index["fast"]
<1>1. index["fast"] # Missing
  BY KindsAreApart DEF StoreType, ValuesOf, IndexFiles
<1>2. Opened = OpenedFast
  BY <1>1, KindsAreApart DEF Opened
<1>. QED
  BY <1>2, KindsAreApart DEF OpenedFast

(* A clean index can be opened.                                            *)
LEMMA CleanOpens ==
  ASSUME StoreType, index["base"] \in Docs, index["fast"] = index["base"],
         index["delta"] # Torn, index["meta"] = Whole
  PROVE  Opened \in Docs
<1>1. index["delta"] \in DeltaType \cup {Missing}
  BY DEF StoreType, ValuesOf, IndexFiles
<1>2. CASE index["delta"] = Missing
  BY <1>2, KindsAreApart DEF Opened, OpenedFast
<1>. QED
  BY <1>1, <1>2, DeltaAgrees

(* What is opened after the step that ends a full build, a change of the   *)
(* delta, and the removal of it.                                           *)
LEMMA FullIsOpened ==
  ASSUME NEW docs \in Docs, FullDone(0, docs)'
  PROVE  Opened' = docs /\ IdsAreApart'
BY KindsAreApart DEF FullDone, Opened, OpenedFast, IdsAreApart, Unreadable

(* A reader of a base with a delta gets the one overlaid with the other.   *)
LEMMA DeltaIsOpened ==
  ASSUME index'["base"] \in Docs, NEW delta \in DeltaType, DeltaDone(0, delta)',
         delta.above = Numbered(index'["base"])
  PROVE  /\ Opened' = Overlay(index'["base"], delta) /\ Opened' \in Docs
         /\ IdsAreApart'
<1>1. index'["delta"] = delta /\ delta # Torn /\ delta # Missing
  BY KindsAreApart DEF DeltaDone
<1>2. index'["base"] \notin Unreadable
  BY KindsAreApart DEF Unreadable
<1>3. Overlay(index'["base"], delta) \in Docs
  BY DEF Overlay, Docs, DeltaType
<1>4. Numbered(index'["base"]) <= delta.above
  <2>1. delta.above \in Nat
    BY DEF DeltaType
  <2>. QED
    BY <2>1
<1>5. Doubled(index'["base"], delta) = 0
  BY <1>4 DEF Doubled
<1>6. IdsAreApart'
  BY <1>1, <1>5 DEF IdsAreApart
<1>. QED
  BY <1>1, <1>2, <1>3, <1>6 DEF Opened, OpenedLegacy

(* A reader of a base without a delta opens fast.idx.                      *)
LEMMA NoDeltaIsOpened ==
  ASSUME index'["base"] \in Docs, index'["fast"] = index'["base"], NoDeltaDone(0)'
  PROVE  Opened' = index'["base"] /\ IdsAreApart'
BY KindsAreApart DEF NoDeltaDone, Opened, OpenedFast, IdsAreApart, Unreadable

-----------------------------------------------------------------------------
(* One step of a writer.                                                   *)

(* What is left of a list begins with its next assignment, and its tail is *)
(* left of it.                                                             *)
LEMMA RestGoesOn ==
  ASSUME NEW S, NEW ops \in Seq(S), NEW all \in Seq(S), ops # <<>>, IsRestOf(ops, all)
  PROVE  /\ Head(ops) = all[Len(all) - Len(ops) + 1]
         /\ Len(ops) \in 1..Len(all)
         /\ Tail(ops) \in Seq(S) /\ Len(Tail(ops)) = Len(ops) - 1
         /\ IsRestOf(Tail(ops), all)
<1>1. /\ Len(ops) \in Nat /\ Len(all) \in Nat /\ Len(ops) >= 1 /\ Len(ops) <= Len(all)
      /\ Head(ops) = ops[1]
  BY DEF IsRestOf
<1>2. Tail(ops) \in Seq(S) /\ Len(Tail(ops)) = Len(ops) - 1
  OBVIOUS
<1>3. \A i \in 1..Len(Tail(ops)) : Tail(ops)[i] = ops[i + 1] /\ i + 1 \in 1..Len(ops)
  BY <1>1, <1>2
<1>4. \A i \in 1..Len(Tail(ops)) : Tail(ops)[i] = all[Len(all) - Len(Tail(ops)) + i]
  BY <1>1, <1>2, <1>3 DEF IsRestOf
<1>. QED
  BY <1>1, <1>2, <1>4 DEF IsRestOf

(* An assignment as the writer makes it.                                   *)
Makes(op) ==
  \E value \in Outcomes(op) : index' = [index EXCEPT ![op.file] = value]

(* A file that is truncated, or was, has the value that is assigned.       *)
LEMMA MakesIt ==
  ASSUME StoreType, NEW op \in OpType, Makes(op)
  PROVE  /\ index' \in [IndexFiles -> Values]
         /\ \A file \in IndexFiles : index'[file] \in ValuesOf(file)
         /\ \A file \in IndexFiles \ {op.file} : index'[file] = index[file]
         /\ (op.value \in Unreadable \/ index[op.file] = Torn) => index'[op.file] = op.value
<1>1. PICK value \in Outcomes(op) : index' = [index EXCEPT ![op.file] = value]
  BY DEF Makes
<1>2. op.file \in IndexFiles /\ op.value \in ValuesOf(op.file) /\ Torn \in ValuesOf(op.file)
  BY DEF OpType, ValuesOf
<1>3. value \in ValuesOf(op.file)
  BY <1>2 DEF Outcomes, StoreType
<1>4. ValuesOf(op.file) \subseteq Values
  BY DEF ValuesOf, Values
<1>. QED
  BY <1>1, <1>2, <1>3, <1>4 DEF StoreType, Outcomes

(* A step of a full build alone brings it one assignment further,          *)
LEMMA FullGoesOn ==
  ASSUME StoreType, NEW docs \in Docs, NEW n \in 1..7, FullDone(n, docs),
         Makes(Full(docs)[8 - n])
  PROVE  /\ FullDone(n - 1, docs)'
         /\ n > 2 => index'["meta"] = index["meta"]
         /\ n # 3 => index'["delta"] = index["delta"]
         /\ n \notin {6, 7} => index'["base"] = index["base"]
         /\ n \notin {4, 5} => index'["fast"] = index["fast"]
         /\ n = 5 => index'["fast"] = Torn
<1>. DEFINE op == Full(docs)[8 - n]
<1>1. /\ op \in OpType
      /\ n = 7 => op = Assign("base", Torn)
      /\ n = 6 => op = Assign("base", docs)
      /\ n = 5 => op = Assign("fast", Torn)
      /\ n = 4 => op = Assign("fast", docs)
      /\ n = 3 => op = Assign("delta", Missing)
      /\ n = 2 => op = Assign("meta", Torn)
      /\ n = 1 => op = Assign("meta", Whole)
  BY FullOps
<1>. HIDE DEF op
<1>2. /\ \A file \in IndexFiles \ {op.file} : index'[file] = index[file]
      /\ (op.value \in Unreadable \/ index[op.file] = Torn) => index'[op.file] = op.value
  BY <1>1, MakesIt DEF op
<1>3. n \in {1, 2, 3, 4, 5, 6, 7}
  OBVIOUS
<1>4. index'["base"] = IF n = 7 THEN Torn ELSE IF n = 6 THEN docs ELSE index["base"]
  BY <1>1, <1>2, <1>3 DEF Assign, FullDone, IndexFiles, Unreadable
<1>5. index'["fast"] = IF n = 5 THEN Torn ELSE IF n = 4 THEN docs ELSE index["fast"]
  BY <1>1, <1>2, <1>3 DEF Assign, FullDone, IndexFiles, Unreadable
<1>6. index'["delta"] = IF n = 3 THEN Missing ELSE index["delta"]
  BY <1>1, <1>2, <1>3 DEF Assign, FullDone, IndexFiles, Unreadable
<1>7. index'["meta"] = IF n = 2 THEN Torn ELSE IF n = 1 THEN Whole ELSE index["meta"]
  BY <1>1, <1>2, <1>3 DEF Assign, FullDone, IndexFiles, Unreadable
<1>. QED
  BY <1>3, <1>4, <1>5, <1>6, <1>7 DEF FullDone

(* so does one of a delta, which leaves base and fast.idx alone,           *)
LEMMA DeltaGoesOn ==
  ASSUME StoreType, NEW delta \in DeltaType, NEW n \in 1..4, DeltaDone(n, delta),
         Makes(Delta(delta.docs, delta.removed, delta.above)[5 - n])
  PROVE  /\ DeltaDone(n - 1, delta)'
         /\ index'["base"] = index["base"] /\ index'["fast"] = index["fast"]
         /\ n > 2 => index'["meta"] = index["meta"]
<1>. DEFINE op == Delta(delta.docs, delta.removed, delta.above)[5 - n]
<1>1. /\ op \in OpType
      /\ n = 4 => op = Assign("delta", Torn)
      /\ n = 3 => op = Assign("delta", delta)
      /\ n = 2 => op = Assign("meta", Torn)
      /\ n = 1 => op = Assign("meta", Whole)
  <2>1. n \in {1, 2, 3, 4}
    OBVIOUS
  <2>. QED
    BY <2>1, DeltaOps, AssignsAreOps
<1>. HIDE DEF op
<1>2. /\ \A file \in IndexFiles \ {op.file} : index'[file] = index[file]
      /\ (op.value \in Unreadable \/ index[op.file] = Torn) => index'[op.file] = op.value
  BY <1>1, MakesIt DEF op
<1>3. n \in {1, 2, 3, 4}
  OBVIOUS
<1>. QED
  BY <1>1, <1>2, <1>3 DEF Assign, DeltaDone, IndexFiles, Unreadable

(* and one of a job that removes the delta.                                *)
LEMMA NoDeltaGoesOn ==
  ASSUME StoreType, NEW n \in 1..3, NoDeltaDone(n), Makes(NoDelta[4 - n])
  PROVE  /\ NoDeltaDone(n - 1)'
         /\ index'["base"] = index["base"] /\ index'["fast"] = index["fast"]
         /\ n > 2 => index'["meta"] = index["meta"]
<1>. DEFINE op == NoDelta[4 - n]
<1>1. /\ op \in OpType
      /\ n = 3 => op = Assign("delta", Missing)
      /\ n = 2 => op = Assign("meta", Torn)
      /\ n = 1 => op = Assign("meta", Whole)
  <2>1. n \in {1, 2, 3}
    OBVIOUS
  <2>. QED
    BY <2>1, NoDeltaOps, AssignsAreOps
<1>. HIDE DEF op
<1>2. /\ \A file \in IndexFiles \ {op.file} : index'[file] = index[file]
      /\ (op.value \in Unreadable \/ index[op.file] = Torn) => index'[op.file] = op.value
  BY <1>1, MakesIt DEF op
<1>3. n \in {1, 2, 3}
  OBVIOUS
<1>. QED
  BY <1>1, <1>2, <1>3 DEF Assign, NoDeltaDone, IndexFiles, Unreadable

-----------------------------------------------------------------------------
(* Writers begin.                                                          *)

(* A list that makes its goal visible: a full build, or a change of the    *)
(* delta of a base that can be read.                                       *)
Serves(ops, files, goal) ==
  \/ IsFull(ops) /\ ops = Full(goal)
  \/ /\ ~IsFull(ops)
     /\ index["base"] \in Docs
     /\ \/ \E delta \in DeltaType :
             /\ ops = Delta(delta.docs, delta.removed, delta.above)
             /\ Fits(delta, index["base"], files, goal)
        \/ /\ ops = NoDelta /\ files = Files
           /\ \A f \in files : index["base"][f] = goal[f]

(* All of a list is left of it.                                            *)
LEMMA AllIsRest ==
  ASSUME NEW S, NEW ops \in Seq(S)
  PROVE  IsRestOf(ops, ops)
BY DEF IsRestOf

(* A job begins without a change to the index.                             *)
LEMMA BeginKeepsInv ==
  ASSUME IndexInv, NEW w \in Writers, job[w] = Idle,
         NEW ops \in Seq(OpType), ops # <<>>,
         NEW files \in SUBSET Files, NEW goal \in Docs,
         Begin(w, ops, files, goal), Serves(ops, files, goal),
         pending' \in [Files -> {"none", "changed", "deleted"}]
  PROVE  IndexInv'
<1>. DEFINE a == \A v \in Writers : job[v] = Idle
            b == IsFull(ops)
            r == [ops |-> ops, files |-> files, goal |-> goal, alone |-> a,
                  before |-> Opened, full |-> b]
<1>1. /\ job' = [job EXCEPT ![w] = r]
      /\ disk' = disk /\ edits' = edits /\ index' = index /\ sound' = sound
  BY DEF Begin
<1>2. a \in BOOLEAN /\ b \in BOOLEAN
  BY DEF IsFull
<1>3. Opened \in Docs \cup {Torn}
  BY OpenedIsDocs DEF IndexInv
<1>4. /\ r \in JobType
      /\ r.ops = ops /\ r.files = files /\ r.goal = goal /\ (r.alone <=> a) /\ (r.full <=> b)
      /\ r.before = Opened
  <2>. HIDE DEF a, b
  <2>. QED
    BY <1>2, <1>3 DEF JobType
<1>5. a => \A v \in Writers : ~Busy(v)
  BY DEF Busy, Idle
<1>6. (b <=> IsFull(ops)) /\ (a => \A v \in Writers : job[v] = Idle)
  OBVIOUS
<1>. HIDE DEF a, b, r
<1>7. /\ job' \in [Writers -> JobType]
      /\ job'[w] = r
      /\ \A v \in Writers \ {w} : job'[v] = job[v]
  BY <1>1, <1>4 DEF IndexInv, StoreType
<1>8. \A v \in Writers \ {w} : Busy(v)' <=> Busy(v)
  BY <1>7 DEF Busy
<1>9. Busy(w)' <=> a
  BY <1>4, <1>7 DEF Busy
<1>10. StoreType'
  <2>1. \A v \in Writers : job'[v].ops = <<>> => job'[v] = Idle
    BY <1>4, <1>7 DEF IndexInv, StoreType
  <2>. QED
    BY <1>1, <1>7, <2>1 DEF IndexInv, StoreType
<1>11. AloneInv'
  BY <1>5, <1>8, <1>9 DEF IndexInv, AloneInv
<1>12. FullInv'
  <2>. SUFFICES ASSUME NEW v \in Writers, Busy(v)', job'[v].full
                PROVE  /\ IsRestOf(job'[v].ops, Full(job'[v].goal))
                       /\ FullDone(Len(job'[v].ops), job'[v].goal)
    BY <1>1 DEF FullInv, FullDone
  <2>1. CASE v = w
    <3>1. ops = Full(goal) /\ Len(ops) = 7
      BY <1>4, <1>6, <1>7, <2>1, FullOps DEF Serves
    <3>2. IsRestOf(ops, Full(goal))
      BY <3>1, AllIsRest
    <3>3. FullDone(7, goal)
      BY DEF FullDone
    <3>4. job'[v].ops = ops /\ job'[v].goal = goal
      BY <1>4, <1>7, <2>1
    <3>. QED
      BY <3>1, <3>2, <3>3, <3>4
  <2>2. CASE v # w
    BY <1>7, <1>8, <2>2 DEF IndexInv, FullInv
  <2>. QED
    BY <2>1, <2>2
<1>13. PartInv'
  <2>. SUFFICES ASSUME NEW v \in Writers, Busy(v)', ~job'[v].full
                PROVE  /\ index["base"] \in Docs
                       /\ \/ \E delta \in DeltaType :
                               /\ IsRestOf(job'[v].ops, Delta(delta.docs, delta.removed, delta.above))
                               /\ DeltaDone(Len(job'[v].ops), delta)
                               /\ Fits(delta, index["base"], job'[v].files, job'[v].goal)
                          \/ /\ IsRestOf(job'[v].ops, NoDelta)
                             /\ NoDeltaDone(Len(job'[v].ops))
                             /\ job'[v].files = Files
                             /\ \A f \in job'[v].files : index["base"][f] = job'[v].goal[f]
    BY <1>1 DEF PartInv, DeltaDone, NoDeltaDone
  <2>1. CASE v = w
    <3>1. job'[v].ops = ops /\ job'[v].files = files /\ job'[v].goal = goal /\ ~IsFull(ops)
      BY <1>4, <1>6, <1>7, <2>1
    <3>2. IsRestOf(ops, ops)
      BY AllIsRest
    <3>3. ASSUME NEW delta \in DeltaType, ops = Delta(delta.docs, delta.removed, delta.above)
          PROVE  DeltaDone(Len(ops), delta)
      BY <3>3, DeltaOps DEF DeltaDone
    <3>4. ASSUME ops = NoDelta
          PROVE  NoDeltaDone(Len(ops))
      <4>1. PICK k : k = Len(ops) /\ k = 3
        BY <3>4, NoDeltaOps
      <4>2. NoDeltaDone(k)
        BY <4>1 DEF NoDeltaDone
      <4>. QED
        BY <4>1, <4>2
    <3>. QED
      BY <3>1, <3>2, <3>3, <3>4 DEF Serves
  <2>2. CASE v # w
    <3>1. Busy(v) /\ job'[v] = job[v] /\ ~job[v].full
      BY <1>7, <1>8, <2>2
    <3>. QED
      BY <3>1 DEF IndexInv, PartInv
  <2>. QED
    BY <2>1, <2>2
<1>14. SoundInv'
  <2>. SUFFICES ASSUME sound, ~(index["base"] \in Docs /\ index["fast"] = index["base"])
                PROVE  \E v \in Writers : Busy(v)' /\ job'[v].full
    BY <1>1 DEF SoundInv
  <2>1. PICK v \in Writers : Busy(v) /\ job[v].full
    BY DEF IndexInv, SoundInv
  <2>2. v # w
    BY <2>1 DEF Busy, Idle
  <2>. QED
    BY <1>7, <1>8, <2>1, <2>2
<1>15. MetaInv'
  <2>. SUFFICES ASSUME sound, index["meta"] # Whole
                PROVE  \E v \in Writers : Busy(v)' /\ Len(job'[v].ops) = 1
    BY <1>1 DEF MetaInv
  <2>1. PICK v \in Writers : Busy(v) /\ Len(job[v].ops) = 1
    BY DEF IndexInv, MetaInv
  <2>2. v # w
    BY <2>1 DEF Busy, Idle
  <2>. QED
    BY <1>7, <1>8, <2>1, <2>2
<1>16. CleanInv'
  <2>1. \A v \in Writers : Busy(v) => Busy(v)'
    BY <1>8 DEF Busy, Idle
  <2>. QED
    BY <1>1, <2>1 DEF IndexInv, CleanInv
<1>17. Opened' = Opened
  BY <1>1 DEF Opened, OpenedFast, OpenedLegacy
<1>18. BeforeInv'
  <2>. SUFFICES ASSUME NEW v \in Writers, sound, Busy(v)', job'[v].full
                PROVE  /\ Len(job'[v].ops) = 7 =>
                            index["base"] \in Docs /\ job'[v].before = Opened /\ Opened \in Docs
                       /\ (Len(job'[v].ops) \in 3..6 /\ index["delta"] \in DeltaType) =>
                            job'[v].before \in Docs /\ Agrees(index["delta"], job'[v].before)
                       /\ (Len(job'[v].ops) \in 5..6 /\ index["delta"] = Missing) =>
                            job'[v].before \in Docs /\ index["fast"] = job'[v].before
    BY <1>1, <1>17 DEF BeforeInv
  <2>1. CASE v = w
    <3>1. Len(job'[v].ops) = 7 /\ job'[v].before = Opened
      BY <1>4, <1>6, <1>7, <2>1, FullOps DEF Serves
    <3>2. \A u \in Writers : ~Busy(u)
      BY <1>5, <1>9, <2>1
    <3>3. /\ index["base"] \in Docs /\ index["fast"] = index["base"]
          /\ index["delta"] # Torn /\ index["meta"] = Whole
      BY <3>2 DEF IndexInv, SoundInv, MetaInv, CleanInv
    <3>4. Opened \in Docs
      BY <3>3, CleanOpens DEF IndexInv
    <3>. QED
      BY <3>1, <3>3, <3>4
  <2>2. CASE v # w
    <3>1. Busy(v) /\ job'[v] = job[v] /\ job[v].full
      BY <1>7, <1>8, <2>2
    <3>. QED
      BY <3>1 DEF IndexInv, BeforeInv
  <2>. QED
    BY <2>1, <2>2
<1>. QED
  BY <1>10, <1>11, <1>12, <1>13, <1>14, <1>15, <1>16, <1>18 DEF IndexInv

-----------------------------------------------------------------------------
(* Writers go on.                                                          *)

(* Each step of a writer takes its next assignment off its list, and marks *)
(* the other writers at work as interfered with.                           *)
LEMMA StepJobs ==
  ASSUME StoreType, NEW w \in Writers, Step(w)
  PROVE  /\ job[w].ops \in Seq(OpType) /\ Len(job[w].ops) \in Nat \ {0}
         /\ Head(job[w].ops) \in OpType /\ Makes(Head(job[w].ops))
         /\ Len(job[w].ops) = 1 => job'[w] = Idle
         /\ Len(job[w].ops) # 1 =>
              /\ job'[w].ops = Tail(job[w].ops) /\ Len(Tail(job[w].ops)) = Len(job[w].ops) - 1
              /\ job'[w].files = job[w].files /\ job'[w].goal = job[w].goal
              /\ job'[w].full = job[w].full /\ job'[w].alone = job[w].alone
              /\ job'[w].before = job[w].before
         /\ \A v \in Writers \ {w} : ~Busy(v)'
         /\ job' \in [Writers -> JobType]
         /\ \A v \in Writers : job'[v].ops = <<>> => job'[v] = Idle
<1>. DEFINE j == job[w]
<1>1. /\ job[w] \in JobType /\ job[w].ops # <<>>
      /\ Makes(Head(job[w].ops))
      /\ job' = [v \in Writers |->
                   IF v = w THEN IF Len(job[w].ops) = 1 THEN Idle
                                 ELSE [job[w] EXCEPT !.ops = Tail(@)]
                   ELSE IF job[v] = Idle THEN Idle
                   ELSE [job[v] EXCEPT !.alone = FALSE]]
  BY DEF StoreType, Step, Makes
<1>2. /\ job[w].ops \in Seq(OpType) /\ Len(job[w].ops) \in Nat \ {0}
      /\ Head(job[w].ops) \in OpType
  BY <1>1 DEF JobType
<1>3. /\ Tail(job[w].ops) \in Seq(OpType)
      /\ Len(Tail(job[w].ops)) = Len(job[w].ops) - 1
  BY <1>1, <1>2
<1>4. Idle \in JobType /\ Idle.ops = <<>>
  BY DEF Idle, JobType, NoDocs, Docs
<1>5. /\ [job[w] EXCEPT !.ops = Tail(@)] \in JobType
      /\ [job[w] EXCEPT !.ops = Tail(@)].ops = Tail(job[w].ops)
      /\ [job[w] EXCEPT !.ops = Tail(@)].files = job[w].files
      /\ [job[w] EXCEPT !.ops = Tail(@)].goal = job[w].goal
      /\ [job[w] EXCEPT !.ops = Tail(@)].full = job[w].full
      /\ [job[w] EXCEPT !.ops = Tail(@)].alone = job[w].alone
      /\ [job[w] EXCEPT !.ops = Tail(@)].before = job[w].before
  BY <1>1, <1>3 DEF JobType
<1>6. \A v \in Writers : job[v] # Idle =>
        /\ [job[v] EXCEPT !.alone = FALSE] \in JobType
        /\ [job[v] EXCEPT !.alone = FALSE].ops = job[v].ops
        /\ ~[job[v] EXCEPT !.alone = FALSE].alone
        /\ job[v].ops # <<>>
  <2>. SUFFICES ASSUME NEW v \in Writers, job[v] # Idle
                PROVE  /\ [job[v] EXCEPT !.alone = FALSE] \in JobType
                       /\ [job[v] EXCEPT !.alone = FALSE].ops = job[v].ops
                       /\ ~[job[v] EXCEPT !.alone = FALSE].alone
                       /\ job[v].ops # <<>>
    OBVIOUS
  <2>1. job[v] \in JobType /\ job[v].ops # <<>>
    BY DEF StoreType
  <2>. QED
    BY <2>1 DEF JobType
<1>7. \A v \in Writers \ {w} : job'[v].ops = <<>> \/ ~job'[v].alone
  BY <1>1, <1>4, <1>6
<1>8. job' \in [Writers -> JobType]
  BY <1>1, <1>4, <1>5, <1>6
<1>9. \A v \in Writers : job'[v].ops = <<>> => job'[v] = Idle
  <2>1. Len(job[w].ops) # 1 => Len(Tail(job[w].ops)) # 0
    BY <1>2, <1>3
  <2>2. Len(<<>>) = 0
    OBVIOUS
  <2>3. Len(job[w].ops) # 1 => Tail(job[w].ops) # <<>>
    BY <2>1, <2>2, Zenon
  <2>. QED
    BY <1>1, <1>5, <1>6, <2>3
<1>10. \A v \in Writers \ {w} : ~Busy(v)'
  BY <1>7 DEF Busy
<1>11. Len(job[w].ops) = 1 => job'[w] = Idle
  BY <1>1
<1>12. Len(job[w].ops) # 1 => job'[w] = [job[w] EXCEPT !.ops = Tail(@)]
  BY <1>1
<1>. QED
  BY <1>1, <1>2, <1>3, <1>5, <1>8, <1>9, <1>10, <1>11, <1>12

(* A full build goes on with its list.                                     *)
LEMMA FullStep ==
  ASSUME IndexInv, NEW w \in Writers, Step(w), Busy(w), job[w].full,
         NEW docs, docs = job[w].goal, NEW n, n = Len(job[w].ops)
  PROVE  /\ n \in 1..7 /\ docs \in Docs
         /\ FullDone(n - 1, docs)'
         /\ n > 2 => index'["meta"] = index["meta"]
         /\ n # 3 => index'["delta"] = index["delta"]
         /\ n \notin {6, 7} => index'["base"] = index["base"]
         /\ n \notin {4, 5} => index'["fast"] = index["fast"]
         /\ n = 5 => index'["fast"] = Torn
         /\ IsRestOf(Tail(job[w].ops), Full(docs))
<1>1. /\ StoreType /\ docs \in Docs
      /\ IsRestOf(job[w].ops, Full(docs)) /\ FullDone(n, docs)
  BY DEF IndexInv, FullInv, StoreType, JobType
<1>2. /\ job[w].ops \in Seq(OpType) /\ job[w].ops # <<>>
      /\ Full(docs) \in Seq(OpType) /\ Len(Full(docs)) = 7
  BY <1>1, StepJobs, FullOps DEF Busy
<1>3. /\ Head(job[w].ops) = Full(docs)[8 - n] /\ n \in 1..7
      /\ IsRestOf(Tail(job[w].ops), Full(docs))
  <2>1. /\ Head(job[w].ops) = Full(docs)[Len(Full(docs)) - Len(job[w].ops) + 1]
        /\ Len(job[w].ops) \in 1..Len(Full(docs))
        /\ IsRestOf(Tail(job[w].ops), Full(docs))
    BY <1>1, <1>2, RestGoesOn
  <2>2. n \in 1..7 /\ 7 - n + 1 = 8 - n
    BY <1>2, <2>1
  <2>. QED
    BY <1>2, <2>1, <2>2
<1>4. Makes(Full(docs)[8 - n])
  BY <1>1, <1>3, StepJobs
<1>. QED
  BY <1>1, <1>3, <1>4, FullGoesOn

(* An update or a batch goes on with its own, and leaves the base alone.   *)
LEMMA PartStep ==
  ASSUME IndexInv, NEW w \in Writers, Step(w), Busy(w), ~job[w].full,
         NEW n, n = Len(job[w].ops)
  PROVE  /\ index["base"] \in Docs
         /\ index'["base"] = index["base"] /\ index'["fast"] = index["fast"]
         /\ n > 2 => index'["meta"] = index["meta"]
         /\ \/ \E delta \in DeltaType :
                 /\ IsRestOf(Tail(job[w].ops), Delta(delta.docs, delta.removed, delta.above))
                 /\ DeltaDone(n - 1, delta)'
                 /\ Fits(delta, index["base"], job[w].files, job[w].goal)
            \/ /\ IsRestOf(Tail(job[w].ops), NoDelta)
               /\ NoDeltaDone(n - 1)'
               /\ job[w].files = Files
               /\ \A f \in job[w].files : index["base"][f] = job[w].goal[f]
<1>1. /\ StoreType /\ job[w].ops \in Seq(OpType) /\ job[w].ops # <<>>
      /\ Makes(Head(job[w].ops)) /\ n \in Nat
  BY StepJobs DEF Busy, IndexInv
<1>2. /\ index["base"] \in Docs
      /\ \/ \E delta \in DeltaType :
              /\ IsRestOf(job[w].ops, Delta(delta.docs, delta.removed, delta.above))
              /\ DeltaDone(n, delta)
              /\ Fits(delta, index["base"], job[w].files, job[w].goal)
         \/ /\ IsRestOf(job[w].ops, NoDelta)
            /\ NoDeltaDone(n)
            /\ job[w].files = Files
            /\ \A f \in job[w].files : index["base"][f] = job[w].goal[f]
  BY DEF IndexInv, PartInv
<1>3. ASSUME NEW delta \in DeltaType,
             IsRestOf(job[w].ops, Delta(delta.docs, delta.removed, delta.above)), DeltaDone(n, delta)
      PROVE  /\ IsRestOf(Tail(job[w].ops), Delta(delta.docs, delta.removed, delta.above))
             /\ DeltaDone(n - 1, delta)'
             /\ index'["base"] = index["base"] /\ index'["fast"] = index["fast"]
             /\ n > 2 => index'["meta"] = index["meta"]
  <2>1. PICK all \in Seq(OpType) : all = Delta(delta.docs, delta.removed, delta.above) /\ Len(all) = 4
    BY DeltaOps
  <2>2. /\ Head(job[w].ops) = all[Len(all) - Len(job[w].ops) + 1]
        /\ Len(job[w].ops) \in 1..Len(all)
        /\ IsRestOf(Tail(job[w].ops), all)
    BY <1>1, <1>3, <2>1, RestGoesOn
  <2>3. Head(job[w].ops) = all[5 - n] /\ n \in 1..4 /\ IsRestOf(Tail(job[w].ops), all)
    BY <1>1, <2>1, <2>2
  <2>. QED
    BY <1>1, <1>3, <2>1, <2>3, DeltaGoesOn
<1>4. ASSUME IsRestOf(job[w].ops, NoDelta), NoDeltaDone(n)
      PROVE  /\ IsRestOf(Tail(job[w].ops), NoDelta)
             /\ NoDeltaDone(n - 1)'
             /\ index'["base"] = index["base"] /\ index'["fast"] = index["fast"]
             /\ n > 2 => index'["meta"] = index["meta"]
  <2>1. NoDelta \in Seq(OpType) /\ Len(NoDelta) = 3
    BY NoDeltaOps
  <2>2. /\ Head(job[w].ops) = NoDelta[Len(NoDelta) - Len(job[w].ops) + 1]
        /\ Len(job[w].ops) \in 1..Len(NoDelta)
        /\ IsRestOf(Tail(job[w].ops), NoDelta)
    BY <1>1, <1>4, <2>1, RestGoesOn
  <2>3. Head(job[w].ops) = NoDelta[4 - n] /\ n \in 1..3 /\ IsRestOf(Tail(job[w].ops), NoDelta)
    BY <1>1, <2>1, <2>2
  <2>. QED
    BY <1>1, <1>4, <2>3, NoDeltaGoesOn
<1>. QED
  BY <1>2, <1>3, <1>4

(* The metadata are torn before the last step of a writer alone only, and  *)
(* the delta never after it.                                               *)
LEMMA StepShows ==
  ASSUME IndexInv, NEW w \in Writers, Step(w), Busy(w), NEW n, n = Len(job[w].ops)
  PROVE  /\ n = 1 => index'["meta"] = Whole /\ index'["delta"] # Torn
         /\ n > 2 => index'["meta"] = index["meta"]
<1>1. PICK docs : docs = job[w].goal
  OBVIOUS
<1>2. CASE job[w].full
  <2>1. FullDone(n - 1, docs)' /\ (n > 2 => index'["meta"] = index["meta"])
    BY <1>1, <1>2, FullStep
  <2>2. n = 1 => FullDone(0, docs)'
    BY <2>1
  <2>. QED
    BY <2>1, <2>2, KindsAreApart DEF FullDone
<1>3. CASE ~job[w].full
  <2>1. /\ n > 2 => index'["meta"] = index["meta"]
        /\ \/ \E delta \in DeltaType : DeltaDone(n - 1, delta)'
           \/ NoDeltaDone(n - 1)'
    BY <1>3, PartStep
  <2>2. n = 1 => n - 1 = 0
    OBVIOUS
  <2>3. \A delta \in DeltaType : delta # Torn
    BY KindsAreApart
  <2>4. ASSUME NEW delta \in DeltaType, DeltaDone(n - 1, delta)', n = 1
        PROVE  index'["meta"] = Whole /\ index'["delta"] # Torn
    BY <2>2, <2>3, <2>4 DEF DeltaDone
  <2>5. ASSUME NoDeltaDone(n - 1)', n = 1
        PROVE  index'["meta"] = Whole /\ index'["delta"] # Torn
    BY <2>2, <2>5, KindsAreApart DEF NoDeltaDone
  <2>. QED
    BY <2>1, <2>4, <2>5
<1>. QED
  BY <1>2, <1>3

(* A step of a writer keeps the invariant.                                 *)
LEMMA StepKeepsInv ==
  ASSUME IndexInv, NEW w \in Writers, Step(w)
  PROVE  IndexInv'
<1>. DEFINE n == Len(job[w].ops)
<1>1. /\ StoreType /\ n \in Nat \ {0}
      /\ Makes(Head(job[w].ops)) /\ Head(job[w].ops) \in OpType
      /\ \A v \in Writers \ {w} : ~Busy(v)'
      /\ job' \in [Writers -> JobType]
      /\ \A v \in Writers : job'[v].ops = <<>> => job'[v] = Idle
  BY StepJobs DEF IndexInv
<1>2. n = 1 => job'[w] = Idle
  BY <1>1, StepJobs
<1>3. n # 1 => /\ job'[w].ops = Tail(job[w].ops) /\ Len(Tail(job[w].ops)) = n - 1
               /\ job'[w].files = job[w].files /\ job'[w].goal = job[w].goal
               /\ job'[w].full = job[w].full /\ job'[w].alone = job[w].alone
               /\ job'[w].before = job[w].before
  BY <1>1, StepJobs
<1>4. Busy(w)' => n # 1 /\ Busy(w)
  BY <1>2, <1>3 DEF Busy, Idle, Step
<1>5. StoreType'
  <2>1. sound' \in BOOLEAN
    <3>1. sound' = (job[w].alone /\ (sound \/ (Len(job[w].ops) = 1 /\ job[w].full)))
      BY DEF Step
    <3>. QED
      BY <3>1
  <2>2. disk' = disk /\ edits' = edits /\ pending' = pending
    BY DEF Step
  <2>3. /\ index' \in [IndexFiles -> Values]
        /\ \A file \in IndexFiles : index'[file] \in ValuesOf(file)
    BY <1>1, MakesIt
  <2>. QED
    BY <1>1, <2>1, <2>2, <2>3 DEF StoreType
<1>6. AloneInv'
  BY <1>1 DEF AloneInv
<1>7. FullInv'
  <2>. SUFFICES ASSUME Busy(w)', job'[w].full
                PROVE  /\ IsRestOf(job'[w].ops, Full(job'[w].goal))
                       /\ \A k, docs : (k = Len(job'[w].ops) /\ docs = job'[w].goal)
                                          => FullDone(k, docs)'
    BY <1>1 DEF FullInv, FullDone
  <2>1. PICK docs : docs = job[w].goal
    OBVIOUS
  <2>2. PICK k : k = n
    OBVIOUS
  <2>3. /\ n # 1 /\ Busy(w) /\ job[w].full
        /\ job'[w].ops = Tail(job[w].ops) /\ job'[w].goal = docs
        /\ Len(job'[w].ops) = k - 1
    BY <1>3, <1>4, <2>1, <2>2
  <2>4. FullDone(k - 1, docs)' /\ IsRestOf(Tail(job[w].ops), Full(docs))
    BY <2>1, <2>2, <2>3, FullStep
  <2>. QED
    BY <2>3, <2>4
<1>8. PartInv'
  <2>1. ASSUME Busy(w)', ~job'[w].full
        PROVE  /\ index["base"] \in Docs /\ index'["base"] = index["base"]
               /\ \/ \E delta \in DeltaType :
                       /\ IsRestOf(job'[w].ops, Delta(delta.docs, delta.removed, delta.above))
                       /\ DeltaDone(Len(job[w].ops), delta)'
                       /\ Fits(delta, index["base"], job'[w].files, job'[w].goal)
                  \/ /\ IsRestOf(job'[w].ops, NoDelta)
                     /\ NoDeltaDone(Len(job[w].ops))'
                     /\ job'[w].files = Files
                     /\ \A f \in job'[w].files : index["base"][f] = job'[w].goal[f]
    <3>1. PICK k : k = n
      OBVIOUS
    <3>2. /\ Busy(w) /\ ~job[w].full
          /\ job'[w].ops = Tail(job[w].ops) /\ Len(job'[w].ops) = k - 1
          /\ job'[w].files = job[w].files /\ job'[w].goal = job[w].goal
      BY <1>3, <1>4, <2>1, <3>1
    <3>3. \A delta : DeltaDone(k - 1, delta)' => DeltaDone(Len(job[w].ops), delta)'
      BY <3>2 DEF DeltaDone
    <3>4. NoDeltaDone(k - 1)' => NoDeltaDone(Len(job[w].ops))'
      BY <3>2 DEF NoDeltaDone
    <3>. QED
      BY <3>1, <3>2, <3>3, <3>4, PartStep
  <2>2. ASSUME NEW v \in Writers, Busy(v)', ~job'[v].full
        PROVE  v = w
    BY <1>1, <2>2
  <2>. QED
    BY <2>1, <2>2, Zenon DEF PartInv
<1>9. SoundInv'
  <2>. SUFFICES ASSUME sound'
                PROVE  \/ index'["base"] \in Docs /\ index'["fast"] = index'["base"]
                       \/ Busy(w)' /\ job'[w].full
    BY DEF SoundInv
  <2>1. Busy(w) /\ (sound \/ (n = 1 /\ job[w].full))
    BY DEF Step, Busy
  <2>2. CASE job[w].full /\ n = 1
    <3>1. PICK docs : docs = job[w].goal
      OBVIOUS
    <3>2. PICK k : k = n
      OBVIOUS
    <3>3. FullDone(k - 1, docs)' /\ docs \in Docs
      BY <2>1, <2>2, <3>1, <3>2, FullStep
    <3>. QED
      BY <2>2, <3>2, <3>3 DEF FullDone
  <2>3. CASE job[w].full /\ n # 1
    BY <1>3, <2>1, <2>3, <1>5 DEF Busy, StoreType, Idle, Step
  <2>4. CASE ~job[w].full
    <3>1. PICK k : k = n
      OBVIOUS
    <3>2. index'["base"] = index["base"] /\ index'["fast"] = index["fast"]
      BY <2>1, <2>4, <3>1, PartStep
    <3>3. ~\E v \in Writers : Busy(v) /\ job[v].full
      BY <2>1, <2>4 DEF IndexInv, AloneInv
    <3>. QED
      BY <2>1, <2>4, <3>2, <3>3 DEF IndexInv, SoundInv
  <2>. QED
    BY <2>2, <2>3, <2>4
<1>10. PICK m \in Nat \ {0} : m = n
  BY <1>1
<1>11. m = 1 \/ m = 2 \/ m > 2
  OBVIOUS
<1>12. sound' => /\ Busy(w) /\ (m # 1 => sound /\ Busy(w)')
                 /\ m = 1 => index'["meta"] = Whole /\ index'["delta"] # Torn
                 /\ m > 2 => index'["meta"] = index["meta"]
  <2>. SUFFICES ASSUME sound'
                PROVE  /\ Busy(w) /\ (m # 1 => sound /\ Busy(w)')
                       /\ m = 1 => index'["meta"] = Whole /\ index'["delta"] # Torn
                       /\ m > 2 => index'["meta"] = index["meta"]
    OBVIOUS
  <2>1. Busy(w) /\ (m # 1 => sound)
    BY <1>10 DEF Step, Busy
  <2>2. m # 1 => job'[w].ops # <<>>
    <3>1. Len(<<>>) = 0
      OBVIOUS
    <3>2. m # 1 => m - 1 # 0
      OBVIOUS
    <3>. QED
      BY <1>3, <1>10, <3>1, <3>2
  <2>3. m # 1 => Busy(w)'
    BY <1>3, <1>10, <2>1, <2>2 DEF Busy
  <2>. QED
    BY <1>10, <2>1, <2>3, StepShows
<1>13. MetaInv'
  <2>. SUFFICES ASSUME sound'
                PROVE  index'["meta"] = Whole \/ (Busy(w)' /\ Len(job'[w].ops) = 1)
    BY DEF MetaInv
  <2>1. CASE m = 1
    BY <1>12, <2>1
  <2>2. CASE m = 2
    <3>1. m - 1 = 1 /\ m # 1
      BY <2>2
    <3>. QED
      BY <1>3, <1>10, <1>12, <3>1
  <2>3. CASE m > 2
    <3>1. sound /\ Busy(w) /\ index'["meta"] = index["meta"] /\ m # 1
      BY <1>12, <2>3
    <3>2. ~\E v \in Writers : Busy(v) /\ Len(job[v].ops) = 1
      BY <1>10, <3>1 DEF IndexInv, AloneInv
    <3>. QED
      BY <3>1, <3>2 DEF IndexInv, MetaInv
  <2>. QED
    BY <1>11, <2>1, <2>2, <2>3
<1>14. CleanInv'
  BY <1>2, <1>10, <1>12 DEF CleanInv, Busy, Idle
<1>15. BeforeInv'
  <2>. SUFFICES ASSUME sound', Busy(w)', job'[w].full
                PROVE  /\ Len(job'[w].ops) # 7
                       /\ (Len(job'[w].ops) \in 3..6 /\ index'["delta"] \in DeltaType) =>
                            job'[w].before \in Docs /\ Agrees(index'["delta"], job'[w].before)
                       /\ (Len(job'[w].ops) \in 5..6 /\ index'["delta"] = Missing) =>
                            job'[w].before \in Docs /\ index'["fast"] = job'[w].before
    BY <1>1 DEF BeforeInv, Agrees, Covers
  <2>1. /\ m # 1 /\ sound /\ Busy(w) /\ job[w].full
        /\ job'[w].before = job[w].before /\ Len(job'[w].ops) = m - 1
    BY <1>3, <1>4, <1>10, <1>12
  <2>2. PICK docs : docs = job[w].goal
    OBVIOUS
  <2>3. /\ m \in 1..7
        /\ m # 3 => index'["delta"] = index["delta"]
        /\ m \notin {4, 5} => index'["fast"] = index["fast"]
    BY <1>10, <2>1, <2>2, FullStep
  <2>4. m = 7 => index["base"] \in Docs /\ job[w].before = Opened /\ Opened \in Docs
    BY <1>10, <2>1 DEF IndexInv, BeforeInv
  <2>5. Len(job'[w].ops) # 7
    <3>1. m - 1 # 7
      BY <2>3
    <3>. QED
      BY <2>1, <3>1
  <2>6. ASSUME Len(job'[w].ops) \in 3..6, index'["delta"] \in DeltaType
        PROVE  job'[w].before \in Docs /\ Agrees(index'["delta"], job'[w].before)
    <3>1. m - 1 \in 3..6
      BY <2>1, <2>6
    <3>2. m # 3 /\ (m = 7 \/ m \in 3..6)
      BY <3>1
    <3>3. index'["delta"] = index["delta"]
      BY <2>3, <3>2
    <3>4. CASE m = 7
      BY <2>1, <2>4, <2>6, <3>3, <3>4, DeltaAgrees
    <3>5. CASE m \in 3..6
      BY <1>10, <2>1, <2>6, <3>3, <3>5 DEF IndexInv, BeforeInv
    <3>. QED
      BY <3>2, <3>4, <3>5
  <2>7. ASSUME Len(job'[w].ops) \in 5..6, index'["delta"] = Missing
        PROVE  job'[w].before \in Docs /\ index'["fast"] = job'[w].before
    <3>1. m - 1 \in 5..6
      BY <2>1, <2>7
    <3>2. m \notin {3, 4, 5} /\ (m = 7 \/ m \in 5..6)
      BY <3>1
    <3>3. index'["delta"] = index["delta"] /\ index'["fast"] = index["fast"]
      BY <2>3, <3>2
    <3>4. CASE m = 7
      <4>1. Opened = index["fast"]
        BY <2>4, <2>7, <3>3, <3>4, MissingIsOpened DEF IndexInv
      <4>. QED
        BY <2>1, <2>4, <3>3, <3>4, <4>1
    <3>5. CASE m \in 5..6
      BY <1>10, <2>1, <2>7, <3>3, <3>5 DEF IndexInv, BeforeInv
    <3>. QED
      BY <3>2, <3>4, <3>5
  <2>. QED
    BY <2>5, <2>6, <2>7
<1>. QED
  BY <1>5, <1>6, <1>7, <1>8, <1>9, <1>13, <1>14, <1>15 DEF IndexInv

(* A crash leaves the index to the other writers, and not sound.           *)
LEMMA CrashKeepsInv ==
  ASSUME IndexInv, NEW w \in Writers, Crash(w)
  PROVE  IndexInv'
<1>1. /\ job' = [job EXCEPT ![w] = Idle] /\ sound' = FALSE
      /\ disk' = disk /\ edits' = edits /\ index' = index
      /\ pending' = IF w = Watcher THEN NoEvents ELSE pending
  BY DEF Crash
<1>2. Idle \in JobType /\ Idle.ops = <<>>
  BY DEF Idle, JobType, NoDocs, Docs
<1>3. /\ job' \in [Writers -> JobType] /\ job'[w] = Idle
      /\ \A v \in Writers \ {w} : job'[v] = job[v]
  BY <1>1, <1>2 DEF IndexInv, StoreType
<1>4. ~Busy(w)' /\ \A v \in Writers \ {w} : Busy(v)' <=> Busy(v)
  BY <1>2, <1>3 DEF Busy
<1>5. StoreType'
  <2>1. pending' \in [Files -> {"none", "changed", "deleted"}]
    BY <1>1 DEF IndexInv, StoreType, NoEvents
  <2>2. \A v \in Writers : job'[v].ops = <<>> => job'[v] = Idle
    BY <1>2, <1>3 DEF IndexInv, StoreType
  <2>. QED
    BY <1>1, <1>3, <2>1, <2>2 DEF IndexInv, StoreType
<1>6. AloneInv'
  BY <1>4 DEF IndexInv, AloneInv
<1>7. FullInv'
  <2>. SUFFICES ASSUME NEW v \in Writers, Busy(v)', job'[v].full
                PROVE  /\ IsRestOf(job'[v].ops, Full(job'[v].goal))
                       /\ FullDone(Len(job'[v].ops), job'[v].goal)
    BY <1>1 DEF FullInv, FullDone
  <2>1. Busy(v) /\ job'[v] = job[v]
    BY <1>3, <1>4
  <2>. QED
    BY <2>1 DEF IndexInv, FullInv
<1>8. PartInv'
  <2>. SUFFICES ASSUME NEW v \in Writers, Busy(v)', ~job'[v].full
                PROVE  /\ index["base"] \in Docs
                       /\ \/ \E delta \in DeltaType :
                               /\ IsRestOf(job'[v].ops, Delta(delta.docs, delta.removed, delta.above))
                               /\ DeltaDone(Len(job'[v].ops), delta)
                               /\ Fits(delta, index["base"], job'[v].files, job'[v].goal)
                          \/ /\ IsRestOf(job'[v].ops, NoDelta)
                             /\ NoDeltaDone(Len(job'[v].ops))
                             /\ job'[v].files = Files
                             /\ \A f \in job'[v].files : index["base"][f] = job'[v].goal[f]
    BY <1>1 DEF PartInv, DeltaDone, NoDeltaDone
  <2>1. Busy(v) /\ job'[v] = job[v] /\ ~job[v].full
    BY <1>3, <1>4
  <2>. QED
    BY <2>1 DEF IndexInv, PartInv
<1>9. SoundInv' /\ MetaInv' /\ CleanInv' /\ BeforeInv'
  BY <1>1 DEF SoundInv, MetaInv, CleanInv, BeforeInv
<1>. QED
  BY <1>5, <1>6, <1>7, <1>8, <1>9 DEF IndexInv

-----------------------------------------------------------------------------
(* The theorems.                                                           *)

(* build_index, update_index and apply_incremental_changes begin with a    *)
(* list that serves what they are for.                                     *)
LEMMA BuildKeepsInv ==
  ASSUME IndexInv, NEW w \in Writers, Build(w)
  PROVE  IndexInv'
<1>1. /\ job[w] = Idle /\ Begin(w, Full(disk), Files, disk) /\ pending' = pending
      /\ disk \in Docs /\ pending \in [Files -> {"none", "changed", "deleted"}]
  BY DEF Build, IndexInv, StoreType
<1>2. Full(disk) \in Seq(OpType) /\ Full(disk) # <<>> /\ Serves(Full(disk), Files, disk)
  BY <1>1, FullOps DEF Serves
<1>. QED
  BY <1>1, <1>2, BeginKeepsInv

(* update_index begins.                                                    *)
LEMMA UpdateKeepsInv ==
  ASSUME IndexInv, NEW w \in Writers, Update(w)
  PROVE  IndexInv'
<1>. DEFINE ops == UpdateOps(index["base"])
<1>1. /\ job[w] = Idle /\ Begin(w, ops, Files, disk) /\ pending' = pending
      /\ disk \in Docs /\ pending \in [Files -> {"none", "changed", "deleted"}]
  BY DEF Update, IndexInv, StoreType
<1>2. index["base"] \in Docs
  BY DEF Update, IndexInv, StoreType, ValuesOf, IndexFiles, Unreadable
<1>3. \/ ops = Full(disk)
      \/ ops = NoDelta /\ \A f \in Files : index["base"][f] = disk[f]
      \/ \E delta \in DeltaType :
           /\ ops = Delta(delta.docs, delta.removed, delta.above)
           /\ Fits(delta, index["base"], Files, disk)
  BY <1>1, <1>2, UpdateOpsAre
<1>. HIDE DEF ops
<1>4. CASE ops = Full(disk)
  <2>1. ops \in Seq(OpType) /\ ops # <<>> /\ Serves(ops, Files, disk)
    BY <1>1, <1>4, FullOps DEF Serves
  <2>. QED
    BY <1>1, <2>1, BeginKeepsInv
<1>5. CASE ops = NoDelta /\ \A f \in Files : index["base"][f] = disk[f]
  <2>1. ops \in Seq(OpType) /\ ops # <<>> /\ Serves(ops, Files, disk)
    BY <1>2, <1>5, NoDeltaOps DEF Serves
  <2>. QED
    BY <1>1, <2>1, BeginKeepsInv
<1>6. ASSUME NEW delta \in DeltaType, ops = Delta(delta.docs, delta.removed, delta.above),
             Fits(delta, index["base"], Files, disk)
      PROVE  IndexInv'
  <2>1. ops \in Seq(OpType) /\ ops # <<>> /\ Serves(ops, Files, disk)
    BY <1>2, <1>6, DeltaOps DEF Serves
  <2>. QED
    BY <1>1, <2>1, BeginKeepsInv
<1>. QED
  BY <1>3, <1>4, <1>5, <1>6

(* The watcher applies a batch.                                            *)
LEMMA ApplyKeepsInv ==
  ASSUME IndexInv, Apply
  PROVE  IndexInv'
<1>1. /\ Watcher \in Writers /\ disk \in Docs
      /\ pending' \in [Files -> {"none", "changed", "deleted"}]
  BY DEF Apply, IndexInv, StoreType, NoEvents, Writers
<1>2. CASE index["base"] \in Unreadable
  <2>1. disk' = disk /\ edits' = edits /\ index' = index /\ job' = job /\ sound' = sound
    BY <1>2 DEF Apply
  <2>. QED
    BY <1>1, <2>1 DEF IndexInv, StoreType, AloneInv, FullInv, PartInv, SoundInv, Busy,
                      FullDone, DeltaDone, NoDeltaDone, MetaInv, CleanInv, BeforeInv,
                      Agrees, Covers, Opened, OpenedFast, OpenedLegacy
<1>3. CASE index["base"] \notin Unreadable
  <2>. DEFINE ops == ApplyOps(index["base"])
              goal == IF IsFull(ops) THEN disk ELSE Only(disk, Scanned)
  <2>1. job[Watcher] = Idle /\ Begin(Watcher, ops, Touched, goal)
    BY <1>3 DEF Apply
  <2>2. index["base"] \in Docs
    BY <1>3 DEF IndexInv, StoreType, ValuesOf, IndexFiles, Unreadable
  <2>3. Only(disk, Scanned) \in Docs /\ Touched \in SUBSET Files
    BY <1>1 DEF Only, Docs, Touched
  <2>4. \/ ops = Full(disk)
        \/ \E delta \in DeltaType :
             /\ ops = Delta(delta.docs, delta.removed, delta.above)
             /\ Fits(delta, index["base"], Touched, Only(disk, Scanned))
    BY <1>1, <2>2, ApplyOpsAre
  <2>5. goal = IF IsFull(ops) THEN disk ELSE Only(disk, Scanned)
    OBVIOUS
  <2>. HIDE DEF ops, goal
  <2>6. ops \in Seq(OpType) /\ ops # <<>> /\ Serves(ops, Touched, goal)
    BY <1>1, <2>2, <2>4, <2>5, FullOps, DeltaOps DEF Serves
  <2>7. goal \in Docs
    BY <1>1, <2>3, <2>5
  <2>. QED
    BY <1>1, <2>1, <2>3, <2>6, <2>7, BeginKeepsInv
<1>. QED
  BY <1>2, <1>3

(* A file is edited, under a running job or not.                           *)
LEMMA EditKeepsInv ==
  ASSUME IndexInv, NEW f \in Files, NEW x \in Contents \cup {Absent}, Edit(f, x)
  PROVE  IndexInv'
<1>1. /\ edits < MaxEdits /\ edits' = edits + 1
      /\ disk' = [disk EXCEPT ![f] = x]
      /\ pending' = [pending EXCEPT ![f] = Noted(f, x)]
      /\ index' = index /\ job' = job /\ sound' = sound
  BY DEF Edit
<1>2. StoreType'
  BY <1>1, StoreAssumption DEF IndexInv, StoreType, Docs, Noted, StoreAssumption
<1>. QED
  BY <1>1, <1>2 DEF IndexInv, AloneInv, FullInv, PartInv, SoundInv, Busy,
                    FullDone, DeltaDone, NoDeltaDone, MetaInv, CleanInv, BeforeInv,
                    Agrees, Covers, Opened, OpenedFast, OpenedLegacy

(* Every step keeps the invariant.                                         *)
LEMMA NextKeepsInv ==
  ASSUME IndexInv, [Next]_vars
  PROVE  IndexInv'
<1>. Tools \subseteq Writers
  BY DEF Writers
<1>1. CASE UNCHANGED vars
  BY <1>1 DEF vars, IndexInv, StoreType, AloneInv, FullInv, PartInv, SoundInv, Busy,
              FullDone, DeltaDone, NoDeltaDone, MetaInv, CleanInv, BeforeInv,
              Agrees, Covers, Opened, OpenedFast, OpenedLegacy
<1>2. CASE Next
  BY <1>2, BuildKeepsInv, UpdateKeepsInv, ApplyKeepsInv, StepKeepsInv, CrashKeepsInv,
     EditKeepsInv DEF Next, Work
<1>. QED
  BY <1>1, <1>2

(* The invariant holds of a built index, and in every state after it.      *)
LEMMA IndexAlways == Spec => []IndexInv
<1>1. Init => IndexInv
  <2>. SUFFICES ASSUME Init PROVE IndexInv
    OBVIOUS
  <2>1. Idle \in JobType /\ Idle.ops = <<>>
    BY DEF Idle, JobType, NoDocs, Docs
  <2>2. job = [w \in Writers |-> Idle] /\ \A w \in Writers : job[w] = Idle /\ ~Busy(w)
    BY <2>1 DEF Init, Busy
  <2>3. /\ index["base"] = disk /\ index["fast"] = disk
        /\ index["delta"] = Missing /\ index["meta"] = Whole
        /\ index \in [IndexFiles -> Values] /\ disk \in Docs
    BY DEF Init, IndexFiles, Values
  <2>4. StoreType
    BY <2>1, <2>2, <2>3, StoreAssumption
       DEF Init, StoreType, ValuesOf, NoEvents, IndexFiles, StoreAssumption
  <2>. QED
    BY <2>2, <2>3, <2>4, KindsAreApart
       DEF IndexInv, AloneInv, FullInv, PartInv, SoundInv, MetaInv, CleanInv, BeforeInv
<1>2. IndexInv /\ [Next]_vars => IndexInv'
  BY NextKeepsInv
<1>. QED
  BY <1>1, <1>2, PTL DEF Spec

(* Each file of the index directory holds what belongs there, or is torn or*)
(* missing, and each writer goes through a list of assignments that fit,   *)
(* whatever crashes and other writers do to the directory.                 *)
THEOREM TypeCorrect == Spec => []TypeOK
<1>1. IndexInv => TypeOK
  <2>. SUFFICES ASSUME IndexInv PROVE TypeOK
    OBVIOUS
  <2>1. /\ DOMAIN index = IndexFiles
        /\ index["base"] \in Docs \cup {Torn} /\ index["fast"] \in Docs \cup {Torn}
        /\ index["delta"] \in DeltaType \cup {Torn, Missing}
        /\ index["meta"] \in {Torn, Whole}
    BY DEF IndexInv, StoreType, ValuesOf, IndexFiles
  <2>2. \A w \in Writers : job[w] \in JobType
    BY DEF IndexInv, StoreType
  <2>3. ASSUME NEW w \in Writers
        PROVE  job[w].ops \in Seq([file : IndexFiles, value : Values])
    <3>. DEFINE Ops == [file : IndexFiles, value : Values]
    <3>1. job[w].ops \in Seq(OpType)
      BY <2>2 DEF JobType
    <3>2. OpType \subseteq Ops
      BY DEF OpType
    <3>. HIDE DEF Ops
    <3>3. job[w].ops \in Seq(Ops)
      BY <3>1, <3>2, SequenceOfMore
    <3>. QED
      BY <3>3 DEF Ops
  <2>. QED
    BY <2>1, <2>2, <2>3 DEF TypeOK, IndexInv, StoreType, JobType
<1>. QED
  BY <1>1, IndexAlways, PTL

(* A full build that no other process takes part in leaves an index that   *)
(* opens with what it scanned, whatever the directory held when it began:  *)
(* files a crash left torn, a delta, a fast index of another time.         *)
THEOREM BuildsRecover == Spec => BuildRecovers
<1>1. IndexInv /\ [Next]_vars =>
        [\A w \in Writers : (Finishes(w) /\ job[w].full)
           => Opened' = job[w].goal /\ IdsAreApart']_vars
  <2>. SUFFICES ASSUME IndexInv, NEW w \in Writers, Finishes(w), job[w].full
                PROVE  Opened' = job[w].goal /\ IdsAreApart'
    OBVIOUS
  <2>1. Step(w) /\ Busy(w) /\ Len(job[w].ops) = 1
    BY DEF Finishes, Step, Busy
  <2>2. PICK docs : docs = job[w].goal
    OBVIOUS
  <2>3. PICK n : n = 1
    OBVIOUS
  <2>4. FullDone(n - 1, docs)' /\ docs \in Docs
    BY <2>1, <2>2, <2>3, FullStep
  <2>5. FullDone(0, docs)'
    BY <2>3, <2>4
  <2>. QED
    BY <2>2, <2>4, <2>5, FullIsOpened
<1>. QED
  BY <1>1, IndexAlways, PTL DEF Spec, BuildRecovers

(* A writer that no other process takes part in makes what it scanned      *)
(* visible to readers when it finishes on a sound index: the repository    *)
(* after build_index and update_index, its batch after                     *)
(* apply_incremental_changes.                                              *)
THEOREM FinishedJobsAreVisible == Spec => FinishedJobIsVisible
<1>1. IndexInv /\ [Next]_vars =>
        [\A w \in Writers : (Finishes(w) /\ sound)
           => /\ Opened' # Torn /\ IdsAreApart'
              /\ \A f \in job[w].files : Opened'[f] = job[w].goal[f]]_vars
  <2>. SUFFICES ASSUME IndexInv, NEW w \in Writers, Finishes(w), sound
                PROVE  /\ Opened' # Torn /\ IdsAreApart'
                       /\ \A f \in job[w].files : Opened'[f] = job[w].goal[f]
    OBVIOUS
  <2>1. Step(w) /\ Busy(w) /\ Len(job[w].ops) = 1
    BY DEF Finishes, Step, Busy
  <2>2. PICK n : n = 1
    OBVIOUS
  <2>3. CASE job[w].full
    <3>1. PICK docs : docs = job[w].goal
      OBVIOUS
    <3>2. FullDone(n - 1, docs)' /\ docs \in Docs
      BY <2>1, <2>2, <2>3, <3>1, FullStep
    <3>3. FullDone(0, docs)'
      BY <2>2, <3>2
    <3>. QED
      BY <3>1, <3>2, <3>3, FullIsOpened, KindsAreApart
  <2>4. CASE ~job[w].full
    <3>1. index["base"] \in Docs /\ index["fast"] = index["base"]
      BY <2>1, <2>4 DEF IndexInv, SoundInv, AloneInv
    <3>2. /\ index'["base"] = index["base"] /\ index'["fast"] = index["fast"]
          /\ \/ \E delta \in DeltaType :
                  /\ DeltaDone(n - 1, delta)'
                  /\ Fits(delta, index["base"], job[w].files, job[w].goal)
             \/ /\ NoDeltaDone(n - 1)'
                /\ \A f \in job[w].files : index["base"][f] = job[w].goal[f]
      BY <2>1, <2>2, <2>4, PartStep
    <3>3. n - 1 = 0
      BY <2>2
    <3>4. ASSUME NEW delta \in DeltaType, DeltaDone(n - 1, delta)',
                 Fits(delta, index["base"], job[w].files, job[w].goal)
          PROVE  /\ Opened' # Torn /\ IdsAreApart'
                 /\ \A f \in job[w].files : Opened'[f] = job[w].goal[f]
      <4>1. DeltaDone(0, delta)' /\ delta.above = Numbered(index'["base"])
        BY <3>2, <3>3, <3>4 DEF Fits
      <4>2. /\ Opened' = Overlay(index["base"], delta) /\ Opened' \in Docs
            /\ IdsAreApart'
        BY <3>1, <3>2, <4>1, DeltaIsOpened
      <4>. QED
        BY <3>4, <4>2, KindsAreApart DEF Fits
    <3>5. ASSUME NoDeltaDone(n - 1)'
          PROVE  Opened' = index["base"] /\ IdsAreApart'
      BY <3>1, <3>2, <3>3, <3>5, NoDeltaIsOpened
    <3>. QED
      BY <3>1, <3>2, <3>4, <3>5, KindsAreApart
  <2>. QED
    BY <2>3, <2>4
<1>. QED
  BY <1>1, IndexAlways, PTL DEF Spec, FinishedJobIsVisible
-----------------------------------------------------------------------------
(* A reader next to the writers.                                           *)

(* What an open that is under way has read, with what it has still to read,*)
(* was offered while the index stays sound.                                *)
DeltaHolds ==
  \A f \in Files :
    IF Covers(loaded, f) THEN loaded.docs[f] \in offered[f]
    ELSE index["base"] \in Docs => index["base"][f] \in offered[f]
FastHolds == index["fast"] \in Docs => \A f \in Files : index["fast"][f] \in offered[f]

ReaderInv ==
  /\ opening \in {"closed", "delta", "meta", "fast", "base", "open"}
  /\ loaded \in DeltaType \cup {Missing}
  /\ calm \in BOOLEAN /\ doubled \in Nat
  /\ opening \in {"meta", "fast"} => loaded = Missing
  /\ opening = "base" => loaded # Missing
  /\ (UnderWay /\ calm) =>
       sound /\ (loaded = Missing => FastHolds) /\ (loaded # Missing => DeltaHolds)
  /\ FoundWasThere

(* A job offers what it is to make of the files it is for, and what was    *)
(* there when it began; the index offers what it has.                      *)
LEMMA Offers ==
  ASSUME NEW f \in Files
  PROVE  /\ (Opened # Torn /\ ~Building) => Opened[f] \in Offer(f)
         /\ \A w \in Writers : job[w] # Idle =>
              /\ job[w].before # Torn => job[w].before[f] \in Offer(f)
              /\ (job[w].full \/ f \in job[w].files) => job[w].goal[f] \in Offer(f)
BY DEF Offer

(* What a full build that nobody interferes with has done, and what it     *)
(* remembers.                                                              *)
LEMMA BuildingShows ==
  ASSUME IndexInv, sound, NEW w \in Writers, Busy(w), job[w].full
  PROVE  \E n \in 1..7, docs \in Docs :
           /\ n = Len(job[w].ops) /\ docs = job[w].goal /\ FullDone(n, docs)
           /\ \A f \in Files : docs[f] \in Offer(f)
           /\ job[w].before \in Docs => \A f \in Files : job[w].before[f] \in Offer(f)
<1>1. PICK docs : docs = job[w].goal
  OBVIOUS
<1>2. PICK n : n = Len(job[w].ops)
  OBVIOUS
<1>3. /\ job[w].ops \in Seq(OpType) /\ job[w].ops # <<>> /\ job[w] # Idle /\ docs \in Docs
  BY <1>1 DEF IndexInv, StoreType, JobType, Busy, Idle
<1>4. IsRestOf(job[w].ops, Full(docs)) /\ FullDone(n, docs) /\ Len(Full(docs)) = 7
  BY <1>1, <1>2, <1>3, FullOps DEF IndexInv, FullInv
<1>5. n \in 1..7
  <2>1. Len(job[w].ops) \in Nat /\ Len(job[w].ops) # 0
    BY <1>3
  <2>2. n \in Nat /\ n # 0 /\ n <= 7
    BY <1>2, <1>4, <2>1 DEF IsRestOf
  <2>. QED
    BY <2>2
<1>6. /\ \A f \in Files : docs[f] \in Offer(f)
      /\ job[w].before \in Docs => \A f \in Files : job[w].before[f] \in Offer(f)
  BY <1>1, <1>3, Offers, KindsAreApart
<1>. QED
  BY <1>1, <1>2, <1>3, <1>4, <1>5, <1>6

(* Without a delta the fast index of a sound directory is on offer, also   *)
(* when torn metadata keep a reader from it for now,                       *)
LEMMA FastIsOffered ==
  ASSUME IndexInv, sound, index["delta"] = Missing, index["fast"] \in Docs, NEW f \in Files
  PROVE  index["fast"][f] \in Offer(f)
<1>1. CASE Building
  <2>1. PICK w \in Writers : Busy(w) /\ job[w].full
    BY <1>1 DEF Building, Busy, Idle, IndexInv, StoreType
  <2>2. PICK n \in 1..7, docs \in Docs :
           /\ n = Len(job[w].ops) /\ FullDone(n, docs) /\ docs[f] \in Offer(f)
           /\ job[w].before \in Docs => job[w].before[f] \in Offer(f)
    BY <2>1, BuildingShows
  <2>3. n = 7 \/ n \in 5..6 \/ n = 4 \/ n <= 3
    OBVIOUS
  <2>4. CASE n = 7
    <3>1. job[w].before = Opened /\ Opened \in Docs
      BY <2>1, <2>2, <2>4 DEF IndexInv, BeforeInv
    <3>2. Opened = index["fast"]
      BY <3>1, MissingIsOpened DEF IndexInv
    <3>. QED
      BY <2>2, <3>1, <3>2
  <2>5. CASE n \in 5..6
    <3>1. job[w].before \in Docs /\ index["fast"] = job[w].before
      BY <2>1, <2>2, <2>5 DEF IndexInv, BeforeInv
    <3>. QED
      BY <2>2, <3>1
  <2>6. CASE n = 4
    BY <2>2, <2>6, KindsAreApart DEF FullDone
  <2>7. CASE n <= 3
    BY <2>2, <2>7 DEF FullDone
  <2>. QED
    BY <2>3, <2>4, <2>5, <2>6, <2>7
<1>2. CASE ~Building /\ index["meta"] = Whole
  <2>1. Opened = index["fast"] /\ Opened # Torn
    BY <1>2, KindsAreApart DEF Opened, OpenedFast
  <2>. QED
    BY <1>2, <2>1, Offers
<1>3. CASE ~Building /\ index["meta"] # Whole
  <2>1. PICK w \in Writers : Busy(w) /\ Len(job[w].ops) = 1
    BY <1>3 DEF IndexInv, MetaInv
  <2>2. job[w] # Idle /\ ~job[w].full
    BY <1>3, <2>1 DEF Busy, Idle, Building
  <2>3. index["fast"] = index["base"]
    BY <2>1, <2>2 DEF IndexInv, SoundInv, AloneInv
  <2>4. ~\E delta \in DeltaType : DeltaDone(1, delta)
    BY KindsAreApart DEF DeltaDone
  <2>5. f \in job[w].files /\ index["base"][f] = job[w].goal[f]
    BY <2>1, <2>2, <2>4 DEF IndexInv, PartInv
  <2>. QED
    BY <2>2, <2>3, <2>5, Offers
<1>. QED
  BY <1>1, <1>2, <1>3

(* and with one what the delta says, and of the base what it does not say. *)
LEMMA DeltaIsOffered ==
  ASSUME IndexInv, sound, index["delta"] \in DeltaType, NEW f \in Files
  PROVE  IF Covers(index["delta"], f) THEN index["delta"].docs[f] \in Offer(f)
         ELSE index["base"] \in Docs => index["base"][f] \in Offer(f)
<1>1. ASSUME index["base"] \in Docs, Opened[f] \in Offer(f)
      PROVE  IF Covers(index["delta"], f) THEN index["delta"].docs[f] \in Offer(f)
             ELSE index["base"] \in Docs => index["base"][f] \in Offer(f)
  <2>1. /\ Covers(index["delta"], f) => Opened[f] = index["delta"].docs[f]
        /\ ~Covers(index["delta"], f) => Opened[f] = index["base"][f]
    BY <1>1, DeltaAgrees DEF Agrees
  <2>. QED
    BY <1>1, <2>1
<1>2. CASE ~Building
  <2>1. index["base"] \in Docs
    BY <1>2 DEF Building, Busy, IndexInv, SoundInv
  <2>2. Opened # Torn
    BY <2>1, DeltaAgrees, KindsAreApart
  <2>3. Opened[f] \in Offer(f)
    BY <1>2, <2>2, Offers
  <2>. QED
    BY <1>1, <2>1, <2>3
<1>3. CASE Building
  <2>1. PICK w \in Writers : Busy(w) /\ job[w].full
    BY <1>3 DEF Building, Busy, Idle, IndexInv, StoreType
  <2>2. PICK n \in 1..7, docs \in Docs :
           /\ n = Len(job[w].ops) /\ FullDone(n, docs) /\ docs[f] \in Offer(f)
           /\ job[w].before \in Docs => job[w].before[f] \in Offer(f)
    BY <2>1, BuildingShows
  <2>3. n = 7 \/ n \in 3..6 \/ n <= 2
    OBVIOUS
  <2>4. CASE n = 7
    <3>1. index["base"] \in Docs /\ job[w].before = Opened /\ Opened \in Docs
      BY <2>1, <2>2, <2>4 DEF IndexInv, BeforeInv
    <3>. QED
      BY <1>1, <2>2, <3>1
  <2>5. CASE n \in 3..6
    <3>1. job[w].before \in Docs /\ Agrees(index["delta"], job[w].before)
      BY <2>1, <2>2, <2>5 DEF IndexInv, BeforeInv
    <3>2. Covers(index["delta"], f) => index["delta"].docs[f] \in Offer(f)
      BY <2>2, <3>1 DEF Agrees
    <3>3. index["base"] \in Docs => index["base"] = docs
      <4>1. n = 6 \/ n <= 5
        BY <2>5
      <4>. QED
        BY <2>2, <4>1, KindsAreApart DEF FullDone
    <3>. QED
      BY <2>2, <3>2, <3>3
  <2>6. CASE n <= 2
    BY <2>2, <2>6, KindsAreApart DEF FullDone
  <2>. QED
    BY <2>3, <2>4, <2>5, <2>6
<1>. QED
  BY <1>2, <1>3

(* A writer leaves base and fast index as they are, tears them, or makes   *)
(* them what it offers, as long as the index is sound.                     *)
Leaves(file) ==
  \/ index'[file] = index[file]
  \/ index'[file] = Torn
  \/ \A f \in Files : index'[file][f] \in Offer(f)'

(* The step of a writer is such.                                           *)
LEMMA StepLeaves ==
  ASSUME IndexInv, NEW w \in Writers, Step(w), sound'
  PROVE  Leaves("base") /\ Leaves("fast")
<1>1. PICK n \in Nat \ {0} : n = Len(job[w].ops)
  BY StepJobs DEF IndexInv
<1>2. Busy(w)
  BY DEF Step, Busy
<1>3. CASE job[w].full
  <2>1. PICK docs : docs = job[w].goal
    OBVIOUS
  <2>2. /\ n \in 1..7
        /\ FullDone(n - 1, docs)'
        /\ n \notin {6, 7} => index'["base"] = index["base"]
        /\ n \notin {4, 5} => index'["fast"] = index["fast"]
        /\ n = 5 => index'["fast"] = Torn
    BY <1>1, <1>2, <1>3, <2>1, FullStep
  <2>3. ASSUME n # 1, NEW f \in Files
        PROVE  docs[f] \in Offer(f)'
    <3>1. /\ job'[w].ops = Tail(job[w].ops) /\ Len(Tail(job[w].ops)) = n - 1
          /\ job'[w].goal = docs /\ job'[w].full
      BY <1>1, <1>3, <2>1, <2>3, StepJobs DEF IndexInv
    <3>2. n - 1 # 0
      BY <2>3
    <3>3. Len(<<>>) = 0 /\ Idle.ops = <<>>
      BY DEF Idle
    <3>4. job'[w] # Idle
      BY <3>1, <3>2, <3>3
    <3>. QED
      BY <3>1, <3>4 DEF Offer
  <2>4. Leaves("base")
    <3>1. n = 7 => n - 1 = 6
      OBVIOUS
    <3>2. n = 7 => index'["base"] = Torn
      BY <2>2, <3>1 DEF FullDone
    <3>3. n = 6 => n - 1 <= 5
      OBVIOUS
    <3>4. n = 6 => index'["base"] = docs
      BY <2>2, <3>3 DEF FullDone
    <3>. QED
      BY <2>2, <2>3, <3>2, <3>4 DEF Leaves
  <2>5. Leaves("fast")
    <3>1. n = 4 => n - 1 <= 3
      OBVIOUS
    <3>2. n = 4 => index'["fast"] = docs
      BY <2>2, <3>1 DEF FullDone
    <3>. QED
      BY <2>2, <2>3, <3>2 DEF Leaves
  <2>. QED
    BY <2>4, <2>5
<1>4. CASE ~job[w].full
  BY <1>1, <1>2, <1>4, PartStep DEF Leaves
<1>. QED
  BY <1>3, <1>4

(* The other actions do not touch the index.                               *)
LEMMA WritersLeave ==
  ASSUME IndexInv, Next, sound'
  PROVE  Leaves("base") /\ Leaves("fast")
<1>1. (\E w \in Writers : Step(w)) \/ index' = index
  BY DEF Next, Work, Build, Update, Apply, Begin, Crash, Edit
<1>. QED
  BY <1>1, StepLeaves DEF Leaves

(* Writers keep what the open that is under way has read on offer.         *)
LEMMA WriterKeepsReader ==
  ASSUME IndexInv, ReaderInv, WriterStep
  PROVE  ReaderInv'
<1>1. /\ Next /\ opening' = opening /\ loaded' = loaded /\ found' = found
      /\ doubled' = doubled
      /\ offered' = IF UnderWay /\ calm
                    THEN [f \in Files |-> offered[f] \cup Offer(f)']
                    ELSE offered
      /\ calm' = (calm /\ (UnderWay => sound'))
  BY DEF WriterStep
<1>2. FoundWasThere'
  BY <1>1 DEF ReaderInv, FoundWasThere, Strange, UnderWay
<1>3. ASSUME UnderWay, calm'
      PROVE  sound' /\ (loaded = Missing => FastHolds') /\ (loaded # Missing => DeltaHolds')
  <2>1. /\ sound' /\ (loaded = Missing => FastHolds) /\ (loaded # Missing => DeltaHolds)
        /\ \A f \in Files : offered[f] \subseteq offered'[f] /\ Offer(f)' \subseteq offered'[f]
    BY <1>1, <1>3 DEF ReaderInv
  <2>2. Leaves("base") /\ Leaves("fast")
    BY <1>1, <2>1, WritersLeave
  <2>3. loaded = Missing => FastHolds'
    BY <2>1, <2>2, KindsAreApart DEF FastHolds, Leaves
  <2>4. loaded # Missing => DeltaHolds'
    BY <1>1, <2>1, <2>2, KindsAreApart DEF DeltaHolds, Leaves, Covers
  <2>. QED
    BY <2>1, <2>3, <2>4
<1>. QED
  BY <1>1, <1>2, <1>3 DEF ReaderInv, UnderWay

(* Each step of the open keeps it so.                                      *)
LEMMA ReadKeepsReader ==
  ASSUME IndexInv, ReaderInv, Read
  PROVE  ReaderInv'
<1>1. /\ index' = index /\ sound' = sound
      /\ index["base"] \in Docs \cup {Torn} /\ index["fast"] \in Docs \cup {Torn}
      /\ index["delta"] \in DeltaType \cup {Torn, Missing}
  BY DEF Read, vars, IndexInv, StoreType, ValuesOf, IndexFiles
<1>2. ASSUME Fail PROVE ReaderInv'
  BY <1>2 DEF Fail, ReaderInv, UnderWay, FoundWasThere
<1>3. CASE LoadDelta
  <2>1. /\ opening' = "delta" /\ loaded' = index["delta"] /\ calm' = sound
        /\ offered' = [f \in Files |-> Offer(f)] /\ index["delta"] # Torn
        /\ doubled' = 0
    BY <1>3 DEF LoadDelta
  <2>2. sound => (loaded' = Missing => FastHolds')
    BY <1>1, <2>1, FastIsOffered DEF FastHolds
  <2>3. sound => (loaded' # Missing => DeltaHolds')
    BY <1>1, <2>1, DeltaIsOffered DEF DeltaHolds, Covers
  <2>4. sound \in BOOLEAN
    BY DEF IndexInv, StoreType
  <2>. QED
    BY <1>1, <2>1, <2>2, <2>3, <2>4 DEF ReaderInv, UnderWay, FoundWasThere
<1>4. ASSUME NEW step \in {"meta", "fast", "base"}, GoOn(step), UnderWay,
             step \in {"meta", "fast"} => loaded = Missing, step = "base" => loaded # Missing
      PROVE  ReaderInv'
  <2>1. /\ opening' = step /\ loaded' = loaded /\ found' = found
        /\ offered' = offered /\ calm' = calm /\ doubled' = doubled
    BY <1>4 DEF GoOn
  <2>. QED
    BY <1>1, <1>4, <2>1
       DEF ReaderInv, UnderWay, FoundWasThere, FastHolds, DeltaHolds, Covers
<1>5. CASE FindFast
  <2>1. index["fast"] # Missing
    BY <1>1, KindsAreApart
  <2>. QED
    BY <1>4, <1>5, <2>1 DEF FindFast, UnderWay
<1>6. CASE ReadMeta
  BY <1>2, <1>4, <1>6 DEF ReadMeta, UnderWay, ReaderInv
<1>7. ASSUME NEW docs \in Docs, OpenWith(docs), NEW lost \in SUBSET Files,
             doubled' \in Nat, Cardinality(lost) <= doubled',
             \A f \in lost : docs[f] = Absent,
             calm => \A f \in Files \ lost : docs[f] \in offered[f]
      PROVE  ReaderInv'
  <2>1. /\ opening' = "open" /\ found' = docs
        /\ loaded' = loaded /\ offered' = offered /\ calm' = calm
    BY <1>7, KindsAreApart DEF OpenWith, Unreadable
  <2>2. calm => Strange' \subseteq lost
    BY <1>7, <2>1 DEF Strange
  <2>3. calm => Cardinality(Strange') <= doubled'
    <3>1. IsFiniteSet(lost)
      BY StoreAssumption, FS_Subset
    <3>2. Cardinality(lost) \in Nat
      BY <3>1, FS_CardinalityType
    <3>3. calm => Cardinality(Strange') \in Nat /\ Cardinality(Strange') <= Cardinality(lost)
      BY <2>2, <3>1, FS_Subset, FS_CardinalityType
    <3>. QED
      BY <1>7, <3>2, <3>3
  <2>4. FoundWasThere'
    BY <1>7, <2>1, <2>2, <2>3 DEF FoundWasThere
  <2>. QED
    BY <1>7, <2>1, <2>4 DEF ReaderInv, UnderWay
<1>8. CASE OpenFast
  <2>1. /\ opening = "fast" /\ OpenWith(index["fast"]) /\ loaded = Missing /\ UnderWay
        /\ doubled' = doubled
    BY <1>8 DEF OpenFast, ReaderInv, UnderWay
  <2>2. CASE index["fast"] \in Docs
    <3>1. calm => FastHolds
      BY <2>1 DEF ReaderInv
    <3>2. Cardinality({}) <= doubled' /\ doubled' \in Nat
      BY <2>1, FS_EmptySet DEF ReaderInv
    <3>3. calm => \A f \in Files \ {} : index["fast"][f] \in offered[f]
      BY <2>2, <3>1 DEF FastHolds
    <3>. QED
      BY <1>7, <2>1, <2>2, <3>2, <3>3
  <2>3. CASE index["fast"] = Torn
    BY <1>2, <2>1, <2>3 DEF OpenWith, Unreadable
  <2>. QED
    BY <1>1, <2>2, <2>3
<1>9. CASE LoadBase
  <2>1. opening = "base" /\ OpenWith(index["base"]) /\ index["base"] \in Unreadable
    BY <1>9 DEF LoadBase, ReaderInv
  <2>. QED
    BY <1>2, <2>1 DEF OpenWith
<1>10. CASE MergeBase
  <2>1. /\ opening = "base" /\ loaded # Missing /\ loaded \in DeltaType /\ UnderWay
        /\ index["base"] \in Docs
        /\ doubled' = Doubled(index["base"], loaded)
    BY <1>1, <1>10 DEF MergeBase, ReaderInv, UnderWay, Unreadable
  <2>2. doubled' \in Nat
    <3>1. Numbered(index["base"]) \in Nat /\ loaded.above \in Nat
      BY <2>1, NumberedIsNat DEF DeltaType
    <3>2. Size(loaded.docs) \in Nat
      <4>1. IsFiniteSet({f \in Files : loaded.docs[f] # Absent})
        BY StoreAssumption, FS_Subset
      <4>. QED
        BY <4>1, FS_CardinalityType DEF Size
    <3>. QED
      BY <2>1, <3>1, <3>2 DEF Doubled
  <2>. DEFINE Merged(lost) == [f \in Files |-> IF f \in lost THEN Absent
                                   ELSE Overlay(index["base"], loaded)[f]]
  <2>3. PICK lost \in SUBSET Files :
          Cardinality(lost) <= doubled' /\ OpenWith(Merged(lost))
    BY <1>10 DEF MergeBase
  <2>4. Merged(lost) \in Docs
    BY <2>1 DEF Overlay, Docs, DeltaType
  <2>5. \A f \in lost : Merged(lost)[f] = Absent
    OBVIOUS
  <2>6. calm => \A f \in Files \ lost : Merged(lost)[f] \in offered[f]
    <3>1. calm => DeltaHolds
      BY <2>1 DEF ReaderInv
    <3>. QED
      BY <2>1, <3>1 DEF DeltaHolds, Overlay, Covers
  <2>7. PICK docs : docs = Merged(lost)
    OBVIOUS
  <2>8. /\ docs \in Docs /\ OpenWith(docs) /\ \A f \in lost : docs[f] = Absent
        /\ calm => \A f \in Files \ lost : docs[f] \in offered[f]
    BY <2>3, <2>4, <2>5, <2>6, <2>7
  <2>. QED
    BY <1>7, <2>2, <2>3, <2>8
<1>. QED
  BY <1>3, <1>5, <1>6, <1>8, <1>9, <1>10 DEF Read

(* An open that goes on next to writers that do not overlap finds of each  *)
(* file something it was, or a job made of it, while the open was under    *)
(* way, although it reads the delta, the fast index and the base at        *)
(* different times; only of documents whose id another one has too does it *)
(* lose one (model.rs 114-131), at most so many as ids are doubled.        *)
THEOREM OpensFindWhatWas == ReadSpec => []FoundWasThere
<1>1. ReadSpec => Spec
  <2>1. ReadNext => [Next]_vars
    BY DEF ReadNext, WriterStep, Read
  <2>2. UNCHANGED <<vars, readVars>> => UNCHANGED vars
    OBVIOUS
  <2>3. [ReadNext]_<<vars, readVars>> => [Next]_vars
    BY <2>1, <2>2
  <2>. QED
    BY <2>3, PTL DEF ReadSpec, Spec
<1>2. Closed => ReaderInv
  BY DEF Closed, ReaderInv, UnderWay, FoundWasThere
<1>3. IndexInv /\ ReaderInv /\ [ReadNext]_<<vars, readVars>> => ReaderInv'
  <2>. SUFFICES ASSUME IndexInv, ReaderInv, [ReadNext]_<<vars, readVars>>
                PROVE  ReaderInv'
    OBVIOUS
  <2>1. CASE UNCHANGED <<vars, readVars>>
    BY <2>1 DEF vars, readVars, ReaderInv, UnderWay, FoundWasThere, Strange, FastHolds,
                DeltaHolds, Covers
  <2>. QED
    BY <2>1, WriterKeepsReader, ReadKeepsReader DEF ReadNext
<1>4. ReaderInv => FoundWasThere
  BY DEF ReaderInv
<1>. QED
  BY <1>1, <1>2, <1>3, <1>4, IndexAlways, PTL DEF ReadSpec
=============================================================================
