--------------------------- MODULE SearchReuseProofs ---------------------------
(***************************************************************************)
(* Proofs about ChangeFeed and SearchReuse.  First the change feed, for    *)
(* every set of paths, every journal limit and every bound: the books of   *)
(* the watcher thread and the worker (FeedInv) are kept by every step, so  *)
(* an answer found Unchanged is unchanged, and an answer found Changed has *)
(* a cause.  Then reuse end to end: it is safe although a check reads the  *)
(* generation first and the journal later, for every number of searches,   *)
(* and whatever other clients do.  The invariant of that is ReuseInv: the  *)
(* books of the change feed and what the MCP server knows in the middle of *)
(* a check.                                                                *)
(***************************************************************************)
EXTENDS SearchReuse, TLAPS

-----------------------------------------------------------------------------
(* The change feed.                                                        *)

(* Push appends its batch after the journal without its first batch, or    *)
(* after the whole of it: the on_index_update callback, main.rs 247-259.   *)
LEMMA PushShifts ==
  ASSUME JournalLimit \in Nat \ {0}, NEW S, journal \in Seq(S),
         Len(journal) <= JournalLimit, NEW b \in S
  PROVE  \E k \in {0, 1} :
           /\ Push(b) \in Seq(S)
           /\ Len(Push(b)) <= JournalLimit
           /\ Len(Push(b)) = Len(journal) + 1 - k
           /\ k <= Len(journal)
           /\ \A i \in 1..(Len(journal) - k) : Push(b)[i] = journal[i + k]
           /\ Push(b)[Len(Push(b))] = b
<1>1. CASE Len(journal) < JournalLimit
  <2>1. Push(b) = Append(journal, b)
    BY <1>1 DEF Push
  <2>2. /\ Append(journal, b) \in Seq(S)
        /\ Len(Append(journal, b)) = Len(journal) + 1
        /\ \A i \in 1..Len(journal) : Append(journal, b)[i] = journal[i]
        /\ Append(journal, b)[Len(journal) + 1] = b
    OBVIOUS
  <2>. WITNESS 0 \in {0, 1}
  <2>. QED
    BY <1>1, <2>1, <2>2
<1>2. CASE ~(Len(journal) < JournalLimit)
  <2>1. Push(b) = Append(Tail(journal), b)
    BY <1>2 DEF Push
  <2>2. Len(journal) \in Nat /\ Len(journal) = JournalLimit
    BY <1>2
  <2>3. journal # <<>>
    BY <2>2
  <2>4. /\ Tail(journal) \in Seq(S)
        /\ Len(Tail(journal)) = Len(journal) - 1
        /\ \A i \in 1..(Len(journal) - 1) : Tail(journal)[i] = journal[i + 1]
    BY <2>2, <2>3
  <2>5. /\ Append(Tail(journal), b) \in Seq(S)
        /\ Len(Append(Tail(journal), b)) = Len(journal)
        /\ \A i \in 1..(Len(journal) - 1) :
             Append(Tail(journal), b)[i] = Tail(journal)[i]
        /\ Append(Tail(journal), b)[Len(journal)] = b
    BY <2>2, <2>4
  <2>. WITNESS 1 \in {0, 1}
  <2>. QED
    BY <2>1, <2>2, <2>4, <2>5
<1>. QED
  BY <1>1, <1>2

-----------------------------------------------------------------------------
(* Publish: the one step that writes the journal.                          *)

(* Publishing a batch keeps types, order and accounts: a path the oldest   *)
(* batch accounted for is accounted for by the number of the next oldest.  *)
LEMMA PublishKeepsFeedInv ==
  ASSUME FeedAssumption, FeedInv, Publish
  PROVE  FeedInv'
<1>. DEFINE named == batch \ Unnamed
            b == Batch(named)
<1>1. /\ TypeOK
      /\ watching
      /\ phase = "announced"
      /\ \A p \in Paths : touched[p] <= generation
      /\ named \in SUBSET Searchable
      /\ b \in BatchType
      /\ b.generation = generation /\ b.life = life /\ b.paths = named
      /\ generation \in Nat /\ life \in Nat
  BY DEF FeedInv, Publish, TypeOK, Batch, BatchType, Searchable, FeedAssumption
<1>2. /\ phase' = "idle" /\ batch' = {}
      /\ UNCHANGED <<indexed, watching, events, generation, lastSeen, epoch,
                     life>>
      /\ touched' = [p \in Paths |-> IF p \in named THEN generation
                                                    ELSE touched[p]]
      /\ journal' = IF named = {} THEN journal ELSE Push(b)
  BY DEF Publish
<1>3. /\ touched' \in [Paths -> 0..MaxGeneration]
      /\ \A p \in Paths : touched'[p] <= generation'
      /\ \A p \in Paths : touched[p] <= touched'[p]
      /\ \A p \in Paths \ named : touched'[p] = touched[p]
      /\ \A p \in named : touched'[p] = generation
      /\ Searchable \subseteq Paths
  BY <1>1, <1>2, FeedAssumption DEF TypeOK, FeedAssumption, Searchable
<1>. HIDE DEF named, b
<1>4. CASE named = {}
  <2>1. journal' = journal /\ touched' = touched
    BY <1>1, <1>2, <1>4 DEF TypeOK
  <2>2. TypeOK'
    BY <1>1, <1>2, <1>3, <2>1 DEF TypeOK
  <2>3. JournalOrdered'
    <3>1. phase' = "idle" /\ generation' = generation /\ life' = life
      BY <1>2
    <3>. QED
      BY <2>1, <3>1 DEF FeedInv, JournalOrdered
  <2>4. BatchesTouched'
    BY <1>2, <2>1 DEF FeedInv, BatchesTouched
  <2>5. TouchesJournalled'
    BY <1>2, <2>1 DEF FeedInv, TouchesJournalled
  <2>. QED
    BY <1>1, <1>2, <1>3, <2>2, <2>3, <2>4, <2>5 DEF FeedInv
<1>5. CASE named # {}
  <2>1. PICK k \in {0, 1} :
          /\ journal' \in Seq(BatchType)
          /\ Len(journal') <= JournalLimit
          /\ Len(journal') = Len(journal) + 1 - k
          /\ k <= Len(journal)
          /\ \A i \in 1..(Len(journal) - k) : journal'[i] = journal[i + k]
          /\ journal'[Len(journal')] = b
    <3>1. journal \in Seq(BatchType) /\ Len(journal) <= JournalLimit
      BY <1>1 DEF TypeOK
    <3>2. JournalLimit \in Nat \ {0}
      BY FeedAssumption DEF FeedAssumption
    <3>3. journal' = Push(b)
      BY <1>2, <1>5
    <3>. HIDE DEF Push
    <3>. QED
      BY ONLY <1>1, <3>1, <3>2, <3>3, PushShifts
  <2>2. Len(journal) \in Nat /\ Len(journal') \in Nat
    <3>1. journal \in Seq(BatchType)
      BY <1>1 DEF TypeOK
    <3>. QED
      BY <2>1, <3>1
  <2>3. /\ \A i \in 1..Len(journal) :
             /\ journal[i] \in BatchType
             /\ journal[i].life \in Nat /\ journal[i].generation \in Nat
        /\ \A i \in 1..Len(journal') :
             /\ journal'[i] \in BatchType
             /\ journal'[i].life \in Nat /\ journal'[i].generation \in Nat
    <3>1. /\ journal \in Seq(BatchType)
          /\ \A e \in BatchType : e.life \in Nat /\ e.generation \in Nat
      BY <1>1, FeedAssumption DEF TypeOK, BatchType, FeedAssumption
    <3>2. \A i \in 1..Len(journal) : journal[i] \in BatchType
      BY <3>1
    <3>3. \A i \in 1..Len(journal') : journal'[i] \in BatchType
      BY <2>1
    <3>. QED
      BY <3>1, <3>2, <3>3
  <2>4. TypeOK'
    BY <1>1, <1>2, <1>3, <2>1 DEF TypeOK
  <2>5. \A i \in 1..Len(journal) :
          /\ journal[i].life <= life
          /\ journal[i].life = life => journal[i].generation < generation
    BY <1>1 DEF FeedInv, JournalOrdered
  <2>6. JournalOrdered'
    <3>1. ASSUME NEW i \in 1..Len(journal'), NEW j \in 1..Len(journal'), i < j
          PROVE  \/ journal'[i].life < journal'[j].life
                 \/ /\ journal'[i].life = journal'[j].life
                    /\ journal'[i].generation < journal'[j].generation
      <4>1. i \in 1..(Len(journal) - k) /\ i + k \in 1..Len(journal)
        BY <2>1, <2>2, <3>1
      <4>2. journal'[i] = journal[i + k]
        BY <2>1, <4>1
      <4>3. CASE j = Len(journal')
        <5>1. /\ journal[i + k].life <= life
              /\ journal[i + k].life = life => journal[i + k].generation < generation
          BY <2>5, <4>1
        <5>2. journal[i + k].life \in Nat /\ journal[i + k].generation \in Nat
          BY <2>3, <4>1
        <5>3. journal'[j].life = life /\ journal'[j].generation = generation
          BY <1>1, <2>1, <4>3
        <5>. QED
          BY <1>1, <4>2, <5>1, <5>2, <5>3
      <4>4. CASE j # Len(journal')
        <5>1. j \in 1..(Len(journal) - k) /\ j + k \in 1..Len(journal)
          BY <2>1, <2>2, <4>4
        <5>2. i + k < j + k
          BY <3>1, <2>1
        <5>. QED
          <6>1. journal'[j] = journal[j + k]
            BY <2>1, <5>1
          <6>2. \/ journal[i + k].life < journal[j + k].life
                \/ /\ journal[i + k].life = journal[j + k].life
                   /\ journal[i + k].generation < journal[j + k].generation
            BY <4>1, <5>1, <5>2 DEF FeedInv, JournalOrdered
          <6>. QED
            BY <4>2, <6>1, <6>2
      <4>. QED
        BY <4>3, <4>4
    <3>2. ASSUME NEW i \in 1..Len(journal')
          PROVE  /\ journal'[i].life <= life
                 /\ journal'[i].life = life =>
                      journal'[i].generation <= generation
      <4>1. CASE i = Len(journal')
        BY <1>1, <2>1, <4>1
      <4>2. CASE i # Len(journal')
        <5>1. i \in 1..(Len(journal) - k) /\ i + k \in 1..Len(journal)
          BY <2>1, <2>2, <4>2
        <5>. QED
          <6>1. journal'[i] = journal[i + k]
            BY <2>1, <5>1
          <6>2. /\ journal[i + k].life <= life
                /\ journal[i + k].life = life =>
                     journal[i + k].generation < generation
            BY <2>5, <5>1
          <6>. QED
            BY <1>1, <2>3, <5>1, <6>1, <6>2
      <4>. QED
        BY <4>1, <4>2
    <3>. QED
      BY <1>2, <3>1, <3>2 DEF JournalOrdered
  <2>7. BatchesTouched'
    <3>1. SUFFICES ASSUME NEW i \in 1..Len(journal'), journal'[i].life = life,
                          NEW p \in journal'[i].paths
                   PROVE  journal'[i].generation <= touched'[p]
      BY <1>2 DEF BatchesTouched
    <3>2. p \in Searchable
      BY <2>3 DEF BatchType
    <3>3. CASE i = Len(journal')
      <4>1. p \in named /\ journal'[i].generation = generation
        BY <1>1, <2>1, <3>1, <3>3
      <4>. QED
        BY <1>1, <1>3, <4>1
    <3>4. CASE i # Len(journal')
      <4>1. i \in 1..(Len(journal) - k) /\ i + k \in 1..Len(journal)
        BY <2>1, <2>2, <3>4
      <4>2. journal[i + k].generation <= touched[p]
        BY <2>1, <3>1, <4>1 DEF FeedInv, BatchesTouched
      <4>3. touched[p] \in Nat /\ touched'[p] \in Nat
        BY <1>1, <1>3, <3>2, FeedAssumption DEF TypeOK, FeedAssumption
      <4>4. journal'[i].generation = journal[i + k].generation
        BY <2>1, <4>1
      <4>5. journal[i + k].generation \in Nat
        BY <2>3, <4>1
      <4>6. touched[p] <= touched'[p]
        BY <1>3, <3>2
      <4>. QED
        BY <4>2, <4>3, <4>4, <4>5, <4>6
    <3>. QED
      BY <3>3, <3>4
  <2>8. TouchesJournalled'
    <3>. DEFINE Accounted(p) ==
           \/ \E i \in 1..Len(journal') :
                /\ journal'[i].life = life
                /\ journal'[i].generation = touched'[p]
                /\ p \in journal'[i].paths
           \/ /\ journal' # <<>>
              /\ Head(journal').life = life
              /\ Head(journal').generation > touched'[p]
    <3>1. SUFFICES ASSUME NEW p \in Searchable, touched'[p] > 0
                   PROVE  Accounted(p)
      BY <1>2 DEF TouchesJournalled
    <3>2. /\ Len(journal') \in 1..Len(journal')
          /\ journal' # <<>>
          /\ Head(journal') = journal'[1]
      BY <2>1, <2>2
    <3>3. CASE p \in named
      BY <1>1, <1>3, <2>1, <3>2, <3>3
    <3>4. CASE p \notin named
      <4>1. touched'[p] = touched[p] /\ touched[p] \in Nat
        BY <1>1, <1>3, <3>4, FeedAssumption DEF TypeOK, FeedAssumption
      <4>2. CASE \E i \in 1..Len(journal) :
                   /\ journal[i].life = life
                   /\ journal[i].generation = touched[p]
                   /\ p \in journal[i].paths
        <5>1. PICK i \in 1..Len(journal) :
                /\ journal[i].life = life
                /\ journal[i].generation = touched[p]
                /\ p \in journal[i].paths
          BY <4>2
        <5>2. CASE i > k
          <6>1. i - k \in 1..(Len(journal) - k) /\ i - k \in 1..Len(journal')
            BY <2>1, <2>2, <5>2
          <6>2. journal'[i - k] = journal[i]
            BY <2>1, <6>1
          <6>. QED
            BY <4>1, <5>1, <6>1, <6>2
        <5>3. CASE ~(i > k)
          <6>1. k = 1 /\ i = 1
            BY <2>1, <5>3
          <6>2. CASE Len(journal) = 1
            <7>1. journal'[1] = b
              BY <2>1, <6>1, <6>2
            <7>. QED
              BY <1>1, <2>5, <3>2, <4>1, <5>1, <6>1, <7>1
          <6>3. CASE Len(journal) # 1
            <7>1. 1 \in 1..(Len(journal) - k) /\ 2 \in 1..Len(journal)
              BY <2>1, <2>2, <6>1, <6>3
            <7>2. journal'[1] = journal[2]
              BY <2>1, <6>1, <7>1
            <7>3. /\ journal[2].life = life
                  /\ journal[2].generation > journal[1].generation
              <8>1. \/ journal[1].life < journal[2].life
                    \/ /\ journal[1].life = journal[2].life
                       /\ journal[1].generation < journal[2].generation
                BY <5>1, <6>1, <7>1 DEF FeedInv, JournalOrdered
              <8>. QED
                BY <1>1, <2>3, <2>5, <5>1, <6>1, <7>1, <8>1
            <7>. QED
              BY <3>2, <4>1, <5>1, <6>1, <7>2, <7>3
          <6>. QED
            BY <6>2, <6>3
        <5>. QED
          BY <5>2, <5>3, <2>1
      <4>3. CASE /\ journal # <<>>
                 /\ Head(journal).life = life
                 /\ Head(journal).generation > touched[p]
        <5>1. 1 \in 1..Len(journal) /\ Head(journal) = journal[1]
          BY <2>2, <4>3, <1>1 DEF TypeOK
        <5>2. CASE k = 0
          <6>1. journal'[1] = journal[1]
            BY <2>1, <2>2, <5>1, <5>2
          <6>. QED
            BY <3>2, <4>1, <4>3, <5>1, <6>1
        <5>3. CASE k = 1 /\ Len(journal) = 1
          <6>1. journal'[1] = b
            BY <2>1, <5>3
          <6>. QED
            BY <1>1, <2>3, <2>5, <3>2, <4>1, <4>3, <5>1, <6>1
        <5>4. CASE k = 1 /\ Len(journal) # 1
          <6>1. 1 \in 1..(Len(journal) - k) /\ 2 \in 1..Len(journal)
            <7>1. 1 <= Len(journal) /\ Len(journal) # 1
              BY <2>2, <5>1, <5>4
            <7>2. \A n \in Nat : 1 <= n /\ n # 1 => 2 <= n
              OBVIOUS
            <7>3. 2 <= Len(journal)
              BY <2>2, <7>1, <7>2
            <7>. QED
              BY <2>2, <5>4, <7>3
          <6>2. journal'[1] = journal[2]
            BY <2>1, <5>4, <6>1
          <6>3. /\ journal[2].life = life
                /\ journal[2].generation > journal[1].generation
            <7>1. \/ journal[1].life < journal[2].life
                  \/ /\ journal[1].life = journal[2].life
                     /\ journal[1].generation < journal[2].generation
              BY <5>1, <6>1 DEF FeedInv, JournalOrdered
            <7>. QED
              BY <1>1, <2>3, <2>5, <4>3, <5>1, <6>1, <7>1
          <6>. QED
            BY <2>3, <3>2, <4>1, <4>3, <5>1, <6>1, <6>2, <6>3
        <5>. QED
          BY <5>2, <5>3, <5>4
      <4>. QED
        BY <3>1, <4>1, <4>2, <4>3 DEF FeedInv, TouchesJournalled
    <3>. QED
      BY <3>3, <3>4
  <2>. QED
    BY <1>1, <1>2, <1>3, <2>4, <2>6, <2>7, <2>8 DEF FeedInv
<1>. QED
  BY <1>4, <1>5

-----------------------------------------------------------------------------
(* The other steps leave the journal alone, or empty it.                   *)

(* The steps of ensure_ready and a restart begin a life without batches or *)
(* touched paths.                                                          *)
LEMMA ReplaceKeepsFeedInv ==
  ASSUME FeedAssumption, FeedInv, NEW present \in BOOLEAN,
         ReplaceWatcher(present), UNCHANGED indexed,
         epoch' \in 0..MaxEpoch, lastSeen' \in 0..MaxGeneration,
         journal' = journal \/ journal' = <<>>
  PROVE  FeedInv'
<1>1. /\ life' = life + 1 /\ life \in Nat /\ life' \in 0..MaxLife
      /\ generation' = 0 /\ phase' = "idle" /\ touched' = Untouched
  BY FeedAssumption DEF FeedInv, TypeOK, ReplaceWatcher, FeedAssumption
<1>2. \A i \in 1..Len(journal) : journal[i].life \in Nat /\ journal[i].life <= life
  <2>1. journal \in Seq(BatchType) /\ \A e \in BatchType : e.life \in Nat
    BY FeedAssumption DEF FeedInv, TypeOK, BatchType, FeedAssumption
  <2>. QED
    BY <2>1 DEF FeedInv, JournalOrdered
<1>3. TypeOK'
  <2>1. Untouched \in [Paths -> 0..MaxGeneration]
    BY FeedAssumption DEF Untouched, FeedAssumption
  <2>2. journal' \in Seq(BatchType) /\ Len(journal') <= JournalLimit
    <3>1. CASE journal' = journal
      BY <3>1 DEF FeedInv, TypeOK
    <3>2. CASE journal' = <<>>
      BY <3>2, FeedAssumption DEF FeedAssumption
    <3>. QED
      BY <3>1, <3>2
  <2>3. /\ generation' \in 0..MaxGeneration
        /\ touched' \in [Paths -> 0..MaxGeneration]
    BY <1>1, <2>1, FeedAssumption DEF FeedAssumption
  <2>4. /\ watching' \in BOOLEAN
        /\ events' \in SUBSET Paths
        /\ batch' \in SUBSET (Paths \ Ignored)
        /\ indexed' \in BOOLEAN
    BY DEF FeedInv, TypeOK, ReplaceWatcher
  <2>. QED
    BY <1>1, <2>2, <2>3, <2>4 DEF TypeOK
<1>4. \A i \in 1..Len(journal') :
        /\ journal'[i].life <= life'
        /\ journal'[i].life # life'
  BY <1>1, <1>2
<1>5. JournalOrdered'
  <2>1. CASE journal' = journal
    <3>1. \A i, j \in 1..Len(journal) :
            i < j => \/ journal[i].life < journal[j].life
                     \/ /\ journal[i].life = journal[j].life
                        /\ journal[i].generation < journal[j].generation
      BY DEF FeedInv, JournalOrdered
    <3>. QED
      BY <1>4, <2>1, <3>1 DEF JournalOrdered
  <2>2. CASE journal' = <<>>
    BY <2>2 DEF JournalOrdered
  <2>. QED
    BY <2>1, <2>2
<1>6. BatchesTouched'
  BY <1>4 DEF BatchesTouched
<1>7. \A p \in Paths : touched'[p] = 0
  BY <1>1 DEF Untouched
<1>8. TouchesJournalled'
  BY <1>7 DEF TouchesJournalled, Searchable
<1>. QED
  BY <1>1, <1>3, <1>5, <1>6, <1>7, <1>8 DEF FeedInv

(* The steps that move neither the journal nor what it accounts for.       *)
LEMMA QuietKeepsFeedInv ==
  ASSUME FeedInv, TypeOK',
         UNCHANGED <<watching, generation, journal, life, touched>>,
         phase' = phase \/ (phase' # "announced" /\ (watching \/ phase' = "idle"))
  PROVE  FeedInv'
<1>1. JournalOrdered'
  BY DEF FeedInv, JournalOrdered
<1>2. BatchesTouched'
  BY DEF FeedInv, BatchesTouched
<1>3. TouchesJournalled'
  BY DEF FeedInv, TouchesJournalled
<1>. QED
  BY <1>1, <1>2, <1>3 DEF FeedInv

-----------------------------------------------------------------------------
(* The invariant of the specification.                                     *)

(* A new service has an empty journal and has published nothing. *)
LEMMA InitMakesFeedInv ==
  ASSUME FeedAssumption, Init
  PROVE  FeedInv
<1>1. TypeOK
  <2>1. Untouched \in [Paths -> 0..MaxGeneration]
    BY FeedAssumption DEF Untouched, FeedAssumption
  <2>2. journal \in Seq(BatchType) /\ Len(journal) <= JournalLimit
    BY FeedAssumption DEF Init, FeedAssumption
  <2>3. 0 \in 0..MaxGeneration /\ 0 \in 0..MaxEpoch /\ 0 \in 0..MaxLife
    BY FeedAssumption DEF FeedAssumption
  <2>. QED
    BY <2>1, <2>2, <2>3 DEF Init, TypeOK
<1>2. \A p \in Paths : touched[p] = 0
  BY DEF Init, Untouched
<1>3. journal = <<>> /\ Len(journal) = 0
  BY DEF Init
<1>4. JournalOrdered /\ BatchesTouched
  BY <1>3 DEF JournalOrdered, BatchesTouched
<1>5. TouchesJournalled
  BY <1>2 DEF TouchesJournalled, Searchable
<1>. QED
  BY <1>1, <1>2, <1>4, <1>5 DEF Init, FeedInv

(* No step of the watcher thread, the worker or their surroundings disturbs *)
(* FeedInv.                                                                *)
LEMMA StepKeepsFeedInv ==
  ASSUME FeedAssumption, FeedInv, [Next]_feedVars
  PROVE  FeedInv'
<1>1. ASSUME NEW p \in Paths, Edit(p)
      PROVE  FeedInv'
  <2>1. TypeOK'
    BY <1>1 DEF FeedInv, TypeOK, Edit
  <2>. QED
    BY <1>1, <2>1, QuietKeepsFeedInv DEF Edit
<1>2. CASE Collect
  <2>1. TypeOK'
    BY <1>2 DEF FeedInv, TypeOK, Collect
  <2>. QED
    BY <1>2, <2>1, QuietKeepsFeedInv DEF Collect
<1>3. CASE Apply
  <2>1. TypeOK' /\ watching
    BY <1>3 DEF FeedInv, TypeOK, Apply
  <2>. QED
    BY <1>3, <2>1, QuietKeepsFeedInv DEF Apply
<1>4. CASE ApplyFails
  <2>1. TypeOK'
    BY <1>4 DEF FeedInv, TypeOK, ApplyFails
  <2>. QED
    BY <1>4, <2>1, QuietKeepsFeedInv DEF ApplyFails
<1>5. CASE Announce
  <2>1. /\ generation \in Nat /\ generation' = generation + 1
        /\ generation' \in 0..MaxGeneration /\ watching
    BY <1>5, FeedAssumption DEF FeedInv, TypeOK, Announce, FeedAssumption
  <2>2. TypeOK'
    BY <1>5, <2>1 DEF FeedInv, TypeOK, Announce
  <2>3. JournalOrdered'
    <3>1. \A i \in 1..Len(journal) : journal[i].generation \in Nat
      <4>1. /\ journal \in Seq(BatchType)
            /\ \A e \in BatchType : e.generation \in Nat
        BY FeedAssumption DEF FeedInv, TypeOK, BatchType, FeedAssumption
      <4>. QED
        BY <4>1
    <3>. QED
      BY <1>5, <2>1, <3>1 DEF FeedInv, JournalOrdered, Announce
  <2>4. BatchesTouched' /\ TouchesJournalled'
    BY <1>5 DEF FeedInv, BatchesTouched, TouchesJournalled, Announce
  <2>5. \A p \in Paths : touched'[p] <= generation'
    BY <1>5, <2>1, FeedAssumption DEF FeedInv, TypeOK, Announce, FeedAssumption
  <2>. QED
    BY <1>5, <2>1, <2>2, <2>3, <2>4, <2>5 DEF FeedInv, Announce
<1>6. CASE Publish
  BY <1>6, FeedAssumption, PublishKeepsFeedInv
<1>7. CASE ReadyWithoutIndex
  <2>1. /\ ReplaceWatcher(FALSE) /\ UNCHANGED indexed /\ journal' = journal
        /\ epoch' \in 0..MaxEpoch /\ lastSeen' \in 0..MaxGeneration
    BY <1>7 DEF FeedInv, TypeOK, ReadyWithoutIndex
  <2>. QED
    BY <2>1, FeedAssumption, ReplaceKeepsFeedInv
<1>8. CASE StartWatcher
  <2>1. /\ ReplaceWatcher(TRUE) /\ UNCHANGED indexed /\ journal' = journal
        /\ epoch' \in 0..MaxEpoch /\ lastSeen' \in 0..MaxGeneration
    <3>1. 0 \in 0..MaxGeneration
      BY FeedAssumption DEF FeedAssumption
    <3>. QED
      BY <1>8, <3>1 DEF FeedInv, TypeOK, StartWatcher
  <2>. QED
    BY <2>1, FeedAssumption, ReplaceKeepsFeedInv
<1>9. CASE ReloadIfDirty
  <2>1. TypeOK'
    BY <1>9 DEF FeedInv, TypeOK, ReloadIfDirty
  <2>. QED
    BY <1>9, <2>1, QuietKeepsFeedInv DEF ReloadIfDirty
<1>10. CASE InvalidateContext
  <2>1. epoch' \in 0..MaxEpoch
    BY <1>10, FeedAssumption DEF FeedInv, TypeOK, InvalidateContext, FeedAssumption
  <2>2. TypeOK'
    BY <1>10, <2>1 DEF FeedInv, TypeOK, InvalidateContext
  <2>. QED
    BY <1>10, <2>2, QuietKeepsFeedInv DEF InvalidateContext
<1>11. CASE Restart
  <2>1. /\ ReplaceWatcher(FALSE) /\ UNCHANGED indexed /\ journal' = <<>>
        /\ epoch' \in 0..MaxEpoch /\ lastSeen' \in 0..MaxGeneration
    <3>1. 0 \in 0..MaxGeneration /\ 0 \in 0..MaxEpoch
      BY FeedAssumption DEF FeedAssumption
    <3>. QED
      BY <1>11, <3>1 DEF Restart
  <2>. QED
    BY <2>1, FeedAssumption, ReplaceKeepsFeedInv
<1>12. CASE BuildIndex \/ RemoveIndex
  <2>1. TypeOK'
    BY <1>12 DEF FeedInv, TypeOK, BuildIndex, RemoveIndex
  <2>. QED
    BY <1>12, <2>1, QuietKeepsFeedInv DEF BuildIndex, RemoveIndex
<1>13. CASE UNCHANGED feedVars
  <2>1. TypeOK'
    BY <1>13 DEF FeedInv, TypeOK, feedVars
  <2>. QED
    BY <1>13, <2>1, QuietKeepsFeedInv DEF feedVars
<1>. QED
  BY <1>1, <1>2, <1>3, <1>4, <1>5, <1>6, <1>7, <1>8, <1>9, <1>10, <1>11,
     <1>12, <1>13
  DEF Next, WatcherStep, ServiceStep

(* In every reachable state the journal accounts for what the watcher      *)
(* announced: RepoService and watcher_loop keep their books together.      *)
THEOREM FeedInvHolds == Spec => []FeedInv
<1>1. Init => FeedInv
  BY FeedAssumption, InitMakesFeedInv
<1>2. FeedInv /\ [Next]_feedVars => FeedInv'
  BY FeedAssumption, StepKeepsFeedInv
<1>. QED
  BY <1>1, <1>2, PTL DEF Spec

(* Every variable keeps its type and the journal its limit, main.rs 257.   *)
THEOREM TypeCorrect == Spec => []TypeOK
<1>1. FeedInv => TypeOK
  BY DEF FeedInv
<1>. QED
  BY <1>1, FeedInvHolds, PTL

-----------------------------------------------------------------------------
(* What readers are promised.                                              *)

(* An answer the invariant lets the daemon call Unchanged is unchanged.    *)
LEMMA FeedInvMakesUnchangedTrue ==
  ASSUME FeedAssumption, FeedInv
  PROVE  UnchangedIsTrue
<1>1. /\ generation \in Nat /\ lastSeen \in Nat /\ CurrentGeneration \in Nat
      /\ \A p \in Paths : touched[p] \in Nat
      /\ Len(journal) \in Nat
      /\ Searchable \subseteq Paths
  BY DEF FeedInv, TypeOK, CurrentGeneration, FeedAssumption, Searchable
<1>2. SUFFICES ASSUME NEW g \in 0..CurrentGeneration,
                      NEW rel \in SUBSET Searchable,
                      VerdictNow(g, rel) = "Unchanged",
                      NEW p \in rel, ~(touched[p] <= g)
               PROVE  FALSE
  BY DEF UnchangedIsTrue
<1>3. g \in Nat /\ p \in Searchable /\ p \in Paths /\ touched[p] > g
      /\ touched[p] > 0
  BY <1>1, <1>2
<1>4. watching /\ CurrentGeneration = generation /\ touched[p] <= generation
  BY <1>3 DEF FeedInv, Untouched, CurrentGeneration
<1>5. CurrentGeneration # g /\ ~(CurrentGeneration < g)
  BY <1>1, <1>2, <1>3, <1>4
<1>6. /\ JournalCovers(g)
      /\ ~ \E i \in 1..Len(journal) : MakesStale(journal[i], g, rel)
  BY <1>2, <1>5 DEF VerdictNow, Verdict
<1>7. CASE \E i \in 1..Len(journal) :
             /\ journal[i].life = life
             /\ journal[i].generation = touched[p]
             /\ p \in journal[i].paths
  BY <1>2, <1>3, <1>6, <1>7 DEF MakesStale
<1>8. CASE /\ journal # <<>>
           /\ Head(journal).life = life
           /\ Head(journal).generation > touched[p]
  <2>1. journal[1] \in BatchType /\ Head(journal) = journal[1]
    BY <1>8 DEF FeedInv, TypeOK
  <2>2. Head(journal).generation \in Nat
    BY <2>1, FeedAssumption DEF BatchType, FeedAssumption
  <2>3. Head(journal).generation <= g + 1
    BY <1>6, <1>8 DEF JournalCovers, EarliestGeneration
  <2>. QED
    BY <1>1, <1>3, <1>8, <2>2, <2>3
<1>. QED
  BY <1>3, <1>7, <1>8 DEF FeedInv, TouchesJournalled

(* The promise of search reuse: what check_search_reuse (main.rs 302-382)  *)
(* calls Unchanged, the watcher has published no batch about since.        *)
THEOREM ReuseVerdictIsTrue == Spec => []UnchangedIsTrue
<1>1. FeedInv => UnchangedIsTrue
  BY FeedAssumption, FeedInvMakesUnchangedTrue
<1>. QED
  BY <1>1, FeedInvHolds, PTL

(* No search is repeated for nothing: a Changed verdict has a published    *)
(* batch behind it, or batches of an earlier watcher in the journal.       *)
THEOREM ChangeVerdictHasCause == Spec => []ChangedHasCause
<1>1. ASSUME FeedInv
      PROVE  ChangedHasCause
  <2>1. /\ generation \in Nat /\ lastSeen \in Nat
        /\ CurrentGeneration \in Nat /\ life \in Nat
        /\ \A p \in Paths : touched[p] \in Nat
        /\ Searchable \subseteq Paths
        /\ journal \in Seq(BatchType) /\ Len(journal) \in Nat
    BY <1>1, FeedAssumption
    DEF FeedInv, TypeOK, CurrentGeneration, FeedAssumption, Searchable
  <2>2. \A e \in BatchType : e.life \in Nat /\ e.generation \in Nat
    BY FeedAssumption DEF BatchType, FeedAssumption
  <2>3. SUFFICES ASSUME NEW g \in 0..CurrentGeneration,
                        NEW rel \in SUBSET Searchable,
                        VerdictNow(g, rel) = "Changed",
                        ~(Head(journal).life < life)
                 PROVE  \E p \in rel : touched[p] > g
    BY DEF ChangedHasCause
  <2>4. PICK i \in 1..Len(journal) : MakesStale(journal[i], g, rel)
    BY <2>3 DEF VerdictNow, Verdict
  <2>5. /\ journal[i] \in BatchType /\ journal[1] \in BatchType
        /\ 1 \in 1..Len(journal) /\ Head(journal) = journal[1]
    BY <2>1, <2>4
  <2>6. journal[1].life <= journal[i].life
    BY <1>1, <2>1, <2>2, <2>5 DEF FeedInv, JournalOrdered
  <2>7. journal[i].life <= life
    BY <1>1, <2>4 DEF FeedInv, JournalOrdered
  <2>8. journal[i].life = life
    BY <2>1, <2>2, <2>3, <2>5, <2>6, <2>7
  <2>9. PICK p \in journal[i].paths \cap rel : TRUE
    BY <2>4 DEF MakesStale
  <2>10. journal[i].generation <= touched[p] /\ journal[i].generation > g
    BY <1>1, <2>4, <2>8, <2>9 DEF FeedInv, BatchesTouched, MakesStale
  <2>11. touched[p] > g
    BY <2>1, <2>2, <2>3, <2>5, <2>9, <2>10
  <2>. QED
    BY <2>9, <2>11
<1>. QED
  BY <1>1, FeedInvHolds, PTL

-----------------------------------------------------------------------------
(* Reuse, end to end.                                                      *)

(* The feed's books hold in the composed system: a step of it is a step of *)
(* the feed, or a reindex, which makes the index present.                  *)
LEMMA FeedInvKept ==
  ASSUME FeedInv, [ReuseNext]_vars
  PROVE  FeedInv'
<1>1. ASSUME [Next]_feedVars PROVE FeedInv'
  BY <1>1, FeedAssumption, StepKeepsFeedInv
<1>2. EnsureReady \/ EnsureReadyFails => [Next]_feedVars
  BY DEF EnsureReady, EnsureReadyFails, AlreadyReady, Next
<1>3. CASE Reindex
  <2>1. TypeOK'
    BY <1>3 DEF FeedInv, TypeOK, Reindex, watcherVars
  <2>. QED
    BY <1>3, <2>1, QuietKeepsFeedInv DEF Reindex, watcherVars
<1>4. CASE Request
  <2>1. [Next]_feedVars
    BY <1>2, <1>4 DEF Request, CheckReady, CheckFails, CheckRead, CheckFinish,
       StatusReady, StatusFails, StatusRead, Execute, ExecuteFails, Preload
  <2>. QED
    BY <1>1, <2>1
<1>5. CASE \/ \E q \in Queries, force \in BOOLEAN : Call(q, force)
           \/ \E p \in Searchable : EditFile(p)
           \/ Watch \/ OtherRequest \/ Compact
           \/ DaemonRestart \/ OtherBuild \/ OtherRemove
  <2>1. [Next]_feedVars
    BY <1>5 DEF Call, EditFile, Watch, OtherRequest, Compact,
       DaemonRestart, OtherBuild, OtherRemove, Next, Searchable
  <2>. QED
    BY <1>1, <2>1
<1>6. CASE UNCHANGED vars
  BY <1>1, <1>6 DEF vars
<1>. QED
  BY <1>3, <1>4, <1>5, <1>6 DEF ReuseNext

(* A path touched after generation g shows in the journal, as a batch or as*)
(* an overflow: once the generation has moved on, no check finds Unchanged.*)
LEMMA TouchedShows ==
  ASSUME FeedInv, NEW g \in Nat, NEW c \in Nat, c > g, NEW e, NEW ce,
         NEW rel \in SUBSET Searchable, NEW p \in rel, touched[p] > g
  PROVE  Verdict(g, e, rel, c, ce) # "Unchanged"
<1>1. /\ Len(journal) \in Nat /\ p \in Searchable /\ p \in Paths
      /\ touched[p] \in Nat /\ touched[p] > 0
  BY DEF FeedInv, TypeOK, FeedAssumption, Searchable
<1>2. SUFFICES ASSUME Verdict(g, e, rel, c, ce) = "Unchanged" PROVE FALSE
  OBVIOUS
<1>3. /\ JournalCovers(g)
      /\ ~ \E i \in 1..Len(journal) : MakesStale(journal[i], g, rel)
  <2>1. c # g /\ ~(c < g)
    OBVIOUS
  <2>. QED
    BY <1>2, <2>1 DEF Verdict
<1>4. CASE \E i \in 1..Len(journal) :
             /\ journal[i].life = life
             /\ journal[i].generation = touched[p]
             /\ p \in journal[i].paths
  BY <1>3, <1>4 DEF MakesStale
<1>5. CASE /\ journal # <<>>
           /\ Head(journal).life = life
           /\ Head(journal).generation > touched[p]
  <2>1. journal[1] \in BatchType /\ Head(journal) = journal[1]
    BY <1>5 DEF FeedInv, TypeOK
  <2>2. Head(journal).generation \in Nat
    BY <2>1, FeedAssumption DEF BatchType, FeedAssumption
  <2>3. Head(journal).generation <= g + 1
    BY <1>3, <1>5 DEF JournalCovers, EarliestGeneration
  <2>. QED
    BY <1>1, <1>5, <2>2, <2>3
<1>. QED
  BY <1>1, <1>4, <1>5 DEF FeedInv, TouchesJournalled

(* What a request reads of a path that was touched after generation g has  *)
(* moved past g.                                                           *)
LEMMA TouchedMovesOn ==
  ASSUME FeedInv, NEW g \in Nat, NEW p \in Paths, touched[p] > g
  PROVE  CurrentGeneration > g
<1>1. touched[p] \in Nat /\ touched[p] # 0
  BY DEF FeedInv, TypeOK, FeedAssumption
<1>2. watching /\ touched[p] <= generation /\ generation \in Nat
  BY <1>1 DEF FeedInv, TypeOK, Untouched
<1>. QED
  BY <1>1, <1>2 DEF CurrentGeneration

(* The watcher's steps only raise what was touched.                        *)
LEMMA WatcherRaises ==
  ASSUME FeedInv, WatcherStep, NEW p \in Paths
  PROVE  touched'[p] >= touched[p]
<1>1. touched \in [Paths -> Nat] /\ generation \in Nat
      /\ touched[p] <= generation
  BY DEF FeedInv, TypeOK
<1>2. CASE Publish
  BY <1>1, <1>2 DEF Publish
<1>3. CASE UNCHANGED touched
  BY <1>1, <1>3
<1>. QED
  BY <1>2, <1>3 DEF WatcherStep, Collect, Apply, ApplyFails, Announce

-----------------------------------------------------------------------------
(* The MCP server's side.                                                  *)

(* Initially nothing is memoised.                                          *)
LEMMA InitMakesClientInv == ReuseInit => ClientInv
BY DEF ReuseInit, ClientInv, NoContext

(* A context has the generation that is current, a natural number.         *)
LEMMA ContextRead ==
  ASSUME FeedInv
  PROVE  /\ ReadContext.generation = CurrentGeneration
         /\ CurrentGeneration \in Nat
BY DEF FeedInv, TypeOK, ReadContext, CurrentGeneration

(* The steps of a tool call.                                               *)
LEMMA RequestKeepsClientInv ==
  ASSUME ReuseInv, Request
  PROVE  ClientInv'
<1>. USE DEF ReuseInv
<1>1. CASE CheckReady \/ CheckFails
  BY <1>1 DEF CheckReady, CheckFails, ClientInv, historyVars
<1>2. CASE CheckRead
  <2>. DEFINE g == memo[query].generation
  <2>1. /\ pc = "checkReady" /\ pc' = "verdict"
        /\ context' = ReadContext
        /\ stale' = {p \in Scope[query] : touched[p] > g}
        /\ UNCHANGED <<feedVars, memo, query>>
    BY <1>2 DEF CheckRead
  <2>2. query \in Queries /\ g \in Nat /\ memo[query] # None
    BY <2>1 DEF ClientInv
  <2>3. Scope[query] \subseteq Paths
    BY <2>2, ReuseAssumption DEF Searchable
  <2>4. stale' # {} => context'.generation > g
    <3>. SUFFICES ASSUME NEW p \in stale' PROVE context'.generation > g
      OBVIOUS
    <3>1. p \in Paths /\ touched[p] > g
      BY <2>1, <2>3
    <3>2. CurrentGeneration > g
      BY <2>2, <3>1, TouchedMovesOn
    <3>. QED
      BY <2>1, <3>2, ContextRead
  <2>5. context'.generation \in Nat
    BY <2>1, ContextRead
  <2>6. stale' \subseteq Scope[query] /\ \A p \in stale' : touched'[p] > g
    BY <2>1 DEF feedVars
  <2>. QED
    BY <2>1, <2>2, <2>4, <2>5, <2>6 DEF ClientInv
<1>3. CASE CheckFinish
  <2>1. /\ pc = "verdict" /\ UNCHANGED <<feedVars, memo, query>>
        /\ pc' \in {"reused", "status"}
        /\ pc' = "reused" =>
             /\ stale' = stale
             /\ Verdict(memo[query].generation, memo[query].epoch,
                        Scope[query], context.generation, context.epoch)
                  = "Unchanged"
    BY <1>3 DEF CheckFinish
  <2>2. /\ query \in Queries /\ memo[query].generation \in Nat
        /\ context.generation \in Nat
        /\ stale \subseteq Scope[query]
        /\ stale # {} => context.generation > memo[query].generation
        /\ \A p \in stale : touched[p] > memo[query].generation
    BY <2>1 DEF ClientInv
  <2>3. Scope[query] \in SUBSET Searchable
    BY <2>2, ReuseAssumption
  <2>4. ASSUME pc' = "reused", NEW p \in stale PROVE FALSE
    BY <2>1, <2>2, <2>3, <2>4, TouchedShows
  <2>5. context' # None => context'.generation \in Nat
    BY <1>3, <2>2 DEF CheckFinish, NoContext
  <2>. QED
    BY <2>1, <2>2, <2>4, <2>5 DEF ClientInv
<1>4. CASE StatusReady \/ StatusFails \/ StatusRead
  BY <1>4, ContextRead
  DEF StatusReady, StatusFails, StatusRead, ClientInv, historyVars
<1>5. ASSUME NEW fallback \in BOOLEAN, Execute(fallback) PROVE ClientInv'
  <2>1. /\ pc' = "idle" /\ UNCHANGED query
        /\ context' = NoContext
        /\ \/ UNCHANGED memo
           \/ /\ context # None
              /\ memo' = [memo EXCEPT ![query] =
                           [generation |-> context.generation,
                            epoch |-> context.epoch, life |-> context.life,
                            view |-> engine']]
    BY <1>5 DEF Execute
  <2>2. CASE UNCHANGED memo
    BY <2>1, <2>2 DEF ClientInv, NoContext
  <2>3. CASE ~UNCHANGED memo
    <3>1. /\ memo = [q \in Queries |-> memo[q]] /\ query \in Queries
          /\ context.generation \in Nat
      BY <2>1, <2>3 DEF ClientInv
    <3>2. /\ memo' = [q \in Queries |-> memo'[q]]
          /\ memo'[query].generation = context.generation
          /\ \A q \in Queries : q # query => memo'[q] = memo[q]
      BY <2>1, <2>3, <3>1
    <3>3. \A q \in Queries : memo'[q] # None => memo'[q].generation \in Nat
      BY <3>1, <3>2 DEF ClientInv
    <3>. QED
      BY <2>1, <3>1, <3>2, <3>3 DEF ClientInv, NoContext
  <2>. QED
    BY <2>2, <2>3
<1>6. CASE ExecuteFails
  BY <1>6 DEF ExecuteFails, ClientInv, NoContext, historyVars
<1>7. CASE Preload
  BY <1>7 DEF Preload, ClientInv, historyVars
<1>. QED
  BY <1>1, <1>2, <1>3, <1>4, <1>5, <1>6, <1>7 DEF Request

(* The steps between tool calls, and those of others.                      *)
LEMMA OthersKeepClientInv ==
  ASSUME ReuseInv, ReuseNext, ~Request
  PROVE  ClientInv'
<1>. USE DEF ReuseInv
<1>1. ASSUME NEW q \in Queries, NEW force \in BOOLEAN, Call(q, force)
      PROVE  ClientInv'
  BY <1>1 DEF Call, ClientInv, NoContext
<1>2. CASE Reindex
  BY <1>2 DEF Reindex, InvalidateCachedEngine, ClientInv, NoContext
<1>3. ASSUME NEW p \in Searchable, EditFile(p) PROVE ClientInv'
  <2>1. UNCHANGED <<clientVars, stale, touched>>
    BY <1>3 DEF EditFile, Edit, feedVars
  <2>. QED
    BY <2>1 DEF ClientInv, clientVars
<1>4. CASE Watch
  <2>1. WatcherStep /\ UNCHANGED <<clientVars, stale>>
    BY <1>4 DEF Watch
  <2>2. ASSUME pc = "verdict", NEW p \in stale
        PROVE  touched'[p] > memo[query].generation
    <3>1. /\ query \in Queries /\ memo[query].generation \in Nat
          /\ p \in Scope[query] /\ touched[p] > memo[query].generation
      BY <2>2 DEF ClientInv
    <3>2. p \in Paths
      BY <3>1, ReuseAssumption DEF Searchable
    <3>3. touched[p] \in Nat /\ touched'[p] \in Nat
      <4>1. FeedInv'
        BY FeedInvKept, <1>4 DEF ReuseNext
      <4>. QED
        BY <3>2, <4>1 DEF FeedInv, TypeOK
    <3>. QED
      BY <2>1, <3>1, <3>2, <3>3, WatcherRaises
  <2>. QED
    BY <2>1, <2>2 DEF ClientInv, clientVars
<1>5. CASE OtherRequest
  BY <1>5 DEF OtherRequest, DaemonBusy, ClientInv, clientVars, historyVars
<1>6. CASE Compact
  BY <1>6 DEF Compact, ClientInv, NoContext
<1>7. CASE DaemonRestart
  BY <1>7 DEF DaemonRestart, ClientInv, NoContext
<1>8. CASE OtherBuild \/ OtherRemove
  BY <1>8 DEF OtherBuild, OtherRemove, BuildIndex, RemoveIndex, ClientInv,
     clientVars, historyVars
<1>. QED
  BY <1>1, <1>2, <1>3, <1>4, <1>5, <1>6, <1>7, <1>8 DEF ReuseNext

-----------------------------------------------------------------------------
(* The theorems.                                                           *)

(* The books of the feed and of a check in progress agree in every         *)
(* reachable state of the composed system (check_search_reuse, main.rs     *)
(* 302-382, against run_and_envelope, tools.rs 1750-1882).                 *)
THEOREM ReuseInvHolds == ReuseSpec => []ReuseInv
<1>1. ReuseInit => ReuseInv
  BY FeedAssumption, InitMakesFeedInv, InitMakesClientInv DEF ReuseInit, ReuseInv
<1>2. ReuseInv /\ [ReuseNext]_vars => ReuseInv'
  <2>. SUFFICES ASSUME ReuseInv, [ReuseNext]_vars PROVE ReuseInv'
    OBVIOUS
  <2>1. FeedInv'
    BY FeedInvKept DEF ReuseInv
  <2>2. ClientInv'
    <3>1. CASE UNCHANGED vars
      BY <3>1 DEF vars, feedVars, clientVars, historyVars, ReuseInv, ClientInv
    <3>2. CASE ReuseNext
      BY <3>2, RequestKeepsClientInv, OthersKeepClientInv
    <3>. QED
      BY <3>1, <3>2
  <2>. QED
    BY <2>1, <2>2 DEF ReuseInv
<1>. QED
  BY <1>1, <1>2, PTL DEF ReuseSpec

(* The agent is never told to reuse results that a published batch had     *)
(* made stale when the check was made.                                     *)
THEOREM ReuseIsAlwaysSafe == ReuseSpec => []ReuseIsSafe
<1>1. ReuseInv => ReuseIsSafe
  BY DEF ReuseInv, ClientInv, ReuseIsSafe
<1>. QED
  BY <1>1, ReuseInvHolds, PTL

-----------------------------------------------------------------------------
(* Reuse and the conversation.                                             *)

(* Only invalidate_search_context (main.rs 298-300) and a restart move the *)
(* epoch, and lives only grow.                                             *)
LEMMA EpochMoves ==
  ASSUME [ReuseNext]_vars, ~DaemonRestart, life \in Nat, epoch \in Nat
  PROVE  /\ life' \in Nat /\ life <= life'
         /\ \/ epoch' = epoch
            \/ (Compact \/ OtherRequest) /\ epoch' = epoch + 1
<1>1. ServiceStep \/ AlreadyReady \/ WatcherStep \/ UNCHANGED feedVars =>
        epoch' = epoch /\ life' \in Nat /\ life <= life'
  <2>1. ServiceStep => epoch' = epoch /\ (life' = life \/ life' = life + 1)
    BY DEF ServiceStep, ReadyWithoutIndex, StartWatcher, ReloadIfDirty,
       ReplaceWatcher
  <2>2. AlreadyReady \/ WatcherStep \/ UNCHANGED feedVars =>
          epoch' = epoch /\ life' = life
    BY DEF AlreadyReady, WatcherStep, Collect, Apply, ApplyFails, Announce,
       Publish, feedVars
  <2>. QED
    BY <2>1, <2>2
<1>2. InvalidateContext => epoch' = epoch + 1 /\ life' = life
  BY DEF InvalidateContext
<1>3. CASE Request
  <2>1. EnsureReady \/ EnsureReadyFails \/ UNCHANGED feedVars
    BY <1>3 DEF Request, CheckReady, CheckFails, CheckRead, CheckFinish,
       StatusReady, StatusFails, StatusRead, Execute, ExecuteFails, Preload
  <2>. QED
    BY <1>1, <2>1 DEF EnsureReady, EnsureReadyFails
<1>4. CASE \/ \E q \in Queries, force \in BOOLEAN : Call(q, force)
           \/ UNCHANGED vars
  BY <1>1, <1>4 DEF Call, vars
<1>5. CASE \E p \in Searchable : EditFile(p)
  BY <1>1, <1>5 DEF EditFile, Edit
<1>6. CASE Reindex \/ OtherBuild \/ OtherRemove
  BY <1>6 DEF Reindex, OtherBuild, OtherRemove, BuildIndex, RemoveIndex
<1>7. CASE Watch
  BY <1>1, <1>7 DEF Watch
<1>8. CASE Compact
  BY <1>2, <1>8 DEF Compact
<1>9. CASE OtherRequest
  BY <1>1, <1>2, <1>9 DEF OtherRequest
<1>. QED
  BY <1>3, <1>4, <1>5, <1>6, <1>7, <1>8, <1>9 DEF ReuseNext

(* What the invariant says of one memo entry survives a later life and a   *)
(* later epoch.                                                            *)
LEMMA EntriesKeep ==
  ASSUME ContextInv, life' \in Nat, life <= life', UNCHANGED since,
         epoch' \in Nat, epoch <= epoch',
         NEW q \in Queries, memo[q] # None
  PROVE  /\ memo[q].life \in 0..life'
         /\ memo[q].life >= since =>
              /\ memo[q].epoch \in 0..epoch'
              /\ q \in lost => memo[q].epoch < epoch'
<1>1. /\ life \in Nat /\ epoch \in Nat
      /\ memo[q].life \in 0..life
      /\ memo[q].life >= since =>
           /\ memo[q].epoch \in 0..epoch
           /\ q \in lost => memo[q].epoch < epoch
  BY DEF ContextInv
<1>. QED
  BY <1>1

(* The same for the context a call has read.                               *)
LEMMA ReadContextKeeps ==
  ASSUME ContextInv, life' \in Nat, life <= life', UNCHANGED since,
         epoch' \in Nat, epoch <= epoch', context # None
  PROVE  /\ context.life \in 0..life'
         /\ context.life >= since => context.epoch \in 0..epoch'
<1>1. /\ life \in Nat /\ epoch \in Nat
      /\ context.life \in 0..life
      /\ context.life >= since => context.epoch \in 0..epoch
  BY DEF ContextInv
<1>. QED
  BY <1>1

(* A fresh context, and no context, are of this daemon and its epoch.      *)
LEMMA ContextsFit ==
  ASSUME life \in Nat, epoch \in Nat
  PROVE  /\ NoContext.life \in 0..life /\ NoContext.epoch \in 0..epoch
         /\ ReadContext.life \in 0..life /\ ReadContext.epoch = epoch
         /\ epoch \in 0..epoch
BY DEF NoContext, ReadContext

(* The steps of a tool call, at one epoch.                                 *)
LEMMA RequestKeepsContextInv ==
  ASSUME ContextInv, Request, life' \in Nat, life <= life',
         UNCHANGED epoch
  PROVE  ContextInv'
<1>0. /\ query \in Queries /\ memo = [q \in Queries |-> memo[q]]
      /\ epoch \in Nat /\ life \in Nat /\ since \in Nat
      /\ epoch' \in Nat /\ epoch <= epoch' /\ 0..epoch \subseteq 0..epoch'
      /\ 0..life \subseteq 0..life'
  BY DEF ContextInv
<1>1. CASE CheckReady \/ CheckFails
  <2>1. /\ UNCHANGED <<memo, query, context, lost, since>>
        /\ pc = "check" /\ pc' \in {"checkReady", "status"}
    BY <1>1 DEF CheckReady, CheckFails, historyVars
  <2>. QED
    BY <1>0, <2>1, EntriesKeep, ReadContextKeeps
    DEF ContextInv, CompactionEndsReuse
<1>2. CASE CheckRead
  <2>1. /\ UNCHANGED <<memo, query, lost, since>> /\ context' = ReadContext
        /\ pc = "checkReady" /\ pc' = "verdict"
    BY <1>2 DEF CheckRead
  <2>2. context'.life \in 0..life' /\ context'.epoch = epoch
    BY <1>0, <2>1, ContextsFit
  <2>3. context'.epoch \in 0..epoch'
    BY <1>0, <2>2
  <2>. QED
    BY <1>0, <2>1, <2>2, <2>3, EntriesKeep DEF ContextInv, CompactionEndsReuse
<1>3. CASE CheckFinish
  <2>1. /\ UNCHANGED <<memo, query, lost, since>>
        /\ context' = context \/ context' = NoContext
        /\ pc = "verdict" /\ pc' \in {"reused", "status"}
        /\ pc' = "reused" => memo[query].epoch = context.epoch
    BY <1>3 DEF CheckFinish, Verdict
  <2>2. memo[query] # None /\ context.epoch = epoch
    BY <2>1 DEF ContextInv
  <2>3. pc' = "reused" /\ memo[query].life >= since => query \notin lost
    BY <1>0, <2>1, <2>2 DEF ContextInv
  <2>4. /\ NoContext.life \in 0..life' /\ NoContext.epoch \in 0..epoch'
    BY <1>0, ContextsFit
  <2>5. context' # None =>
          /\ context'.life \in 0..life'
          /\ context'.life >= since => context'.epoch \in 0..epoch'
    BY <1>0, <2>1, <2>4, ReadContextKeeps
  <2>. QED
    BY <1>0, <2>1, <2>2, <2>3, <2>5, EntriesKeep
    DEF ContextInv, CompactionEndsReuse
<1>4. CASE StatusReady \/ StatusFails \/ StatusRead
  <2>1. /\ UNCHANGED <<memo, query, lost, since>>
        /\ context' \in {context, None, ReadContext}
        /\ pc' \in {"statusReady", "execute"}
    BY <1>4 DEF StatusReady, StatusFails, StatusRead, historyVars
  <2>2. ReadContext.life \in 0..life' /\ ReadContext.epoch \in 0..epoch'
    BY <1>0, ContextsFit
  <2>3. context' # None =>
          /\ context'.life \in 0..life'
          /\ context'.life >= since => context'.epoch \in 0..epoch'
    BY <1>0, <2>1, <2>2, ReadContextKeeps
  <2>. QED
    BY <1>0, <2>1, <2>3, EntriesKeep DEF ContextInv, CompactionEndsReuse
<1>5. ASSUME NEW fallback \in BOOLEAN, Execute(fallback) PROVE ContextInv'
  <2>. DEFINE e == [generation |-> context.generation,
                    epoch |-> context.epoch, life |-> context.life,
                    view |-> engine']
  <2>1. /\ pc' = "idle" /\ UNCHANGED <<query, since>> /\ context' = NoContext
        /\ \/ UNCHANGED <<memo, lost>>
           \/ /\ context # None /\ memo' = [memo EXCEPT ![query] = e]
              /\ lost' = lost \ {query}
    BY <1>5 DEF Execute
  <2>2. NoContext.life \in 0..life' /\ NoContext.epoch \in 0..epoch'
    BY <1>0, ContextsFit
  <2>3. CASE UNCHANGED <<memo, lost>>
    BY <1>0, <2>1, <2>2, <2>3, EntriesKeep DEF ContextInv, CompactionEndsReuse
  <2>4. CASE /\ context # None /\ memo' = [memo EXCEPT ![query] = e]
             /\ lost' = lost \ {query}
    <3>1. /\ e.life \in 0..life'
          /\ e.life >= since => e.epoch \in 0..epoch'
      BY <1>0, <2>1, <2>4, ReadContextKeeps
    <3>. HIDE DEF e
    <3>2. /\ memo' = [q \in Queries |-> memo'[q]]
          /\ memo'[query] = e
          /\ \A q \in Queries : q # query => memo'[q] = memo[q]
      BY <1>0, <2>4
    <3>3. ASSUME NEW q \in Queries, memo'[q] # None
          PROVE  /\ memo'[q].life \in 0..life'
                 /\ memo'[q].life >= since =>
                      /\ memo'[q].epoch \in 0..epoch'
                      /\ q \in lost' => memo'[q].epoch < epoch'
      <4>1. CASE q = query
        BY <2>4, <3>1, <3>2, <4>1
      <4>2. CASE q # query
        <5>1. memo'[q] = memo[q] /\ (q \in lost' => q \in lost)
          BY <2>4, <3>2, <4>2
        <5>. QED
          BY <1>0, <2>1, <3>3, <5>1, EntriesKeep
      <4>. QED
        BY <4>1, <4>2
    <3>. QED
      BY <1>0, <2>1, <2>2, <3>2, <3>3 DEF ContextInv, CompactionEndsReuse
  <2>. QED
    BY <2>1, <2>3, <2>4
<1>6. CASE ExecuteFails \/ Preload
  <2>1. /\ UNCHANGED <<memo, query, lost, since>>
        /\ context' = context \/ context' = NoContext
        /\ pc' = "idle"
    BY <1>6 DEF ExecuteFails, Preload, historyVars
  <2>2. NoContext.life \in 0..life' /\ NoContext.epoch \in 0..epoch'
    BY <1>0, ContextsFit
  <2>3. context' # None =>
          /\ context'.life \in 0..life'
          /\ context'.life >= since => context'.epoch \in 0..epoch'
    BY <1>0, <2>1, <2>2, ReadContextKeeps
  <2>. QED
    BY <1>0, <2>1, <2>3, EntriesKeep DEF ContextInv, CompactionEndsReuse
<1>. QED
  BY <1>1, <1>2, <1>3, <1>4, <1>5, <1>6 DEF Request

(* The other steps: a compaction moves the epoch past that of every entry  *)
(* of this daemon.                                                         *)
LEMMA OthersKeepContextInv ==
  ASSUME ContextInv, ReuseNext, ~Request, ~DaemonRestart
  PROVE  ContextInv'
<1>0. /\ query \in Queries /\ memo = [q \in Queries |-> memo[q]]
      /\ epoch \in Nat /\ life \in Nat /\ since \in Nat
  BY DEF ContextInv
<1>1. /\ life' \in Nat /\ life <= life'
      /\ \/ epoch' = epoch
         \/ (Compact \/ OtherRequest) /\ epoch' = epoch + 1
  BY <1>0, EpochMoves
<1>2. epoch' \in Nat /\ epoch <= epoch'
  BY <1>0, <1>1
<1>3. NoContext.life \in 0..life' /\ NoContext.epoch \in 0..epoch'
  BY <1>1, <1>2 DEF NoContext
<1>4. CASE Compact
  <2>1. /\ epoch' = epoch + 1 /\ UNCHANGED <<memo, query, since, life>>
        /\ lost' = {q \in Queries : memo[q] # None}
        /\ pc' = "idle" /\ context' = NoContext
    BY <1>4 DEF Compact, InvalidateContext
  <2>2. ASSUME NEW q \in Queries, memo'[q] # None
        PROVE  /\ memo'[q].life \in 0..life'
               /\ memo'[q].life >= since' =>
                    /\ memo'[q].epoch \in 0..epoch'
                    /\ q \in lost' => memo'[q].epoch < epoch'
    <3>1. /\ memo'[q] = memo[q] /\ memo[q] # None /\ memo[q].life \in 0..life
          /\ memo[q].life >= since => memo[q].epoch \in 0..epoch
      BY <2>1, <2>2 DEF ContextInv
    <3>. QED
      BY <1>0, <2>1, <3>1
  <2>. QED
    BY <1>0, <1>1, <1>2, <1>3, <2>1, <2>2 DEF ContextInv, CompactionEndsReuse
<1>5. ASSUME NEW q \in Queries, NEW force \in BOOLEAN, Call(q, force)
      PROVE  ContextInv'
  <2>1. /\ UNCHANGED <<memo, lost, since>> /\ query' = q
        /\ context' = NoContext /\ pc' \in {"check", "status"}
        /\ pc' = "check" => memo[q] # None
        /\ epoch' = epoch
    BY <1>5 DEF Call, feedVars
  <2>. QED
    BY <1>0, <1>1, <1>2, <1>3, <2>1, EntriesKeep
    DEF ContextInv, CompactionEndsReuse
<1>6. CASE Reindex
  <2>1. /\ memo' = [q \in Queries |-> None] /\ UNCHANGED <<query, lost, since>>
        /\ context' = NoContext /\ pc' = "preload"
    BY <1>6 DEF Reindex, InvalidateCachedEngine
  <2>. QED
    BY <1>0, <1>1, <1>2, <1>3, <2>1 DEF ContextInv, CompactionEndsReuse
<1>7. CASE \/ \E p \in Searchable : EditFile(p)
           \/ Watch \/ OtherBuild \/ OtherRemove \/ OtherRequest
  <2>1. UNCHANGED <<clientVars, lost, since>>
    BY <1>7 DEF EditFile, Watch, OtherBuild, OtherRemove, OtherRequest,
       historyVars
  <2>2. UNCHANGED <<memo, query, context, pc, lost, since>>
    BY <2>1 DEF clientVars
  <2>3. pc = "verdict" => epoch' = epoch
    <3>1. OtherRequest => pc # "verdict"
      BY DEF OtherRequest, DaemonBusy
    <3>2. Compact => pc # "verdict"
      BY DEF Compact
    <3>. QED
      BY <1>1, <3>1, <3>2
  <2>4. \A q \in Queries : memo[q] # None =>
          /\ memo[q].life \in 0..life'
          /\ memo[q].life >= since =>
               /\ memo[q].epoch \in 0..epoch'
               /\ q \in lost => memo[q].epoch < epoch'
    BY <1>1, <1>2, <2>2, EntriesKeep
  <2>5. context # None =>
          /\ context.life \in 0..life'
          /\ context.life >= since => context.epoch \in 0..epoch'
    BY <1>1, <1>2, <2>2, ReadContextKeeps
  <2>. QED
    BY <1>0, <1>1, <1>2, <2>2, <2>3, <2>4, <2>5
    DEF ContextInv, CompactionEndsReuse
<1>. QED
  BY <1>4, <1>5, <1>6, <1>7 DEF ReuseNext

(* A restart begins a life that neither an entry nor a context is of.      *)
LEMMA RestartKeepsContextInv ==
  ASSUME ContextInv, DaemonRestart
  PROVE  ContextInv'
<1>0. /\ query \in Queries /\ memo = [q \in Queries |-> memo[q]]
      /\ epoch \in Nat /\ life \in Nat /\ since \in Nat
  BY DEF ContextInv
<1>1. /\ epoch' = 0 /\ life' = life + 1 /\ since' = life'
      /\ UNCHANGED <<memo, query, lost>>
      /\ context' \in {None, NoContext, context}
      /\ pc' # "verdict"
      /\ pc' \in {"check", "checkReady", "reused"} => pc' = pc
    BY DEF DaemonRestart, Restart, ReplaceWatcher
<1>2. \A q \in Queries : memo[q] # None =>
        memo[q].life \in 0..life' /\ ~(memo[q].life >= since')
  <2>1. ASSUME NEW q \in Queries, memo[q] # None
        PROVE  memo[q].life \in 0..life' /\ ~(memo[q].life >= since')
    <3>1. memo[q].life \in 0..life
      BY <2>1 DEF ContextInv
    <3>. QED
      BY <1>0, <1>1, <3>1
  <2>. QED
    BY <2>1
<1>3. context' # None =>
        context'.life \in 0..life' /\ ~(context'.life >= since')
  <2>1. NoContext.life = 0
    BY DEF NoContext
  <2>2. context # None => context.life \in 0..life
    BY DEF ContextInv
  <2>3. CASE context' = NoContext
    BY <1>0, <1>1, <2>1, <2>3
  <2>4. CASE context' = context
    BY <1>0, <1>1, <2>2, <2>4
  <2>. QED
    BY <1>1, <2>3, <2>4
<1>4. pc' \in {"check", "checkReady", "verdict", "reused"} =>
        memo[query] # None
  BY <1>1 DEF ContextInv
<1>5. epoch' \in Nat /\ life' \in Nat /\ since' \in Nat
  BY <1>0, <1>1
<1>. QED
  BY <1>0, <1>1, <1>2, <1>3, <1>4, <1>5 DEF ContextInv, CompactionEndsReuse

(* The agent is never sent back to results of this daemon's time that a    *)
(* compaction took, whoever else bumps the epoch, and whatever restarts,   *)
(* reindexing and failures come in between (main.rs 298-300, 938-955,      *)
(* tools.rs 1750-1882).                                                    *)
THEOREM CompactedIsNotReused == ReuseSpec => []CompactionEndsReuse
<1>1. ReuseInit => ContextInv
  BY DEF ReuseInit, Init, ContextInv, CompactionEndsReuse, NoContext
<1>2. ContextInv /\ [ReuseNext]_vars => ContextInv'
  <2>. SUFFICES ASSUME ContextInv, [ReuseNext]_vars PROVE ContextInv'
    OBVIOUS
  <2>1. CASE UNCHANGED vars
    BY <2>1 DEF vars, feedVars, clientVars, historyVars, ContextInv,
       CompactionEndsReuse
  <2>2. CASE Request /\ ReuseNext /\ ~DaemonRestart
    <3>1. /\ pc \in {"check", "checkReady", "verdict", "status", "statusReady",
                     "execute", "preload"}
          /\ pc' # pc
      BY <2>2 DEF Request, CheckReady, CheckFails, CheckRead, CheckFinish,
         StatusReady, StatusFails, StatusRead, Execute, ExecuteFails, Preload
    <3>2. ~Compact /\ ~OtherRequest
      BY <3>1 DEF Compact, OtherRequest, clientVars
    <3>. QED
      BY <2>2, <3>2, EpochMoves, RequestKeepsContextInv DEF ContextInv
  <2>3. CASE ReuseNext /\ (DaemonRestart \/ ~Request)
    BY <2>3, OthersKeepContextInv, RestartKeepsContextInv
  <2>. QED
    BY <2>1, <2>2, <2>3
<1>3. ContextInv => CompactionEndsReuse
  BY DEF ContextInv
<1>. QED
  BY <1>1, <1>2, <1>3, PTL DEF ReuseSpec

-----------------------------------------------------------------------------
(* Reuse and the engine.                                                   *)

(* An entry exists only while an engine is open.                           *)
EngineInv ==
  /\ query \in Queries
  /\ memo = [q \in Queries |-> memo[q]]
  /\ \A q \in Queries : memo[q] # None => engine # None /\ memo[q].view = engine

(* The steps that write neither the memo nor the engine.                   *)
LEMMA RestKeepsEngineInv ==
  ASSUME EngineInv, UNCHANGED <<memo, engine>>, query' \in Queries
  PROVE  EngineInv'
BY DEF EngineInv

(* The engine an executed search leaves open is the one that answered it,  *)
(* and that of every entry that was there before (server.rs 124-152).      *)
LEMMA ExecuteKeepsEngineInv ==
  ASSUME EngineInv, NEW fallback \in BOOLEAN, Execute(fallback)
  PROVE  EngineInv'
<1>. DEFINE e == [generation |-> context.generation, epoch |-> context.epoch,
                  life |-> context.life, view |-> engine']
<1>1. /\ engine' = OpenedEngine /\ UNCHANGED query
      /\ \/ UNCHANGED memo
         \/ engine' # None /\ memo' = [memo EXCEPT ![query] = e]
  BY DEF Execute
<1>2. engine # None => engine' = engine
  BY <1>1 DEF OpenedEngine
<1>3. CASE UNCHANGED memo
  BY <1>1, <1>2, <1>3 DEF EngineInv
<1>4. CASE engine' # None /\ memo' = [memo EXCEPT ![query] = e]
  <2>1. e.view = engine'
    OBVIOUS
  <2>. HIDE DEF e
  <2>2. /\ memo' = [q \in Queries |-> memo'[q]] /\ memo'[query] = e
        /\ \A q \in Queries : q # query => memo'[q] = memo[q]
    BY <1>4 DEF EngineInv
  <2>3. ASSUME NEW q \in Queries, memo'[q] # None PROVE memo'[q].view = engine'
    BY <1>2, <2>1, <2>2, <2>3 DEF EngineInv
  <2>. QED
    BY <1>1, <1>4, <2>2, <2>3 DEF EngineInv
<1>. QED
  BY <1>1, <1>3, <1>4

(* What is memoised was answered by the engine the next search would use,  *)
(* whatever fails, restarts or builds in between (server.rs                *)
(* invalidate_cached_engine and with_cached_engine, tools.rs 1750-1882).   *)
THEOREM MemoKeepsToItsEngine == ReuseSpec => []MemoFollowsEngine
<1>1. ReuseInit => EngineInv
  BY DEF ReuseInit, EngineInv
<1>2. EngineInv /\ [ReuseNext]_vars => EngineInv'
  <2>. SUFFICES ASSUME EngineInv, [ReuseNext]_vars PROVE EngineInv'
    OBVIOUS
  <2>1. ASSUME NEW q \in Queries, NEW force \in BOOLEAN, Call(q, force)
        PROVE  EngineInv'
    BY <2>1, RestKeepsEngineInv DEF Call
  <2>2. CASE Request
    <3>1. CASE \E fallback \in BOOLEAN : Execute(fallback)
      BY <3>1, ExecuteKeepsEngineInv
    <3>2. CASE ~ \E fallback \in BOOLEAN : Execute(fallback)
      <4>1. UNCHANGED <<memo, engine, query>>
        BY <2>2, <3>2 DEF Request, CheckReady, CheckFails, CheckRead,
           CheckFinish, StatusReady, StatusFails, StatusRead, ExecuteFails,
           Preload
      <4>. QED
        BY <4>1, RestKeepsEngineInv DEF EngineInv
    <3>. QED
      BY <3>1, <3>2
  <2>3. CASE Reindex
    BY <2>3 DEF Reindex, InvalidateCachedEngine, EngineInv
  <2>4. CASE \/ \E p \in Searchable : EditFile(p)
             \/ Watch \/ OtherRequest \/ Compact
             \/ DaemonRestart \/ OtherBuild \/ OtherRemove
             \/ UNCHANGED vars
    <3>1. UNCHANGED <<memo, engine, query>>
      BY <2>4 DEF EditFile, Watch, OtherRequest, Compact,
         DaemonRestart, OtherBuild, OtherRemove, clientVars, vars
    <3>. QED
      BY <3>1, RestKeepsEngineInv DEF EngineInv
  <2>. QED
    BY <2>1, <2>2, <2>3, <2>4 DEF ReuseNext
<1>3. EngineInv => MemoFollowsEngine
  BY DEF EngineInv, MemoFollowsEngine
<1>. QED
  BY <1>1, <1>2, <1>3, PTL DEF ReuseSpec
=============================================================================
