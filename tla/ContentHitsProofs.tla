--------------------------- MODULE ContentHitsProofs ---------------------------
(***************************************************************************)
(* Proofs about ContentHits: pruning by trigrams loses no match, for every *)
(* set of documents and every request whose seeds are required, literal    *)
(* requests always among them, and neither do the threads that share the   *)
(* limit, however many there are; no answer has more lines than its limit; *)
(* and the direct scan and the index find the same (Routing).  The last    *)
(* part shows which regexes have only seeds their matches require.         *)
(***************************************************************************)
EXTENDS Routing, FiniteSetTheorems, SequenceTheorems, WellFoundedInduction,
        TLAPS

-----------------------------------------------------------------------------
(* Pruning.                                                                *)

(* The trigrams of a word that stands in a document are in the document.   *)
LEMMA TrigramsInside ==
  ASSUME NEW d \in Docs, NEW r, NEW w \in Seq(Chars), NEW i \in Nat \ {0},
         StandsAt(d, r, w, i)
  PROVE  Trigrams(w) \subseteq Trigrams(Content[d])
<1>. DEFINE c == Content[d]
<1>1. c \in Seq(Chars) /\ Len(c) \in Nat /\ Len(w) \in Nat
  BY CandidatesAssumption
<1>2. i + Len(w) - 1 <= Len(c)
  BY DEF StandsAt
<1>3. \A k \in 1..Len(w) : Lower[w[k]] = Lower[c[i + k - 1]]
  BY DEF StandsAt, Alike
<1>. SUFFICES ASSUME NEW k \in 1..(Len(w) - 2)
              PROVE  <<Lower[w[k]], Lower[w[k + 1]], Lower[w[k + 2]]>>
                       \in Trigrams(c)
  BY DEF Trigrams
<1>. DEFINE j == i + k - 1
<1>4. j \in 1..(Len(c) - 2)
  BY <1>1, <1>2
<1>5. /\ Lower[w[k]] = Lower[c[j]]
      /\ Lower[w[k + 1]] = Lower[c[j + 1]]
      /\ Lower[w[k + 2]] = Lower[c[j + 2]]
  <2>1. /\ k \in 1..Len(w) /\ k + 1 \in 1..Len(w) /\ k + 2 \in 1..Len(w)
        /\ i + (k + 1) - 1 = j + 1 /\ i + (k + 2) - 1 = j + 2
    BY <1>1
  <2>. QED
    BY <1>3, <2>1
<1>. QED
  BY <1>4, <1>5 DEF Trigrams

(* A word of three characters or more has a trigram.                       *)
LEMMA LongHasTrigram ==
  ASSUME NEW s \in Seq(Chars), Len(s) >= 3
  PROVE  Trigrams(s) # {}
<1>1. 1 \in 1..(Len(s) - 2)
  OBVIOUS
<1>. QED
  BY <1>1 DEF Trigrams

(* A document that the filters let through and that has a match is looked  *)
(* at (search, fast_index_candidates, fast_candidates_for_seed).           *)
LEMMA MatchIsCandidate ==
  ASSUME NEW r \in Requests, SeedsRequired(r), NEW d \in Docs,
         PathMatchesFilters(d, r),
         r.kind # "path" => MatchPositions(d, r) # {}
  PROVE  d \in CandidateDocs(r)
<1>0. IsRequest(r)
  BY CandidatesAssumption
<1>1. d \in PathFilteredDocs(r)
  BY DEF PathMatchesFilters, PathFilteredDocs
<1>2. ASSUME r.kind # "path"
      PROVE  \E w \in Words(r) :
               /\ w \in Seq(Chars)
               /\ Trigrams(w) \subseteq Trigrams(Content[d])
  <2>1. PICK i \in 1..Len(Content[d]), w \in Words(r) : StandsAt(d, r, w, i)
    BY <1>2 DEF MatchPositions
  <2>2. w \in Seq(Chars)
    BY <1>0 DEF Words, IsRequest
  <2>3. i \in Nat \ {0}
    BY CandidatesAssumption
  <2>. QED
    BY <2>1, <2>2, <2>3, TrigramsInside
<1>3. CASE r.kind = "literal" /\ Len(r.pattern) >= 3
  <2>1. Words(r) = {r.pattern} /\ r.pattern \in Seq(Chars)
    BY <1>0, <1>3 DEF Words, IsRequest
  <2>2. d \in CandidatesForSeed(r.pattern)
    BY <1>2, <1>3, <2>1, LongHasTrigram DEF CandidatesForSeed
  <2>. QED
    BY <1>1, <1>3, <2>2 DEF CandidateDocs
<1>4. CASE r.kind = "regex" /\ Seeds(r) # {}
  <2>1. PICK w \in r.words : Trigrams(w) \subseteq Trigrams(Content[d])
    BY <1>2, <1>4 DEF Words
  <2>2. \A s \in Seeds(r) : s \in Seq(Chars) /\ Trigrams(s) # {}
    BY <1>4, LongHasTrigram DEF SeedsRequired, Seeds
  <2>3. \A s \in Seeds(r) : Trigrams(s) \subseteq Trigrams(w)
                              => d \in CandidatesForSeed(s)
    BY <2>1, <2>2 DEF CandidatesForSeed
  <2>4. d \in SeedsTogether(r)
    <3>1. CASE HasAlternation(r.pattern)
      <4>1. \E s \in Seeds(r) : Trigrams(s) \subseteq Trigrams(w)
        BY <1>4, <2>1, <3>1 DEF SeedsRequired
      <4>. QED
        BY <2>3, <3>1, <4>1 DEF SeedsTogether
    <3>2. CASE ~HasAlternation(r.pattern)
      <4>1. \A s \in Seeds(r) : Trigrams(s) \subseteq Trigrams(w)
        BY <1>4, <2>1, <3>2 DEF SeedsRequired
      <4>. QED
        BY <2>3, <3>2, <4>1 DEF SeedsTogether
    <3>. QED
      BY <3>1, <3>2
  <2>. QED
    BY <1>1, <1>4, <2>4 DEF CandidateDocs
<1>5. CASE /\ ~(r.kind = "literal" /\ Len(r.pattern) >= 3)
           /\ ~(r.kind = "regex" /\ Seeds(r) # {})
  BY <1>1, <1>5 DEF CandidateDocs
<1>. QED
  BY <1>3, <1>4, <1>5

-----------------------------------------------------------------------------
(* The threads.                                                            *)

(* What a step computes of the documents is a natural number.              *)
LEMMA LinesCounted ==
  ASSUME NEW d \in Docs, NEW r
  PROVE  /\ LineCount(d, r) \in Nat
         /\ LineCount(d, r) > 0 <=> MatchingLines(d, r) # {}
         /\ MatchingLines(d, r) # {} <=> MatchPositions(d, r) # {}
<1>. DEFINE n == Len(Content[d])
            L == MatchingLines(d, r)
<1>1. n \in Nat
  BY CandidatesAssumption
<1>2. ASSUME NEW i \in 1..n PROVE LineOf(d, i) \in 0..n
  <2>. DEFINE B == {j \in 1..(i - 1) : Content[d][j] = Newline}
  <2>0. 1 \in Int /\ i - 1 \in Int /\ (1 > i - 1 => i - 1 = 0)
    BY <1>1
  <2>1. IsFiniteSet(1..(i - 1)) /\ Cardinality(1..(i - 1)) = i - 1
    <3>1. /\ IsFiniteSet(1..(i - 1))
          /\ Cardinality(1..(i - 1))
               = IF 1 > i - 1 THEN 0 ELSE (i - 1) - 1 + 1
      BY <2>0, FS_Interval
    <3>. QED
      BY <2>0, <3>1
  <2>2. /\ IsFiniteSet(B) /\ Cardinality(B) <= i - 1
        /\ Cardinality(B) \in Nat
    BY <2>1, FS_Subset, FS_CardinalityType
  <2>. QED
    BY <1>1, <2>2 DEF LineOf
<1>3. L \subseteq 0..n
  BY <1>2 DEF MatchingLines, MatchPositions
<1>4. IsFiniteSet(L)
  <2>1. 0 \in Int /\ n \in Int
    BY <1>1
  <2>2. IsFiniteSet(0..n)
    BY <2>1, FS_Interval
  <2>. HIDE DEF L, n
  <2>. QED
    BY <1>3, <2>2, FS_Subset
<1>5. Cardinality(L) \in Nat /\ (Cardinality(L) = 0 <=> L = {})
  BY <1>4, FS_CardinalityType, FS_EmptySet
<1>. QED
  BY <1>5 DEF LineCount, MatchingLines

(* Candidates are documents.                                               *)
LEMMA CandidatesAreDocs == CandidateDocs(request) \subseteq Docs
BY DEF CandidateDocs, PathFilteredDocs

(* At the start every candidate is still to do.                            *)
LEMMA InitMakesHitsInv == Init => HitsInv
<1>. SUFFICES ASSUME Init PROVE HitsInv
  OBVIOUS
<1>1. IsRequest(request)
  BY CandidatesAssumption DEF Init
<1>2. request.max \in Nat
  BY <1>1 DEF IsRequest
<1>3. TypeOK
  BY CandidatesAreDocs DEF Init, TypeOK, Idle, At
<1>. QED
  BY <1>2, <1>3 DEF Init, HitsInv, Idle, At, Settled

(* The part of the invariant about searches of content, by its parts.      *)
Content1(t) ==
  /\ thread[t].step # "idle" => thread[t].doc \in Docs
  /\ thread[t].step = "full" => total = request.max
  /\ thread[t].step \in {"found", "swap"} =>
       /\ thread[t].found \in 1..LineCount(thread[t].doc, request)
       /\ thread[t].found < LineCount(thread[t].doc, request)
            => total + thread[t].found >= request.max
  /\ thread[t].step = "swap" => thread[t].prev <= total

(* A thread's state is of its type.                                        *)
State == [step : {"idle", "read", "found", "swap", "full"},
          doc : Docs \cup {NoDoc}, found : Nat, prev : Nat]

(* Thread t goes to state s and keeps its part of the invariant, and the   *)
(* document it lets go of is settled or the limit reached.                 *)
Settles(t) ==
  \/ thread[t].doc \in unreadable'
  \/ LineCount(thread[t].doc, request) \in {0, kept'[thread[t].doc]}
  \/ total' = request.max

Moves(t, s) ==
  /\ s \in State /\ Goes(t, s)
  /\ total' >= total
  /\ total' <= request.max
  /\ done' => total' = request.max
  /\ unreadable \subseteq unreadable'
  /\ todo' \subseteq todo
  /\ \A d \in todo \ todo' : s.doc = d \/ total = request.max
  /\ \A d \in Docs : d = thread[t].doc \/ kept'[d] = kept[d]
  /\ s.step # "idle" => s.doc \in Docs
  /\ s.step = "full" => total' = request.max
  /\ s.step \in {"found", "swap"} =>
       /\ s.found \in 1..LineCount(s.doc, request)
       /\ s.found < LineCount(s.doc, request)
            => total' + s.found >= request.max
  /\ s.step = "swap" => s.prev <= total'
  /\ thread[t].doc \in Docs => thread[t].doc = s.doc \/ Settles(t)

(* The invariant is kept by such a move.                                   *)
LEMMA OneMoves ==
  ASSUME HitsInv, request.kind # "path", UNCHANGED request,
         total' \in Nat, done' \in BOOLEAN, kept' \in [Docs -> Nat],
         unreadable' \in SUBSET Docs,
         NEW t \in Threads, NEW s, Moves(t, s)
  PROVE  HitsInv'
<1>. USE DEF Moves
<1>1. /\ thread \in [Threads -> State] /\ total \in Nat
      /\ request \in Requests /\ total <= request.max
      /\ todo \subseteq CandidateDocs(request) /\ kept \in [Docs -> Nat]
      /\ todo \in SUBSET Docs
  BY DEF HitsInv, TypeOK, State
<1>2. request.max \in Nat
  BY <1>1, CandidatesAssumption DEF IsRequest
<1>3. /\ thread' \in [Threads -> State] /\ thread'[t] = s
      /\ \A u \in Threads : u # t => thread'[u] = thread[u]
  BY <1>1 DEF Goes
<1>4. TypeOK'
  BY <1>1, <1>3 DEF TypeOK, State
<1>5. \A d \in Docs : LineCount(d, request) \in Nat
  BY LinesCounted
<1>6. CandidateDocs(request)' = CandidateDocs(request)
  OBVIOUS
<1>7. ASSUME NEW u \in Threads PROVE Content1(u)'
  <2>1. CASE u = t
    BY <1>3, <1>5, <2>1 DEF Content1
  <2>2. CASE u # t
    <3>1. Content1(u)
      BY DEF HitsInv, Content1
    <3>2. thread'[u] = thread[u] /\ thread[u] \in State
      BY <1>1, <1>3, <2>2
    <3>3. total = request.max => total' = request.max
      BY <1>1, <1>2
    <3>4. thread[u].step \in {"found", "swap"} =>
            /\ thread[u].found \in 1..LineCount(thread[u].doc, request)
            /\ thread[u].found < LineCount(thread[u].doc, request)
                 => total' + thread[u].found >= request.max
      <4>. SUFFICES ASSUME thread[u].step \in {"found", "swap"},
                           thread[u].found < LineCount(thread[u].doc, request)
                    PROVE  total' + thread[u].found >= request.max
        BY <3>1 DEF Content1
      <4>1. total + thread[u].found >= request.max
        BY <3>1 DEF Content1
      <4>. QED
        BY <1>1, <1>2, <3>2, <4>1 DEF State
    <3>5. thread[u].step = "swap" => thread'[u].prev <= total'
      BY <1>1, <3>1, <3>2 DEF Content1, State
    <3>. QED
      BY <3>1, <3>2, <3>3, <3>4, <3>5 DEF Content1
  <2>. QED
    BY <2>1, <2>2
<1>8. ASSUME NEW d \in CandidateDocs(request), Settled(d)'
      PROVE  LineCount(d, request) \in {0, kept'[d]} \/ total' = request.max
  <2>1. d \in Docs /\ d \notin todo' /\ d \notin unreadable'
        /\ \A u \in Threads : thread'[u].doc # d
    BY <1>8, CandidatesAreDocs DEF Settled, Held
  <2>2. CASE d \in todo
    BY <1>1, <1>2, <1>3, <2>1, <2>2
  <2>3. CASE d \notin todo /\ d = thread[t].doc
    BY <1>3, <1>5, <2>1, <2>3 DEF Settles
  <2>4. CASE d \notin todo /\ d # thread[t].doc
    <3>1. d \notin Held
      <4>. SUFFICES ASSUME NEW u \in Threads, thread[u].doc = d PROVE FALSE
        BY DEF Held
      <4>. QED
        BY <1>3, <2>1, <2>4
    <3>2. Settled(d)
      BY <2>1, <2>4, <3>1 DEF Settled
    <3>3. LineCount(d, request) \in {0, kept[d]} \/ total = request.max
      BY <3>2 DEF HitsInv
    <3>4. total = request.max => total' = request.max
      BY <1>1, <1>2
    <3>. QED
      BY <1>5, <2>1, <2>4, <3>3, <3>4
  <2>. QED
    BY <2>2, <2>3, <2>4
<1>. QED
  BY <1>1, <1>4, <1>6, <1>7, <1>8 DEF HitsInv, Content1

(* Every step keeps the invariant.                                         *)
LEMMA StepKeepsHitsInv ==
  ASSUME HitsInv, [Next]_vars
  PROVE  HitsInv'
<1>1. /\ thread \in [Threads -> State] /\ total \in Nat
      /\ request \in Requests /\ request.max \in Nat
      /\ done \in BOOLEAN /\ kept \in [Docs -> Nat]
      /\ unreadable \in SUBSET Docs /\ todo \in SUBSET Docs
  BY CandidatesAssumption DEF HitsInv, TypeOK, State, IsRequest
<1>2. \A d \in Docs : LineCount(d, request) \in Nat
  BY LinesCounted
<1>3. Idle \in State /\ Idle.step = "idle" /\ Idle.doc = NoDoc /\ NoDoc \notin Docs
  BY HitsAssumption DEF Idle, At, State
<1>4. CASE PathHits
  <2>1. /\ request.kind = "path" /\ todo' = {}
        /\ kept' = [d \in Docs |-> IF d \in todo THEN 1 ELSE 0]
        /\ total' = Cardinality(todo)
        /\ UNCHANGED <<request, thread, done, unreadable>>
        /\ todo # {}
    BY <1>4 DEF PathHits
  <2>2. total' \in Nat
    BY <1>1, <2>1, CandidatesAssumption, FS_Subset, FS_CardinalityType
  <2>3. TypeOK'
    BY <1>1, <2>1, <2>2 DEF TypeOK, State
  <2>4. todo = CandidateDocs(request) /\ CandidateDocs(request) \subseteq Docs
    BY <2>1, CandidatesAreDocs DEF HitsInv
  <2>5. \A t \in Threads : thread[t] = Idle
    BY <2>1 DEF HitsInv
  <2>. QED
    BY <2>1, <2>3, <2>4, <2>5 DEF HitsInv
<1>5. ASSUME NEW t \in Threads, Work(t) PROVE HitsInv'
  <2>0. request.kind # "path"
    <3>1. CASE request.kind = "path"
      <4>1. thread[t].step = "idle"
        BY <1>3, <3>1 DEF HitsInv
      <4>. QED
        BY <1>5, <3>1, <4>1 DEF Work, Take, ReadFails, Look, Load, Swap, SetDone
    <3>. QED
      BY <3>1
  <2>1. /\ total <= request.max
        /\ done => total = request.max
        /\ Content1(t) /\ thread[t] \in State
    BY <1>1, <2>0 DEF HitsInv, Content1
  <2>2. /\ unreadable \subseteq unreadable \cup {thread[t].doc}
        /\ total \in Nat /\ total >= total
    BY <1>1
  <2>3. ASSUME NEW d \in Docs, Take(t, d) PROVE HitsInv'
    <3>1. /\ todo' = todo \ {d} /\ thread[t] = Idle
          /\ UNCHANGED <<request, total, done, kept, unreadable>>
          /\ Goes(t, IF done THEN Idle ELSE At("read", d, 0, 0))
      BY <2>3 DEF Take
    <3>2. PICK s : /\ Goes(t, s) /\ s \in State
                   /\ s.step \in {"idle", "read"}
                   /\ s.step # "idle" => s.doc \in Docs
                   /\ s.doc = d \/ total = request.max
      <4>1. CASE done
        <5>1. Goes(t, Idle)
          BY <3>1, <4>1
        <5>2. total = request.max
          BY <2>1, <4>1
        <5>. QED
          BY <1>3, <5>1, <5>2
      <4>2. CASE ~done
        <5>1. At("read", d, 0, 0) \in State
          BY DEF At, State
        <5>2. Goes(t, At("read", d, 0, 0))
          BY <3>1, <4>2
        <5>. QED
          BY <5>1, <5>2 DEF At
      <4>. QED
        BY <4>1, <4>2
    <3>3. \A e \in todo \ todo' : s.doc = e \/ total = request.max
      BY <3>1, <3>2
    <3>4. \A e \in Docs : kept'[e] = kept[e]
      BY <3>1
    <3>5. /\ total' \in Nat /\ total' >= total /\ total' <= request.max
          /\ done' => total' = request.max
      <4>1. total' = total
        BY <3>1
      <4>2. done' => total' = request.max
        BY <2>1, <3>1
      <4>. QED
        BY <1>1, <2>1, <4>1, <4>2
    <3>6. thread[t].doc \notin Docs
      BY <1>3, <3>1
    <3>7. Moves(t, s)
      BY <3>1, <3>2, <3>3, <3>4, <3>5, <3>6 DEF Moves
    <3>. QED
      BY <1>1, <2>0, <3>1, <3>5, <3>7, OneMoves
  <2>4. CASE ReadFails(t)
    <3>1. /\ Goes(t, Idle) /\ thread[t].step = "read"
          /\ unreadable' = unreadable \cup {thread[t].doc}
          /\ UNCHANGED <<request, todo, total, done, kept>>
      BY <2>4 DEF ReadFails
    <3>2. thread[t].doc \in Docs
      BY <2>1, <3>1 DEF Content1
    <3>3. Moves(t, Idle)
      BY <1>1, <1>3, <2>1, <3>1, <3>2 DEF Moves, Settles
    <3>. QED
      BY <1>1, <2>0, <3>1, <3>2, <3>3, OneMoves
  <2>5. CASE Look(t)
    <3>. DEFINE d == thread[t].doc
                n == LineCount(d, request)
                m == request.max - total
                found == Smaller(n, m)
    <3>1. /\ thread[t].step = "read"
          /\ done' = (done \/ m = 0)
          /\ Goes(t, IF found = 0 THEN Idle ELSE At("found", d, found, 0))
          /\ UNCHANGED <<request, todo, total, kept, unreadable>>
      BY <2>5 DEF Look, Missing
    <3>2. /\ d \in Docs /\ n \in Nat /\ m \in Nat /\ found \in Nat
          /\ found <= n /\ found <= m /\ (found = n \/ found = m)
      BY <1>1, <1>2, <2>1, <3>1 DEF Content1, Smaller
    <3>3. /\ done' => total' = request.max
          /\ done' \in BOOLEAN
      BY <1>1, <2>1, <3>1
    <3>4. CASE found = 0
      <4>1. Goes(t, Idle)
        BY <3>1, <3>4
      <4>2. Settles(t)
        BY <1>1, <3>1, <3>2, <3>4 DEF Settles
      <4>. HIDE DEF found
      <4>3. Moves(t, Idle)
        BY <1>1, <1>3, <2>1, <3>1, <3>3, <4>1, <4>2 DEF Moves
      <4>. QED
        BY <1>1, <2>0, <3>1, <3>3, <4>3, OneMoves
    <3>5. CASE found # 0
      <4>. DEFINE s == At("found", d, found, 0)
      <4>1. /\ Goes(t, s) /\ s \in State /\ s.step = "found"
            /\ s.doc = d /\ s.found = found
        BY <3>1, <3>2, <3>5 DEF At, State
      <4>2. s.found \in 1..n /\ (s.found < n => total' + s.found >= request.max)
        BY <1>1, <3>1, <3>2, <3>5, <4>1
      <4>. HIDE DEF s
      <4>3. Moves(t, s)
        BY <1>1, <2>1, <3>1, <3>2, <3>3, <4>1, <4>2 DEF Moves
      <4>. QED
        BY <1>1, <2>0, <3>1, <3>3, <4>3, OneMoves
    <3>. QED
      BY <3>4, <3>5
  <2>6. CASE Load(t)
    <3>. DEFINE m == request.max - total
                s == [thread[t] EXCEPT !.step = "swap", !.prev = total]
    <3>1. /\ thread[t].step = "found"
          /\ done' = (done \/ m = 0)
          /\ Goes(t, IF m = 0 THEN Idle ELSE s)
          /\ UNCHANGED <<request, todo, total, kept, unreadable>>
      BY <2>6 DEF Load, Missing
    <3>2. /\ done' => total' = request.max
          /\ done' \in BOOLEAN
      BY <1>1, <2>1, <3>1
    <3>3. CASE m = 0
      <4>1. Goes(t, Idle)
        BY <3>1, <3>3
      <4>2. Settles(t)
        BY <1>1, <3>1, <3>3 DEF Settles
      <4>. HIDE DEF m
      <4>3. Moves(t, Idle)
        BY <1>1, <1>3, <2>1, <3>1, <3>2, <4>1, <4>2 DEF Moves
      <4>. QED
        BY <1>1, <2>0, <3>1, <3>2, <4>3, OneMoves
    <3>4. CASE m # 0
      <4>1. /\ Goes(t, s) /\ s \in State /\ s.step = "swap"
            /\ s.doc = thread[t].doc /\ s.found = thread[t].found
            /\ s.prev = total
        BY <1>1, <2>1, <3>1, <3>4 DEF State
      <4>. HIDE DEF s, m
      <4>2. Moves(t, s)
        BY <1>1, <2>1, <3>1, <3>2, <4>1 DEF Moves, Content1
      <4>. QED
        BY <1>1, <2>0, <3>1, <3>2, <4>2, OneMoves
    <3>. QED
      BY <3>3, <3>4
  <2>7. CASE Swap(t)
    <3>. DEFINE d == thread[t].doc
                n == LineCount(d, request)
                found == thread[t].found
                m == request.max - thread[t].prev
                keep == Smaller(found, m)
    <3>1. /\ thread[t].step = "swap"
          /\ UNCHANGED <<request, todo, done, unreadable>>
      BY <2>7 DEF Swap
    <3>2. CASE total = thread[t].prev
      <4>1. /\ total' = total + keep
            /\ kept' = [kept EXCEPT ![d] = keep]
            /\ Goes(t, IF total' >= request.max THEN At("full", d, 0, 0)
                                                ELSE Idle)
        BY <2>7, <3>2 DEF Swap, Unchanged
      <4>2. /\ d \in Docs /\ n \in Nat /\ found \in 1..n
            /\ found < n => total + found >= request.max
            /\ m = request.max - total /\ m \in Nat
        BY <1>1, <1>2, <2>1, <3>1, <3>2 DEF Content1
      <4>3. /\ keep \in Nat /\ keep <= m /\ keep <= found
            /\ keep = found \/ keep = m
        BY <4>2 DEF Smaller
      <4>4. /\ total' \in Nat /\ total' >= total /\ total' <= request.max
            /\ total' = request.max \/ keep = n
        BY <1>1, <4>1, <4>2, <4>3
      <4>5. /\ kept' \in [Docs -> Nat] /\ kept'[d] = keep
            /\ \A e \in Docs : e = d \/ kept'[e] = kept[e]
        BY <1>1, <4>1, <4>2, <4>3
      <4>6. done' => total' = request.max
        BY <1>1, <2>1, <3>1, <4>4
      <4>7. Settles(t)
        BY <4>4, <4>5 DEF Settles
      <4>8. CASE total' >= request.max
        <5>. DEFINE s == At("full", d, 0, 0)
        <5>1. /\ Goes(t, s) /\ s \in State /\ s.step = "full" /\ s.doc = d
              /\ total' = request.max
          BY <1>1, <4>1, <4>2, <4>4, <4>8 DEF At, State
        <5>. HIDE DEF s
        <5>2. Moves(t, s)
          BY <3>1, <4>2, <4>4, <4>5, <4>6, <4>7, <5>1 DEF Moves
        <5>. QED
          BY <1>1, <2>0, <3>1, <4>4, <4>5, <5>2, OneMoves
      <4>9. CASE ~(total' >= request.max)
        <5>1. Goes(t, Idle)
          BY <4>1, <4>9
        <5>2. Moves(t, Idle)
          BY <1>3, <3>1, <4>2, <4>4, <4>5, <4>6, <4>7, <5>1 DEF Moves
        <5>. QED
          BY <1>1, <2>0, <3>1, <4>4, <4>5, <5>2, OneMoves
      <4>. QED
        BY <4>8, <4>9
    <3>3. CASE total # thread[t].prev
      <4>. DEFINE s == [thread[t] EXCEPT !.step = "found", !.prev = 0]
      <4>1. Goes(t, s) /\ UNCHANGED <<total, kept>>
        BY <2>7, <3>3 DEF Swap, Unchanged, Retry
      <4>2. /\ s \in State /\ s.step = "found" /\ s.doc = d
            /\ s.found = found
        BY <2>1 DEF State
      <4>. HIDE DEF s
      <4>3. done' => total' = request.max
        BY <2>1, <3>1, <4>1
      <4>4. Moves(t, s)
        BY <1>1, <2>1, <3>1, <4>1, <4>2, <4>3 DEF Moves, Content1
      <4>. QED
        BY <1>1, <2>0, <3>1, <4>1, <4>4, OneMoves
    <3>. QED
      BY <3>2, <3>3
  <2>8. CASE SetDone(t)
    <3>1. /\ thread[t].step = "full" /\ done' = TRUE /\ Goes(t, Idle)
          /\ UNCHANGED <<request, todo, total, kept, unreadable>>
      BY <2>8 DEF SetDone
    <3>2. total = request.max /\ Settles(t)
      BY <2>1, <3>1 DEF Content1, Settles
    <3>3. Moves(t, Idle)
      BY <1>1, <1>3, <2>1, <3>1, <3>2 DEF Moves
    <3>. QED
      BY <1>1, <2>0, <3>1, <3>3, OneMoves
  <2>. QED
    BY <1>5, <2>3, <2>4, <2>5, <2>6, <2>7, <2>8 DEF Work
<1>6. CASE UNCHANGED vars
  BY <1>6 DEF vars, HitsInv, TypeOK, Settled, Held
<1>. QED
  BY <1>4, <1>5, <1>6 DEF Next

-----------------------------------------------------------------------------
(* The theorems.                                                           *)

(* Below the limit nothing is set aside, in every reachable state of a     *)
(* search (collect_content_hits_parallel, engine.rs 670-786).              *)
THEOREM HitsInvHolds == Spec => []HitsInv
<1>1. Init => HitsInv
  BY InitMakesHitsInv
<1>2. HitsInv /\ [Next]_vars => HitsInv'
  BY StepKeepsHitsInv
<1>. QED
  BY <1>1, <1>2, PTL DEF Spec

(* An answer below its limit is complete, if the seeds of every regex are  *)
(* required by what it matches (SeedsRequired); requests without a regex   *)
(* need no such assumption.                                                *)
THEOREM NothingIsMissed ==
  ASSUME \A r \in Requests : SeedsRequired(r)
  PROVE  Spec => []MissesNothing
<1>1. HitsInv => MissesNothing
  <2>. SUFFICES ASSUME HitsInv, Finished,
                       request.kind = "path" \/ total < request.max,
                       NEW d \in Docs \ unreadable, Wanted(d)
                PROVE  kept[d] = IF request.kind = "path" THEN 1
                                 ELSE LineCount(d, request)
    BY DEF MissesNothing
  <2>1. request \in Requests /\ total \in Nat
    BY DEF HitsInv, TypeOK
  <2>2. d \in CandidateDocs(request)
    BY <2>1, LinesCounted, MatchIsCandidate DEF Wanted
  <2>3. CASE request.kind = "path"
    BY <2>2, <2>3 DEF HitsInv, Finished
  <2>4. CASE request.kind # "path"
    <3>1. Settled(d)
      BY HitsAssumption DEF Settled, Held, Finished, Idle, At
    <3>2. LineCount(d, request) \in {0, kept[d]} \/ total = request.max
      BY <2>2, <2>4, <3>1 DEF HitsInv
    <3>3. LineCount(d, request) # 0
      BY <2>4, LinesCounted DEF Wanted
    <3>4. request.max \in Nat
      BY <2>1, CandidatesAssumption DEF IsRequest
    <3>. QED
      BY <2>1, <2>4, <3>2, <3>3, <3>4
  <2>. QED
    BY <2>3, <2>4
<1>. QED
  BY <1>1, HitsInvHolds, PTL

-----------------------------------------------------------------------------
(* No false hits.                                                          *)

(* Only candidates are looked at, and no more of a document is kept than   *)
(* was found in it.                                                        *)
MatchInv ==
  /\ \A t \in Threads :
       thread[t].step # "idle" => thread[t].doc \in CandidateDocs(request)
  /\ \A d \in Docs :
       kept[d] > 0 =>
         /\ d \in CandidateDocs(request)
         /\ request.kind # "path" => kept[d] <= LineCount(d, request)

(* The answer to a path request is its candidates.                         *)
LEMMA PathHitsKeepMatchInv ==
  ASSUME HitsInv, MatchInv, PathHits
  PROVE  MatchInv'
<1>1. /\ request.kind = "path" /\ todo \subseteq CandidateDocs(request)
      /\ kept' = [d \in Docs |-> IF d \in todo THEN 1 ELSE 0]
      /\ UNCHANGED <<request, thread>>
  BY DEF PathHits, HitsInv
<1>. QED
  BY <1>1 DEF MatchInv

(* A thread that goes on with its document, or leaves it, keeps nothing.   *)
LEMMA GoingKeepsMatchInv ==
  ASSUME HitsInv, MatchInv, UNCHANGED <<request, kept>>, NEW t \in Threads,
         NEW s, Goes(t, s),
         s.step # "idle" => s.doc \in CandidateDocs(request)
  PROVE  MatchInv'
<1>1. thread'[t] = s /\ \A u \in Threads : u # t => thread'[u] = thread[u]
  BY DEF Goes, HitsInv, TypeOK
<1>. QED
  BY <1>1 DEF MatchInv

(* The exchange that succeeds keeps at most the lines that were found.     *)
LEMMA SwapKeepsMatchInv ==
  ASSUME HitsInv, MatchInv, NEW t \in Threads, Swap(t), request.kind # "path"
  PROVE  MatchInv'
<1>. DEFINE d == thread[t].doc
            found == thread[t].found
            room == request.max - thread[t].prev
            keep == Smaller(found, room)
<1>1. /\ thread[t].step = "swap" /\ UNCHANGED request
      /\ d \in Docs /\ d \in CandidateDocs(request)
      /\ found \in 1..LineCount(d, request)
      /\ thread[t] \in State /\ request \in Requests /\ kept \in [Docs -> Nat]
  BY DEF Swap, HitsInv, MatchInv, TypeOK, State
<1>2. LineCount(d, request) \in Nat /\ request.max \in Nat /\ thread[t].prev \in Nat
  BY <1>1, LinesCounted, CandidatesAssumption DEF IsRequest, State
<1>3. keep \in Int /\ keep <= LineCount(d, request)
  BY <1>1, <1>2 DEF Smaller
<1>4. CASE Unchanged(t)
  <2>1. /\ kept' = [kept EXCEPT ![d] = keep]
        /\ \E s : Goes(t, s) /\ (s.step # "idle" => s.doc = d)
    <3>1. /\ At("full", d, 0, 0).doc = d
          /\ Idle.step = "idle"
      BY DEF At, Idle
    <3>. QED
      BY <1>4, <3>1 DEF Swap
  <2>. HIDE DEF keep
  <2>2. \A e \in Docs : kept'[e] = IF e = d THEN keep ELSE kept[e]
    BY <1>1, <2>1
  <2>3. \A u \in Threads : u # t => thread'[u] = thread[u]
    BY <2>1 DEF Goes, HitsInv, TypeOK
  <2>4. thread'[t].step # "idle" => thread'[t].doc = d
    BY <2>1 DEF Goes, HitsInv, TypeOK
  <2>. QED
    BY <1>1, <1>3, <2>2, <2>3, <2>4 DEF MatchInv
<1>5. CASE ~Unchanged(t)
  <2>1. /\ Goes(t, [thread[t] EXCEPT !.step = "found", !.prev = 0])
        /\ UNCHANGED <<request, kept>>
    BY <1>1, <1>5 DEF Swap, Retry
  <2>2. [thread[t] EXCEPT !.step = "found", !.prev = 0].doc = d
    BY <1>1 DEF State
  <2>. QED
    BY <1>1, <2>1, <2>2, GoingKeepsMatchInv
<1>. QED
  BY <1>4, <1>5

(* Every step keeps to the candidates and to what was found.               *)
LEMMA StepKeepsMatchInv ==
  ASSUME HitsInv, MatchInv, [Next]_vars
  PROVE  MatchInv'
<1>0. Idle.step = "idle"
  BY DEF Idle, At
<1>1. ASSUME NEW t \in Threads, Work(t), ~Swap(t) PROVE MatchInv'
  <2>1. thread[t] \in State /\ todo \subseteq CandidateDocs(request)
    BY DEF HitsInv, TypeOK, State
  <2>2. UNCHANGED <<request, kept>>
    BY <1>1 DEF Work, Take, ReadFails, Look, Load, SetDone
  <2>3. ASSUME NEW d \in Docs, Take(t, d) PROVE MatchInv'
    <3>1. d \in CandidateDocs(request) /\ At("read", d, 0, 0).doc = d
      BY <2>1, <2>3 DEF Take, At
    <3>2. Goes(t, Idle) \/ Goes(t, At("read", d, 0, 0))
      BY <2>3 DEF Take
    <3>. QED
      BY <1>0, <2>2, <3>1, <3>2, GoingKeepsMatchInv
  <2>4. CASE ReadFails(t) \/ SetDone(t)
    BY <1>0, <2>2, <2>4, GoingKeepsMatchInv DEF ReadFails, SetDone
  <2>5. CASE Look(t)
    <3>. DEFINE found == Smaller(LineCount(thread[t].doc, request), Missing)
                s == At("found", thread[t].doc, found, 0)
    <3>1. thread[t].doc \in CandidateDocs(request) /\ s.doc = thread[t].doc
      BY <2>5 DEF Look, MatchInv, At
    <3>2. Goes(t, Idle) \/ Goes(t, s)
      BY <2>5 DEF Look
    <3>. HIDE DEF s
    <3>. QED
      BY <1>0, <2>2, <3>1, <3>2, GoingKeepsMatchInv
  <2>6. CASE Load(t)
    <3>. DEFINE s == [thread[t] EXCEPT !.step = "swap", !.prev = total]
    <3>1. thread[t].doc \in CandidateDocs(request) /\ s.doc = thread[t].doc
      BY <2>1, <2>6 DEF Load, MatchInv, State
    <3>2. Goes(t, Idle) \/ Goes(t, s)
      BY <2>6 DEF Load
    <3>. HIDE DEF s
    <3>. QED
      BY <1>0, <2>2, <3>1, <3>2, GoingKeepsMatchInv
  <2>. QED
    BY <1>1, <2>3, <2>4, <2>5, <2>6 DEF Work
<1>2. ASSUME NEW t \in Threads, Swap(t) PROVE MatchInv'
  <2>1. request.kind # "path"
    <3>. SUFFICES ASSUME request.kind = "path" PROVE FALSE
      OBVIOUS
    <3>1. thread[t].step = "idle"
      BY <1>0 DEF HitsInv
    <3>. QED
      BY <1>2, <3>1 DEF Swap
  <2>. QED
    BY <1>2, <2>1, SwapKeepsMatchInv
<1>3. CASE UNCHANGED vars
  BY <1>3 DEF vars, MatchInv
<1>. QED
  BY <1>1, <1>2, <1>3, PathHitsKeepMatchInv DEF Next

(* No hit is one that a direct scan would not report, whichever threads    *)
(* exchange in which order (collect_content_hits_parallel, engine.rs).     *)
THEOREM EveryHitMatches == Spec => []HitsAreMatches
<1>1. Init => MatchInv
  <2>. SUFFICES ASSUME Init PROVE MatchInv
    OBVIOUS
  <2>1. /\ \A t \in Threads : thread[t].step = "idle"
        /\ \A d \in Docs : kept[d] = 0
    BY DEF Init, Idle, At
  <2>. QED
    BY <2>1 DEF MatchInv
<1>2. HitsInv /\ MatchInv /\ [Next]_vars => MatchInv'
  BY StepKeepsMatchInv
<1>3. HitsInv /\ MatchInv => HitsAreMatches
  <2>. SUFFICES ASSUME HitsInv, MatchInv, NEW d \in Docs, kept[d] > 0,
                       ~PathIsAlternative
                PROVE  /\ Wanted(d)
                       /\ request.kind # "path" => kept[d] <= LineCount(d, request)
    BY DEF HitsAreMatches
  <2>1. d \in PathFilteredDocs(request)
    BY DEF MatchInv, CandidateDocs
  <2>2. request \in Requests /\ kept[d] \in Nat
    BY DEF HitsInv, TypeOK
  <2>3. request.kind # "path" => kept[d] <= LineCount(d, request)
    BY DEF MatchInv
  <2>4. request.kind # "path" => MatchingLines(d, request) # {}
    BY <2>2, <2>3, LinesCounted
  <2>5. \A k \in FilterKinds :
          request.filters[k] = {} \/ d \in UNION request.filters[k]
          \/ (request.kind = "path" /\ k = "path_substrings")
    BY <2>1 DEF PathFilteredDocs
  <2>6. request.kind = "path" => d \in request.named
    BY <2>1 DEF PathFilteredDocs, PathIsAlternative, FilterKinds
  <2>7. PathMatchesFilters(d, request)
    BY <2>5, <2>6 DEF PathMatchesFilters, PathIsAlternative
  <2>. QED
    BY <2>3, <2>4, <2>7 DEF Wanted
<1>. QED
  BY <1>1, <1>2, <1>3, HitsInvHolds, PTL DEF Spec

-----------------------------------------------------------------------------
(* The lines of an answer.                                                 *)

(* One mark for each line an answer has of the documents of a set.         *)
Marks(answer, docs) == {m \in docs \X Nat : m[2] \in 1..answer[m[1]]}

Count(answer) == Cardinality(Marks(answer, Docs))

(* A document adds its lines.                                              *)
LEMMA MarksOfOne ==
  ASSUME NEW answer \in [Docs -> Nat], NEW d \in Docs
  PROVE  /\ IsFiniteSet({d} \X (1..answer[d]))
         /\ Cardinality({d} \X (1..answer[d])) = answer[d]
<1>1. answer[d] \in Nat /\ answer[d] \in Int /\ 1 \in Int /\ (1 > answer[d] <=> answer[d] = 0)
  OBVIOUS
<1>2. IsFiniteSet(1..answer[d]) /\ Cardinality(1..answer[d]) = answer[d]
  <2>1. /\ IsFiniteSet(1..answer[d])
        /\ Cardinality(1..answer[d]) = IF 1 > answer[d] THEN 0 ELSE answer[d] - 1 + 1
    BY <1>1, FS_Interval
  <2>. QED
    BY <1>1, <2>1
<1>3. IsFiniteSet({d}) /\ Cardinality({d}) = 1
  BY FS_Singleton
<1>4. /\ IsFiniteSet({d} \X (1..answer[d]))
      /\ Cardinality({d} \X (1..answer[d])) = Cardinality({d}) * Cardinality(1..answer[d])
  BY <1>2, <1>3, FS_Product
<1>. QED
  BY <1>1, <1>2, <1>3, <1>4

(* An answer has finitely many lines.                                     *)
LEMMA MarksAreFinite ==
  ASSUME NEW answer \in [Docs -> Nat], NEW docs \in SUBSET Docs
  PROVE  IsFiniteSet(Marks(answer, docs)) /\ Cardinality(Marks(answer, docs)) \in Nat
<1>. DEFINE part == [d \in docs |-> {d} \X (1..answer[d])]
            parts == {part[d] : d \in docs}
<1>1. IsFiniteSet(docs)
  BY CandidatesAssumption, FS_Subset
<1>2. IsFiniteSet(parts)
  <2>1. part \in Surjection(docs, parts)
    BY DEF Surjection
  <2>. HIDE DEF part, parts
  <2>. QED
    BY <1>1, <2>1, FS_Surjection
<1>3. \A p \in parts : IsFiniteSet(p)
  BY MarksOfOne
<1>4. IsFiniteSet(UNION parts)
  BY <1>2, <1>3, FS_UNION
<1>5. Marks(answer, docs) \in SUBSET UNION parts
  BY DEF Marks
<1>. HIDE DEF parts
<1>. QED
  BY <1>4, <1>5, FS_Subset, FS_CardinalityType

(* The lines of some documents are those of one and those of the others.   *)
LEMMA MarksAdd ==
  ASSUME NEW answer \in [Docs -> Nat], NEW docs \in SUBSET Docs, NEW d \in docs
  PROVE  Cardinality(Marks(answer, docs)) = answer[d] + Cardinality(Marks(answer, docs \ {d}))
<1>. DEFINE A == Marks(answer, docs \ {d})
            B == {d} \X (1..answer[d])
<1>1. Marks(answer, docs) = A \cup B
  BY DEF Marks
<1>2. A \cap B = {}
  BY DEF Marks
<1>3. IsFiniteSet(A) /\ Cardinality(A) \in Nat /\ IsFiniteSet(B) /\ Cardinality(B) = answer[d]
  BY MarksAreFinite, MarksOfOne
<1>4. answer[d] \in Nat
  OBVIOUS
<1>6. A = Marks(answer, docs \ {d})
  OBVIOUS
<1>. HIDE DEF A, B
<1>5. Cardinality(A \cup B) = Cardinality(A) + Cardinality(B) - Cardinality(A \cap B)
  BY <1>3, FS_Union
<1>7. Cardinality(A \cap B) = 0
  BY <1>2, FS_EmptySet
<1>8. Cardinality(A \cup B) = answer[d] + Cardinality(A)
  BY <1>3, <1>4, <1>5, <1>7
<1>. QED
  BY <1>1, <1>6, <1>8

(* The sum of an answer is the number of its marks: both add the lines of  *)
(* a chosen document to those of the others.                               *)
LEMMA LinesAreMarks ==
  ASSUME NEW answer \in [Docs -> Nat]
  PROVE  Lines(answer) = Count(answer)
<1>. DEFINE one(s) == CHOOSE d \in s : TRUE
            adds(g) == g = [s \in SUBSET Docs |->
                              IF s = {} THEN 0 ELSE answer[one(s)] + g[s \ {one(s)}]]
            f == [s \in SUBSET Docs |-> Cardinality(Marks(answer, s))]
            h == CHOOSE g : adds(g)
<1>1. Lines(answer) = h[Docs]
  BY DEF Lines, MapThenSumSet, MapThenFoldSet
<1>2. \A s \in SUBSET Docs : s # {} => one(s) \in s
  OBVIOUS
<1>3. Marks(answer, {}) = {}
  BY DEF Marks
<1>4. \A s \in SUBSET Docs :
        f[s] = IF s = {} THEN 0 ELSE answer[one(s)] + f[s \ {one(s)}]
  <2>. HIDE DEF one
  <2>1. f[{}] = 0
    BY <1>3, FS_EmptySet
  <2>2. ASSUME NEW s \in SUBSET Docs, s # {}
        PROVE  f[s] = answer[one(s)] + f[s \ {one(s)}]
    <3>1. PICK d \in s : d = one(s)
      BY <1>2, <2>2
    <3>2. f[s] = answer[d] + f[s \ {d}]
      BY MarksAdd
    <3>. QED
      BY <3>1, <3>2
  <2>. QED
    BY <2>1, <2>2
<1>5. adds(f)
  <2>. HIDE DEF one
  <2>. QED
    BY <1>4
<1>6. adds(h)
  <2>. HIDE DEF adds, f
  <2>. QED
    BY <1>5
<1>7. \A s \in SUBSET Docs : h[s] = f[s]
  <2>. DEFINE T == {s \in SUBSET Docs : h[s] # f[s]}
  <2>. SUFFICES ASSUME T # {} PROVE FALSE
    OBVIOUS
  <2>1. T \subseteq FiniteSubsetsOf(Docs)
    BY CandidatesAssumption, FS_FiniteSubsetsOfFinite
  <2>2. PICK s \in T : \A u \in T : <<u, s>> \notin StrictSubsetOrdering(Docs)
    <3>. HIDE DEF T
    <3>1. IsWellFoundedOn(StrictSubsetOrdering(Docs), FiniteSubsetsOf(Docs))
      BY FS_StrictSubsetOrderingWellFounded
    <3>. QED
      BY <2>1, <3>1, WFMin
  <2>3. h[s] = IF s = {} THEN 0 ELSE answer[one(s)] + h[s \ {one(s)}]
    <3>. HIDE DEF one, h, f
    <3>. QED
      BY <1>6
  <2>4. s \in SUBSET Docs /\ h[s] # f[s]
    OBVIOUS
  <2>5. s # {} => /\ s \ {one(s)} \in SUBSET Docs
                  /\ <<s \ {one(s)}, s>> \in StrictSubsetOrdering(Docs)
    <3>. HIDE DEF one
    <3>. QED
      BY <1>2, <2>4 DEF StrictSubsetOrdering
  <2>6. s # {} => h[s \ {one(s)}] = f[s \ {one(s)}]
    <3>. HIDE DEF one, h, f
    <3>. QED
      BY <2>2, <2>5
  <2>7. f[s] = IF s = {} THEN 0 ELSE answer[one(s)] + f[s \ {one(s)}]
    BY <1>4, <2>4
  <2>. HIDE DEF one, h, f
  <2>. QED
    BY <2>3, <2>4, <2>6, <2>7
<1>. QED
  BY <1>1, <1>7 DEF Count

(* A document has some of the lines, and the others have the rest.         *)
LEMMA LinesSplit ==
  ASSUME NEW answer \in [Docs -> Nat], NEW d \in Docs
  PROVE  Count(answer) = answer[d] + Cardinality(Marks(answer, Docs \ {d}))
BY MarksAdd DEF Count

(* The lines of a document are among those of the answer.                  *)
LEMMA LinesOfOne ==
  ASSUME NEW answer \in [Docs -> Nat], NEW d \in Docs
  PROVE  answer[d] <= Count(answer) /\ Count(answer) \in Nat
<1>1. Count(answer) = answer[d] + Cardinality(Marks(answer, Docs \ {d}))
  BY LinesSplit
<1>2. Cardinality(Marks(answer, Docs \ {d})) \in Nat /\ answer[d] \in Nat
  BY MarksAreFinite
<1>. QED
  BY <1>1, <1>2

(* An answer with fewer lines of each document has fewer lines.            *)
LEMMA FewerLines ==
  ASSUME NEW some \in [Docs -> Nat], NEW all \in [Docs -> Nat],
         \A d \in Docs : some[d] <= all[d]
  PROVE  Count(some) <= Count(all) /\ Count(some) \in Nat /\ Count(all) \in Nat
<1>1. Marks(some, Docs) \in SUBSET Marks(all, Docs)
  BY DEF Marks
<1>2. /\ IsFiniteSet(Marks(all, Docs))
      /\ Cardinality(Marks(some, Docs)) \in Nat /\ Cardinality(Marks(all, Docs)) \in Nat
  BY MarksAreFinite
<1>3. Cardinality(Marks(some, Docs)) <= Cardinality(Marks(all, Docs))
  BY <1>1, <1>2, FS_Subset
<1>. QED
  BY <1>2, <1>3 DEF Count

(* An answer without hits has no lines.                                    *)
LEMMA NoLines ==
  ASSUME NEW answer \in [Docs -> Nat], \A d \in Docs : answer[d] = 0
  PROVE  Count(answer) = 0
<1>1. Marks(answer, Docs) = {}
  BY DEF Marks
<1>. QED
  BY <1>1, FS_EmptySet DEF Count

(* A document that gets its lines adds them.                               *)
LEMMA LinesGrow ==
  ASSUME NEW answer \in [Docs -> Nat], NEW d \in Docs, answer[d] = 0, NEW n \in Nat,
         NEW more \in [Docs -> Nat], more = [answer EXCEPT ![d] = n]
  PROVE  Count(more) = Count(answer) + n
<1>1. Marks(more, Docs \ {d}) = Marks(answer, Docs \ {d})
  BY DEF Marks
<1>2. more[d] = n
  OBVIOUS
<1>3. Cardinality(Marks(answer, Docs \ {d})) \in Nat
  BY MarksAreFinite
<1>4. Count(answer) = answer[d] + Cardinality(Marks(answer, Docs \ {d}))
  BY LinesSplit
<1>5. Count(more) = more[d] + Cardinality(Marks(more, Docs \ {d}))
  BY LinesSplit, Zenon
<1>. QED
  BY <1>1, <1>2, <1>3, <1>4, <1>5

(* An answer of one line of each of some documents.                        *)
LEMMA LinesOfPaths ==
  ASSUME NEW docs \in SUBSET Docs, NEW answer \in [Docs -> Nat],
         answer = [d \in Docs |-> IF d \in docs THEN 1 ELSE 0]
  PROVE  Count(answer) = Cardinality(docs)
<1>1. Marks(answer, Docs) = docs \X {1}
  BY DEF Marks
<1>2. IsFiniteSet(docs) /\ Cardinality(docs) \in Nat
  BY CandidatesAssumption, FS_Subset, FS_CardinalityType
<1>3. IsFiniteSet({1}) /\ Cardinality({1}) = 1
  BY FS_Singleton
<1>4. Cardinality(docs \X {1}) = Cardinality(docs) * Cardinality({1})
  BY <1>2, <1>3, FS_Product
<1>5. Cardinality(docs \X {1}) = Cardinality(docs)
  BY <1>2, <1>3, <1>4
<1>. QED
  BY <1>1, <1>5 DEF Count

-----------------------------------------------------------------------------
(* The limit.                                                              *)

(* total_found counts the lines of the answer, and a document is in the    *)
(* hands of one thread at most, which has kept none of its lines before it *)
(* exchanges.                                                              *)
LinesInv ==
  /\ Count(kept) = total
  /\ \A t \in Threads : thread[t].step # "idle" => thread[t].doc \notin todo
  /\ \A t, u \in Threads :
       /\ thread[t].step # "idle" /\ thread[u].step # "idle"
       /\ thread[u].doc = thread[t].doc
       => u = t
  /\ \A d \in todo : kept[d] = 0
  /\ \A t \in Threads :
       thread[t].step \in {"read", "found", "swap"} => kept[thread[t].doc] = 0

(* A thread that goes on with its document, or leaves it, adds no lines.   *)
LEMMA GoingKeepsLinesInv ==
  ASSUME HitsInv, LinesInv, UNCHANGED <<kept, total, todo>>,
         NEW t \in Threads, NEW s, Goes(t, s),
         s # Idle => s.doc = thread[t].doc /\ thread[t].step # "idle",
         s.step \in {"read", "found", "swap"}
           => thread[t].step \in {"read", "found", "swap"}
  PROVE  LinesInv'
<1>1. thread'[t] = s /\ \A u \in Threads : u # t => thread'[u] = thread[u]
  BY DEF Goes, HitsInv, TypeOK
<1>2. Idle.step = "idle" /\ Idle.doc = NoDoc /\ NoDoc \notin Docs
  BY HitsAssumption DEF Idle, At
<1>3. Count(kept)' = total'
  BY DEF LinesInv, Count, Marks
<1>4. s # Idle => s.doc = thread[t].doc /\ thread[t].step # "idle"
  OBVIOUS
<1>5. \A u \in Threads : thread'[u].step # "idle" =>
        /\ thread[u].step # "idle" /\ thread'[u].doc = thread[u].doc
        /\ thread'[u].step \in {"read", "found", "swap"}
             => thread[u].step \in {"read", "found", "swap"}
  BY <1>1, <1>2, <1>4
<1>6. \A u \in Threads :
        thread'[u].step \in {"read", "found", "swap"} => kept[thread'[u].doc] = 0
  BY <1>5 DEF LinesInv
<1>. QED
  BY <1>3, <1>5, <1>6 DEF LinesInv

(* A thread takes a document no other thread has, and nothing is kept of.  *)
LEMMA TakeKeepsLinesInv ==
  ASSUME HitsInv, LinesInv, NEW t \in Threads, NEW d \in Docs, Take(t, d)
  PROVE  LinesInv'
<1>1. /\ d \in todo /\ todo' = todo \ {d} /\ thread[t] = Idle
      /\ UNCHANGED <<kept, total>>
      /\ Goes(t, Idle) \/ Goes(t, At("read", d, 0, 0))
  BY DEF Take
<1>2. /\ Idle.step = "idle" /\ Idle.doc = NoDoc /\ NoDoc \notin Docs
      /\ At("read", d, 0, 0).doc = d
  BY HitsAssumption DEF Idle, At
<1>3. /\ \A u \in Threads : u # t => thread'[u] = thread[u]
      /\ thread'[t] = Idle \/ thread'[t].doc = d
  BY <1>1, <1>2 DEF Goes, HitsInv, TypeOK
<1>4. Count(kept)' = total'
  BY <1>1 DEF LinesInv, Count, Marks
<1>5. \A u \in Threads : thread[u].step # "idle" => thread[u].doc # d
  BY <1>1 DEF LinesInv
<1>6. d \in todo /\ kept[d] = 0 /\ \A e \in todo : kept[e] = 0
  BY <1>1 DEF LinesInv
<1>. QED
  BY <1>1, <1>2, <1>3, <1>4, <1>5, <1>6 DEF LinesInv

(* The exchange that succeeds adds to total_found what it keeps.           *)
LEMMA SwapKeepsLinesInv ==
  ASSUME HitsInv, LinesInv, NEW t \in Threads, Swap(t), request.kind # "path"
  PROVE  LinesInv'
<1>. DEFINE d == thread[t].doc
            keep == Smaller(thread[t].found, request.max - thread[t].prev)
<1>1. /\ thread[t].step = "swap" /\ UNCHANGED <<request, todo>>
      /\ d \in Docs /\ thread[t].prev <= total /\ total <= request.max
      /\ thread[t] \in State /\ request \in Requests /\ kept \in [Docs -> Nat]
      /\ total \in Nat
  BY DEF Swap, HitsInv, TypeOK, State
<1>2. request.max \in Nat /\ thread[t].prev \in Nat /\ thread[t].found \in Nat
  BY <1>1, CandidatesAssumption DEF IsRequest, State
<1>3. keep \in Nat
  BY <1>1, <1>2 DEF Smaller
<1>4. CASE Unchanged(t)
  <2>1. /\ kept' = [kept EXCEPT ![d] = keep]
        /\ total' = total + keep
        /\ \E s : Goes(t, s) /\ (s.step # "idle" => s.doc = d /\ s.step = "full")
    <3>1. /\ At("full", d, 0, 0).doc = d /\ At("full", d, 0, 0).step = "full"
          /\ Idle.step = "idle"
      BY DEF At, Idle
    <3>2. total = thread[t].prev
      BY <1>4 DEF Unchanged
    <3>. QED
      BY <1>4, <3>1, <3>2 DEF Swap
  <2>. HIDE DEF keep
  <2>2. kept' \in [Docs -> Nat] /\ \A e \in Docs : e # d => kept'[e] = kept[e]
    BY <1>1, <1>3, <2>1
  <2>3. kept[d] = 0 /\ Count(kept) = total
    BY <1>1 DEF LinesInv
  <2>4. Count(kept)' = total'
    <3>1. PICK more \in [Docs -> Nat] : more = kept'
      BY <2>2
    <3>. HIDE DEF d
    <3>2. more = [kept EXCEPT ![d] = keep]
      BY <2>1, <3>1
    <3>3. Count(more) = Count(kept) + keep
      BY <1>1, <1>3, <2>3, <3>2, LinesGrow, Zenon
    <3>4. Count(more) = total + keep
      BY <2>3, <3>3
    <3>5. Count(kept)' = Count(more)
      BY <3>1 DEF Count, Marks
    <3>. QED
      BY <2>1, <3>4, <3>5
  <2>5. /\ \A u \in Threads : u # t => thread'[u] = thread[u]
        /\ thread'[t].step # "idle" => thread'[t].doc = d /\ thread'[t].step = "full"
    BY <2>1 DEF Goes, HitsInv, TypeOK
  <2>6. \A u \in Threads : thread[u].step # "idle" => thread[u].doc \in Docs
    BY DEF HitsInv
  <2>7. \A u \in Threads : u # t /\ thread[u].step # "idle" => thread[u].doc # d
    BY <1>1 DEF LinesInv
  <2>8. d \notin todo /\ todo \subseteq Docs
    BY <1>1 DEF LinesInv, HitsInv, TypeOK
  <2>. QED
    BY <1>1, <2>2, <2>4, <2>5, <2>6, <2>7, <2>8 DEF LinesInv
<1>5. CASE ~Unchanged(t)
  <2>1. /\ Goes(t, [thread[t] EXCEPT !.step = "found", !.prev = 0])
        /\ UNCHANGED <<kept, total, todo>>
    BY <1>1, <1>5 DEF Swap, Retry
  <2>2. /\ [thread[t] EXCEPT !.step = "found", !.prev = 0].doc = d
        /\ [thread[t] EXCEPT !.step = "found", !.prev = 0].step = "found"
    BY <1>1 DEF State
  <2>. QED
    BY <1>1, <2>1, <2>2, GoingKeepsLinesInv
<1>. QED
  BY <1>4, <1>5

(* The answer to a path request is counted as a whole.                     *)
LEMMA PathHitsKeepLinesInv ==
  ASSUME HitsInv, LinesInv, PathHits
  PROVE  LinesInv'
<1>1. /\ todo \in SUBSET Docs
      /\ kept' = [d \in Docs |-> IF d \in todo THEN 1 ELSE 0]
      /\ total' = Cardinality(todo) /\ todo' = {}
      /\ thread' = thread /\ \A t \in Threads : thread[t] = Idle
  BY DEF PathHits, HitsInv, TypeOK
<1>2. PICK answer \in [Docs -> Nat] : answer = kept'
  BY <1>1
<1>3. Count(answer) = Cardinality(todo)
  BY <1>1, <1>2, LinesOfPaths
<1>4. Count(kept)' = total'
  BY <1>1, <1>2, <1>3 DEF Count, Marks
<1>5. Idle.step = "idle"
  BY DEF Idle, At
<1>. QED
  BY <1>1, <1>4, <1>5 DEF LinesInv

(* Every step keeps the count.                                             *)
LEMMA StepKeepsLinesInv ==
  ASSUME HitsInv, LinesInv, [Next]_vars
  PROVE  LinesInv'
<1>0. Idle.step = "idle"
  BY DEF Idle, At
<1>1. ASSUME NEW t \in Threads, Work(t) PROVE LinesInv'
  <2>1. thread[t] \in State
    BY DEF HitsInv, TypeOK, State
  <2>2. CASE ReadFails(t) \/ SetDone(t)
    <3>1. Goes(t, Idle) /\ UNCHANGED <<kept, total, todo>>
      BY <2>2 DEF ReadFails, SetDone
    <3>. QED
      BY <1>0, <3>1, GoingKeepsLinesInv
  <2>3. CASE Look(t)
    <3>. DEFINE found == Smaller(LineCount(thread[t].doc, request), Missing)
                s == At("found", thread[t].doc, found, 0)
    <3>1. /\ thread[t].step = "read" /\ UNCHANGED <<kept, total, todo>>
          /\ Goes(t, Idle) \/ Goes(t, s)
      BY <2>3 DEF Look
    <3>2. s.doc = thread[t].doc /\ s.step = "found"
      BY DEF At
    <3>. HIDE DEF s
    <3>. QED
      BY <1>0, <3>1, <3>2, GoingKeepsLinesInv
  <2>4. CASE Load(t)
    <3>. DEFINE s == [thread[t] EXCEPT !.step = "swap", !.prev = total]
    <3>1. /\ thread[t].step = "found" /\ UNCHANGED <<kept, total, todo>>
          /\ Goes(t, Idle) \/ Goes(t, s)
      BY <2>4 DEF Load
    <3>2. s.doc = thread[t].doc /\ s.step = "swap"
      BY <2>1 DEF State
    <3>. HIDE DEF s
    <3>. QED
      BY <1>0, <3>1, <3>2, GoingKeepsLinesInv
  <2>5. CASE Swap(t)
    <3>1. request.kind # "path"
      <4>. SUFFICES ASSUME request.kind = "path" PROVE FALSE
        OBVIOUS
      <4>1. thread[t].step = "idle"
        BY <1>0 DEF HitsInv
      <4>. QED
        BY <2>5, <4>1 DEF Swap
    <3>. QED
      BY <2>5, <3>1, SwapKeepsLinesInv
  <2>. QED
    BY <1>1, <2>2, <2>3, <2>4, <2>5, TakeKeepsLinesInv DEF Work
<1>2. CASE UNCHANGED vars
  BY <1>2 DEF vars, LinesInv, Count, Marks
<1>. QED
  BY <1>1, <1>2, PathHitsKeepLinesInv DEF Next

(* The count holds in every state of a search.                             *)
LEMMA LinesAlways == Spec => []LinesInv
<1>1. Init => LinesInv
  <2>. SUFFICES ASSUME Init PROVE LinesInv
    OBVIOUS
  <2>1. /\ \A t \in Threads : thread[t].step = "idle"
        /\ kept \in [Docs -> Nat] /\ \A d \in Docs : kept[d] = 0
        /\ total = 0
    BY DEF Init, Idle, At
  <2>2. todo \subseteq Docs
    BY CandidatesAreDocs DEF Init
  <2>. QED
    BY <2>1, <2>2, NoLines DEF LinesInv
<1>2. HitsInv /\ LinesInv /\ [Next]_vars => LinesInv'
  BY StepKeepsLinesInv
<1>. QED
  BY <1>1, <1>2, HitsInvHolds, PTL DEF Spec

(* The limit is kept to the line, and total_found is what the answer has,  *)
(* however many threads exchange in whatever order                         *)
(* (collect_content_hits_parallel, engine.rs).                             *)
THEOREM LimitIsKept == Spec => []LimitKept
<1>1. HitsInv /\ LinesInv => LimitKept
  <2>. SUFFICES ASSUME HitsInv, LinesInv PROVE LimitKept
    OBVIOUS
  <2>1. Lines(kept) = Count(kept)
    BY LinesAreMarks DEF HitsInv, TypeOK
  <2>. QED
    BY <2>1 DEF HitsInv, LinesInv, LimitKept, Lines
<1>. QED
  BY <1>1, HitsInvHolds, LinesAlways, PTL

-----------------------------------------------------------------------------
(* The backends.                                                           *)

(* An answer of all lines there are, cut nowhere.                          *)
LEMMA WantedIsAnswer ==
  ASSUME request \in Requests
  PROVE  /\ WantedLines \in [Docs -> Nat]
         /\ \A d \in Docs : ~Wanted(d) => WantedLines[d] = 0
         /\ \A d \in Docs : Wanted(d) =>
              WantedLines[d] = IF request.kind = "path" THEN 1 ELSE LineCount(d, request)
BY LinesCounted DEF WantedLines

(* The index, below the limit.                                             *)
LEMMA IndexAnswers ==
  ASSUME HitsInv, HitsAreMatches, MissesNothing, AllRead, ~PathIsAlternative,
         request.kind = "path" \/ total < request.max
  PROVE  kept = WantedLines
<1>1. /\ kept \in [Docs -> Nat] /\ WantedLines \in [Docs -> Nat]
      /\ request \in Requests
  BY WantedIsAnswer DEF HitsInv, TypeOK
<1>2. ASSUME NEW d \in Docs PROVE kept[d] = WantedLines[d]
  <2>1. CASE Wanted(d)
    BY <1>1, <2>1, WantedIsAnswer DEF AllRead, MissesNothing
  <2>2. CASE ~Wanted(d)
    <3>1. ~(kept[d] > 0)
      BY <2>2 DEF HitsAreMatches
    <3>. QED
      BY <1>1, <2>2, <3>1, WantedIsAnswer
  <2>. QED
    BY <2>1, <2>2
<1>. QED
  BY <1>1, <1>2

(* No document has as many lines as the limit.                             *)
Uncut ==
  \/ request.kind = "path"
  \/ /\ request.max > 0
     /\ \A d \in Docs : PathMatchesFilters(d, request) => LineCount(d, request) < request.max

(* The direct scan.                                                        *)
LEMMA DirectAnswers ==
  ASSUME request \in Requests, Uncut
  PROVE  DirectAnswer(request) = WantedLines
<1>1. request.max \in Nat
  BY CandidatesAssumption DEF IsRequest
<1>2. ASSUME NEW d \in Docs PROVE DirectAnswer(request)[d] = WantedLines[d]
  <2>1. /\ LineCount(d, request) \in Nat
        /\ LineCount(d, request) > 0 <=> MatchingLines(d, request) # {}
    BY LinesCounted
  <2>2. CASE ~PathMatchesFilters(d, request)
    BY <2>2, WantedIsAnswer DEF DirectAnswer, Wanted
  <2>3. CASE PathMatchesFilters(d, request) /\ request.kind = "path"
    BY <2>3, WantedIsAnswer DEF DirectAnswer, Wanted
  <2>4. CASE PathMatchesFilters(d, request) /\ request.kind # "path"
    <3>1. request.max > 0 /\ LineCount(d, request) < request.max
      BY <2>4 DEF Uncut
    <3>2. DirectAnswer(request)[d] = LineCount(d, request)
      BY <1>1, <2>1, <2>4, <3>1 DEF DirectAnswer, Smaller
    <3>. QED
      BY <2>1, <2>4, <3>2, WantedIsAnswer DEF Wanted
  <2>. QED
    BY <2>2, <2>3, <2>4
<1>. QED
  BY <1>2, WantedIsAnswer DEF DirectAnswer

(* ripgrep, when one kind of filter is used at most and the pattern is none*)
(* of its flags.                                                           *)
LEMMA RgAnswers ==
  ASSUME request \in Requests, Uncut, request.kind # "path", ~IsFlag(request),
         request.filters["path_substrings"] = {},
         \A j, k \in GlobKinds : request.filters[j] # {} /\ request.filters[k] # {} => j = k
  PROVE  RgAnswer(request) = WantedLines
<1>1. request.max \in Nat
  BY CandidatesAssumption DEF IsRequest
<1>2. ASSUME NEW d \in Docs PROVE RgAnswer(request)[d] = WantedLines[d]
  <2>1. /\ LineCount(d, request) \in Nat
        /\ LineCount(d, request) > 0 <=> MatchingLines(d, request) # {}
    BY LinesCounted
  <2>2. RgAdmits(d, request) <=> PathMatchesFilters(d, request)
    <3>1. PathMatchesFilters(d, request) <=>
            \A k \in GlobKinds : request.filters[k] = {} \/ d \in UNION request.filters[k]
      BY DEF PathMatchesFilters, GlobKinds, FilterKinds
    <3>2. CASE \A k \in GlobKinds : request.filters[k] = {}
      BY <3>1, <3>2 DEF RgAdmits
    <3>3. CASE ~\A k \in GlobKinds : request.filters[k] = {}
      <4>1. PICK k \in GlobKinds : request.filters[k] # {}
        BY <3>3
      <4>2. \A j \in GlobKinds : j # k => request.filters[j] = {}
        BY <4>1
      <4>3. \A j \in GlobKinds : j # k => d \notin UNION request.filters[j]
        BY <4>2
      <4>. QED
        BY <3>1, <4>1, <4>2, <4>3 DEF RgAdmits
    <3>. QED
      BY <3>2, <3>3
  <2>3. CASE ~PathMatchesFilters(d, request)
    BY <2>2, <2>3, WantedIsAnswer DEF RgAnswer, Wanted
  <2>4. CASE PathMatchesFilters(d, request)
    <3>1. request.max > 0 /\ LineCount(d, request) < request.max
      BY <2>4 DEF Uncut
    <3>2. RgAnswer(request)[d] = LineCount(d, request)
      BY <1>1, <2>1, <2>2, <2>4, <3>1 DEF RgAnswer, Smaller
    <3>. QED
      BY <2>1, <2>4, <3>2, WantedIsAnswer DEF Wanted
  <2>. QED
    BY <2>3, <2>4
<1>. QED
  BY <1>2, WantedIsAnswer DEF RgAnswer

(* The router selects one of the three backends, and ripgrep only for what *)
(* it knows of.                                                            *)
LEMMA RouteIsEngine ==
  ASSUME NEW r, NEW c \in Circumstances
  PROVE  /\ SelectedRoute(r, c) \in {"indexed", "direct", "ripgrep"}
         /\ SelectedRoute(r, c) = "ripgrep" =>
              r.kind # "path" /\ r.filters["path_substrings"] = {}
<1>1. c.engine \in {"indexed", "direct", "ripgrep", "auto"}
  BY DEF Circumstances, Engines
<1>2. RouteQuery(r, c) \in {"indexed", "direct", "ripgrep"}
  BY <1>1 DEF RouteQuery
<1>. QED
  BY <1>2 DEF SelectedRoute, AdjustForFilters

(* Of kinds of filters at most one of which is used any two are the same.  *)
LEMMA OneKind ==
  ASSUME NEW kinds \in SUBSET GlobKinds, Cardinality(kinds) <= 1,
         NEW j \in kinds, NEW k \in kinds
  PROVE  j = k
<1>1. IsFiniteSet(GlobKinds)
  <2>0. IsFiniteSet({"exact_paths"})
    BY FS_Singleton
  <2>1. IsFiniteSet({"exact_paths"} \cup {"exact_names"})
    BY <2>0, FS_AddElement
  <2>2. IsFiniteSet({"exact_paths"} \cup {"exact_names"} \cup {"extensions"})
    BY <2>1, FS_AddElement
  <2>3. IsFiniteSet({"exact_paths"} \cup {"exact_names"} \cup {"extensions"}
                      \cup {"path_prefixes"})
    BY <2>2, FS_AddElement
  <2>4. IsFiniteSet({"exact_paths"} \cup {"exact_names"} \cup {"extensions"}
                      \cup {"path_prefixes"} \cup {"globs"})
    BY <2>3, FS_AddElement
  <2>5. GlobKinds = {"exact_paths"} \cup {"exact_names"} \cup {"extensions"}
                      \cup {"path_prefixes"} \cup {"globs"}
    BY DEF GlobKinds, FilterKinds
  <2>. QED
    BY <2>4, <2>5
<1>2. IsFiniteSet(kinds) /\ Cardinality(kinds) \in Nat
  BY <1>1, FS_Subset, FS_CardinalityType
<1>3. Cardinality(kinds) # 0
  BY <1>2, FS_EmptySet
<1>4. Cardinality(kinds) = 1
  BY <1>2, <1>3
<1>. QED
  BY <1>2, <1>4, FS_Singleton

(* Whichever backend is selected, an answer below the limit is the same,   *)
(* if the seeds of every regex are required by what it matches and ripgrep *)
(* does not take the pattern for a flag.                                   *)
THEOREM BackendsAgree ==
  ASSUME \A r \in Requests : SeedsRequired(r)
  PROVE  Spec => []RoutesAgree
<1>1. HitsInv /\ LimitKept /\ HitsAreMatches /\ MissesNothing => RoutesAgree
  <2>. SUFFICES ASSUME HitsInv, LimitKept, HitsAreMatches, MissesNothing, AllRead,
                       request.kind = "path" \/ Lines(WantedLines) < request.max,
                       NEW c \in Circumstances,
                       SameFilters(request, SelectedRoute(request, c)),
                       ~ReadAsFlag(request, c)
                PROVE  Answer(request, c) = WantedLines
    BY DEF RoutesAgree
  <2>1. /\ request \in Requests /\ request.max \in Nat
        /\ WantedLines \in [Docs -> Nat] /\ kept \in [Docs -> Nat] /\ total \in Nat
    BY WantedIsAnswer, CandidatesAssumption DEF HitsInv, TypeOK, IsRequest
  <2>2. Lines(kept) = Count(kept) /\ Lines(WantedLines) = Count(WantedLines)
    BY <2>1, LinesAreMarks
  <2>3. total = Count(kept)
    BY <2>2 DEF LimitKept, Lines
  <2>4. Uncut
    <3>. SUFFICES ASSUME request.kind # "path"
                  PROVE  /\ request.max > 0
                         /\ \A d \in Docs : PathMatchesFilters(d, request)
                                              => LineCount(d, request) < request.max
      BY DEF Uncut
    <3>1. Count(WantedLines) < request.max
      BY <2>2
    <3>2. request.max > 0
      BY <2>1, <3>1, FewerLines
    <3>3. ASSUME NEW d \in Docs, PathMatchesFilters(d, request)
          PROVE  LineCount(d, request) < request.max
      <4>1. WantedLines[d] <= Count(WantedLines) /\ Count(WantedLines) \in Nat
        BY <2>1, LinesOfOne
      <4>2. WantedLines[d] < request.max
        BY <2>1, <3>1, <4>1
      <4>3. LineCount(d, request) = WantedLines[d] \/ LineCount(d, request) = 0
        BY <2>1, <3>3, LinesCounted, WantedIsAnswer DEF Wanted
      <4>. QED
        BY <3>2, <4>2, <4>3
    <3>. QED
      BY <3>2, <3>3
  <2>5. CASE SelectedRoute(request, c) = "indexed"
    <3>1. ~PathIsAlternative
      BY <2>5 DEF SameFilters, PathIsAlternative
    <3>2. request.kind # "path" => total < request.max
      <4>. SUFFICES ASSUME request.kind # "path" PROVE total < request.max
        OBVIOUS
      <4>1. \A d \in Docs : kept[d] <= WantedLines[d]
        <5>. SUFFICES ASSUME NEW d \in Docs PROVE kept[d] <= WantedLines[d]
          OBVIOUS
        <5>1. CASE kept[d] > 0
          BY <2>1, <3>1, <5>1, WantedIsAnswer DEF HitsAreMatches
        <5>2. CASE ~(kept[d] > 0)
          <6>1. kept[d] = 0 /\ WantedLines[d] \in Nat
            BY <2>1, <5>2
          <6>. QED
            BY <6>1
        <5>. QED
          BY <5>1, <5>2
      <4>2. Count(kept) <= Count(WantedLines) /\ Count(WantedLines) \in Nat
        BY <2>1, <4>1, FewerLines
      <4>. QED
        BY <2>1, <2>2, <2>3, <4>2
    <3>. QED
      BY <2>5, <3>1, <3>2, IndexAnswers DEF Answer
  <2>6. CASE SelectedRoute(request, c) = "direct"
    BY <2>1, <2>4, <2>6, DirectAnswers DEF Answer
  <2>7. CASE SelectedRoute(request, c) = "ripgrep"
    <3>1. request.kind # "path" /\ request.filters["path_substrings"] = {}
      BY <2>7, RouteIsEngine
    <3>2. Cardinality({k \in GlobKinds : request.filters[k] # {}}) <= 1
      BY <2>7 DEF SameFilters
    <3>3. \A j, k \in GlobKinds : request.filters[j] # {} /\ request.filters[k] # {} => j = k
      BY <3>2, OneKind
    <3>4. RgAnswer(request) = WantedLines
      BY <2>1, <2>4, <2>7, <3>1, <3>3, RgAnswers DEF ReadAsFlag
    <3>. QED
      BY <2>7, <3>4 DEF Answer
  <2>. QED
    BY <2>5, <2>6, <2>7, RouteIsEngine
<1>. QED
  BY <1>1, HitsInvHolds, LimitIsKept, EveryHitMatches, NothingIsMissed, PTL

(* A tool that does not say truncated has shown every line there is,       *)
(* whichever backend answered (build_envelope, mcp/tools.rs), if the seeds *)
(* of every regex are required by what it matches and ripgrep does not take*)
(* the pattern for a flag.                                                 *)
THEOREM ToolsTellTruncation ==
  ASSUME \A r \in Requests : SeedsRequired(r)
  PROVE  Spec => []TruncationIsTold
<1>1. HitsInv /\ LimitKept /\ HitsAreMatches /\ MissesNothing => TruncationIsTold
  <2>. DEFINE limit == request.max - 1
  <2>. SUFFICES ASSUME HitsInv, LimitKept, HitsAreMatches, MissesNothing, AllRead,
                       IsToolRequest(request), NEW c \in Circumstances,
                       ~ReadAsFlag(request, c),
                       ~Truncated(Answer(request, c), limit)
                PROVE  Shown(Answer(request, c), limit) = Lines(WantedLines)
    BY DEF TruncationIsTold
  <2>1. /\ request \in Requests /\ request.max \in Nat /\ request.max >= 2
        /\ kept \in [Docs -> Nat] /\ total \in Nat
        /\ \A k \in FilterKinds \ {"globs"} : request.filters[k] = {}
    BY CandidatesAssumption DEF HitsInv, TypeOK, IsRequest, IsToolRequest
  <2>2. /\ request.filters["path_substrings"] = {}
        /\ \A j \in GlobKinds : request.filters[j] # {} => j = "globs"
    BY <2>1 DEF FilterKinds, GlobKinds
  <2>3. ASSUME NEW answer \in [Docs -> Nat], answer = Answer(request, c)
        PROVE  /\ Count(answer) < limit /\ \A d \in Docs : answer[d] < limit
               /\ Shown(answer, limit) = Lines(answer)
    <3>1. Lines(answer) = Count(answer) /\ Count(answer) \in Nat
      BY LinesAreMarks, FewerLines
    <3>2. ~(Shown(answer, limit) >= limit)
      BY <2>3 DEF Truncated
    <3>3. Count(answer) < limit /\ Shown(answer, limit) = Lines(answer)
      BY <2>1, <3>1, <3>2 DEF Shown, Smaller
    <3>4. \A d \in Docs : answer[d] <= Count(answer) /\ answer[d] \in Nat
      BY LinesOfOne
    <3>. QED
      BY <2>1, <3>1, <3>3, <3>4
  <2>. SUFFICES Answer(request, c) = WantedLines
    BY <2>1, <2>3, WantedIsAnswer
  <2>4. ASSUME request.kind # "path",
               \A d \in Docs : PathMatchesFilters(d, request) =>
                 Smaller(LineCount(d, request), request.max) < limit
        PROVE  Uncut
    BY <2>1, <2>4, LinesCounted DEF Uncut, Smaller
  <2>5. CASE SelectedRoute(request, c) = "indexed"
    <3>1. Answer(request, c) = kept
      BY <2>5 DEF Answer
    <3>2. ~PathIsAlternative
      BY <2>2 DEF PathIsAlternative
    <3>3. Count(kept) < limit /\ total = Count(kept)
      BY <2>1, <2>3, <3>1, LinesAreMarks DEF LimitKept, Lines
    <3>4. total < request.max
      BY <2>1, <3>3
    <3>. QED
      BY <3>1, <3>2, <3>4, IndexAnswers
  <2>6. CASE SelectedRoute(request, c) = "direct"
    <3>1. Answer(request, c) = DirectAnswer(request)
      BY <2>6 DEF Answer
    <3>2. DirectAnswer(request) \in [Docs -> Nat]
      BY <2>1, LinesCounted DEF DirectAnswer, Smaller
    <3>3. \A d \in Docs : DirectAnswer(request)[d] < limit
      BY <2>3, <3>1, <3>2
    <3>4. request.kind # "path" =>
            \A d \in Docs : PathMatchesFilters(d, request) =>
              Smaller(LineCount(d, request), request.max) < limit
      BY <2>1, <3>3 DEF DirectAnswer
    <3>5. Uncut
      BY <2>4, <3>4 DEF Uncut
    <3>. QED
      BY <2>1, <3>1, <3>5, DirectAnswers
  <2>7. CASE SelectedRoute(request, c) = "ripgrep"
    <3>1. Answer(request, c) = RgAnswer(request) /\ request.kind # "path"
      BY <2>7, RouteIsEngine DEF Answer
    <3>0. ~IsFlag(request)
      BY <2>7 DEF ReadAsFlag
    <3>2. RgAnswer(request) \in [Docs -> Nat]
      BY <2>1, <3>0, LinesCounted DEF RgAnswer, Smaller
    <3>3. \A d \in Docs : PathMatchesFilters(d, request) => RgAdmits(d, request)
      BY <2>2 DEF PathMatchesFilters, RgAdmits, GlobKinds
    <3>4. \A d \in Docs : RgAnswer(request)[d] < limit
      BY <2>3, <3>1, <3>2
    <3>5. Uncut
      BY <2>4, <3>0, <3>1, <3>3, <3>4 DEF RgAnswer
    <3>6. \A j, k \in GlobKinds : request.filters[j] # {} /\ request.filters[k] # {} => j = k
      BY <2>2
    <3>. QED
      BY <2>1, <2>2, <3>0, <3>1, <3>5, <3>6, RgAnswers
  <2>. QED
    BY <2>5, <2>6, <2>7, RouteIsEngine
<1>. QED
  BY <1>1, HitsInvHolds, LimitIsKept, EveryHitMatches, NothingIsMissed, PTL

-----------------------------------------------------------------------------
(* Induction over the characters of a pattern.                             *)

(* A set of numbers that is not empty has a least one; the intervals below *)
(* its members are finite and well ordered by inclusion.                   *)
LEMMA LeastNumber ==
  ASSUME NEW T, T \subseteq Nat, T # {}
  PROVE  \E i \in T : \A j \in T : ~(j < i)
<1>. DEFINE below == {1..k : k \in T}
            less == StrictSubsetOrdering(Nat)
            finite == FiniteSubsetsOf(Nat)
<1>1. below \subseteq finite /\ below # {}
  <2>1. \A k \in Nat : 1..k \subseteq Nat /\ IsFiniteSet(1..k)
    BY FS_Interval
  <2>. QED
    BY <2>1 DEF FiniteSubsetsOf
<1>2. IsWellFoundedOn(less, finite)
  BY FS_StrictSubsetOrderingWellFounded
<1>. HIDE DEF less, finite, below
<1>3. \E x \in below : \A y \in below : ~(<<y, x>> \in less)
  BY <1>1, <1>2, WFMin
<1>4. PICK i \in T : \A j \in T : <<1..j, 1..i>> \notin less
  BY <1>3 DEF below
<1>5. ASSUME NEW j \in T, j < i PROVE FALSE
  <2>1. i \in Nat /\ j \in Nat /\ 1..j \subseteq Nat /\ 1..i \subseteq Nat
    OBVIOUS
  <2>2. 1..j \subseteq 1..i /\ i \in 1..i /\ i \notin 1..j
    BY <1>5, <2>1
  <2>3. <<1..j, 1..i>> \in less
    BY <2>1, <2>2 DEF less, StrictSubsetOrdering
  <2>. QED
    BY <1>4, <2>3
<1>. QED
  BY <1>5

(* What holds at the beginning and is kept by every step up to n holds at n. *)
LEMMA UpTo ==
  ASSUME NEW T, NEW n \in Nat, 0 \in T,
         \A k \in 0..(n - 1) : k \in T => k + 1 \in T
  PROVE  \A k \in 0..n : k \in T
<1>. DEFINE missing == {k \in 0..n : k \notin T}
<1>. SUFFICES ASSUME missing # {} PROVE FALSE
  OBVIOUS
<1>1. PICK i \in missing : \A j \in missing : ~(j < i)
  <2>1. missing \subseteq Nat
    OBVIOUS
  <2>. HIDE DEF missing
  <2>. QED
    BY <2>1, LeastNumber
<1>2. i \in 1..n /\ i - 1 \in 0..(n - 1) /\ i - 1 \in T
  BY <1>1
<1>. QED
  BY <1>1, <1>2

(* The states of the extraction, one after the other.                      *)
LEMMA ReadingUnfolds ==
  ASSUME NEW p \in Seq(Chars)
  PROVE  /\ Reading(p)[0] = NothingRead
         /\ \A n \in 1..Len(p) : Reading(p)[n] = ReadChar(Reading(p)[n - 1], p[n])
<1>. DEFINE Run(f, n) ==
       f = [m \in 0..n |-> IF m = 0 THEN NothingRead ELSE ReadChar(f[m - 1], p[m])]
            T == {n \in Nat : \E f : Run(f, n)}
<1>1. 0 \in T
  <2>1. Run([m \in 0..0 |-> NothingRead], 0)
    OBVIOUS
  <2>. QED
    BY <2>1
<1>2. ASSUME NEW n \in Nat, n \in T PROVE n + 1 \in T
  <2>1. PICK f : Run(f, n)
    BY <1>2
  <2>. DEFINE g == [m \in 0..(n + 1) |-> IF m <= n THEN f[m] ELSE ReadChar(f[n], p[n + 1])]
  <2>2. Run(g, n + 1)
    <3>1. \A m \in 0..n : f[m] = IF m = 0 THEN NothingRead ELSE ReadChar(f[m - 1], p[m])
      BY <2>1
    <3>2. \A m \in 0..(n + 1) :
            g[m] = IF m = 0 THEN NothingRead ELSE ReadChar(g[m - 1], p[m])
      <4>. TAKE m \in 0..(n + 1)
      <4>1. CASE m = 0
        BY <3>1, <4>1
      <4>2. CASE m \in 1..n
        <5>1. m \in 0..n /\ m - 1 \in 0..(n + 1) /\ m - 1 <= n /\ m # 0
          BY <4>2
        <5>2. g[m] = f[m] /\ g[m - 1] = f[m - 1]
          BY <5>1
        <5>. QED
          BY <3>1, <5>1, <5>2
      <4>3. CASE m = n + 1
        <5>1. g[m] = ReadChar(f[n], p[n + 1]) /\ g[n] = f[n]
          BY <4>3
        <5>. QED
          BY <4>3, <5>1
      <4>. QED
        BY <4>1, <4>2, <4>3
    <3>3. g = [m \in 0..(n + 1) |-> g[m]]
      OBVIOUS
    <3>. HIDE DEF g
    <3>4. [m \in 0..(n + 1) |-> g[m]] =
            [m \in 0..(n + 1) |-> IF m = 0 THEN NothingRead ELSE ReadChar(g[m - 1], p[m])]
      BY <3>2
    <3>. QED
      BY <3>3, <3>4
  <2>. HIDE DEF g
  <2>3. \E h : Run(h, n + 1)
    BY <2>2, Zenon
  <2>. HIDE DEF Run
  <2>. QED
    BY <2>3
<1>3. Len(p) \in T
  <2>. HIDE DEF T
  <2>1. \A k \in 0..(Len(p) - 1) : k \in T => k + 1 \in T
    BY <1>2
  <2>2. \A k \in 0..Len(p) : k \in T
    BY <1>1, <2>1, UpTo
  <2>. QED
    BY <2>2
<1>4. Run(Reading(p), Len(p))
  BY <1>3 DEF Reading
<1>. QED
  BY <1>4

-----------------------------------------------------------------------------
(* What a regex means, as far as its seeds go.  It is cut into pieces: a   *)
(* character that stands for itself (IsExact), one that does not, and the  *)
(* parts of classes and counts, whose inside is read in a mode of its own. *)
Meta == Flushing \cup {"\\", "[", "{", "?", "*"}
IsExact(p, i, j) ==
  \/ i = j /\ p[i] \notin Meta
  \/ j = i + 1 /\ p[i] = "\\" /\ p[j] \notin RegexEscapes
IsLoose(p, i, j) ==
  \/ i = j /\ p[i] \in Flushing \cup {"?", "*"}
  \/ j = i + 1 /\ p[i] = "\\" /\ p[j] \in RegexEscapes
IsMember(p, i, j) ==
  \/ i = j /\ p[i] \notin {"\\", "[", "]"}
  \/ j = i + 1 /\ p[i] = "\\"

Modes == {"plain", "first", "class", "count"}
IsPiece(p, i, j, a, b) ==
  \/ a = "plain" /\ b = "plain" /\ (IsExact(p, i, j) \/ IsLoose(p, i, j))
  \/ a = "plain" /\ b = "first" /\ i = j /\ p[i] = "["
  \/ a = "first" /\ b = "first" /\ i = j /\ p[i] = "^"
  \/ a = "first" /\ b = "class" /\ IsMember(p, i, j) /\ p[i] # "^"
  \/ a = "class" /\ b = "class" /\ IsMember(p, i, j)
  \/ a = "class" /\ b = "plain" /\ i = j /\ p[i] = "]"
  \/ a = "plain" /\ b = "count" /\ j = i + 1 /\ p[i] = "{" /\ p[j] # "}"
  \/ a = "count" /\ b = "count" /\ i = j /\ p[i] # "}"
  \/ a = "count" /\ b = "plain" /\ i = j /\ p[i] = "}"

(* What precedes position i of p may be absent from a word.                *)
MayBeAbsent(p, i) ==
  /\ i <= Len(p)
  /\ p[i] \in {"?", "*"} \/ (i < Len(p) /\ p[i] = "{" /\ p[i + 1] = "0")

IsCut(p, n, cut, mode) ==
  /\ n \in Nat /\ cut \in [1..(n + 1) -> Nat \ {0}] /\ mode \in [1..(n + 1) -> Modes]
  /\ cut[1] = 1 /\ cut[n + 1] = Len(p) + 1
  /\ mode[1] = "plain" /\ mode[n + 1] = "plain"
  /\ \A k \in 1..n : /\ cut[k] < cut[k + 1] /\ cut[k + 1] <= Len(p) + 1
                     /\ IsPiece(p, cut[k], cut[k + 1] - 1, mode[k], mode[k + 1])

(* A word has, one after the other, what the pieces stand for; a character *)
(* that stands for itself and must be there is one character of the word.  *)
Spells(p, n, cut, mode, w) ==
  \E at \in [1..(n + 1) -> 1..(Len(w) + 1)] :
    \A k \in 1..n :
      /\ at[k] <= at[k + 1]
      /\ /\ mode[k] = "plain" /\ IsExact(p, cut[k], cut[k + 1] - 1)
         /\ ~MayBeAbsent(p, cut[k + 1])
         => at[k + 1] = at[k] + 1 /\ w[at[k]] = p[cut[k + 1] - 1]

IsSpelling(p, w) ==
  \E n, cut, mode : IsCut(p, n, cut, mode) /\ Spells(p, n, cut, mode, w)

(* The part of a pattern from f to g, between characters that end the      *)
(* literal under way: what follows or precedes them is a word of its own.  *)
IsPart(p, f, g) ==
  /\ f <= g
  /\ f = 1 \/ (p[f - 1] \in Flushing /\ Reading(p)[f - 2].mode = "plain")
  /\ g = Len(p) \/ (p[g + 1] \in Flushing /\ Reading(p)[g].mode = "plain")

(* Each word of an alternation spells a part with a seed, a branch of it   *)
(* or what all branches share; a word of another pattern spells it all.    *)
IsSpelled(r) ==
  \A w \in r.words :
    IF HasAlternation(r.pattern)
    THEN \E f, g \in 1..Len(r.pattern) :
           LET part == SubSeq(r.pattern, f, g)
           IN /\ IsPart(r.pattern, f, g)
              /\ \E s \in ExtractRegexLiterals(part) : Len(s) >= 3
              /\ IsSpelling(part, w)
    ELSE IsSpelling(r.pattern, w)

-----------------------------------------------------------------------------
ReadStates ==
  [mode : {"plain", "escape", "class", "classEscape", "count", "skip"},
   current : Seq(Chars), seeds : SUBSET Seq(Chars)]

(* The literal s stands in the word w, before its position i.              *)
EndsAt(s, w, i) ==
  /\ Len(s) < i /\ i <= Len(w) + 1
  /\ \A j \in 1..Len(s) : s[j] = w[i - 1 - Len(s) + j]
Occurs(s, w) == \E i \in Nat : EndsAt(s, w, i)

(* Between two pieces: all seeds so far are in the word, and the literal   *)
(* under way ends where the word has been read to, but for a last character*)
(* that may be absent.                                                     *)
ModeOf(a) == CASE a = "plain" -> "plain" [] a = "count" -> "skip" [] OTHER -> "class"
HasRead(st, w, a, i, absent) ==
  /\ st \in ReadStates /\ st.mode = ModeOf(a)
  /\ \A s \in st.seeds : Occurs(s, w)
  /\ a # "plain" => st.current = <<>>
  /\ absent => st.current = <<>> \/ Occurs(Front(st.current), w)
  /\ ~absent => EndsAt(st.current, w, i)

(* A flush takes the literal under way among the seeds (flush_seed).       *)
LEMMA FlushedReads ==
  ASSUME NEW st \in ReadStates
  PROVE  /\ Flushed(st) \in ReadStates /\ Flushed(st).mode = st.mode
         /\ Flushed(st).current = <<>>
         /\ Flushed(st).seeds \subseteq st.seeds \cup {st.current}
<1>. DEFINE more == IF Len(st.current) >= 2 THEN st.seeds \cup {st.current} ELSE st.seeds
<1>1. /\ more \in SUBSET Seq(Chars) /\ more \subseteq st.seeds \cup {st.current}
      /\ <<>> \in Seq(Chars)
  BY DEF ReadStates
<1>2. Flushed(st) = [st EXCEPT !.current = <<>>, !.seeds = more]
  BY DEF Flushed, ReadStates
<1>. HIDE DEF more
<1>. QED
  BY <1>1, <1>2 DEF ReadStates

(* All of a literal but its last character.                                *)
LEMMA FrontIs ==
  ASSUME NEW s \in Seq(Chars), s # <<>>
  PROVE  /\ Front(s) \in Seq(Chars) /\ Len(Front(s)) = Len(s) - 1
         /\ \A j \in 1..(Len(s) - 1) : Front(s)[j] = s[j]
<1>1. Len(s) \in Nat \ {0} /\ \A j \in 1..(Len(s) - 1) : s[j] \in Chars
  OBVIOUS
<1>. DEFINE n == Len(s) - 1
<1>2. 1 \in Int /\ n \in Nat /\ \A j \in 1..n : s[j] \in Chars
  BY <1>1
<1>. HIDE DEF n
<1>3. /\ SubSeq(s, 1, n) \in Seq(Chars)
      /\ Len(SubSeq(s, 1, n)) = IF 1 <= n THEN n - 1 + 1 ELSE 0
      /\ \A j \in 1..(n - 1 + 1) : SubSeq(s, 1, n)[j] = s[1 + j - 1]
  BY <1>2, SubSeqProperties
<1>4. Len(SubSeq(s, 1, n)) = n /\ \A j \in 1..n : SubSeq(s, 1, n)[j] = s[j]
  BY <1>2, <1>3
<1>. QED
  BY <1>3, <1>4 DEF n, Front

(* What may be absent is taken off the literal before it becomes a seed.   *)
LEMMA OptionalReads ==
  ASSUME NEW st \in ReadStates
  PROVE  /\ Optional(st) \in ReadStates /\ Optional(st).mode = st.mode
         /\ Optional(st).current = <<>>
         /\ \/ Optional(st).seeds = st.seeds
            \/ /\ st.current # <<>>
               /\ Optional(st).seeds \subseteq st.seeds \cup {Front(st.current)}
<1>1. CASE st.current = <<>>
  BY <1>1 DEF Optional
<1>2. CASE st.current # <<>>
  <2>. DEFINE cut == [st EXCEPT !.current = Front(st.current)]
  <2>1. Front(st.current) \in Seq(Chars)
    BY <1>2, FrontIs DEF ReadStates
  <2>2. /\ cut \in ReadStates /\ cut.mode = st.mode /\ cut.seeds = st.seeds
        /\ cut.current = Front(st.current)
    BY <2>1 DEF ReadStates
  <2>3. Optional(st) = Flushed(cut)
    BY <1>2 DEF Optional
  <2>. HIDE DEF cut
  <2>. QED
    BY <1>2, <2>2, <2>3, FlushedReads
<1>. QED
  BY <1>1, <1>2

(* A character that stands for itself is added to the literal.             *)
LEMMA PushedReads ==
  ASSUME NEW st \in ReadStates, NEW c \in Chars
  PROVE  /\ Pushed(st, c) \in ReadStates /\ Pushed(st, c).mode = st.mode
         /\ Pushed(st, c).current = Append(st.current, c)
         /\ Pushed(st, c).seeds = st.seeds
BY DEF Pushed, ReadStates

(* A change of mode leaves the literal and the seeds alone.                *)
LEMMA EnterReads ==
  ASSUME NEW st \in ReadStates,
         NEW m \in {"plain", "escape", "class", "classEscape", "count", "skip"}
  PROVE  /\ Enter(st, m) \in ReadStates /\ Enter(st, m).mode = m
         /\ Enter(st, m).current = st.current /\ Enter(st, m).seeds = st.seeds
BY DEF Enter, ReadStates

(* A literal that ends at i and the character of the word there.           *)
LEMMA EndsLater ==
  ASSUME NEW s \in Seq(Chars), NEW w \in Seq(Chars), NEW i \in 1..Len(w), EndsAt(s, w, i)
  PROVE  EndsAt(Append(s, w[i]), w, i + 1)
<1>. DEFINE t == Append(s, w[i])
<1>1. Len(t) = Len(s) + 1 /\ t[Len(s) + 1] = w[i] /\ \A j \in 1..Len(s) : t[j] = s[j]
  OBVIOUS
<1>2. /\ Len(s) < i /\ Len(s) \in Nat /\ Len(w) \in Nat
      /\ \A j \in 1..Len(s) : s[j] = w[i - 1 - Len(s) + j]
  BY DEF EndsAt
<1>. HIDE DEF t
<1>3. ASSUME NEW j \in 1..Len(t) PROVE t[j] = w[(i + 1) - 1 - Len(t) + j]
  <2>1. (i + 1) - 1 - Len(t) + j = i - 1 - Len(s) + j
    BY <1>1, <1>2
  <2>2. CASE j = Len(s) + 1
    <3>1. i - 1 - Len(s) + j = i
      BY <1>2, <2>2
    <3>. QED
      BY <1>1, <2>1, <2>2, <3>1
  <2>3. CASE j \in 1..Len(s)
    BY <1>1, <1>2, <2>1, <2>3
  <2>. QED
    BY <1>1, <1>2, <2>2, <2>3
<1>4. EndsAt(t, w, i + 1)
  BY <1>1, <1>2, <1>3 DEF EndsAt
<1>. QED
  BY <1>4 DEF t

(* Taking off what was added last.                                         *)
LEMMA FrontOfAppend ==
  ASSUME NEW s \in Seq(Chars), NEW c \in Chars
  PROVE  Front(Append(s, c)) = s
<1>. DEFINE t == Append(s, c)
<1>1. /\ t \in Seq(Chars) /\ t # <<>> /\ Len(t) = Len(s) + 1 /\ Len(s) \in Nat
      /\ \A j \in 1..Len(s) : t[j] = s[j]
  BY AppendProperties
<1>. HIDE DEF t
<1>2. /\ Front(t) \in Seq(Chars) /\ Len(Front(t)) = Len(s)
      /\ \A j \in 1..Len(s) : Front(t)[j] = s[j]
  <2>1. Len(t) - 1 = Len(s)
    BY <1>1
  <2>2. /\ Front(t) \in Seq(Chars) /\ Len(Front(t)) = Len(t) - 1
        /\ \A j \in 1..(Len(t) - 1) : Front(t)[j] = t[j]
    BY <1>1, FrontIs
  <2>. QED
    BY <1>1, <2>1, <2>2
<1>3. Front(t) = s
  BY <1>2, SeqEqual
<1>. QED
  BY <1>3 DEF t

(* What a character does outside of escapes, classes and counts.           *)
LEMMA PlainReads ==
  ASSUME NEW st, NEW c, st.mode = "plain"
  PROVE  /\ c = "\\" => ReadChar(st, c) = Enter(st, "escape")
         /\ c = "[" => ReadChar(st, c) = Enter(Flushed(st), "class")
         /\ c = "{" => ReadChar(st, c) = Enter(st, "count")
         /\ c \in {"?", "*"} => ReadChar(st, c) = Optional(st)
         /\ c \in Flushing => ReadChar(st, c) = Flushed(st)
         /\ c \notin Meta => ReadChar(st, c) = Pushed(st, c)
<1>1. ReadChar(st, c) = ReadPlain(st, c)
  BY DEF ReadChar
<1>. QED
  BY <1>1 DEF ReadPlain, Flushing, Meta

(* What a character does after a backslash.                                *)
LEMMA EscapeReads ==
  ASSUME NEW st, NEW c, st.mode = "escape"
  PROVE  /\ c \in RegexEscapes => ReadChar(st, c) = Enter(Flushed(st), "plain")
         /\ c \notin RegexEscapes => ReadChar(st, c) = Enter(Pushed(st, c), "plain")
BY DEF ReadChar, ReadEscaped

(* What a character does in a class.                                       *)
LEMMA ClassReads ==
  ASSUME NEW st, NEW c
  PROVE  /\ st.mode = "class" /\ c = "\\" => ReadChar(st, c) = Enter(st, "classEscape")
         /\ st.mode = "class" /\ c = "]" => ReadChar(st, c) = Enter(st, "plain")
         /\ st.mode = "class" /\ c \notin {"\\", "]"} => ReadChar(st, c) = st
         /\ st.mode = "classEscape" => ReadChar(st, c) = Enter(st, "class")
BY DEF ReadChar, ReadClass

(* What a character does in a count.                                       *)
LEMMA CountReads ==
  ASSUME NEW st, NEW c
  PROVE  /\ st.mode = "count" /\ c = "0" => ReadChar(st, c) = Enter(Optional(st), "skip")
         /\ st.mode = "count" /\ c \notin {"0", "}"} =>
              ReadChar(st, c) = Enter(Flushed(st), "skip")
         /\ st.mode = "skip" /\ c = "}" => ReadChar(st, c) = Enter(st, "plain")
         /\ st.mode = "skip" /\ c # "}" => ReadChar(st, c) = st
BY DEF ReadChar, ReadCount

(* A piece of the pattern read in one or two steps, when the word is read  *)
(* from x to y meanwhile.                                                  *)
LEMMA PieceIsRead ==
  ASSUME NEW p \in Seq(Chars), NEW w \in Seq(Chars),
         NEW i \in 1..Len(p), NEW j \in {i, i + 1}, j <= Len(p),
         NEW a \in Modes, NEW b \in Modes, IsPiece(p, i, j, a, b),
         NEW st, NEW x \in 1..(Len(w) + 1), NEW y \in 1..(Len(w) + 1),
         HasRead(st, w, a, x, MayBeAbsent(p, i)),
         NEW absent \in BOOLEAN,
         a = "plain" /\ IsExact(p, i, j) /\ ~absent => y = x + 1 /\ w[x] = p[j]
  PROVE  HasRead(IF i = j THEN ReadChar(st, p[i])
                 ELSE ReadChar(ReadChar(st, p[i]), p[j]), w, b, y, absent)
<1>1. /\ st \in ReadStates /\ st.mode = ModeOf(a) /\ p[i] \in Chars /\ p[j] \in Chars
      /\ \A s \in st.seeds : Occurs(s, w)
      /\ a # "plain" => st.current = <<>>
      /\ MayBeAbsent(p, i) => st.current = <<>> \/ Occurs(Front(st.current), w)
      /\ ~MayBeAbsent(p, i) => EndsAt(st.current, w, x)
  BY DEF HasRead
<1>0. /\ Len(p) \in Nat /\ i \in Nat /\ j \in Nat /\ i <= Len(p)
      /\ j = i + 1 => i # j /\ i < Len(p)
  OBVIOUS
<1>2. EndsAt(<<>>, w, y)
  BY DEF EndsAt
<1>3. ~MayBeAbsent(p, i) => Occurs(st.current, w)
  BY <1>1 DEF Occurs
(* A literal that is complete. *)
<1>4. ASSUME NEW u \in {st, Enter(st, "escape"), Enter(st, "count")}, NEW v,
             \/ v = Flushed(u) /\ ~MayBeAbsent(p, i)
             \/ v = Optional(u) /\ MayBeAbsent(p, i)
      PROVE  /\ v \in ReadStates /\ v.mode = u.mode /\ v.current = <<>>
             /\ \A s \in v.seeds : Occurs(s, w)
  <2>1. u \in ReadStates /\ u.current = st.current /\ u.seeds = st.seeds
    BY <1>1, EnterReads
  <2>2. CASE v = Flushed(u) /\ ~MayBeAbsent(p, i)
    BY <1>1, <1>3, <2>1, <2>2, FlushedReads
  <2>3. CASE v = Optional(u) /\ MayBeAbsent(p, i)
    BY <1>1, <2>1, <2>3, OptionalReads
  <2>. QED
    BY <1>4, <2>2, <2>3
(* Another character of a literal. *)
<1>5. ASSUME NEW v \in ReadStates, NEW c \in Chars,
             v.mode = "plain", v.current = Append(st.current, c), v.seeds = st.seeds,
             b = "plain", ~MayBeAbsent(p, i), ~absent => y = x + 1 /\ w[x] = c
      PROVE  HasRead(v, w, b, y, absent)
  <2>1. st.current \in Seq(Chars)
    BY <1>1 DEF ReadStates
  <2>2. absent => Occurs(Front(v.current), w)
    BY <1>3, <1>5, <2>1, FrontOfAppend
  <2>3. ASSUME ~absent PROVE EndsAt(v.current, w, y)
    <3>1. Len(w) \in Nat /\ x \in 1..Len(w) /\ y = x + 1 /\ c = w[x]
      BY <1>5, <2>3
    <3>2. EndsAt(Append(st.current, w[x]), w, x + 1)
      BY <1>1, <1>5, <2>1, <3>1, EndsLater
    <3>. QED
      BY <1>5, <3>1, <3>2
  <2>. QED
    BY <1>1, <1>5, <2>2, <2>3 DEF HasRead, ModeOf
(* Nothing else changes the literal. *)
<1>6. ASSUME NEW v \in ReadStates, v.mode = ModeOf(b), v.current = <<>>,
             \A s \in v.seeds : Occurs(s, w)
      PROVE  HasRead(v, w, b, y, absent)
  BY <1>2, <1>6 DEF HasRead
<1>. DEFINE one == ReadChar(st, p[i])
            two == ReadChar(one, p[j])
<1>7. ModeOf("plain") = "plain" /\ ModeOf("count") = "skip"
      /\ ModeOf("first") = "class" /\ ModeOf("class") = "class"
  BY DEF ModeOf
<1>8. CASE a = "plain" /\ b = "plain" /\ IsExact(p, i, j)
  <2>1. CASE i = j /\ p[i] \notin Meta
    <3>1. one = Pushed(st, p[i])
      BY <1>1, <1>7, <1>8, <2>1, PlainReads
    <3>2. ~MayBeAbsent(p, i)
      BY <2>1 DEF MayBeAbsent, Meta
    <3>. QED
      BY <1>1, <1>5, <1>7, <1>8, <2>1, <3>1, <3>2, PushedReads
  <2>2. CASE j = i + 1 /\ p[i] = "\\" /\ p[j] \notin RegexEscapes
    <3>1. one = Enter(st, "escape")
      BY <1>1, <1>7, <1>8, <2>2, PlainReads
    <3>2. one \in ReadStates /\ one.mode = "escape" /\ one.current = st.current /\ one.seeds = st.seeds
      BY <1>1, <3>1, EnterReads
    <3>. HIDE DEF one
    <3>3. two = Enter(Pushed(one, p[j]), "plain")
      BY <2>2, <3>2, EscapeReads
    <3>4. ~MayBeAbsent(p, i)
      BY <2>2 DEF MayBeAbsent
    <3>5. /\ Pushed(one, p[j]) \in ReadStates
          /\ Pushed(one, p[j]).current = Append(st.current, p[j])
          /\ Pushed(one, p[j]).seeds = st.seeds
      BY <1>1, <3>2, PushedReads
    <3>6. /\ two \in ReadStates /\ two.mode = "plain" /\ two.current = Append(st.current, p[j])
          /\ two.seeds = st.seeds
      <4>1. PICK read \in ReadStates : read = Pushed(one, p[j])
        BY <3>5
      <4>2. /\ Enter(read, "plain") \in ReadStates /\ Enter(read, "plain").mode = "plain"
            /\ Enter(read, "plain").current = read.current
            /\ Enter(read, "plain").seeds = read.seeds
        BY EnterReads
      <4>3. two = Enter(read, "plain")
        BY <3>3, <4>1
      <4>. QED
        BY <3>5, <4>1, <4>2, <4>3, Zenon
    <3>. HIDE DEF two
    <3>7. HasRead(two, w, b, y, absent)
      BY <1>1, <1>5, <1>8, <3>4, <3>6
    <3>. QED
      BY <2>2, <3>7 DEF one, two
  <2>. QED
    BY <1>8, <2>1, <2>2 DEF IsExact
<1>9. CASE a = "plain" /\ b = "plain" /\ IsLoose(p, i, j)
  <2>1. CASE i = j /\ p[i] \in Flushing
    <3>1. one = Flushed(st) /\ ~MayBeAbsent(p, i)
      BY <1>1, <1>7, <1>9, <2>1, PlainReads DEF MayBeAbsent, Flushing
    <3>. QED
      BY <1>1, <1>4, <1>6, <1>9, <2>1, <3>1
  <2>2. CASE i = j /\ p[i] \in {"?", "*"}
    <3>1. one = Optional(st) /\ MayBeAbsent(p, i)
      BY <1>1, <1>7, <1>9, <2>2, PlainReads DEF MayBeAbsent
    <3>. QED
      BY <1>1, <1>4, <1>6, <1>9, <2>2, <3>1
  <2>3. CASE j = i + 1 /\ p[i] = "\\" /\ p[j] \in RegexEscapes
    <3>1. one = Enter(st, "escape")
      BY <1>1, <1>7, <1>9, <2>3, PlainReads
    <3>2. one.mode = "escape"
      BY <1>1, <3>1, EnterReads
    <3>3. two = Enter(Flushed(one), "plain")
      BY <2>3, <3>2, EscapeReads
    <3>4. ~MayBeAbsent(p, i)
      BY <2>3 DEF MayBeAbsent
    <3>5. /\ Flushed(one) \in ReadStates /\ Flushed(one).current = <<>>
          /\ \A s \in Flushed(one).seeds : Occurs(s, w)
      BY <1>4, <3>1, <3>4
    <3>6. /\ two \in ReadStates /\ two.mode = "plain" /\ two.current = <<>>
          /\ \A s \in two.seeds : Occurs(s, w)
      BY <3>3, <3>5, EnterReads
    <3>. HIDE DEF one, two
    <3>7. HasRead(two, w, b, y, absent)
      BY <1>6, <1>7, <1>9, <3>6
    <3>. QED
      BY <2>3, <3>7 DEF one, two
  <2>. QED
    BY <1>9, <2>1, <2>2, <2>3 DEF IsLoose
<1>10. CASE a = "plain" /\ b = "first" /\ i = j /\ p[i] = "["
  <2>1. one = Enter(Flushed(st), "class") /\ ~MayBeAbsent(p, i)
    BY <1>1, <1>7, <1>10, PlainReads DEF MayBeAbsent
  <2>2. /\ Flushed(st) \in ReadStates /\ Flushed(st).current = <<>>
        /\ \A s \in Flushed(st).seeds : Occurs(s, w)
    BY <1>4, <2>1
  <2>3. /\ one \in ReadStates /\ one.mode = "class" /\ one.current = <<>>
        /\ \A s \in one.seeds : Occurs(s, w)
    BY <2>1, <2>2, EnterReads
  <2>. HIDE DEF one
  <2>4. HasRead(one, w, b, y, absent)
    BY <1>6, <1>7, <1>10, <2>3
  <2>. QED
    BY <1>10, <2>4 DEF one
<1>11. CASE a \in {"first", "class"} /\ b \in {"first", "class"}
             /\ i = j /\ p[i] \notin {"\\", "]"}
  <2>1. one = st
    BY <1>1, <1>7, <1>11, ClassReads
  <2>2. st.mode = ModeOf(b) /\ st.current = <<>>
    BY <1>1, <1>7, <1>11
  <2>. QED
    BY <1>1, <1>6, <1>11, <2>1, <2>2
<1>12. CASE a \in {"first", "class"} /\ b = "class" /\ j = i + 1 /\ p[i] = "\\"
  <2>1. one = Enter(st, "classEscape") /\ st.current = <<>>
    BY <1>1, <1>7, <1>12, ClassReads
  <2>2. /\ one \in ReadStates /\ one.mode = "classEscape" /\ one.current = <<>>
        /\ one.seeds = st.seeds
    BY <1>1, <2>1, EnterReads
  <2>. HIDE DEF one
  <2>3. two = Enter(one, "class")
    BY <2>2, ClassReads
  <2>4. /\ two \in ReadStates /\ two.mode = "class" /\ two.current = <<>>
        /\ two.seeds = st.seeds
    BY <2>2, <2>3, EnterReads
  <2>. HIDE DEF two
  <2>5. HasRead(two, w, b, y, absent)
    BY <1>1, <1>6, <1>7, <1>12, <2>4
  <2>. QED
    BY <1>12, <2>5 DEF one, two
<1>13. CASE a \in {"class", "count"} /\ b = "plain" /\ i = j
             /\ p[i] = IF a = "class" THEN "]" ELSE "}"
  <2>1. one = Enter(st, "plain") /\ st.current = <<>>
    BY <1>1, <1>7, <1>13, ClassReads, CountReads
  <2>2. one \in ReadStates /\ one.mode = "plain" /\ one.current = <<>> /\ one.seeds = st.seeds
    BY <1>1, <2>1, EnterReads
  <2>. HIDE DEF one
  <2>3. HasRead(one, w, b, y, absent)
    BY <1>1, <1>6, <1>7, <1>13, <2>2
  <2>. QED
    BY <1>13, <2>3 DEF one
<1>14. CASE a = "plain" /\ b = "count" /\ j = i + 1 /\ p[i] = "{" /\ p[j] # "}"
  <2>. DEFINE counted == IF p[j] = "0" THEN Optional(one) ELSE Flushed(one)
  <2>1. one = Enter(st, "count")
    BY <1>1, <1>7, <1>14, PlainReads
  <2>2. one.mode = "count"
    BY <1>1, <2>1, EnterReads
  <2>3. two = Enter(counted, "skip")
    BY <1>14, <2>2, CountReads
  <2>4. MayBeAbsent(p, i) <=> p[j] = "0"
    <3>1. j = i + 1 /\ i < Len(p) /\ i <= Len(p)
      BY <1>0, <1>14
    <3>. QED
      BY <1>14, <3>1 DEF MayBeAbsent
  <2>5. /\ counted \in ReadStates /\ counted.current = <<>>
        /\ \A s \in counted.seeds : Occurs(s, w)
    BY <1>4, <2>1, <2>4
  <2>. HIDE DEF one, counted
  <2>6. /\ two \in ReadStates /\ two.mode = "skip" /\ two.current = <<>>
        /\ \A s \in two.seeds : Occurs(s, w)
    BY <2>3, <2>5, EnterReads
  <2>. HIDE DEF two
  <2>7. HasRead(two, w, b, y, absent)
    BY <1>6, <1>7, <1>14, <2>6
  <2>. QED
    BY <1>0, <1>14, <2>7 DEF one, two
<1>15. CASE a = "count" /\ b = "count" /\ i = j /\ p[i] # "}"
  <2>1. one = st /\ st.current = <<>>
    BY <1>1, <1>7, <1>15, CountReads
  <2>. QED
    BY <1>1, <1>6, <1>15, <2>1
<1>. QED
  BY <1>8, <1>9, <1>10, <1>11, <1>12, <1>13, <1>14, <1>15 DEF IsPiece, IsMember

(* The seeds of a regex occur in every word it spells.                     *)
LEMMA SeedsOccur ==
  ASSUME NEW p \in Seq(Chars), NEW w \in Seq(Chars), NEW n, NEW cut, NEW mode,
         IsCut(p, n, cut, mode), Spells(p, n, cut, mode, w),
         NEW s \in ExtractRegexLiterals(p)
  PROVE  s \in Seq(Chars) /\ Occurs(s, w)
<1>1. /\ n \in Nat /\ cut \in [1..(n + 1) -> Nat \ {0}] /\ mode \in [1..(n + 1) -> Modes]
      /\ cut[1] = 1 /\ cut[n + 1] = Len(p) + 1
      /\ mode[1] = "plain" /\ mode[n + 1] = "plain"
      /\ Len(p) \in Nat
  BY DEF IsCut
<1>2. PICK at \in [1..(n + 1) -> 1..(Len(w) + 1)] :
        \A k \in 1..n :
          /\ mode[k] = "plain" /\ IsExact(p, cut[k], cut[k + 1] - 1)
          /\ ~MayBeAbsent(p, cut[k + 1])
          => at[k + 1] = at[k] + 1 /\ w[at[k]] = p[cut[k + 1] - 1]
  BY DEF Spells
<1>. DEFINE read == Reading(p)
            Absent(k) == MayBeAbsent(p, cut[k])
            Good(k) == HasRead(read[cut[k] - 1], w, mode[k], at[k], Absent(k))
            T == {k \in 0..n : Good(k + 1)}
<1>3. read[0] = NothingRead /\ \A k \in 1..Len(p) : read[k] = ReadChar(read[k - 1], p[k])
  BY ReadingUnfolds
<1>. HIDE DEF read
<1>4. 0 \in T
  <2>1. read[cut[0 + 1] - 1] = NothingRead /\ at[1] \in 1..(Len(w) + 1) /\ 0 + 1 = 1
    BY <1>1, <1>2, <1>3
  <2>2. /\ NothingRead \in ReadStates /\ NothingRead.mode = "plain"
        /\ NothingRead.current = <<>> /\ NothingRead.seeds = {}
    BY DEF NothingRead, ReadStates
  <2>3. EndsAt(<<>>, w, at[1])
    BY <2>1 DEF EndsAt
  <2>4. Good(0 + 1)
    BY <1>1, <2>1, <2>2, <2>3 DEF HasRead, ModeOf
  <2>. HIDE DEF Good
  <2>. QED
    BY <1>1, <2>4
<1>5. ASSUME NEW k \in 0..(n - 1), k \in T PROVE k + 1 \in T
  <2>. DEFINE i == cut[k + 1]
              j == cut[k + 1 + 1] - 1
  <2>1. k + 1 \in 1..n /\ k + 1 \in 1..(n + 1) /\ k + 1 + 1 \in 1..(n + 1) /\ k + 1 \in 0..n
    BY <1>1
  <2>2. Good(k + 1)
    BY <1>5
  <2>3. /\ i < cut[k + 1 + 1] /\ cut[k + 1 + 1] <= Len(p) + 1
        /\ IsPiece(p, i, j, mode[k + 1], mode[k + 1 + 1])
    BY <2>1 DEF IsCut
  <2>4. i \in Nat \ {0} /\ cut[k + 1 + 1] \in Nat \ {0}
    BY <1>1, <2>1
  <2>5. i \in 1..Len(p) /\ j \in 1..Len(p) /\ i <= j /\ cut[k + 1 + 1] = j + 1
    <3>1. Len(p) \in Nat /\ i < cut[k + 1 + 1] /\ cut[k + 1 + 1] <= Len(p) + 1
      BY <2>3
    <3>. HIDE DEF i
    <3>. QED
      BY <2>4, <3>1
  <2>6. at[k + 1] \in 1..(Len(w) + 1) /\ at[k + 1 + 1] \in 1..(Len(w) + 1)
        /\ mode[k + 1] \in Modes /\ mode[k + 1 + 1] \in Modes
    BY <1>1, <1>2, <2>1
  <2>7. mode[k + 1] = "plain" /\ IsExact(p, i, j) /\ ~Absent(k + 1 + 1) =>
          at[k + 1 + 1] = at[k + 1] + 1 /\ w[at[k + 1]] = p[j]
    BY <1>2, <2>1
  <2>8. HasRead(read[i - 1], w, mode[k + 1], at[k + 1], MayBeAbsent(p, i))
    BY <2>2
  <2>. HIDE DEF i, j
  <2>9. j \in {i, i + 1}
    BY <2>3, <2>5 DEF IsPiece, IsExact, IsLoose, IsMember
  <2>10. Absent(k + 1 + 1) \in BOOLEAN
    BY DEF MayBeAbsent
  <2>. HIDE DEF Absent
  <2>11. HasRead(IF i = j THEN ReadChar(read[i - 1], p[i])
                 ELSE ReadChar(ReadChar(read[i - 1], p[i]), p[j]),
                 w, mode[k + 1 + 1], at[k + 1 + 1], Absent(k + 1 + 1))
    <3>. DEFINE a == mode[k + 1]
                b == mode[k + 1 + 1]
                x == at[k + 1]
                y == at[k + 1 + 1]
                st == read[i - 1]
                absent == Absent(k + 1 + 1)
    <3>1. /\ i \in 1..Len(p) /\ j \in {i, i + 1} /\ j <= Len(p)
          /\ a \in Modes /\ b \in Modes /\ IsPiece(p, i, j, a, b)
          /\ x \in 1..(Len(w) + 1) /\ y \in 1..(Len(w) + 1)
          /\ HasRead(st, w, a, x, MayBeAbsent(p, i))
          /\ absent \in BOOLEAN
          /\ a = "plain" /\ IsExact(p, i, j) /\ ~absent => y = x + 1 /\ w[x] = p[j]
      BY <2>3, <2>5, <2>6, <2>7, <2>8, <2>9, <2>10
    <3>. HIDE DEF a, b, x, y, st, absent
    <3>2. HasRead(IF i = j THEN ReadChar(st, p[i])
                  ELSE ReadChar(ReadChar(st, p[i]), p[j]), w, b, y, absent)
      BY <3>1, PieceIsRead
    <3>. QED
      BY <3>2 DEF a, b, x, y, st, absent
  <2>12. read[j] = IF i = j THEN ReadChar(read[i - 1], p[i])
                   ELSE ReadChar(ReadChar(read[i - 1], p[i]), p[j])
    <3>1. read[i] = ReadChar(read[i - 1], p[i]) /\ read[j] = ReadChar(read[j - 1], p[j])
      BY <1>3, <2>5
    <3>2. i # j => j - 1 = i
      BY <2>5, <2>9
    <3>. QED
      BY <3>1, <3>2
  <2>13. cut[k + 1 + 1] - 1 = j
    BY <2>5
  <2>14. Good(k + 1 + 1)
    BY <2>11, <2>12, <2>13
  <2>. HIDE DEF Good
  <2>. QED
    BY <2>1, <2>14
<1>6. Good(n + 1)
  <2>. HIDE DEF Good
  <2>1. \A k \in 0..n : k \in T
    <3>. HIDE DEF T
    <3>. QED
      BY <1>1, <1>4, <1>5, UpTo
  <2>. QED
    BY <1>1, <2>1
<1>7. ~Absent(n + 1) /\ cut[n + 1] - 1 = Len(p) /\ at[n + 1] \in Nat
  <2>1. ~(Len(p) + 1 <= Len(p))
    BY <1>1
  <2>2. ~MayBeAbsent(p, Len(p) + 1)
    BY <2>1 DEF MayBeAbsent
  <2>3. n + 1 \in 1..(n + 1) /\ cut[n + 1] - 1 = Len(p)
    BY <1>1
  <2>4. at[n + 1] \in Nat
    BY <1>2, <2>3
  <2>. QED
    BY <1>1, <2>2, <2>3, <2>4
<1>8. /\ read[Len(p)] \in ReadStates
      /\ \A x \in read[Len(p)].seeds : Occurs(x, w)
      /\ Occurs(read[Len(p)].current, w)
  BY <1>6, <1>7 DEF HasRead, Occurs
<1>9. s \in read[Len(p)].seeds \cup {read[Len(p)].current}
  BY <1>8, FlushedReads DEF ExtractRegexLiterals, read
<1>. QED
  BY <1>8, <1>9 DEF ReadStates

(* A literal that occurs in a word has no other trigrams than the word.    *)
LEMMA TrigramsOccur ==
  ASSUME NEW s \in Seq(Chars), NEW w \in Seq(Chars), Occurs(s, w)
  PROVE  Trigrams(s) \subseteq Trigrams(w)
<1>1. PICK i \in Nat : /\ Len(s) < i /\ i <= Len(w) + 1
                       /\ \A j \in 1..Len(s) : s[j] = w[i - 1 - Len(s) + j]
  BY DEF Occurs, EndsAt
<1>2. Len(s) \in Nat /\ Len(w) \in Nat /\ Len(s) < i /\ i <= Len(w) + 1
  BY <1>1
<1>. SUFFICES ASSUME NEW k \in 1..(Len(s) - 2)
              PROVE  <<Lower[s[k]], Lower[s[k + 1]], Lower[s[k + 2]]>> \in Trigrams(w)
  BY DEF Trigrams
<1>. DEFINE j == i - 1 - Len(s) + k
<1>3. j \in 1..(Len(w) - 2)
  BY ONLY <1>2, i \in Nat, k \in 1..(Len(s) - 2)
<1>4. s[k] = w[j] /\ s[k + 1] = w[j + 1] /\ s[k + 2] = w[j + 2]
  <2>1. /\ k \in 1..Len(s) /\ k + 1 \in 1..Len(s) /\ k + 2 \in 1..Len(s)
        /\ i - 1 - Len(s) + (k + 1) = j + 1 /\ i - 1 - Len(s) + (k + 2) = j + 2
    BY <1>1, <1>2
  <2>. QED
    BY <1>1, <2>1
<1>. QED
  BY <1>3, <1>4 DEF Trigrams

(* Every character leads from a state of the extraction to another.        *)
LEMMA CharReads ==
  ASSUME NEW st \in ReadStates, NEW c \in Chars
  PROVE  ReadChar(st, c) \in ReadStates
<1>1. \A m \in {"plain", "escape", "class", "classEscape", "count", "skip"} :
        /\ Enter(st, m) \in ReadStates /\ Enter(Flushed(st), m) \in ReadStates
        /\ Enter(Optional(st), m) \in ReadStates /\ Enter(Pushed(st, c), m) \in ReadStates
  BY EnterReads, FlushedReads, OptionalReads, PushedReads
<1>2. /\ Flushed(st) \in ReadStates /\ Optional(st) \in ReadStates
      /\ Pushed(st, c) \in ReadStates
  BY FlushedReads, OptionalReads, PushedReads
<1>3. st.mode \in {"plain", "escape", "class", "classEscape", "count", "skip"}
  BY DEF ReadStates
<1>4. CASE st.mode = "plain"
  BY <1>1, <1>2, <1>4, PlainReads DEF Meta
<1>5. CASE st.mode \in {"class", "classEscape"}
  BY <1>1, <1>5, ClassReads
<1>6. CASE st.mode = "escape"
  BY <1>1, <1>6, EscapeReads
<1>7. CASE st.mode = "skip"
  BY <1>1, <1>1, <1>7, CountReads
<1>8. CASE st.mode = "count"
  <2>1. ReadChar(st, c) = ReadCount(st, c)
    BY <1>8 DEF ReadChar
  <2>. QED
    BY <1>1, <2>1 DEF ReadCount
<1>. QED
  BY <1>3, <1>4, <1>5, <1>6, <1>7, <1>8

(* So does a whole pattern.                                                *)
LEMMA ReadingReads ==
  ASSUME NEW p \in Seq(Chars), NEW n \in 0..Len(p)
  PROVE  Reading(p)[n] \in ReadStates
<1>. DEFINE T == {m \in Nat : Reading(p)[m] \in ReadStates}
<1>1. 0 \in T
  <2>1. Reading(p)[0] = NothingRead /\ 0 \in Nat
    BY ReadingUnfolds
  <2>2. NothingRead \in ReadStates
    BY DEF NothingRead, ReadStates
  <2>. QED
    BY <2>1, <2>2
<1>2. ASSUME NEW k \in 0..(Len(p) - 1), k \in T PROVE k + 1 \in T
  <2>1. k + 1 \in 1..Len(p) /\ k + 1 - 1 = k /\ Len(p) \in Nat
    OBVIOUS
  <2>2. Reading(p)[k + 1] = ReadChar(Reading(p)[k], p[k + 1]) /\ p[k + 1] \in Chars
    BY <2>1, ReadingUnfolds
  <2>. QED
    BY <1>2, <2>1, <2>2, CharReads
<1>3. n \in T
  <2>. DEFINE m == Len(p)
  <2>1. m \in Nat /\ n \in 0..m /\ \A k \in 0..(m - 1) : k \in T => k + 1 \in T
    BY <1>2
  <2>. HIDE DEF T, m
  <2>2. \A k \in 0..m : k \in T
    BY <1>1, <2>1, UpTo
  <2>. QED
    BY <2>1, <2>2
<1>. QED
  BY <1>3

(* Seeds are sequences of characters, whatever the pattern.                *)
LEMMA SeedsAreLiterals ==
  ASSUME NEW p \in Seq(Chars)
  PROVE  ExtractRegexLiterals(p) \subseteq Seq(Chars)
<1>1. Reading(p)[Len(p)] \in ReadStates
  BY ReadingReads
<1>. QED
  BY <1>1, FlushedReads DEF ExtractRegexLiterals, ReadStates

(* Two states that go on alike, the second with the seeds of the first and *)
(* perhaps more.                                                           *)
IsAhead(st, u) ==
  /\ st \in ReadStates /\ u \in ReadStates
  /\ st.mode = u.mode /\ st.current = u.current /\ st.seeds \subseteq u.seeds

(* A flush forgets no seed, and finds the same in both states.             *)
LEMMA FlushedStaysAhead ==
  ASSUME NEW st, NEW u, IsAhead(st, u)
  PROVE  IsAhead(Flushed(st), Flushed(u)) /\ u.seeds \subseteq Flushed(u).seeds
<1>1. \A v \in ReadStates :
        Flushed(v).seeds = v.seeds \cup {x \in {v.current} : Len(x) >= 2}
  BY DEF Flushed, ReadStates
<1>2. /\ st \in ReadStates /\ u \in ReadStates
      /\ st.mode = u.mode /\ st.current = u.current /\ st.seeds \subseteq u.seeds
  BY DEF IsAhead
<1>. QED
  BY <1>1, <1>2, FlushedReads DEF IsAhead

(* Nor does a character that makes the last one optional.                  *)
LEMMA OptionalStaysAhead ==
  ASSUME NEW st, NEW u, IsAhead(st, u)
  PROVE  IsAhead(Optional(st), Optional(u)) /\ u.seeds \subseteq Optional(u).seeds
<1>1. CASE u.current = <<>>
  BY <1>1 DEF IsAhead, Optional
<1>2. CASE u.current # <<>>
  <2>. DEFINE cut(v) == [v EXCEPT !.current = Front(v.current)]
  <2>1. \A v \in ReadStates : v.current # <<>> =>
          /\ cut(v) \in ReadStates /\ cut(v).mode = v.mode /\ cut(v).seeds = v.seeds
          /\ cut(v).current = Front(v.current)
          /\ Optional(v) = Flushed(cut(v))
    <3>. SUFFICES ASSUME NEW v \in ReadStates, v.current # <<>>
                  PROVE  /\ cut(v) \in ReadStates /\ cut(v).mode = v.mode
                         /\ cut(v).seeds = v.seeds
                         /\ cut(v).current = Front(v.current)
                         /\ Optional(v) = Flushed(cut(v))
      OBVIOUS
    <3>1. Front(v.current) \in Seq(Chars)
      BY FrontIs DEF ReadStates
    <3>. QED
      BY <3>1 DEF ReadStates, Optional
  <2>. HIDE DEF cut
  <2>2. IsAhead(cut(st), cut(u))
    BY <1>2, <2>1 DEF IsAhead
  <2>. QED
    BY <1>2, <2>1, <2>2, FlushedStaysAhead DEF IsAhead
<1>. QED
  BY <1>1, <1>2

(* No character tells the two states apart, and none loses a seed.         *)
LEMMA CharStaysAhead ==
  ASSUME NEW st, NEW u, NEW c \in Chars, IsAhead(st, u)
  PROVE  IsAhead(ReadChar(st, c), ReadChar(u, c)) /\ u.seeds \subseteq ReadChar(u, c).seeds
<1>. DEFINE Both(x, y) == IsAhead(x, y) /\ u.seeds \subseteq y.seeds
<1>0. /\ IsAhead(Flushed(st), Flushed(u)) /\ u.seeds \subseteq Flushed(u).seeds
      /\ IsAhead(Optional(st), Optional(u)) /\ u.seeds \subseteq Optional(u).seeds
  BY FlushedStaysAhead, OptionalStaysAhead
<1>1. /\ Both(st, u) /\ Both(Flushed(st), Flushed(u)) /\ Both(Optional(st), Optional(u))
      /\ Both(Pushed(st, c), Pushed(u, c))
  <2>1. /\ st \in ReadStates /\ u \in ReadStates
        /\ st.mode = u.mode /\ st.current = u.current /\ st.seeds \subseteq u.seeds
    BY DEF IsAhead
  <2>2. IsAhead(Pushed(st, c), Pushed(u, c)) /\ u.seeds \subseteq Pushed(u, c).seeds
    <3>1. \A v \in ReadStates :
            /\ Pushed(v, c) \in ReadStates /\ Pushed(v, c).mode = v.mode
            /\ Pushed(v, c).current = Append(v.current, c)
            /\ Pushed(v, c).seeds = v.seeds
      BY PushedReads
    <3>. DEFINE x == Pushed(st, c)
                y == Pushed(u, c)
    <3>2. x \in ReadStates /\ x.mode = st.mode /\ x.seeds = st.seeds
      BY <2>1, <3>1
    <3>3. y \in ReadStates /\ y.mode = u.mode /\ y.seeds = u.seeds
      BY <2>1, <3>1
    <3>4. x.current = y.current
      <4>1. x.current = Append(st.current, c) /\ y.current = Append(u.current, c)
        BY <2>1, <3>1
      <4>2. st.current = u.current
        BY <2>1
      <4>. QED
        BY <4>1, <4>2, Zenon
    <3>. HIDE DEF x, y
    <3>5. IsAhead(x, y) /\ u.seeds \subseteq y.seeds
      BY <2>1, <3>2, <3>3, <3>4 DEF IsAhead
    <3>. QED
      BY <3>5 DEF x, y
  <2>. QED
    BY <1>0, <2>2
<1>2. ASSUME NEW x, NEW y, Both(x, y),
             NEW m \in {"plain", "escape", "class", "classEscape", "count", "skip"}
      PROVE  Both(Enter(x, m), Enter(y, m))
  BY <1>2, EnterReads DEF IsAhead
<1>3. /\ st.mode = u.mode
      /\ u.mode \in {"plain", "escape", "class", "classEscape", "count", "skip"}
  BY DEF IsAhead, ReadStates
<1>. HIDE DEF Both
<1>9. \A m \in {"plain", "escape", "class", "classEscape", "count", "skip"} :
        /\ Both(Enter(st, m), Enter(u, m))
        /\ Both(Enter(Flushed(st), m), Enter(Flushed(u), m))
        /\ Both(Enter(Optional(st), m), Enter(Optional(u), m))
        /\ Both(Enter(Pushed(st, c), m), Enter(Pushed(u, c), m))
  BY <1>1, <1>2
<1>4. CASE u.mode = "plain"
  <2>1. Both(ReadChar(st, c), ReadChar(u, c))
    <3>1. st.mode = "plain" /\ u.mode = "plain"
      BY <1>3, <1>4
    <3>2. CASE c = "\\"
      BY <1>1, <1>9, <3>1, <3>2, PlainReads
    <3>3. CASE c = "["
      BY <1>1, <1>9, <3>1, <3>3, PlainReads
    <3>4. CASE c = "{"
      BY <1>1, <1>9, <3>1, <3>4, PlainReads
    <3>5. CASE c \in {"?", "*"} \cup Flushing \/ c \notin Meta
      BY <1>1, <3>1, <3>5, PlainReads
    <3>. QED
      BY <3>2, <3>3, <3>4, <3>5 DEF Meta
  <2>. QED
    BY <2>1 DEF Both
<1>5. CASE u.mode = "escape"
  BY <1>1, <1>9, <1>3, <1>5, EscapeReads DEF Both
<1>6. CASE u.mode \in {"class", "classEscape"}
  <2>1. Both(ReadChar(st, c), ReadChar(u, c))
    <3>1. CASE u.mode = "class" /\ c \notin {"\\", "]"}
      BY <1>1, <1>3, <3>1, ClassReads
    <3>2. CASE u.mode = "class" /\ c = "\\"
      BY <1>1, <1>9, <1>3, <3>2, ClassReads
    <3>3. CASE u.mode = "class" /\ c = "]"
      BY <1>1, <1>9, <1>3, <3>3, ClassReads
    <3>4. CASE u.mode = "classEscape"
      BY <1>1, <1>9, <1>3, <3>4, ClassReads
    <3>. QED
      BY <1>6, <3>1, <3>2, <3>3, <3>4
  <2>. QED
    BY <2>1 DEF Both
<1>7. CASE u.mode = "skip"
  <2>1. Both(ReadChar(st, c), ReadChar(u, c))
    <3>0. st.mode = "skip" /\ u.mode = "skip"
      BY <1>3, <1>7
    <3>1. CASE c = "}"
      <4>1. ReadChar(st, c) = Enter(st, "plain")
        BY <3>0, <3>1, CountReads
      <4>2. ReadChar(u, c) = Enter(u, "plain")
        BY <3>0, <3>1, CountReads
      <4>. QED
        BY <1>9, <4>1, <4>2
    <3>2. CASE c # "}"
      <4>1. ReadChar(st, c) = st
        BY <3>0, <3>2, CountReads
      <4>2. ReadChar(u, c) = u
        BY <3>0, <3>2, CountReads
      <4>. QED
        BY <1>1, <4>1, <4>2
    <3>. QED
      BY <3>1, <3>2
  <2>. QED
    BY <2>1 DEF Both
<1>8. CASE u.mode = "count"
  <2>1. ReadChar(st, c) = ReadCount(st, c) /\ ReadChar(u, c) = ReadCount(u, c)
    BY <1>3, <1>8 DEF ReadChar
  <2>2. Both(ReadCount(st, c), ReadCount(u, c))
    <3>1. CASE c = "0"
      <4>1. ReadCount(st, c) = Enter(Optional(st), "skip") /\ ReadCount(u, c) = Enter(Optional(u), "skip")
        BY <3>1 DEF ReadCount
      <4>. QED
        BY <1>9, <4>1
    <3>2. CASE c # "0"
      BY <1>9, <3>2 DEF ReadCount
    <3>. QED
      BY <3>1, <3>2
  <2>. QED
    BY <2>1, <2>2 DEF Both
<1>. QED
  BY <1>3, <1>4, <1>5, <1>6, <1>7, <1>8

(* The seeds of a part are seeds of the pattern.                           *)
LEMMA PartHasSeeds ==
  ASSUME NEW p \in Seq(Chars), NEW f \in 1..Len(p), NEW g \in 1..Len(p), IsPart(p, f, g)
  PROVE  /\ SubSeq(p, f, g) \in Seq(Chars)
         /\ ExtractRegexLiterals(SubSeq(p, f, g)) \subseteq ExtractRegexLiterals(p)
<1>. DEFINE q == SubSeq(p, f, g)
            inner == Reading(q)
            outer == Reading(p)
<1>1. f \in Nat /\ g \in Nat /\ Len(p) \in Nat /\ 1 <= f /\ f <= g /\ g <= Len(p)
  BY DEF IsPart
<1>2. /\ q \in Seq(Chars) /\ Len(q) = g - f + 1
      /\ \A k \in 1..(g - f + 1) : q[k] = p[f + k - 1]
  <2>1. f \in Int /\ g \in Int /\ \A k \in f..g : p[k] \in Chars
    BY <1>1
  <2>2. /\ q \in Seq(Chars) /\ Len(q) = IF f <= g THEN g - f + 1 ELSE 0
        /\ \A k \in 1..(g - f + 1) : q[k] = p[f + k - 1]
    BY <2>1, SubSeqProperties
  <2>. QED
    BY <1>1, <2>2
<1>. HIDE DEF q
<1>3. /\ inner[0] = NothingRead
      /\ \A k \in 1..Len(q) : inner[k] = ReadChar(inner[k - 1], q[k])
  BY <1>2, ReadingUnfolds
<1>4. /\ outer[0] = NothingRead
      /\ \A k \in 1..Len(p) : outer[k] = ReadChar(outer[k - 1], p[k])
      /\ \A k \in 0..Len(p) : outer[k] \in ReadStates
  BY ReadingUnfolds, ReadingReads
<1>5. /\ f = 1 \/ (p[f - 1] \in Flushing /\ outer[f - 2].mode = "plain")
      /\ g = Len(p) \/ (p[g + 1] \in Flushing /\ outer[g].mode = "plain")
  BY DEF IsPart
<1>6. /\ ExtractRegexLiterals(q) = Flushed(inner[Len(q)]).seeds
      /\ ExtractRegexLiterals(p) = Flushed(outer[Len(p)]).seeds
  BY DEF ExtractRegexLiterals
<1>. HIDE DEF inner, outer
<1>7. IsAhead(inner[0], outer[f - 1])
  <2>1. /\ NothingRead \in ReadStates /\ NothingRead.mode = "plain"
        /\ NothingRead.current = <<>> /\ NothingRead.seeds = {}
    BY DEF NothingRead, ReadStates
  <2>2. outer[f - 1] \in ReadStates /\ outer[f - 1].mode = "plain" /\ outer[f - 1].current = <<>>
    <3>1. CASE f = 1
      BY <1>4, <2>1, <3>1
    <3>2. CASE f # 1
      <4>1. f - 1 \in 1..Len(p) /\ f - 1 - 1 = f - 2 /\ f - 2 \in 0..Len(p)
        BY <1>1, <3>2
      <4>2. outer[f - 1] = Flushed(outer[f - 2])
        <5>1. p[f - 1] \in Flushing /\ outer[f - 2].mode = "plain"
          BY <1>5, <3>2
        <5>2. ReadChar(outer[f - 2], p[f - 1]) = Flushed(outer[f - 2])
          BY <5>1, PlainReads
        <5>3. outer[f - 1] = ReadChar(outer[f - 1 - 1], p[f - 1])
          BY <1>4, <4>1
        <5>. QED
          BY <4>1, <5>2, <5>3
      <4>. QED
        BY <1>4, <1>5, <3>2, <4>1, <4>2, FlushedReads
    <3>. QED
      BY <3>1, <3>2
  <2>. QED
    BY <1>3, <2>1, <2>2 DEF IsAhead
<1>8. IsAhead(inner[Len(q)], outer[g])
  <2>. DEFINE T == {k \in Nat : IsAhead(inner[k], outer[f - 1 + k])}
  <2>1. 0 \in T
    <3>1. f - 1 + 0 = f - 1
      BY <1>1
    <3>. QED
      BY <1>7, <3>1
  <2>2. ASSUME NEW k \in 0..(Len(q) - 1), k \in T PROVE k + 1 \in T
    <3>1. /\ k \in Nat /\ k + 1 \in 1..Len(q) /\ k + 1 \in 1..(g - f + 1) /\ k + 1 - 1 = k
          /\ f - 1 + (k + 1) \in 1..Len(p) /\ f - 1 + (k + 1) - 1 = f - 1 + k
          /\ f + (k + 1) - 1 = f - 1 + (k + 1)
      BY <1>1, <1>2
    <3>2. q[k + 1] = p[f - 1 + (k + 1)] /\ p[f - 1 + (k + 1)] \in Chars
      BY <1>2, <3>1
    <3>3. /\ inner[k + 1] = ReadChar(inner[k], q[k + 1])
          /\ outer[f - 1 + (k + 1)] = ReadChar(outer[f - 1 + k], q[k + 1])
      BY <1>3, <1>4, <3>1, <3>2
    <3>. QED
      BY <2>2, <3>1, <3>2, <3>3, CharStaysAhead
  <2>3. Len(q) \in Nat /\ f - 1 + Len(q) = g
    BY <1>1, <1>2
  <2>4. \A k \in 0..Len(q) : k \in T
    <3>. HIDE DEF T
    <3>. QED
      BY <2>1, <2>2, <2>3, UpTo
  <2>. QED
    BY <2>3, <2>4
<1>. DEFINE found == Flushed(inner[Len(q)]).seeds
<1>9. found \subseteq Flushed(outer[g]).seeds
  BY <1>8, FlushedStaysAhead DEF IsAhead
<1>. HIDE DEF found
<1>10. CASE g = Len(p)
  BY <1>2, <1>6, <1>9, <1>10 DEF q, found
<1>11. CASE g # Len(p)
  <2>. DEFINE T == {k \in Nat : found \subseteq outer[g + 1 + k].seeds}
  <2>1. 0 \in T
    <3>1. g + 1 \in 1..Len(p) /\ g + 1 - 1 = g /\ g + 1 + 0 = g + 1
      BY <1>1, <1>11
    <3>2. outer[g + 1] = Flushed(outer[g])
      <4>1. p[g + 1] \in Flushing /\ outer[g].mode = "plain"
        BY <1>5, <1>11
      <4>2. ReadChar(outer[g], p[g + 1]) = Flushed(outer[g])
        BY <4>1, PlainReads
      <4>3. outer[g + 1] = ReadChar(outer[g + 1 - 1], p[g + 1])
        BY <1>4, <3>1
      <4>. QED
        BY <3>1, <4>2, <4>3
    <3>. QED
      BY <1>9, <3>1, <3>2
  <2>2. ASSUME NEW k \in 0..(Len(p) - g - 1 - 1), k \in T PROVE k + 1 \in T
    <3>1. /\ k \in Nat /\ g + 1 + (k + 1) \in 1..Len(p)
          /\ g + 1 + (k + 1) - 1 = g + 1 + k /\ g + 1 + k \in 0..Len(p)
      BY <1>1
    <3>2. /\ outer[g + 1 + (k + 1)] = ReadChar(outer[g + 1 + k], p[g + 1 + (k + 1)])
          /\ p[g + 1 + (k + 1)] \in Chars
          /\ IsAhead(outer[g + 1 + k], outer[g + 1 + k])
      BY <1>4, <3>1 DEF IsAhead
    <3>3. outer[g + 1 + k].seeds \subseteq outer[g + 1 + (k + 1)].seeds
      BY <3>2, CharStaysAhead
    <3>. QED
      BY <2>2, <3>1, <3>3
  <2>3. Len(p) - g - 1 \in Nat /\ g + 1 + (Len(p) - g - 1) = Len(p)
    BY <1>1, <1>11
  <2>4. \A k \in 0..(Len(p) - g - 1) : k \in T
    <3>. DEFINE m == Len(p) - g - 1
    <3>1. m \in Nat /\ \A k \in 0..(m - 1) : k \in T => k + 1 \in T
      BY <2>2, <2>3
    <3>. HIDE DEF T, m
    <3>2. \A k \in 0..m : k \in T
      BY <2>1, <3>1, UpTo
    <3>. QED
      BY <3>2 DEF m
  <2>5. found \subseteq outer[Len(p)].seeds
    <3>1. Len(p) - g - 1 \in T
      <4>. HIDE DEF T
      <4>1. Len(p) - g - 1 \in 0..(Len(p) - g - 1)
        BY <2>3
      <4>. QED
        BY <2>4, <4>1
    <3>. QED
      BY <2>3, <3>1
  <2>6. outer[Len(p)].seeds \subseteq Flushed(outer[Len(p)]).seeds
    <3>1. IsAhead(outer[Len(p)], outer[Len(p)])
      BY <1>1, <1>4 DEF IsAhead
    <3>. QED
      BY <3>1, FlushedStaysAhead
  <2>. QED
    BY <1>2, <1>6, <2>5, <2>6 DEF q, found
<1>. QED
  BY <1>10, <1>11

(* A regex whose words spell it requires its seeds.                        *)
LEMMA SpelledIsRequired ==
  ASSUME NEW r \in Requests, r.kind = "regex" => IsSpelled(r)
  PROVE  SeedsRequired(r)
<1>. SUFFICES ASSUME r.kind = "regex", Seeds(r) # {}
              PROVE  /\ Seeds(r) \subseteq Seq(Chars)
                     /\ \A w \in r.words :
                          IF HasAlternation(r.pattern)
                          THEN \E s \in Seeds(r) : Trigrams(s) \subseteq Trigrams(w)
                          ELSE \A s \in Seeds(r) : Trigrams(s) \subseteq Trigrams(w)
  BY DEF SeedsRequired
<1>1. r.pattern \in Seq(Chars) /\ r.words \subseteq Seq(Chars)
  BY CandidatesAssumption DEF IsRequest
<1>2. ASSUME NEW w \in r.words, HasAlternation(r.pattern)
      PROVE  \E s \in Seeds(r) : Trigrams(s) \subseteq Trigrams(w)
  <2>1. PICK f \in 1..Len(r.pattern), g \in 1..Len(r.pattern) :
          /\ IsPart(r.pattern, f, g)
          /\ \E s \in ExtractRegexLiterals(SubSeq(r.pattern, f, g)) : Len(s) >= 3
          /\ IsSpelling(SubSeq(r.pattern, f, g), w)
    BY <1>2 DEF IsSpelled
  <2>. DEFINE part == SubSeq(r.pattern, f, g)
  <2>2. part \in Seq(Chars) /\ ExtractRegexLiterals(part) \subseteq ExtractRegexLiterals(r.pattern)
    BY <1>1, <2>1, PartHasSeeds
  <2>3. PICK s \in ExtractRegexLiterals(part) : Len(s) >= 3
    BY <2>1
  <2>4. PICK n, cut, mode : IsCut(part, n, cut, mode) /\ Spells(part, n, cut, mode, w)
    BY <2>1 DEF IsSpelling
  <2>. HIDE DEF part
  <2>5. s \in Seq(Chars) /\ Occurs(s, w)
    BY <1>1, <2>2, <2>4, SeedsOccur
  <2>6. s \in Seeds(r)
    BY <2>2, <2>3 DEF Seeds
  <2>. QED
    BY <1>1, <2>5, <2>6, TrigramsOccur
<1>3. ASSUME NEW w \in r.words, ~HasAlternation(r.pattern), NEW s \in Seeds(r)
      PROVE  Trigrams(s) \subseteq Trigrams(w)
  <2>1. s \in ExtractRegexLiterals(r.pattern)
    BY DEF Seeds
  <2>2. PICK n, cut, mode : /\ IsCut(r.pattern, n, cut, mode)
                            /\ Spells(r.pattern, n, cut, mode, w)
    BY <1>3 DEF IsSpelled, IsSpelling
  <2>. QED
    BY <1>1, <2>1, <2>2, SeedsOccur, TrigramsOccur
<1>. QED
  BY <1>1, <1>2, <1>3, SeedsAreLiterals DEF Seeds

(* The pruning never asks for a trigram that a match need not have: the    *)
(* seeds of every request are required by what it matches, if the words of *)
(* its regex spell the pattern piece by piece (extract_regex_literals,     *)
(* plan_regex, planner.rs 165-294).                                        *)
THEOREM SeedsAreRequired ==
  ASSUME \A r \in Requests : r.kind = "regex" => IsSpelled(r)
  PROVE  Spec => []SeedsSuffice
<1>1. HitsInv => SeedsSuffice
  BY SpelledIsRequired DEF HitsInv, TypeOK, SeedsSuffice
<1>. QED
  BY <1>1, HitsInvHolds, PTL

(* For such requests pruning loses no match, without a condition on seeds. *)
COROLLARY SpelledMissNothing ==
  ASSUME \A r \in Requests : r.kind = "regex" => IsSpelled(r)
  PROVE  Spec => []MissesNothing
BY SpelledIsRequired, NothingIsMissed
=============================================================================
