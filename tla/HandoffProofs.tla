----------------------------- MODULE HandoffProofs -----------------------------
(***************************************************************************)
(* Proofs about Handoff: no edit of a user is ever gone, for any number of *)
(* checkouts, edits, branches, commands and failures.  A pack has the work *)
(* of its handoff on the remote, a resume that ended well has it in the    *)
(* checkout and gives back what it stashed, and a metadata resume leaves   *)
(* the checkout as it was if no pack is written into it.                   *)
(***************************************************************************)
EXTENDS Handoff, SequenceTheorems, FiniteSetTheorems, TLAPS

(* What a checkout has of its user's work.                                 *)
InStashes(stashes) == UNION {stashes[i].works : i \in DOMAIN stashes}
InCommits(heads) ==
  UNION {Content(heads[b]) : b \in {c \in Refs : heads[c] # NoRef}}
Kept(r) == r.tree \cup InStashes(r.stashes) \cup InCommits(r.heads)

(* A checkout is on an existing branch and has what was made in it.        *)
Sound(r) ==
  /\ r \in RepoType
  /\ r.heads[r.branch] # NoRef /\ r.heads[Main] # NoRef
  /\ r.made \subseteq Kept(r)

-----------------------------------------------------------------------------
(* Stash lists and commits as sequences.                                   *)

(* Removing an entry takes no more than its works out of the list.         *)
LEMMA RemovedEntry ==
  ASSUME NEW S, NEW s \in Seq(S), NEW i \in 1..Len(s)
  PROVE  /\ RemoveAt(s, i) \in Seq(S)
         /\ Len(RemoveAt(s, i)) = Len(s) - 1
         /\ InStashes(s) \subseteq s[i].works \cup InStashes(RemoveAt(s, i))
         /\ InStashes(RemoveAt(s, i)) \cup s[i].works \subseteq InStashes(s)
<1>. DEFINE front == SubSeq(s, 1, i - 1)
            back == SubSeq(s, i + 1, Len(s))
<1>0. Len(s) \in Nat /\ DOMAIN s = 1..Len(s) /\ \A j \in 1..Len(s) : s[j] \in S
  BY LenProperties, ElementOfSeq
<1>1. /\ front \in Seq(S) /\ Len(front) = i - 1
      /\ \A j \in 1..(i - 1) : front[j] = s[j]
  <2>. HIDE DEF front
  <2>1. ASSUME NEW j \in 1..(i - 1)
        PROVE  s[j] \in S
    <3>1. PICK n \in Nat : n = Len(s)
      BY <1>0, Zenon
    <3>2. i \in 1..n
      BY <3>1
    <3>. HIDE DEF back
    <3>3. j \in 1..n
      BY <3>2
    <3>. QED
      BY <1>0, <3>1, <3>3, Zenon
  <2>. QED
    BY <1>0, <2>1, SubSeqProperties, Z3 DEF front
<1>2. /\ back \in Seq(S) /\ Len(back) = Len(s) - i
      /\ \A j \in 1..(Len(s) - i) : back[j] = s[i + j]
  <2>1. \A j \in (i + 1)..Len(s) : s[j] \in S
    BY <1>0
  <2>2. i \in Int /\ i <= Len(s) /\ i + 1 \in Int /\ Len(s) \in Int
    BY <1>0
  <2>3. /\ back \in Seq(S)
        /\ Len(back) = IF i + 1 <= Len(s) THEN Len(s) - (i + 1) + 1 ELSE 0
        /\ \A j \in 1..(Len(s) - (i + 1) + 1) : back[j] = s[(i + 1) + j - 1]
    BY <2>1, <2>2, SubSeqProperties
  <2>. HIDE DEF back
  <2>4. Len(s) - (i + 1) + 1 = Len(s) - i
    BY <1>0
  <2>5. \A j \in 1..(Len(s) - i) : (i + 1) + j - 1 = i + j
    BY <2>2
  <2>6. Len(back) = Len(s) - i
    BY <2>2, <2>3
  <2>. QED
    BY <2>3, <2>4, <2>5, <2>6
<1>. HIDE DEF front, back
<1>3. RemoveAt(s, i) = front \o back
  BY DEF RemoveAt, front, back
<1>4. /\ front \o back \in Seq(S)
      /\ Len(front \o back) = Len(s) - 1
      /\ DOMAIN (front \o back) = 1..(Len(s) - 1)
      /\ \A j \in 1..(Len(s) - 1) :
           (front \o back)[j] = IF j <= i - 1 THEN s[j] ELSE s[j + 1]
  <2>1. /\ front \o back \in Seq(S)
        /\ Len(front \o back) = Len(front) + Len(back)
        /\ \A j \in 1..(Len(front) + Len(back)) :
             (front \o back)[j] = IF j <= Len(front) THEN front[j]
                                  ELSE back[j - Len(front)]
    BY <1>1, <1>2, ConcatProperties
  <2>2. Len(front) + Len(back) = Len(s) - 1
    BY <1>0, <1>1, <1>2
  <2>3. ASSUME NEW j \in 1..(Len(s) - 1)
        PROVE  (front \o back)[j] = IF j <= i - 1 THEN s[j] ELSE s[j + 1]
    <3>1. CASE j <= i - 1
      BY <1>0, <1>1, <2>1, <2>2, <3>1
    <3>2. CASE ~(j <= i - 1)
      <4>1. j - (i - 1) \in 1..(Len(s) - i) /\ i + (j - (i - 1)) = j + 1
        BY <1>0, <3>2
      <4>2. ~(j <= Len(front)) /\ j - Len(front) = j - (i - 1)
        BY <1>1, <3>2
      <4>3. (front \o back)[j] = back[j - Len(front)]
        BY <2>1, <2>2, <4>2
      <4>. QED
        BY <1>2, <3>2, <4>1, <4>2, <4>3
    <3>. QED
      BY <3>1, <3>2
  <2>. QED
    BY <2>1, <2>2, <2>3, LenProperties
<1>5. ASSUME NEW j \in DOMAIN s, j # i
      PROVE  \E k \in DOMAIN (front \o back) : (front \o back)[k] = s[j]
  <2>1. CASE j < i
    <3>1. j \in 1..(Len(s) - 1) /\ j <= i - 1
      BY <1>0, <2>1
    <3>. QED
      BY <1>4, <3>1
  <2>2. CASE j > i
    <3>1. j - 1 \in 1..(Len(s) - 1) /\ ~(j - 1 <= i - 1) /\ (j - 1) + 1 = j
      BY <1>0, <2>2
    <3>. QED
      BY <1>4, <3>1
  <2>. QED
    BY <1>0, <1>5, <2>1, <2>2
<1>6. InStashes(s) \subseteq s[i].works \cup InStashes(front \o back)
  BY <1>5 DEF InStashes
<1>7. ASSUME NEW k \in DOMAIN (front \o back)
      PROVE  \E j \in DOMAIN s : (front \o back)[k] = s[j]
  <2>1. k \in 1..(Len(s) - 1)
    BY <1>4, <1>7, Zenon
  <2>2. k \in DOMAIN s /\ k + 1 \in DOMAIN s
    BY <1>0, <2>1
  <2>. QED
    BY <1>4, <2>1, <2>2
<1>8. InStashes(front \o back) \cup s[i].works \subseteq InStashes(s)
  <2>1. i \in DOMAIN s
    BY <1>0
  <2>. QED
    BY <1>7, <2>1 DEF InStashes
<1>. QED
  BY <1>3, <1>4, <1>6, <1>8

(* A new entry comes first and the others stay.                            *)
LEMMA AddedEntry ==
  ASSUME NEW S, NEW s \in Seq(S), NEW e \in S
  PROVE  /\ <<e>> \o s \in Seq(S)
         /\ Len(<<e>> \o s) = Len(s) + 1
         /\ DOMAIN (<<e>> \o s) = 1..(Len(s) + 1)
         /\ InStashes(<<e>> \o s) = InStashes(s) \cup e.works
<1>. DEFINE t == <<e>>
<1>1. t \in Seq(S) /\ Len(t) = 1 /\ t[1] = e
  OBVIOUS
<1>. HIDE DEF t
<1>2. Len(s) \in Nat /\ DOMAIN s = 1..Len(s)
  BY LenProperties
<1>3. /\ t \o s \in Seq(S)
      /\ Len(t \o s) = 1 + Len(s)
      /\ \A i \in 1..(1 + Len(s)) :
           (t \o s)[i] = IF i <= 1 THEN t[i] ELSE s[i - 1]
  <2>1. /\ t \o s \in Seq(S)
        /\ Len(t \o s) = Len(t) + Len(s)
        /\ \A i \in 1..(Len(t) + Len(s)) :
             (t \o s)[i] = IF i <= Len(t) THEN t[i] ELSE s[i - Len(t)]
    BY <1>1, ConcatProperties, Zenon
  <2>. QED
    BY <1>1, <2>1
<1>4. DOMAIN (t \o s) = 1..(1 + Len(s))
  BY <1>2, <1>3, LenProperties
<1>5. 1 \in DOMAIN (t \o s) /\ (t \o s)[1] = e
  BY <1>1, <1>2, <1>3, <1>4
<1>6. ASSUME NEW i \in DOMAIN s
      PROVE  i + 1 \in DOMAIN (t \o s) /\ (t \o s)[i + 1] = s[i]
  <2>1. i + 1 \in 1..(1 + Len(s)) /\ ~(i + 1 <= 1) /\ (i + 1) - 1 = i
    BY <1>2
  <2>. QED
    BY <1>3, <1>4, <2>1
<1>7. InStashes(s) \cup e.works \subseteq InStashes(t \o s)
  BY <1>5, <1>6 DEF InStashes
<1>8. ASSUME NEW i \in DOMAIN (t \o s)
      PROVE  (t \o s)[i] = e \/ \E j \in DOMAIN s : (t \o s)[i] = s[j]
  <2>1. i \in 1..(1 + Len(s)) /\ (~(i <= 1) => i - 1 \in DOMAIN s)
    BY <1>2, <1>4
  <2>2. i <= 1 => i = 1
    BY <2>1
  <2>. QED
    BY <1>1, <1>3, <2>1, <2>2
<1>9. InStashes(t \o s) \subseteq InStashes(s) \cup e.works
  BY <1>8 DEF InStashes
<1>. QED
  BY <1>2, <1>3, <1>4, <1>7, <1>9 DEF t

(* A commit after another has the content of both.                         *)
LEMMA AppendedCommit ==
  ASSUME NEW S, NEW c \in Seq(S), NEW works \in S
  PROVE  /\ Append(c, works) \in Seq(S)
         /\ Content(c) \cup works \subseteq Content(Append(c, works))
<1>1. Len(c) \in Nat /\ DOMAIN c = 1..Len(c)
  BY LenProperties
<1>2. /\ Append(c, works) \in Seq(S)
      /\ Len(Append(c, works)) = Len(c) + 1
      /\ \A i \in 1..Len(c) : Append(c, works)[i] = c[i]
      /\ Append(c, works)[Len(c) + 1] = works
  OBVIOUS
<1>3. DOMAIN Append(c, works) = 1..(Len(c) + 1)
  BY <1>2, LenProperties
<1>. QED
  BY <1>1, <1>2, <1>3 DEF Content

(* A commit has the content of those it is built on.                       *)
LEMMA PrefixContent ==
  ASSUME NEW S, NEW c \in Seq(S), NEW d \in Seq(S), IsPrefix(c, d)
  PROVE  Content(c) \subseteq Content(d)
<1>1. /\ Len(c) \in Nat /\ DOMAIN c = 1..Len(c)
      /\ Len(d) \in Nat /\ DOMAIN d = 1..Len(d)
  BY LenProperties
<1>2. Len(c) <= Len(d) /\ SubSeq(c, 1, Len(c)) = SubSeq(d, 1, Len(c))
  BY DEF IsPrefix
<1>3. ASSUME NEW i \in 1..Len(c) PROVE c[i] = d[i]
  BY <1>1, <1>2
<1>. QED
  BY <1>1, <1>2, <1>3 DEF Content

-----------------------------------------------------------------------------
(* The commands of git.                                                    *)

(* The commit a sound checkout is on is one.                               *)
LEMMA TipIsCommit ==
  ASSUME NEW h \in Hosts, Sound(repo[h])
  PROVE  Tip(h) \in Seq(SUBSET Dirt) /\ repo[h].branch \in Refs
BY DEF Sound, RepoType, Commits, Tip

(* A stash takes the work tree with it.                                    *)
LEMMA PushKeeps ==
  ASSUME repo \in [Hosts -> RepoType], NEW h \in Hosts, Sound(repo[h]),
         NEW label \in {"session", "resume"}
  PROVE  /\ Push(h, label) = [repo EXCEPT ![h] = Push(h, label)[h]]
         /\ Sound(Push(h, label)[h])
         /\ Len(Push(h, label)[h].stashes) = Len(repo[h].stashes) + 1
         /\ DOMAIN Push(h, label)[h].stashes = 1..(Len(repo[h].stashes) + 1)
<1>. DEFINE r == repo[h]
            e == [works |-> r.tree, base |-> Tip(h), line |-> Line(h, label)]
            q == [r EXCEPT !.tree = {}, !.stashes = <<e>> \o @]
<1>1. Push(h, label) = [repo EXCEPT ![h] = q] /\ Push(h, label)[h] = q
  BY DEF Push
<1>2. /\ r \in RepoType /\ r.stashes \in Seq(EntryType)
      /\ r.tree \in SUBSET Dirt
  BY DEF RepoType
<1>3. e \in EntryType
  BY <1>2, TipIsCommit DEF EntryType, Line
<1>. HIDE DEF e
<1>4. /\ <<e>> \o r.stashes \in Seq(EntryType)
      /\ Len(<<e>> \o r.stashes) = Len(r.stashes) + 1
      /\ DOMAIN (<<e>> \o r.stashes) = 1..(Len(r.stashes) + 1)
      /\ InStashes(r.stashes) \cup e.works \subseteq InStashes(<<e>> \o r.stashes)
  BY <1>2, <1>3, AddedEntry
<1>5. /\ q \in RepoType /\ q.heads = r.heads /\ q.branch = r.branch
      /\ q.made = r.made /\ q.tree = {} /\ q.stashes = <<e>> \o r.stashes
  BY <1>2, <1>4 DEF RepoType
<1>6. e.works = r.tree
  BY DEF e
<1>7. Sound(q)
  BY <1>4, <1>5, <1>6 DEF Sound, Kept
<1>. QED
  BY <1>1, <1>4, <1>5, <1>7

(* A pop that works gives back what the entry has, and one that conflicts  *)
(* leaves it.                                                              *)
LEMMA PopKeeps ==
  ASSUME repo \in [Hosts -> RepoType], NEW h \in Hosts, Sound(repo[h]),
         NEW i \in 1..Len(repo[h].stashes)
  PROVE  /\ Pop(h, i) = [repo EXCEPT ![h] = Pop(h, i)[h]]
         /\ Sound(Pop(h, i)[h])
<1>. DEFINE r == repo[h]
<1>1. /\ r \in RepoType /\ r.stashes \in Seq(EntryType)
      /\ r.tree \in SUBSET Dirt
  BY DEF RepoType
<1>2. CASE Conflicts(h, i)
  <2>. DEFINE q == [r EXCEPT !.unmerged = TRUE]
  <2>1. Pop(h, i) = [repo EXCEPT ![h] = q] /\ Pop(h, i)[h] = q
    BY <1>2 DEF Pop
  <2>2. /\ q \in RepoType /\ q.heads = r.heads /\ q.branch = r.branch
        /\ q.made = r.made /\ q.tree = r.tree /\ q.stashes = r.stashes
    BY <1>1 DEF RepoType
  <2>3. Sound(q)
    BY <2>2 DEF Sound, Kept
  <2>. QED
    BY <2>1, <2>3
<1>3. CASE ~Conflicts(h, i)
  <2>. DEFINE s == RemoveAt(r.stashes, i)
              q == [r EXCEPT !.tree = @ \cup r.stashes[i].works, !.stashes = s]
  <2>1. Pop(h, i) = [repo EXCEPT ![h] = q] /\ Pop(h, i)[h] = q
    BY <1>3 DEF Pop
  <2>2. /\ s \in Seq(EntryType)
        /\ InStashes(r.stashes) \subseteq r.stashes[i].works \cup InStashes(s)
    BY <1>1, RemovedEntry
  <2>3. r.stashes[i].works \in SUBSET Dirt
    <3>1. r.stashes[i] \in EntryType
      BY <1>1, ElementOfSeq
    <3>. QED
      BY <3>1 DEF EntryType
  <2>. HIDE DEF s
  <2>4. /\ q \in RepoType /\ q.heads = r.heads /\ q.branch = r.branch
        /\ q.made = r.made /\ q.tree = r.tree \cup r.stashes[i].works
        /\ q.stashes = s
    BY <1>1, <2>2, <2>3 DEF RepoType
  <2>5. Sound(q)
    BY <2>2, <2>4 DEF Sound, Kept
  <2>. QED
    BY <2>1, <2>5
<1>. QED
  BY <1>2, <1>3

(* What has no commit is no sequence.                                      *)
LEMMA HeadsGrow ==
  ASSUME NEW r \in RepoType, NEW b \in Refs, NEW c \in Seq(SUBSET Dirt),
         r.heads[b] # NoRef => Content(r.heads[b]) \subseteq Content(c)
  PROVE  /\ [r.heads EXCEPT ![b] = c] \in [Refs -> Commits]
         /\ \A d \in Refs :
              [r.heads EXCEPT ![b] = c][d] = IF d = b THEN c ELSE r.heads[d]
         /\ c # NoRef
         /\ InCommits(r.heads) \cup Content(c)
              \subseteq InCommits([r.heads EXCEPT ![b] = c])
<1>. DEFINE new == [r.heads EXCEPT ![b] = c]
<1>1. r.heads \in [Refs -> Commits] /\ c \in Commits /\ c # NoRef
  BY RefsAssumption DEF RepoType, Commits
<1>2. /\ new \in [Refs -> Commits]
      /\ \A d \in Refs : new[d] = IF d = b THEN c ELSE r.heads[d]
  BY <1>1
<1>. HIDE DEF new
<1>3. InCommits(r.heads) \cup Content(c) \subseteq InCommits(new)
  BY <1>1, <1>2 DEF InCommits
<1>. QED
  BY <1>1, <1>2, <1>3 DEF new

(* A commit of everything takes the work tree into the branch.             *)
LEMMA CommitAllKeeps ==
  ASSUME repo \in [Hosts -> RepoType], NEW h \in Hosts, Sound(repo[h])
  PROVE  /\ CommitAll(h) = [repo EXCEPT ![h] = CommitAll(h)[h]]
         /\ Sound(CommitAll(h)[h])
         /\ CommitAll(h)[h].stashes = repo[h].stashes
<1>. DEFINE r == repo[h]
            c == Append(Tip(h), r.tree)
            new == [r.heads EXCEPT ![r.branch] = c]
            q == [r EXCEPT !.heads = new, !.tree = {}]
<1>1. /\ r \in RepoType /\ r.tree \in SUBSET Dirt
      /\ r.branch \in Refs /\ Tip(h) \in Seq(SUBSET Dirt)
  BY TipIsCommit DEF RepoType
<1>2. CommitAll(h) = [repo EXCEPT ![h] = q] /\ CommitAll(h)[h] = q
  BY <1>1 DEF CommitAll, Tip, RepoType
<1>3. c \in Seq(SUBSET Dirt) /\ Content(Tip(h)) \cup r.tree \subseteq Content(c)
  BY <1>1, AppendedCommit
<1>. HIDE DEF c
<1>4. /\ new \in [Refs -> Commits]
      /\ new[r.branch] # NoRef /\ new[Main] # NoRef
      /\ InCommits(r.heads) \cup Content(c) \subseteq InCommits(new)
  <2>1. r.heads[r.branch] # NoRef => Content(r.heads[r.branch]) \subseteq Content(c)
    BY <1>3 DEF Tip
  <2>2. /\ new \in [Refs -> Commits]
        /\ \A d \in Refs : new[d] = IF d = r.branch THEN c ELSE r.heads[d]
        /\ c # NoRef
        /\ InCommits(r.heads) \cup Content(c) \subseteq InCommits(new)
    <3>. HIDE DEF r
    <3>. QED
      BY <1>1, <1>3, <2>1, HeadsGrow
  <2>3. Main \in Refs /\ r.heads[Main] # NoRef
    BY DEF Refs, Sound
  <2>. HIDE DEF new, r
  <2>. QED
    BY <1>1, <2>2, <2>3
<1>. HIDE DEF new
<1>5. /\ q \in RepoType /\ q.heads = new /\ q.branch = r.branch
      /\ q.made = r.made /\ q.tree = {} /\ q.stashes = r.stashes
  BY <1>1, <1>4 DEF RepoType
<1>6. Sound(q)
  BY <1>3, <1>4, <1>5 DEF Sound, Kept
<1>. QED
  BY <1>2, <1>5, <1>6

(* A set of numbers that is not empty has a least one; the intervals below *)
(* its members are finite and well ordered by inclusion.                   *)
LEMMA LeastNumber ==
  ASSUME NEW T, T \subseteq Nat, T # {}
  PROVE  \E i \in T : \A j \in T : ~(j < i)
<1>. DEFINE below == {1..k : k \in T}
            less == StrictSubsetOrdering(Nat)
            finite == FiniteSubsetsOf(Nat)
<1>1. below \subseteq finite /\ below # {}
  <2>1. \A k \in Nat : 1..k \subseteq Nat /\ IsFiniteSet(1..k)
    BY FS_Interval
  <2>. QED
    BY <2>1 DEF FiniteSubsetsOf
<1>2. IsWellFoundedOn(less, finite)
  BY FS_StrictSubsetOrderingWellFounded
<1>. HIDE DEF less, finite, below
<1>3. \E x \in below : \A y \in below : ~(<<y, x>> \in less)
  BY <1>1, <1>2, WFMin
<1>4. PICK i \in T : \A j \in T : <<1..j, 1..i>> \notin less
  BY <1>3 DEF below
<1>5. ASSUME NEW j \in T, j < i PROVE FALSE
  <2>1. i \in Nat /\ j \in Nat /\ 1..j \subseteq Nat /\ 1..i \subseteq Nat
    OBVIOUS
  <2>2. 1..j \subseteq 1..i /\ i \in 1..i /\ i \notin 1..j
    BY <1>5, <2>1
  <2>3. <<1..j, 1..i>> \in less
    BY <2>1, <2>2 DEF less, StrictSubsetOrdering
  <2>. QED
    BY <1>4, <2>3
<1>. QED
  BY <1>5

(* The list of stashes has a first line that is new.                       *)
LEMMA NewEntryIsThere ==
  ASSUME repo \in [Hosts -> RepoType], NEW h \in Hosts, Sound(repo[h]),
         NEW label \in {"session", "resume"}
  PROVE  NewEntry(h, label) \in 1..(Len(repo[h].stashes) + 1)
<1>. DEFINE before == repo[h].stashes
            after == Push(h, label)[h].stashes
            n == Len(before)
            New(i) == i > n \/ before[i].line # after[i].line
            T == {i \in 1..(n + 1) : New(i)}
<1>1. n \in Nat /\ DOMAIN after = 1..(n + 1)
  BY PushKeeps, LenProperties DEF RepoType
<1>. HIDE DEF after, before
<1>2. n + 1 \in T /\ T \subseteq Nat /\ T # {}
  BY <1>1
<1>4. PICK i \in T : \A j \in T : ~(j < i)
  BY <1>2, LeastNumber
<1>5. ASSUME NEW j \in 1..(i - 1) PROVE before[j].line = after[j].line
  BY <1>1, <1>4
<1>. DEFINE IsNew(k) == /\ k > n \/ before[k].line # after[k].line
                        /\ \A j \in 1..(k - 1) : before[j].line = after[j].line
<1>6. i \in DOMAIN after /\ IsNew(i)
  <2>1. i > n \/ before[i].line # after[i].line
    BY DEF T
  <2>. QED
    BY <1>1, <1>5, <2>1
<1>7. NewEntry(h, label) = CHOOSE k \in DOMAIN after : IsNew(k)
  BY DEF NewEntry, after, before
<1>. HIDE DEF IsNew
<1>8. NewEntry(h, label) \in DOMAIN after
  BY <1>6, <1>7
<1>. QED
  BY <1>1, <1>8 DEF before

-----------------------------------------------------------------------------
(* The invariant.                                                          *)

(* What a command remembers: its fields, a branch that may be handed off,  *)
(* and a stash that is in the list, or none.                               *)
HandoffOp(o) ==
  /\ {"pc", "kind", "branch", "label", "stash"} \subseteq DOMAIN o
  /\ o.kind = "handoff"
ResumeOp(o) ==
  /\ {"pc", "kind", "branch", "label", "stash", "tip"} \subseteq DOMAIN o
  /\ o.kind = "resume" /\ o.pc # "branch"
  /\ o.pc = "switch" => o.tip \in Seq(SUBSET Dirt)
OpSound(o, r) ==
  \/ o = Idle
  \/ /\ HandoffOp(o) \/ ResumeOp(o)
     /\ o.branch \in Branches
     /\ o.label \in {"session", "resume"}
     /\ o.stash \in 0..Len(r.stashes)

KeptInv ==
  /\ repo \in [Hosts -> RepoType]
  /\ remote \in [Branches -> Commits]
  /\ op = [h \in Hosts |-> op[h]]
  /\ \A p \in packs : p.branch \in Branches
  /\ \A h \in Hosts : Sound(repo[h]) /\ OpSound(op[h], repo[h])

(* A step at one checkout that keeps it sound.                             *)
LEMMA StepKeeps ==
  ASSUME KeptInv, NEW h \in Hosts,
         repo' = [repo EXCEPT ![h] = repo'[h]], Sound(repo'[h]),
         op' = [op EXCEPT ![h] = op'[h]], OpSound(op'[h], repo'[h]),
         remote' \in [Branches -> Commits],
         \A p \in packs' : p.branch \in Branches
  PROVE  KeptInv'
<1>1. repo' \in [Hosts -> RepoType] /\ op' = [g \in Hosts |-> op'[g]]
  BY DEF KeptInv, Sound
<1>2. \A g \in Hosts : g # h => repo'[g] = repo[g] /\ op'[g] = op[g]
  BY DEF KeptInv
<1>3. \A g \in Hosts : Sound(repo'[g]) /\ OpSound(op'[g], repo'[g])
  BY <1>2 DEF KeptInv
<1>. QED
  BY <1>1, <1>3 DEF KeptInv

(* A command that goes on remembers the same, and one that ends nothing.   *)
LEMMA OpGoesOn ==
  ASSUME KeptInv, NEW h \in Hosts, NEW q, q.stashes = repo[h].stashes,
         \/ Done(h)
         \/ \E pc : Goto(h, pc) /\ Busy(h) /\ (pc \in {"branch", "switch"} => op[h].kind = "handoff")
  PROVE  op' = [op EXCEPT ![h] = op'[h]] /\ OpSound(op'[h], q)
<1>1. CASE Done(h)
  BY <1>1 DEF Done, KeptInv, OpSound
<1>2. ASSUME NEW pc, Goto(h, pc), Busy(h),
             pc \in {"branch", "switch"} => op[h].kind = "handoff"
      PROVE  op' = [op EXCEPT ![h] = op'[h]] /\ OpSound(op'[h], q)
  <2>1. op' = [op EXCEPT ![h] = op'[h]] /\ op'[h] = [op[h] EXCEPT !.pc = pc]
    BY <1>2 DEF Goto, KeptInv
  <2>2. OpSound(op[h], repo[h]) /\ op[h] # Idle
    BY <1>2 DEF KeptInv, Busy
  <2>3. OpSound(op'[h], q)
    BY <1>2, <2>1, <2>2 DEF OpSound, HandoffOp, ResumeOp
  <2>. QED
    BY <2>1, <2>3
<1>. QED
  BY <1>1, <1>2

(* Steps of the tool that go on, or end, and leave the checkout as it is.  *)
LEMMA MovesKeep ==
  ASSUME KeptInv, NEW h \in Hosts, UNCHANGED <<repo, remote, packs>>,
         \/ Done(h)
         \/ \E pc : Goto(h, pc) /\ Busy(h) /\ (pc \in {"branch", "switch"} => op[h].kind = "handoff")
  PROVE  KeptInv'
<1>1. repo' = [repo EXCEPT ![h] = repo'[h]] /\ Sound(repo'[h])
  BY DEF KeptInv
<1>2. op' = [op EXCEPT ![h] = op'[h]] /\ OpSound(op'[h], repo'[h])
  BY OpGoesOn
<1>. QED
  BY <1>1, <1>2, StepKeeps DEF KeptInv

(* Popping what the command remembers.                                     *)
LEMMA RestoreStashKeeps ==
  ASSUME KeptInv, NEW h \in Hosts, Busy(h), NEW pc, pc \notin {"branch", "switch"},
         RestoreStash(h, pc)
  PROVE  KeptInv'
<1>1. /\ OpSound(op[h], repo[h]) /\ op[h] # Idle /\ Sound(repo[h])
      /\ repo[h].stashes \in Seq(EntryType)
  BY DEF KeptInv, Busy, Sound, RepoType
<1>2. repo' = [repo EXCEPT ![h] = repo'[h]] /\ Sound(repo'[h])
  <2>1. CASE op[h].stash = 0
    BY <1>1, <2>1 DEF RestoreStash, KeptInv
  <2>2. CASE op[h].stash # 0
    <3>1. op[h].stash \in 1..Len(repo[h].stashes)
      BY <1>1, <2>2, LenProperties DEF OpSound
    <3>2. repo' = Pop(h, op[h].stash)
      BY <2>2 DEF RestoreStash
    <3>. QED
      BY <1>1, <3>1, <3>2, PopKeeps DEF KeptInv
  <2>. QED
    BY <2>1, <2>2
<1>3. op' = [op EXCEPT ![h] = op'[h]] /\ OpSound(op'[h], repo'[h])
  <2>1. CASE Done(h)
    BY <2>1 DEF Done, KeptInv, OpSound
  <2>2. CASE op' = [op EXCEPT ![h].pc = pc, ![h].stash = 0]
    <3>1. /\ op' = [op EXCEPT ![h] = op'[h]]
          /\ op'[h] = [op[h] EXCEPT !.pc = pc, !.stash = 0]
      BY <2>2 DEF KeptInv
    <3>2. Len(repo'[h].stashes) \in Nat
      BY <1>2, LenProperties DEF Sound, RepoType
    <3>3. /\ HandoffOp(op[h]) \/ ResumeOp(op[h])
          /\ op[h].branch \in Branches /\ op[h].label \in {"session", "resume"}
      BY <1>1 DEF OpSound
    <3>4. /\ HandoffOp(op'[h]) \/ ResumeOp(op'[h])
          /\ op'[h].branch = op[h].branch /\ op'[h].label = op[h].label
          /\ op'[h].stash = 0
      <4>. DEFINE o == op[h]
                  q == op'[h]
      <4>1. /\ q = [o EXCEPT !.pc = pc, !.stash = 0]
            /\ HandoffOp(o) \/ ResumeOp(o)
        BY <3>1, <3>3
      <4>. HIDE DEF o, q
      <4>2. /\ HandoffOp(q) \/ ResumeOp(q)
            /\ q.branch = o.branch /\ q.label = o.label /\ q.stash = 0
        BY <4>1 DEF HandoffOp, ResumeOp
      <4>. QED
        BY <4>2 DEF o, q
    <3>5. op'[h].stash \in 0..Len(repo'[h].stashes)
      BY <3>2, <3>4
    <3>. QED
      BY <2>2, <3>1, <3>3, <3>4, <3>5, Zenon DEF OpSound
  <2>. QED
    BY <2>1, <2>2 DEF RestoreStash
<1>. QED
  BY <1>2, <1>3, StepKeeps DEF RestoreStash, KeptInv

(* The first step of a handoff, and of a resume, through git.              *)
LEMMA StashIfDirtyKeeps ==
  ASSUME KeptInv, NEW h \in Hosts, StashIfDirty(h)
  PROVE  KeptInv'
<1>1. /\ OpSound(op[h], repo[h]) /\ op[h] # Idle /\ Sound(repo[h])
      /\ repo \in [Hosts -> RepoType]
      /\ Len(repo[h].stashes) \in Nat
  <2>1. repo \in [Hosts -> RepoType] /\ OpSound(op[h], repo[h]) /\ Sound(repo[h])
    BY DEF KeptInv
  <2>2. op[h] # Idle
    BY DEF StashIfDirty, At, Idle
  <2>3. Len(repo[h].stashes) \in Nat
    BY <2>1, LenProperties DEF RepoType
  <2>. QED
    BY <2>1, <2>2, <2>3
<1>2. op[h].label \in {"session", "resume"}
  BY <1>1 DEF OpSound
<1>. DEFINE n == IF repo[h].tree = {} THEN 0 ELSE NewEntry(h, op[h].label)
            pc == IF op[h].kind = "resume" THEN "fetch" ELSE "branch"
<1>3. /\ repo' = [repo EXCEPT ![h] = repo'[h]] /\ Sound(repo'[h])
      /\ n \in 0..Len(repo'[h].stashes)
  <2>1. CASE repo[h].tree = {}
    BY <1>1, <2>1 DEF StashIfDirty
  <2>2. CASE repo[h].tree # {}
    <3>1. repo' = Push(h, op[h].label)
      BY <2>2 DEF StashIfDirty
    <3>2. n \in 1..(Len(repo[h].stashes) + 1)
      BY <1>1, <1>2, <2>2, NewEntryIsThere
    <3>3. Len(repo'[h].stashes) = Len(repo[h].stashes) + 1
      BY <1>1, <1>2, <3>1, PushKeeps
    <3>. HIDE DEF n
    <3>4. n \in 0..Len(repo'[h].stashes)
      BY <1>1, <3>2, <3>3
    <3>. QED
      BY <1>1, <1>2, <3>1, <3>4, PushKeeps
  <2>. QED
    BY <2>1, <2>2
<1>4. /\ op' = [op EXCEPT ![h] = op'[h]]
      /\ op'[h] = [op[h] EXCEPT !.pc = pc, !.stash = n]
  <2>1. op' = [op EXCEPT ![h].pc = pc, ![h].stash = n]
    BY DEF StashIfDirty
  <2>. HIDE DEF n, pc
  <2>. QED
    BY <2>1 DEF KeptInv
<1>5. pc # "switch" /\ (pc = "branch" => op[h].kind # "resume")
  OBVIOUS
<1>. HIDE DEF n, pc
<1>6. OpSound(op'[h], repo'[h])
  <2>1. /\ HandoffOp(op[h]) \/ ResumeOp(op[h])
        /\ op[h].branch \in Branches
    BY <1>1 DEF OpSound
  <2>2. /\ HandoffOp(op'[h]) \/ ResumeOp(op'[h])
        /\ op'[h].branch = op[h].branch /\ op'[h].label = op[h].label
        /\ op'[h].stash = n
    <3>. DEFINE o == op[h]
                q == op'[h]
    <3>1. /\ q = [o EXCEPT !.pc = pc, !.stash = n]
          /\ HandoffOp(o) \/ ResumeOp(o)
          /\ pc # "switch" /\ (pc = "branch" => o.kind # "resume")
      BY <1>4, <1>5, <2>1
    <3>. HIDE DEF o, q
    <3>2. /\ HandoffOp(q) \/ ResumeOp(q)
          /\ q.branch = o.branch /\ q.label = o.label /\ q.stash = n
      BY <3>1 DEF HandoffOp, ResumeOp
    <3>. QED
      BY <3>2 DEF o, q
  <2>3. op'[h].stash \in 0..Len(repo'[h].stashes)
    BY <1>3, <2>2
  <2>. QED
    BY <1>2, <2>1, <2>2, <2>3, Zenon DEF OpSound
<1>7. UNCHANGED <<remote, packs>>
  BY DEF StashIfDirty
<1>. QED
  BY <1>3, <1>4, <1>6, <1>7, StepKeeps DEF KeptInv

(* A checkout that is on branch b now, with commit c.                      *)
Switched(r, b, c) == [r EXCEPT !.branch = b, !.heads[b] = c]

(* Switching to the handoff branch: to a new one, to the one that is       *)
(* there, or to what was fetched when that is ahead of it.                 *)
LEMMA SwitchKeeps ==
  ASSUME NEW r, Sound(r), NEW b \in Refs, NEW c \in Seq(SUBSET Dirt),
         r.heads[b] # NoRef => Content(r.heads[b]) \subseteq Content(c)
  PROVE  Sound(Switched(r, b, c))
<1>. DEFINE new == [r.heads EXCEPT ![b] = c]
            q == [r EXCEPT !.branch = b, !.heads = new]
<1>1. r \in RepoType
  BY DEF Sound
<1>2. /\ new \in [Refs -> Commits] /\ new[b] = c /\ c # NoRef
      /\ new[Main] # NoRef
      /\ InCommits(r.heads) \subseteq InCommits(new)
  <2>1. Main \in Refs /\ r.heads[Main] # NoRef
    BY DEF Refs, Sound
  <2>. QED
    BY <1>1, <2>1, HeadsGrow
<1>. HIDE DEF new
<1>3. /\ q \in RepoType /\ q.heads = new /\ q.branch = b
      /\ q.made = r.made /\ q.tree = r.tree /\ q.stashes = r.stashes
  BY <1>1, <1>2 DEF RepoType
<1>4. Sound(q)
  BY <1>2, <1>3 DEF Sound, Kept
<1>5. Switched(r, b, c) = q
  BY <1>1 DEF new, RepoType, Switched
<1>. QED
  BY <1>4, <1>5

(* git switch by a handoff.                                                *)
LEMMA SwitchBranchKeeps ==
  ASSUME KeptInv, NEW h \in Hosts, SwitchBranch(h)
  PROVE  KeptInv'
<1>. DEFINE r == repo[h]
            b == op[h].branch
            c == IF r.heads[b] = NoRef THEN Tip(h) ELSE r.heads[b]
            q == Switched(r, b, c)
<1>1. Sound(r) /\ r \in RepoType /\ Busy(h) /\ b \in Branches /\ b \in Refs
  BY DEF KeptInv, Sound, SwitchBranch, At, Busy, Idle, OpSound, Refs
<1>2. c \in Seq(SUBSET Dirt)
  BY <1>1, TipIsCommit DEF RepoType, Commits
<1>3. repo' = [repo EXCEPT ![h] = q] /\ repo'[h] = q
  BY <1>1 DEF SwitchBranch, KeptInv, RepoType, Switched
<1>4. Sound(q)
  <2>1. r.heads[b] # NoRef => Content(r.heads[b]) \subseteq Content(c)
    OBVIOUS
  <2>. HIDE DEF r, b, c
  <2>2. Sound(Switched(r, b, c))
    BY <1>1, <1>2, <2>1, SwitchKeeps, Zenon
  <2>. QED
    BY <2>2
<1>5. q.stashes = r.stashes
  BY <1>1 DEF RepoType, Switched
<1>6. op' = [op EXCEPT ![h] = op'[h]] /\ OpSound(op'[h], q)
  <2>1. Goto(h, "pop")
    BY DEF SwitchBranch
  <2>. HIDE DEF q
  <2>. QED
    BY <1>1, <1>5, <2>1, OpGoesOn
<1>. QED
  <2>1. UNCHANGED <<remote, packs>>
    BY DEF SwitchBranch
  <2>. HIDE DEF q
  <2>. QED
    BY <1>3, <1>4, <1>6, <2>1, StepKeeps DEF KeptInv

(* git switch and merge by a resume.                                       *)
LEMMA FollowBranchKeeps ==
  ASSUME KeptInv, NEW h \in Hosts, FollowBranch(h)
  PROVE  KeptInv'
<1>. DEFINE r == repo[h]
            b == op[h].branch
            local == r.heads[b]
            tip == op[h].tip
<1>1. /\ Sound(r) /\ r \in RepoType /\ Busy(h) /\ b \in Branches /\ b \in Refs
      /\ tip \in Seq(SUBSET Dirt)
      /\ local # NoRef => local \in Seq(SUBSET Dirt)
  <2>1. /\ Sound(r) /\ r \in RepoType /\ OpSound(op[h], r)
    BY DEF KeptInv, Sound
  <2>2. op[h].pc = "switch" /\ op[h].kind = "resume" /\ op[h] # Idle
    BY DEF FollowBranch, At, Idle
  <2>3. b \in Branches /\ b \in Refs /\ tip \in Seq(SUBSET Dirt)
    BY <2>1, <2>2 DEF OpSound, HandoffOp, ResumeOp, Refs
  <2>4. local \in Commits
    BY <2>1, <2>3 DEF RepoType
  <2>. QED
    BY <2>1, <2>2, <2>3, <2>4 DEF Commits, Busy
<1>2. PICK c \in Seq(SUBSET Dirt) :
        /\ repo' = [repo EXCEPT ![h] = Switched(r, b, c)]
        /\ local # NoRef => Content(local) \subseteq Content(c)
        /\ Done(h) \/ Goto(h, "check")
  <2>1. CASE local # NoRef /\ ~IsPrefix(local, tip) /\ ~IsPrefix(tip, local)
    <3>1. repo' = [repo EXCEPT ![h].branch = b] /\ Done(h)
      BY <2>1 DEF FollowBranch
    <3>2. [r EXCEPT !.branch = b] = Switched(r, b, local)
      BY <1>1 DEF RepoType, Switched
    <3>3. repo' = [repo EXCEPT ![h] = [r EXCEPT !.branch = b]]
      BY <3>1 DEF KeptInv
    <3>. HIDE DEF r, b, local
    <3>. QED
      BY <1>1, <2>1, <3>1, <3>2, <3>3
  <2>2. CASE ~(local # NoRef /\ ~IsPrefix(local, tip) /\ ~IsPrefix(tip, local))
    <3>. DEFINE c == IF local # NoRef /\ IsPrefix(tip, local) THEN local ELSE tip
    <3>1. /\ repo' = [repo EXCEPT ![h].branch = b, ![h].heads[b] = c]
          /\ Goto(h, "check")
      BY <2>2 DEF FollowBranch
    <3>2. c \in Seq(SUBSET Dirt)
      BY <1>1
    <3>3. local # NoRef => Content(local) \subseteq Content(c)
      BY <1>1, <2>2, PrefixContent
    <3>. HIDE DEF c
    <3>4. repo' = [repo EXCEPT ![h] = Switched(r, b, c)]
      BY <3>1 DEF KeptInv, Switched
    <3>. HIDE DEF r, b, local
    <3>. QED
      BY <3>1, <3>2, <3>3, <3>4
  <2>. QED
    BY <2>1, <2>2
<1>. DEFINE q == Switched(r, b, c)
<1>3. Sound(q)
  <2>. HIDE DEF r, b
  <2>1. r.heads[b] # NoRef => Content(r.heads[b]) \subseteq Content(c)
    BY <1>2
  <2>. QED
    BY <1>1, <2>1, SwitchKeeps, Zenon
<1>4. repo'[h] = q /\ q.stashes = r.stashes
  BY <1>1, <1>2 DEF KeptInv, RepoType, Switched
<1>5. op' = [op EXCEPT ![h] = op'[h]] /\ OpSound(op'[h], q)
  <2>. HIDE DEF q
  <2>. QED
    BY <1>1, <1>2, <1>4, OpGoesOn
<1>6. UNCHANGED <<remote, packs>>
  BY DEF FollowBranch
<1>. QED
  BY <1>2, <1>3, <1>4, <1>5, <1>6, StepKeeps DEF KeptInv

(* The commit of a handoff.                                                *)
LEMMA CommitWorkKeeps ==
  ASSUME KeptInv, NEW h \in Hosts, CommitWork(h)
  PROVE  KeptInv'
<1>1. /\ Busy(h) /\ Goto(h, "push") /\ UNCHANGED <<remote, packs>>
      /\ repo' = IF repo[h].tree = {} THEN repo ELSE CommitAll(h)
  BY DEF CommitWork, At, Busy, Idle
<1>2. CASE repo[h].tree = {}
  <2>1. UNCHANGED repo
    BY <1>1, <1>2
  <2>. QED
    BY <1>1, <2>1, MovesKeep
<1>3. CASE repo[h].tree # {}
  <2>1. /\ repo' = [repo EXCEPT ![h] = repo'[h]] /\ Sound(repo'[h])
        /\ repo'[h].stashes = repo[h].stashes
    BY <1>1, <1>3, CommitAllKeeps DEF KeptInv
  <2>2. op' = [op EXCEPT ![h] = op'[h]] /\ OpSound(op'[h], repo'[h])
    BY <1>1, <2>1, OpGoesOn
  <2>. QED
    BY <1>1, <2>1, <2>2, StepKeeps DEF KeptInv
<1>. QED
  BY <1>2, <1>3

(* The end of a handoff, with or without a new file in the checkout.       *)
LEMMA WritePackKeeps ==
  ASSUME KeptInv, NEW h \in Hosts, WritePack(h)
  PROVE  KeptInv'
<1>1. /\ Done(h) /\ UNCHANGED remote
      /\ op[h].branch \in Branches
      /\ packs' = packs \cup {PackOf(h)}
      /\ repo' = IF PackInRepo THEN [repo EXCEPT ![h].tree = @ \cup {PackFile}] ELSE repo
  BY DEF WritePack, At, Idle, KeptInv, OpSound
<1>2. \A p \in packs' : p.branch \in Branches
  BY <1>1 DEF KeptInv, PackOf, Described
<1>3. /\ repo' = [repo EXCEPT ![h] = repo'[h]] /\ Sound(repo'[h])
      /\ repo'[h].stashes = repo[h].stashes
  <2>1. CASE PackInRepo
    <3>1. Sound(repo[h]) /\ repo[h] \in RepoType
      BY DEF KeptInv, Sound
    <3>. DEFINE r == repo[h]
                q == [r EXCEPT !.tree = @ \cup {PackFile}]
    <3>2. repo' = [repo EXCEPT ![h] = q] /\ repo'[h] = q
      BY <1>1, <2>1 DEF KeptInv
    <3>3. /\ q \in RepoType /\ q.heads = r.heads /\ q.branch = r.branch
          /\ q.made = r.made /\ r.tree \subseteq q.tree /\ q.stashes = r.stashes
      BY <3>1 DEF RepoType, Dirt
    <3>4. Sound(q)
      BY <3>1, <3>3 DEF Sound, Kept
    <3>. QED
      BY <3>2, <3>3, <3>4
  <2>2. CASE ~PackInRepo
    BY <1>1, <2>2 DEF KeptInv
  <2>. QED
    BY <2>1, <2>2
<1>4. op' = [op EXCEPT ![h] = op'[h]] /\ OpSound(op'[h], repo'[h])
  BY <1>1, <1>3, OpGoesOn
<1>. QED
  BY <1>1, <1>2, <1>3, <1>4, StepKeeps DEF KeptInv

(* Commands that begin.                                                    *)
LEMMA StartsKeep ==
  ASSUME KeptInv, NEW h \in Hosts,
         \/ \E b \in Branches, mode \in {"git", "metadata"} : StartHandoff(h, b, mode)
         \/ \E p \in packs : StartResume(h, p)
  PROVE  KeptInv'
<1>0. /\ repo' = [repo EXCEPT ![h] = repo'[h]] /\ Sound(repo'[h])
      /\ Len(repo[h].stashes) \in Nat
  <2>1. UNCHANGED repo
    BY DEF StartHandoff, StartResume
  <2>2. repo \in [Hosts -> RepoType] /\ Sound(repo[h])
    BY DEF KeptInv
  <2>. QED
    BY <2>1, <2>2, LenProperties DEF RepoType
<1>1. ASSUME NEW b \in Branches, NEW mode, StartHandoff(h, b, mode)
      PROVE  op' = [op EXCEPT ![h] = op'[h]] /\ OpSound(op'[h], repo'[h])
  <2>. DEFINE o == [pc |-> IF mode = "git" THEN "stash" ELSE "snapshot",
                    kind |-> "handoff", mode |-> mode, branch |-> b,
                    label |-> "session", stash |-> 0, before |-> repo[h].tree,
                    list |-> repo[h].stashes]
  <2>1. op' = [op EXCEPT ![h] = o] /\ op'[h] = o /\ UNCHANGED repo
    BY <1>1 DEF StartHandoff, KeptInv
  <2>2. OpSound(o, repo[h])
    BY <1>0 DEF OpSound, HandoffOp
  <2>. QED
    BY <2>1, <2>2
<1>2. ASSUME NEW p \in packs, StartResume(h, p)
      PROVE  op' = [op EXCEPT ![h] = op'[h]] /\ OpSound(op'[h], repo'[h])
  <2>. DEFINE o == [pc |-> IF p.mode = "git" THEN "stash" ELSE "validate",
                    kind |-> "resume", pack |-> p, branch |-> p.branch,
                    label |-> "resume", tip |-> NoRef, stash |-> 0,
                    before |-> repo[h].tree, list |-> repo[h].stashes]
  <2>1. op' = [op EXCEPT ![h] = o] /\ op'[h] = o /\ UNCHANGED repo
    BY <1>2 DEF StartResume, KeptInv
  <2>2. p.branch \in Branches
    BY DEF KeptInv
  <2>3. OpSound(o, repo[h])
    BY <1>0, <2>2 DEF OpSound, ResumeOp
  <2>. QED
    BY <2>1, <2>3
<1>3. op' = [op EXCEPT ![h] = op'[h]] /\ OpSound(op'[h], repo'[h])
  BY <1>1, <1>2
<1>4. UNCHANGED <<remote, packs>>
  BY DEF StartHandoff, StartResume
<1>. QED
  BY <1>0, <1>3, <1>4, StepKeeps DEF KeptInv

(* A resume remembers the commit it has fetched.                           *)
LEMMA FetchKeeps ==
  ASSUME KeptInv, NEW h \in Hosts, Fetch(h)
  PROVE  KeptInv'
<1>. DEFINE b == op[h].branch
            o == op[h]
            q == op'[h]
<1>1. /\ o.pc = "fetch" /\ o # Idle /\ remote[b] # NoRef
      /\ UNCHANGED <<repo, remote, packs>>
      /\ op' = [op EXCEPT ![h].pc = "switch", ![h].tip = remote[b]]
  BY DEF Fetch, At, Idle
<1>2. /\ op' = [op EXCEPT ![h] = q]
      /\ q = [o EXCEPT !.pc = "switch", !.tip = remote[b]]
  BY <1>1 DEF KeptInv
<1>3. /\ repo' = [repo EXCEPT ![h] = repo'[h]] /\ Sound(repo'[h])
      /\ repo'[h] = repo[h]
  BY <1>1 DEF KeptInv
<1>4. /\ HandoffOp(o) \/ ResumeOp(o)
      /\ o.branch \in Branches /\ o.label \in {"session", "resume"}
      /\ o.stash \in 0..Len(repo[h].stashes)
  BY <1>1 DEF KeptInv, OpSound
<1>5. remote[b] \in Seq(SUBSET Dirt)
  BY <1>1, <1>4 DEF KeptInv, Commits
<1>. HIDE DEF o, q, b
<1>6. /\ HandoffOp(q) \/ ResumeOp(q)
      /\ q.branch = o.branch /\ q.label = o.label /\ q.stash = o.stash
  BY <1>2, <1>4, <1>5 DEF HandoffOp, ResumeOp
<1>7. OpSound(q, repo'[h])
  BY <1>3, <1>4, <1>6, Zenon DEF OpSound
<1>. QED
  BY <1>1, <1>2, <1>3, <1>7, StepKeeps DEF KeptInv, q

(* What users do to their checkouts between the commands.                  *)
LEMMA UsersKeep ==
  ASSUME KeptInv, NEW h \in Hosts,
         \/ \E w \in Works : Edit(h, w)
         \/ UserCommit(h) \/ UserLeaves(h) \/ UserGivesUpMerge(h)
  PROVE  KeptInv'
<1>. DEFINE r == repo[h]
<1>1. /\ Sound(r) /\ r \in RepoType /\ op[h] = Idle
      /\ UNCHANGED <<op, remote, packs>>
  BY DEF KeptInv, Sound, Edit, UserCommit, UserLeaves, UserGivesUpMerge, Busy
<1>2. ASSUME NEW q, repo' = [repo EXCEPT ![h] = q], Sound(q) PROVE KeptInv'
  <2>1. repo' = [repo EXCEPT ![h] = repo'[h]] /\ Sound(repo'[h])
    BY <1>2 DEF KeptInv
  <2>2. op' = [op EXCEPT ![h] = op'[h]] /\ OpSound(op'[h], repo'[h])
    BY <1>1 DEF KeptInv, OpSound
  <2>. QED
    BY <1>1, <2>1, <2>2, StepKeeps DEF KeptInv
<1>3. ASSUME NEW w \in Works, Edit(h, w) PROVE KeptInv'
  <2>. DEFINE q == [r EXCEPT !.tree = @ \cup {w}, !.made = @ \cup {w}]
  <2>1. repo' = [repo EXCEPT ![h] = q]
    BY <1>3 DEF Edit, KeptInv
  <2>2. /\ q \in RepoType /\ q.heads = r.heads /\ q.branch = r.branch
        /\ q.made = r.made \cup {w} /\ q.tree = r.tree \cup {w}
        /\ q.stashes = r.stashes
    BY <1>1 DEF RepoType, Dirt
  <2>3. Sound(q)
    BY <1>1, <2>2 DEF Sound, Kept
  <2>. QED
    BY <1>2, <2>1, <2>3
<1>4. CASE UserCommit(h)
  BY <1>1, <1>2, <1>4, CommitAllKeeps DEF UserCommit, KeptInv
<1>5. CASE UserLeaves(h)
  <2>. DEFINE q == [r EXCEPT !.branch = Main]
  <2>1. repo' = [repo EXCEPT ![h] = q]
    BY <1>5 DEF UserLeaves, KeptInv
  <2>2. /\ q \in RepoType /\ q.heads = r.heads /\ q.branch = Main
        /\ q.made = r.made /\ q.tree = r.tree /\ q.stashes = r.stashes
    BY <1>1 DEF RepoType, Refs
  <2>3. Sound(q)
    BY <1>1, <2>2 DEF Sound, Kept
  <2>. QED
    BY <1>2, <2>1, <2>3
<1>6. CASE UserGivesUpMerge(h)
  <2>. DEFINE q == [r EXCEPT !.unmerged = FALSE]
  <2>1. repo' = [repo EXCEPT ![h] = q]
    BY <1>6 DEF UserGivesUpMerge, KeptInv
  <2>2. /\ q \in RepoType /\ q.heads = r.heads /\ q.branch = r.branch
        /\ q.made = r.made /\ q.tree = r.tree /\ q.stashes = r.stashes
    BY <1>1 DEF RepoType
  <2>3. Sound(q)
    BY <1>1, <2>2 DEF Sound, Kept
  <2>. QED
    BY <1>2, <2>1, <2>3
<1>. QED
  BY <1>3, <1>4, <1>5, <1>6

-----------------------------------------------------------------------------
(* Every checkout is sound, and so is what its command remembers.          *)
LEMMA KeptAlways == Spec => []KeptInv
<1>1. Init => KeptInv
  <2>. SUFFICES ASSUME Init PROVE KeptInv
    OBVIOUS
  <2>. DEFINE heads0 == [b \in Refs |-> IF b = Main THEN <<>> ELSE NoRef]
              r == [branch |-> Main, heads |-> heads0, tree |-> {},
                    stashes |-> <<>>, unmerged |-> FALSE, made |-> {}]
  <2>1. /\ Main \in Refs /\ <<>> \in Seq(SUBSET Dirt) /\ <<>> # NoRef
        /\ <<>> \in Seq(EntryType) /\ NoRef \in Commits
    <3>1. <<>> \in Seq(SUBSET Dirt) /\ <<>> \in Seq(EntryType)
      BY EmptySeq
    <3>2. <<>> # NoRef
      BY <3>1, RefsAssumption, Zenon
    <3>. QED
      BY <3>1, <3>2 DEF Refs, Commits
  <2>2. heads0 \in [Refs -> Commits] /\ heads0[Main] # NoRef
    BY <2>1 DEF Commits
  <2>. HIDE DEF heads0
  <2>3. r \in RepoType /\ Sound(r)
    BY <2>1, <2>2 DEF RepoType, Sound, Kept
  <2>. HIDE DEF r
  <2>4. repo = [h \in Hosts |-> r]
    BY DEF Init, r, heads0
  <2>5. /\ remote \in [Branches -> Commits] /\ packs = {}
        /\ op = [h \in Hosts |-> Idle]
    <3>1. remote = [b \in Branches |-> NoRef] /\ packs = {}
          /\ op = [h \in Hosts |-> Idle]
      BY DEF Init
    <3>. QED
      BY <2>1, <3>1
  <2>6. \A h \in Hosts : Sound(repo[h]) /\ OpSound(op[h], repo[h])
    <3>1. \A h \in Hosts : repo[h] = r /\ op[h] = Idle
      BY <2>4, <2>5
    <3>. QED
      BY <2>3, <3>1, Zenon DEF OpSound
  <2>7. repo \in [Hosts -> RepoType] /\ op = [h \in Hosts |-> op[h]]
    BY <2>3, <2>4, <2>5
  <2>. QED
    BY <2>5, <2>6, <2>7 DEF KeptInv
<1>2. KeptInv /\ [Next]_vars => KeptInv'
  <2>. SUFFICES ASSUME KeptInv, [Next]_vars PROVE KeptInv'
    OBVIOUS
  <2>1. CASE UNCHANGED vars
    BY <2>1 DEF vars, KeptInv
  <2>2. ASSUME NEW h \in Hosts, RefuseBranch(h) \/ PopWork(h) PROVE KeptInv'
    <3>1. \E pc \in {"error", "commit", "validate"} : Busy(h) /\ RestoreStash(h, pc)
      BY <2>2 DEF RefuseBranch, PopWork, At, Busy, Idle
    <3>. QED
      BY <3>1, RestoreStashKeeps
  <2>3. ASSUME NEW h \in Hosts, CheckCommit(h) PROVE KeptInv'
    <3>1. /\ Busy(h)
          /\ \/ Goto(h, "pop") /\ UNCHANGED <<repo, remote, packs>>
             \/ RestoreStash(h, "error")
      BY <2>3 DEF CheckCommit, At, Busy, Idle
    <3>. QED
      BY <3>1, MovesKeep, RestoreStashKeeps
  <2>4. ASSUME NEW h \in Hosts, ChooseBranch(h) PROVE KeptInv'
    <3>1. /\ op[h].pc = "branch" /\ op[h] # Idle /\ Goto(h, "switch")
          /\ UNCHANGED <<repo, remote, packs>>
      BY <2>4 DEF ChooseBranch, At, Idle
    <3>2. op[h].kind = "handoff"
      BY <3>1 DEF KeptInv, OpSound, HandoffOp, ResumeOp
    <3>. QED
      BY <3>1, <3>2, MovesKeep DEF Busy
  <2>5. ASSUME NEW h \in Hosts, PushBranch(h) PROVE KeptInv'
    <3>1. /\ Busy(h) /\ Goto(h, "snapshot") /\ UNCHANGED <<repo, packs>>
          /\ remote' = [remote EXCEPT ![op[h].branch] = Tip(h)]
          /\ Sound(repo[h])
      BY <2>5 DEF PushBranch, At, Busy, Idle, KeptInv
    <3>2. remote' \in [Branches -> Commits]
      BY <3>1, TipIsCommit DEF KeptInv, Commits
    <3>3. op' = [op EXCEPT ![h] = op'[h]] /\ OpSound(op'[h], repo'[h])
      BY <3>1, OpGoesOn
    <3>. QED
      BY <3>1, <3>2, <3>3, StepKeeps DEF KeptInv
  <2>6. ASSUME NEW h \in Hosts,
               Validate(h) \/ Prime(h) \/ Fail(h) \/ Refused(h)
        PROVE  KeptInv'
    <3>1. /\ UNCHANGED <<repo, remote, packs>>
          /\ Done(h) \/ (Goto(h, "prime") /\ Busy(h))
      BY <2>6 DEF Validate, Prime, Fail, Refused, At, Busy, Idle
    <3>. QED
      BY <3>1, MovesKeep
  <2>. QED
    BY <2>1, <2>2, <2>3, <2>4, <2>5, <2>6, StashIfDirtyKeeps, SwitchBranchKeeps,
       CommitWorkKeeps, WritePackKeeps, FetchKeeps, FollowBranchKeeps, StartsKeep,
       UsersKeep
    DEF Next, Tool
<1>. QED
  BY <1>1, <1>2, PTL DEF Spec

(* Whatever git command fails, wherever the tool is killed and whoever     *)
(* pushes, what a user edited is in the work tree, in a stash or in a      *)
(* commit of the checkout (git_handoff.rs, prepare and restore).           *)
THEOREM NothingIsEverLost == Spec => []NothingLost
<1>1. KeptInv => NothingLost
  BY DEF KeptInv, Sound, Kept, InStashes, InCommits, NothingLost, Stashed
<1>. QED
  BY <1>1, KeptAlways, PTL

-----------------------------------------------------------------------------
(* What a command has done so far.                                         *)

HeadOf(r) == r.heads[r.branch]
GitPlaces == {"stash", "branch", "switch", "pop", "commit", "push", "snapshot"}
ResumePlaces == {"stash", "fetch", "switch", "check", "pop", "validate", "prime"}

(* A handoff in git mode goes from the stash to the snapshot, one in       *)
(* metadata mode only writes the pack; a resume follows a pack of ps, and  *)
(* only a git pack takes it through git.                                   *)
KnowsHandoff(o) ==
  /\ {"pc", "kind", "mode", "branch", "stash", "before", "list"} \subseteq DOMAIN o
  /\ o.kind = "handoff"
  /\ \/ o.mode = "git" /\ o.pc \in GitPlaces
     \/ o.mode = "metadata" /\ o.pc = "snapshot"
KnowsResume(o, ps) ==
  /\ {"pc", "kind", "pack", "branch", "stash", "before", "list"} \subseteq DOMAIN o
  /\ o.kind = "resume"
  /\ o.pack \in ps /\ o.branch = o.pack.branch
  /\ \/ o.pack.mode = "git" /\ o.pc \in ResumePlaces
     \/ o.pack.mode = "metadata" /\ o.pc \in {"validate", "prime"}

(* The work of the user that was in the tree when the command began is in  *)
(* the tree, in the one stash or, after the commit, in the commit.         *)
InCommit(o) == o.pc = "push" \/ (o.pc = "snapshot" /\ o.mode = "git")
StashPopped(o) == o.pc \notin {"branch", "fetch", "switch", "check", "pop"}
HasBefore(o, r) ==
  o.list = <<>> =>
    /\ o.stash \in {0, 1} /\ Len(r.stashes) = o.stash
    /\ StashPopped(o) => o.stash = 0
    /\ o.before \subseteq
         IF InCommit(o) THEN Content(HeadOf(r)) ELSE r.tree \cup InStashes(r.stashes)

(* What a git handoff is to name in the pack, the remote has.              *)
HasPushed(o, r, rm) ==
  (o.pc = "snapshot" /\ o.mode = "git") =>
    rm[o.branch] # NoRef /\ IsPrefix(HeadOf(r), rm[o.branch])

(* A git resume that has checked the commit stays on it.                   *)
HasArrived(o, r) ==
  (o.kind = "resume" /\ o.pack.mode = "git") =>
    /\ o.pc \in {"check", "pop", "validate", "prime"} => r.branch = o.branch
    /\ o.pc \in {"pop", "validate", "prime"} => HeadOf(r) = o.pack.commit

OnTrack(o, r, ps, rm) ==
  /\ KnowsHandoff(o) \/ KnowsResume(o, ps)
  /\ HasBefore(o, r) /\ HasPushed(o, r, rm) /\ HasArrived(o, r)

(* The pack p is covered by the remote rm.                                 *)
Covered(p, rm) ==
  p.mode = "git" =>
    /\ p.clean => p.carries \subseteq Content(p.commit)
    /\ rm[p.branch] # NoRef /\ IsPrefix(p.commit, rm[p.branch])

WorkInv ==
  /\ \A p \in packs :
       /\ p.mode \in {"git", "metadata"} /\ p.commit \in Seq(SUBSET Dirt)
       /\ Covered(p, remote)
  /\ \A h \in Hosts : Busy(h) => OnTrack(op[h], repo[h], packs, remote)

(* A commit is built on another and on all that one is built on.           *)
LEMMA PrefixOfPrefix ==
  ASSUME NEW S, NEW c \in Seq(S), NEW d \in Seq(S), NEW e \in Seq(S)
  PROVE  /\ IsPrefix(c, c)
         /\ IsPrefix(c, d) /\ IsPrefix(d, e) => IsPrefix(c, e)
<1>1. Len(c) \in Nat /\ Len(d) \in Nat /\ Len(e) \in Nat
  BY LenProperties
<1>2. IsPrefix(c, c)
  BY <1>1 DEF IsPrefix
<1>3. ASSUME IsPrefix(c, d), IsPrefix(d, e) PROVE IsPrefix(c, e)
  <2>1. Len(c) <= Len(d) /\ Len(d) <= Len(e) /\ Len(c) <= Len(e)
    BY <1>1, <1>3 DEF IsPrefix
  <2>2. \A i \in 1..Len(c) : c[i] = d[i]
    <3>1. SubSeq(c, 1, Len(c)) = SubSeq(d, 1, Len(c))
      BY <1>3 DEF IsPrefix
    <3>. QED
      BY <1>1, <2>1, <3>1
  <2>3. \A i \in 1..Len(d) : d[i] = e[i]
    <3>1. SubSeq(d, 1, Len(d)) = SubSeq(e, 1, Len(d))
      BY <1>3 DEF IsPrefix
    <3>. QED
      BY <1>1, <2>1, <3>1
  <2>4. \A i \in 1..Len(c) : c[i] = e[i]
    BY <1>1, <2>1, <2>2, <2>3
  <2>5. SubSeq(c, 1, Len(c)) = SubSeq(e, 1, Len(c))
    BY <1>1, <2>1, <2>4
  <2>. QED
    BY <2>1, <2>5 DEF IsPrefix
<1>. QED
  BY <1>2, <1>3

(* Nobody takes commits away from the remote.                              *)
Extends(rm, new) ==
  \A b \in Branches : rm[b] # NoRef => new[b] # NoRef /\ IsPrefix(rm[b], new[b])

(* A remote that stays extends itself.                                     *)
LEMMA SameExtends ==
  ASSUME NEW rm \in [Branches -> Commits]
  PROVE  Extends(rm, rm)
<1>1. \A b \in Branches : rm[b] # NoRef => rm[b] \in Seq(SUBSET Dirt)
  BY DEF Commits
<1>2. \A c \in Seq(SUBSET Dirt) : IsPrefix(c, c)
  BY PrefixOfPrefix
<1>. QED
  BY <1>1, <1>2 DEF Extends

(* What a remote has, one that extends it has.                             *)
LEMMA ExtendedHas ==
  ASSUME NEW rm \in [Branches -> Commits], NEW new \in [Branches -> Commits],
         Extends(rm, new), NEW b \in Branches, NEW c \in Seq(SUBSET Dirt),
         rm[b] # NoRef, IsPrefix(c, rm[b])
  PROVE  new[b] # NoRef /\ IsPrefix(c, new[b])
<1>1. new[b] # NoRef /\ IsPrefix(rm[b], new[b])
  BY DEF Extends
<1>2. rm[b] \in Seq(SUBSET Dirt) /\ new[b] \in Seq(SUBSET Dirt)
  BY <1>1 DEF Commits
<1>. QED
  BY <1>1, <1>2, PrefixOfPrefix

(* A step of one checkout: the others stay on track.                       *)
LEMMA StepTracks ==
  ASSUME KeptInv, KeptInv', WorkInv, NEW h \in Hosts,
         \A g \in Hosts : g # h => repo'[g] = repo[g] /\ op'[g] = op[g],
         packs \subseteq packs', Extends(remote, remote'),
         \A p \in packs' \ packs :
           /\ p.mode \in {"git", "metadata"} /\ p.commit \in Seq(SUBSET Dirt)
           /\ Covered(p, remote'),
         op'[h] = Idle \/ OnTrack(op'[h], repo'[h], packs', remote')
  PROVE  WorkInv'
<1>1. remote \in [Branches -> Commits] /\ remote' \in [Branches -> Commits]
  BY DEF KeptInv
<1>2. ASSUME NEW p \in packs PROVE Covered(p, remote')
  <2>1. /\ p.branch \in Branches /\ p.commit \in Seq(SUBSET Dirt)
        /\ Covered(p, remote)
    BY DEF KeptInv, WorkInv
  <2>. QED
    BY <1>1, <2>1, ExtendedHas DEF Covered
<1>3. ASSUME NEW g \in Hosts, g # h, op[g] # Idle
      PROVE  OnTrack(op[g], repo[g], packs', remote')
  <2>1. OnTrack(op[g], repo[g], packs, remote) /\ Sound(repo[g]) /\ OpSound(op[g], repo[g])
    BY <1>3 DEF WorkInv, KeptInv, Busy
  <2>2. op[g].branch \in Branches /\ HeadOf(repo[g]) \in Seq(SUBSET Dirt)
    BY <1>3, <2>1, TipIsCommit DEF OpSound, Tip, HeadOf
  <2>3. KnowsHandoff(op[g]) \/ KnowsResume(op[g], packs')
    BY <2>1 DEF OnTrack, KnowsResume
  <2>4. HasPushed(op[g], repo[g], remote')
    BY <1>1, <2>1, <2>2, ExtendedHas DEF OnTrack, HasPushed
  <2>. QED
    BY <2>1, <2>3, <2>4 DEF OnTrack
<1>4. ASSUME NEW g \in Hosts, op'[g] # Idle
      PROVE  OnTrack(op'[g], repo'[g], packs', remote')
  BY <1>3, <1>4
<1>5. \A p \in packs' :
        /\ p.mode \in {"git", "metadata"} /\ p.commit \in Seq(SUBSET Dirt)
        /\ Covered(p, remote')
  BY <1>2 DEF WorkInv
<1>. QED
  BY <1>4, <1>5 DEF WorkInv, Busy

(* A step that ends a command, or begins none, and leaves the packs.       *)
LEMMA EndTracks ==
  ASSUME KeptInv, KeptInv', WorkInv, NEW h \in Hosts, UNCHANGED <<remote, packs>>,
         \A g \in Hosts : g # h => repo'[g] = repo[g] /\ op'[g] = op[g],
         op'[h] = Idle \/ OnTrack(op'[h], repo'[h], packs', remote')
  PROVE  WorkInv'
<1>1. Extends(remote, remote')
  BY SameExtends DEF KeptInv
<1>. QED
  BY <1>1, StepTracks

(* What a command remembers when it goes on.                               *)
Same(o, q) ==
  /\ DOMAIN q = DOMAIN o
  /\ q.kind = o.kind /\ q.branch = o.branch /\ q.before = o.before /\ q.list = o.list
  /\ o.kind = "handoff" => q.mode = o.mode
  /\ o.kind = "resume" => q.pack = o.pack

(* What is known of a command that runs, and of its checkout.              *)
LEMMA Running ==
  ASSUME KeptInv, WorkInv, NEW h \in Hosts, NEW pc, At(h, pc), pc # "idle"
  PROVE  /\ op[h] # Idle /\ op[h].pc = pc
         /\ OnTrack(op[h], repo[h], packs, remote)
         /\ KnowsHandoff(op[h]) \/ KnowsResume(op[h], packs)
         /\ Sound(repo[h]) /\ OpSound(op[h], repo[h])
         /\ repo[h] \in RepoType /\ repo[h].stashes \in Seq(EntryType)
         /\ op[h].branch \in Branches
         /\ Len(repo[h].stashes) \in Nat
<1>1. op[h] # Idle /\ op[h].pc = pc
  BY DEF At, Idle
<1>2. /\ OnTrack(op[h], repo[h], packs, remote)
      /\ Sound(repo[h]) /\ OpSound(op[h], repo[h])
  BY <1>1 DEF WorkInv, KeptInv, Busy
<1>3. /\ KnowsHandoff(op[h]) \/ KnowsResume(op[h], packs)
      /\ repo[h] \in RepoType /\ repo[h].stashes \in Seq(EntryType)
      /\ op[h].branch \in Branches
  BY <1>1, <1>2 DEF OnTrack, Sound, RepoType, OpSound
<1>. QED
  BY <1>1, <1>2, <1>3, LenProperties

(* A stash moves the whole tree into the list.                             *)
LEMMA PushMoves ==
  ASSUME repo \in [Hosts -> RepoType], NEW h \in Hosts, Sound(repo[h]),
         NEW label \in {"session", "resume"}
  PROVE  LET q == Push(h, label)[h] IN
         /\ q.tree = {} /\ InStashes(q.stashes) = InStashes(repo[h].stashes) \cup repo[h].tree
         /\ q.heads = repo[h].heads /\ q.branch = repo[h].branch
<1>. DEFINE r == repo[h]
            e == [works |-> r.tree, base |-> Tip(h), line |-> Line(h, label)]
            q == [r EXCEPT !.tree = {}, !.stashes = <<e>> \o @]
<1>1. Push(h, label)[h] = q
  BY DEF Push
<1>2. r \in RepoType /\ r.stashes \in Seq(EntryType) /\ r.tree \in SUBSET Dirt
  BY DEF RepoType
<1>3. e \in EntryType /\ e.works = r.tree
  BY <1>2, TipIsCommit DEF EntryType, Line
<1>. HIDE DEF e
<1>4. InStashes(<<e>> \o r.stashes) = InStashes(r.stashes) \cup e.works
  BY <1>2, <1>3, AddedEntry
<1>5. /\ q.heads = r.heads /\ q.branch = r.branch /\ q.tree = {}
      /\ q.stashes = <<e>> \o r.stashes
  BY <1>2 DEF RepoType
<1>. QED
  BY <1>1, <1>3, <1>4, <1>5

(* A pop moves an entry into the tree, or leaves a conflict.               *)
LEMMA PopMoves ==
  ASSUME repo \in [Hosts -> RepoType], NEW h \in Hosts, Sound(repo[h]),
         NEW i \in 1..Len(repo[h].stashes)
  PROVE  LET q == Pop(h, i)[h] IN
         /\ q.heads = repo[h].heads /\ q.branch = repo[h].branch
         /\ ~q.unmerged =>
              /\ Len(q.stashes) = Len(repo[h].stashes) - 1
              /\ repo[h].tree \cup InStashes(repo[h].stashes)
                   \subseteq q.tree \cup InStashes(q.stashes)
         /\ q.tree \cup InStashes(q.stashes)
              \subseteq repo[h].tree \cup InStashes(repo[h].stashes)
<1>. DEFINE r == repo[h]
<1>1. r \in RepoType /\ r.stashes \in Seq(EntryType) /\ r.tree \in SUBSET Dirt
  BY DEF RepoType
<1>2. CASE Conflicts(h, i)
  <2>. DEFINE q == [r EXCEPT !.unmerged = TRUE]
  <2>1. Pop(h, i)[h] = q
    BY <1>2 DEF Pop
  <2>2. /\ q.unmerged = TRUE /\ q.heads = r.heads /\ q.branch = r.branch
        /\ q.tree = r.tree /\ q.stashes = r.stashes
    BY <1>1 DEF RepoType
  <2>. QED
    BY <2>1, <2>2
<1>3. CASE ~Conflicts(h, i)
  <2>. DEFINE s == RemoveAt(r.stashes, i)
              q == [r EXCEPT !.tree = @ \cup r.stashes[i].works, !.stashes = s]
  <2>1. Pop(h, i)[h] = q
    BY <1>3 DEF Pop
  <2>2. /\ Len(s) = Len(r.stashes) - 1
        /\ InStashes(r.stashes) \subseteq r.stashes[i].works \cup InStashes(s)
        /\ InStashes(s) \cup r.stashes[i].works \subseteq InStashes(r.stashes)
    BY <1>1, RemovedEntry
  <2>. HIDE DEF s
  <2>3. /\ q.heads = r.heads /\ q.branch = r.branch
        /\ q.tree = r.tree \cup r.stashes[i].works /\ q.stashes = s
    BY <1>1 DEF RepoType
  <2>. QED
    BY <2>1, <2>2, <2>3
<1>. QED
  BY <1>2, <1>3

(* The first step through git.                                             *)
LEMMA StashTracks ==
  ASSUME KeptInv, KeptInv', WorkInv, NEW h \in Hosts, StashIfDirty(h)
  PROVE  WorkInv'
<1>. DEFINE o == op[h]
            r == repo[h]
            n == IF r.tree = {} THEN 0 ELSE NewEntry(h, o.label)
            pc == IF o.kind = "resume" THEN "fetch" ELSE "branch"
            q == [o EXCEPT !.pc = pc, !.stash = n]
<1>1. /\ o # Idle /\ o.pc = "stash" /\ OnTrack(o, r, packs, remote)
      /\ KnowsHandoff(o) \/ KnowsResume(o, packs)
      /\ Sound(r) /\ OpSound(o, r) /\ Len(r.stashes) \in Nat
  BY Running DEF StashIfDirty
<1>2. o.label \in {"session", "resume"} /\ repo \in [Hosts -> RepoType]
  BY <1>1 DEF OpSound, KeptInv
<1>3. op' = [op EXCEPT ![h] = q] /\ op'[h] = q
  <2>1. op' = [op EXCEPT ![h].pc = pc, ![h].stash = n]
    BY DEF StashIfDirty
  <2>. HIDE DEF n, pc
  <2>. QED
    BY <2>1 DEF KeptInv
<1>4. Same(o, q) /\ q.pc = pc /\ q.stash = n
  <2>1. q = [o EXCEPT !.pc = pc, !.stash = n]
    OBVIOUS
  <2>. HIDE DEF o, n, pc, q
  <2>. QED
    BY <1>1, <2>1 DEF KnowsHandoff, KnowsResume, Same
<1>5. /\ \A g \in Hosts : g # h => repo'[g] = repo[g]
      /\ HeadOf(repo'[h]) = HeadOf(r)
      /\ Len(r.stashes) = 0 => Len(repo'[h].stashes) = n /\ n \in {0, 1}
      /\ r.tree \cup InStashes(r.stashes)
           \subseteq repo'[h].tree \cup InStashes(repo'[h].stashes)
  <2>1. CASE r.tree = {}
    BY <2>1 DEF StashIfDirty
  <2>2. CASE r.tree # {}
    <3>1. repo' = Push(h, o.label)
      BY <2>2 DEF StashIfDirty
    <3>2. n \in 1..(Len(r.stashes) + 1)
      BY <1>1, <1>2, <2>2, NewEntryIsThere
    <3>3. /\ repo' = [repo EXCEPT ![h] = Push(h, o.label)[h]]
          /\ Len(repo'[h].stashes) = Len(r.stashes) + 1
      BY <1>1, <1>2, <3>1, PushKeeps
    <3>4. /\ repo'[h].tree = {}
          /\ InStashes(repo'[h].stashes) = InStashes(r.stashes) \cup r.tree
          /\ repo'[h].heads = r.heads /\ repo'[h].branch = r.branch
      BY <1>1, <1>2, <3>1, PushMoves
    <3>. HIDE DEF n
    <3>5. \A g \in Hosts : g # h => repo'[g] = repo[g]
      <4>. DEFINE x == Push(h, o.label)[h]
      <4>. HIDE DEF x
      <4>. QED
        BY <1>2, <3>3 DEF x
    <3>. QED
      BY <1>1, <3>2, <3>3, <3>4, <3>5 DEF HeadOf
  <2>. QED
    BY <2>1, <2>2
<1>6. UNCHANGED <<remote, packs>> /\ pc \in {"fetch", "branch"}
  BY DEF StashIfDirty
<1>. DEFINE s == repo'[h]
<1>7. OnTrack(q, s, packs, remote)
  <2>1. KnowsHandoff(q) \/ KnowsResume(q, packs)
    <3>. HIDE DEF q, n
    <3>. QED
      BY <1>1, <1>4 DEF KnowsHandoff, KnowsResume, Same, GitPlaces, ResumePlaces
  <2>. HIDE DEF q, n, pc, s
  <2>2. HasBefore(q, s)
    <3>. SUFFICES ASSUME o.list = <<>>
                  PROVE  /\ q.stash \in {0, 1} /\ Len(s.stashes) = q.stash
                         /\ StashPopped(q) => q.stash = 0
                         /\ o.before \subseteq s.tree \cup InStashes(s.stashes)
      BY <1>4, <1>6 DEF HasBefore, Same, InCommit
    <3>1. /\ Len(r.stashes) = 0
          /\ o.before \subseteq r.tree \cup InStashes(r.stashes)
      BY <1>1 DEF OnTrack, HasBefore, InCommit, StashPopped
    <3>. QED
      BY <1>4, <1>5, <1>6, <3>1 DEF StashPopped, s
  <2>3. HasPushed(q, s, remote) /\ HasArrived(q, s)
    BY <1>4, <1>6 DEF HasPushed, HasArrived
  <2>. QED
    BY <2>1, <2>2, <2>3 DEF OnTrack
<1>. HIDE DEF q, n, pc
<1>8. \A g \in Hosts : g # h => op'[g] = op[g]
  BY <1>3 DEF KeptInv
<1>9. packs' = packs /\ remote' = remote /\ op'[h] = q
  BY <1>3, <1>6
<1>10. OnTrack(op'[h], repo'[h], packs', remote')
  BY <1>7, <1>9
<1>. QED
  BY <1>5, <1>8, <1>9, <1>10, EndTracks

(* Popping the stash, and what follows when it worked.                     *)
LEMMA RestoreTracks ==
  ASSUME KeptInv, KeptInv', WorkInv, NEW h \in Hosts,
         \/ RefuseBranch(h) \/ PopWork(h)
         \/ CheckCommit(h) /\ RestoreStash(h, "error")
  PROVE  WorkInv'
<1>. DEFINE o == op[h]
            r == repo[h]
            s == repo'[h]
<1>1. /\ o # Idle /\ o.pc \in {"branch", "check", "pop"} /\ OnTrack(o, r, packs, remote)
      /\ KnowsHandoff(o) \/ KnowsResume(o, packs)
      /\ Sound(r) /\ OpSound(o, r) /\ Len(r.stashes) \in Nat
  <2>1. \E pc \in {"branch", "check", "pop"} : At(h, pc)
    BY DEF RefuseBranch, PopWork, CheckCommit
  <2>. QED
    BY <2>1, Running
<1>2. PICK pc \in {"error", "commit", "validate"} :
        /\ RestoreStash(h, pc)
        /\ pc # "error" => o.pc = "pop"
                           /\ pc = IF o.kind = "handoff" THEN "commit" ELSE "validate"
  BY DEF RefuseBranch, PopWork, At
<1>3. repo \in [Hosts -> RepoType] /\ o.stash \in Nat
  BY <1>1 DEF KeptInv, OpSound
<1>4. /\ \A g \in Hosts : g # h => repo'[g] = repo[g]
      /\ HeadOf(s) = HeadOf(r) /\ s.branch = r.branch
      /\ (Len(r.stashes) = o.stash /\ o.stash \in {0, 1} /\ ~s.unmerged) =>
           /\ Len(s.stashes) = 0
           /\ r.tree \cup InStashes(r.stashes) \subseteq s.tree \cup InStashes(s.stashes)
  <2>1. CASE o.stash = 0
    BY <2>1, <1>2 DEF RestoreStash
  <2>2. CASE o.stash # 0
    <3>1. o.stash \in 1..Len(r.stashes)
      BY <1>1, <1>3, <2>2 DEF OpSound
    <3>2. repo' = Pop(h, o.stash)
      BY <1>2, <2>2 DEF RestoreStash
    <3>3. repo' = [repo EXCEPT ![h] = Pop(h, o.stash)[h]]
      BY <1>1, <1>3, <3>1, <3>2, PopKeeps
    <3>4. /\ s.heads = r.heads /\ s.branch = r.branch
          /\ ~s.unmerged =>
               /\ Len(s.stashes) = Len(r.stashes) - 1
               /\ r.tree \cup InStashes(r.stashes) \subseteq s.tree \cup InStashes(s.stashes)
      BY <1>1, <1>3, <3>1, <3>2, PopMoves
    <3>5. \A g \in Hosts : g # h => repo'[g] = repo[g]
      <4>. DEFINE x == Pop(h, o.stash)[h]
      <4>. HIDE DEF x
      <4>. QED
        BY <1>3, <3>3 DEF x
    <3>. HIDE DEF s, o, r
    <3>6. (Len(r.stashes) = o.stash /\ o.stash \in {0, 1} /\ ~s.unmerged) =>
            Len(s.stashes) = 0
      BY <1>1, <2>2, <3>4
    <3>. QED
      BY <3>4, <3>5, <3>6 DEF HeadOf
  <2>. QED
    BY <2>1, <2>2
<1>5. UNCHANGED <<remote, packs>>
  BY <1>2 DEF RestoreStash
<1>6. CASE Done(h)
  <2>1. op'[h] = Idle /\ \A g \in Hosts : g # h => op'[g] = op[g]
    BY <1>6 DEF Done, KeptInv
  <2>. QED
    BY <1>4, <1>5, <2>1, EndTracks
<1>7. CASE ~s.unmerged /\ pc # "error" /\ op' = [op EXCEPT ![h].pc = pc, ![h].stash = 0]
  <2>. DEFINE q == [o EXCEPT !.pc = pc, !.stash = 0]
  <2>1. /\ op'[h] = q /\ \A g \in Hosts : g # h => op'[g] = op[g]
    BY <1>7 DEF KeptInv
  <2>2. Same(o, q) /\ q.pc = pc /\ q.stash = 0
    <3>1. q = [o EXCEPT !.pc = pc, !.stash = 0]
      OBVIOUS
    <3>. HIDE DEF o, q
    <3>. QED
      BY <1>1, <3>1 DEF KnowsHandoff, KnowsResume, Same
  <2>3. KnowsHandoff(q) \/ KnowsResume(q, packs)
    <3>. HIDE DEF q
    <3>1. o.pc = "pop" /\ pc = IF o.kind = "handoff" THEN "commit" ELSE "validate"
      BY <1>2, <1>7
    <3>. QED
      BY <1>1, <2>2, <3>1 DEF KnowsHandoff, KnowsResume, Same, GitPlaces, ResumePlaces
  <2>. HIDE DEF q, s
  <2>4. HasBefore(q, s)
    <3>. SUFFICES ASSUME o.list = <<>>
                  PROVE  /\ Len(s.stashes) = 0
                         /\ o.before \subseteq s.tree \cup InStashes(s.stashes)
      BY <1>7, <2>2 DEF HasBefore, Same, InCommit
    <3>1. /\ Len(r.stashes) = o.stash /\ o.stash \in {0, 1}
          /\ o.before \subseteq r.tree \cup InStashes(r.stashes)
      BY <1>1 DEF OnTrack, HasBefore, InCommit
    <3>. QED
      BY <1>4, <1>7, <3>1
  <2>5. HasPushed(q, s, remote)
    BY <1>7, <2>2 DEF HasPushed
  <2>6. HasArrived(q, s)
    BY <1>1, <1>2, <1>4, <1>7, <2>2 DEF HasArrived, OnTrack, Same
  <2>7. OnTrack(q, s, packs, remote)
    BY <2>3, <2>4, <2>5, <2>6 DEF OnTrack
  <2>8. OnTrack(op'[h], repo'[h], packs', remote')
    BY <1>5, <2>1, <2>7 DEF s
  <2>. QED
    BY <1>4, <1>5, <2>1, <2>8, EndTracks
<1>. QED
  BY <1>2, <1>6, <1>7 DEF RestoreStash

(* A command that goes on remembers what it did.                           *)
LEMMA GoesOn ==
  ASSUME KeptInv, WorkInv, NEW h \in Hosts, NEW from, At(h, from), from # "idle",
         NEW pc, Goto(h, pc)
  PROVE  /\ Same(op[h], op'[h]) /\ op'[h].pc = pc /\ op'[h].stash = op[h].stash
         /\ \A g \in Hosts : g # h => op'[g] = op[g]
<1>. DEFINE o == op[h]
            q == op'[h]
<1>1. KnowsHandoff(o) \/ KnowsResume(o, packs)
  BY Running
<1>2. q = [o EXCEPT !.pc = pc] /\ \A g \in Hosts : g # h => op'[g] = op[g]
  BY DEF Goto, KeptInv
<1>3. Same(o, q) /\ q.pc = pc /\ q.stash = o.stash
  <2>. HIDE DEF o, q
  <2>. QED
    BY <1>1, <1>2 DEF KnowsHandoff, KnowsResume, Same
<1>. QED
  BY <1>2, <1>3

(* Steps that only look, and go on.                                        *)
LEMMA LooksTrack ==
  ASSUME KeptInv, KeptInv', WorkInv, NEW h \in Hosts, UNCHANGED <<repo, remote, packs>>,
         \/ ChooseBranch(h)
         \/ CheckCommit(h) /\ Tip(h) = op[h].pack.commit /\ Goto(h, "pop")
         \/ Validate(h) /\ Tip(h) = op[h].pack.commit /\ Goto(h, "prime")
  PROVE  WorkInv'
<1>. DEFINE o == op[h]
            r == repo[h]
            q == op'[h]
<1>1. PICK from \in {"branch", "check", "validate"}, pc \in {"switch", "pop", "prime"} :
        /\ At(h, from) /\ Goto(h, pc)
        /\ from = "branch" => pc = "switch"
        /\ from = "check" => pc = "pop" /\ HeadOf(r) = o.pack.commit
        /\ from = "validate" => pc = "prime" /\ HeadOf(r) = o.pack.commit
  BY DEF ChooseBranch, CheckCommit, Validate, HeadOf, Tip
<1>2. /\ o # Idle /\ o.pc = from /\ OnTrack(o, r, packs, remote)
      /\ KnowsHandoff(o) \/ KnowsResume(o, packs)
  BY <1>1, Running
<1>3. /\ Same(o, q) /\ q.pc = pc /\ q.stash = o.stash
      /\ \A g \in Hosts : g # h => op'[g] = op[g]
  BY <1>1, GoesOn
<1>4. OnTrack(q, r, packs, remote)
  <2>. HIDE DEF o, q, r
  <2>1. KnowsHandoff(q) \/ KnowsResume(q, packs)
    BY <1>1, <1>2, <1>3 DEF KnowsHandoff, KnowsResume, Same, GitPlaces, ResumePlaces
  <2>2. HasBefore(q, r)
    BY <1>1, <1>2, <1>3 DEF OnTrack, HasBefore, Same, InCommit, StashPopped
  <2>3. HasPushed(q, r, remote) /\ HasArrived(q, r)
    BY <1>1, <1>2, <1>3 DEF OnTrack, HasPushed, HasArrived, Same
  <2>. QED
    BY <2>1, <2>2, <2>3 DEF OnTrack
<1>5. OnTrack(op'[h], repo'[h], packs', remote')
  BY <1>4
<1>. QED
  BY <1>3, <1>5, EndTracks

(* Going to the handoff branch moves no work.                              *)
LEMMA SwitchTracks ==
  ASSUME KeptInv, KeptInv', WorkInv, NEW h \in Hosts, SwitchBranch(h)
  PROVE  WorkInv'
<1>. DEFINE o == op[h]
            r == repo[h]
            q == op'[h]
            s == repo'[h]
<1>1. At(h, "switch") /\ Goto(h, "pop") /\ o.kind = "handoff" /\ UNCHANGED <<remote, packs>>
  BY DEF SwitchBranch
<1>2. /\ o # Idle /\ o.pc = "switch" /\ OnTrack(o, r, packs, remote)
      /\ KnowsHandoff(o) \/ KnowsResume(o, packs)
  BY <1>1, Running
<1>3. /\ Same(o, q) /\ q.pc = "pop" /\ q.stash = o.stash
      /\ \A g \in Hosts : g # h => op'[g] = op[g]
  BY <1>1, GoesOn
<1>4. /\ s.tree = r.tree /\ s.stashes = r.stashes
      /\ \A g \in Hosts : g # h => repo'[g] = repo[g]
  <2>1. PICK c : repo' = [repo EXCEPT ![h].heads[o.branch] = c, ![h].branch = o.branch]
    BY DEF SwitchBranch
  <2>. QED
    BY <2>1 DEF KeptInv, RepoType
<1>5. OnTrack(q, s, packs, remote)
  <2>. HIDE DEF o, q, r, s
  <2>1. KnowsHandoff(q)
    BY <1>1, <1>2, <1>3 DEF KnowsHandoff, KnowsResume, Same, GitPlaces
  <2>2. HasBefore(q, s)
    BY <1>2, <1>3, <1>4 DEF OnTrack, HasBefore, Same, InCommit, StashPopped
  <2>3. HasPushed(q, s, remote) /\ HasArrived(q, s)
    BY <1>1, <1>3 DEF HasPushed, HasArrived, Same
  <2>. QED
    BY <2>1, <2>2, <2>3 DEF OnTrack
<1>6. OnTrack(op'[h], repo'[h], packs', remote')
  BY <1>1, <1>5
<1>. QED
  BY <1>1, <1>3, <1>4, <1>6, EndTracks

(* A resume that follows the branch of the pack is on it.                  *)
LEMMA FollowTracks ==
  ASSUME KeptInv, KeptInv', WorkInv, NEW h \in Hosts, FollowBranch(h)
  PROVE  WorkInv'
<1>. DEFINE o == op[h]
            r == repo[h]
            q == op'[h]
            s == repo'[h]
<1>1. At(h, "switch") /\ o.kind = "resume" /\ UNCHANGED <<remote, packs>>
  BY DEF FollowBranch
<1>2. /\ o # Idle /\ o.pc = "switch" /\ OnTrack(o, r, packs, remote)
      /\ KnowsHandoff(o) \/ KnowsResume(o, packs)
  BY <1>1, Running
<1>3. CASE Done(h)
  <2>1. /\ op'[h] = Idle
        /\ \A g \in Hosts : g # h => op'[g] = op[g] /\ repo'[g] = repo[g]
    BY <1>3 DEF Done, KeptInv, FollowBranch
  <2>. QED
    BY <1>1, <2>1, EndTracks
<1>4. CASE Goto(h, "check") /\ ~Done(h)
  <2>1. /\ Same(o, q) /\ q.pc = "check" /\ q.stash = o.stash
        /\ \A g \in Hosts : g # h => op'[g] = op[g]
    BY <1>1, <1>4, GoesOn
  <2>2. /\ s.tree = r.tree /\ s.stashes = r.stashes /\ s.branch = o.branch
        /\ \A g \in Hosts : g # h => repo'[g] = repo[g]
    <3>1. PICK c : repo' = [repo EXCEPT ![h].branch = o.branch, ![h].heads[o.branch] = c]
      BY <1>4 DEF FollowBranch
    <3>. QED
      BY <3>1 DEF KeptInv, RepoType
  <2>3. OnTrack(q, s, packs, remote)
    <3>. HIDE DEF o, q, r, s
    <3>1. KnowsResume(q, packs)
      BY <1>1, <1>2, <2>1 DEF KnowsHandoff, KnowsResume, Same, ResumePlaces
    <3>2. HasBefore(q, s)
      BY <1>2, <2>1, <2>2 DEF OnTrack, HasBefore, Same, InCommit, StashPopped
    <3>3. HasPushed(q, s, remote) /\ HasArrived(q, s)
      BY <1>1, <2>1, <2>2 DEF HasPushed, HasArrived, Same
    <3>. QED
      BY <3>1, <3>2, <3>3 DEF OnTrack
  <2>4. OnTrack(op'[h], repo'[h], packs', remote')
    BY <1>1, <2>3
  <2>. QED
    BY <1>1, <2>1, <2>2, <2>4, EndTracks
<1>. QED
  BY <1>3, <1>4 DEF FollowBranch

(* A resume learns what to follow.                                         *)
LEMMA FetchTracks ==
  ASSUME KeptInv, KeptInv', WorkInv, NEW h \in Hosts, Fetch(h)
  PROVE  WorkInv'
<1>. DEFINE o == op[h]
            r == repo[h]
            q == op'[h]
            tip == remote[o.branch]
<1>1. At(h, "fetch") /\ UNCHANGED <<repo, remote, packs>>
  BY DEF Fetch
<1>2. /\ o # Idle /\ o.pc = "fetch" /\ OnTrack(o, r, packs, remote)
      /\ KnowsHandoff(o) \/ KnowsResume(o, packs)
  BY <1>1, Running
<1>3. /\ q = [o EXCEPT !.pc = "switch", !.tip = tip]
      /\ \A g \in Hosts : g # h => op'[g] = op[g]
  BY DEF Fetch, KeptInv
<1>4. OnTrack(q, r, packs, remote)
  <2>. HIDE DEF o, q, r, tip
  <2>1. Same(o, q) /\ q.pc = "switch" /\ q.stash = o.stash
    BY <1>2, <1>3 DEF KnowsHandoff, KnowsResume, Same
  <2>2. KnowsResume(q, packs)
    BY <1>2, <2>1 DEF KnowsHandoff, KnowsResume, Same, GitPlaces, ResumePlaces
  <2>3. HasBefore(q, r)
    BY <1>2, <2>1 DEF OnTrack, HasBefore, Same, InCommit, StashPopped
  <2>4. HasPushed(q, r, remote) /\ HasArrived(q, r)
    BY <2>1 DEF HasPushed, HasArrived
  <2>. QED
    BY <2>2, <2>3, <2>4 DEF OnTrack
<1>5. OnTrack(op'[h], repo'[h], packs', remote')
  BY <1>1, <1>4
<1>. QED
  BY <1>1, <1>3, <1>5, EndTracks

(* The commit has what the tree had.                                       *)
LEMMA CommitTracks ==
  ASSUME KeptInv, KeptInv', WorkInv, NEW h \in Hosts, CommitWork(h)
  PROVE  WorkInv'
<1>. DEFINE o == op[h]
            r == repo[h]
            q == op'[h]
            s == repo'[h]
<1>1. At(h, "commit") /\ Goto(h, "push") /\ UNCHANGED <<remote, packs>>
  BY DEF CommitWork
<1>2. /\ o # Idle /\ o.pc = "commit" /\ OnTrack(o, r, packs, remote)
      /\ KnowsHandoff(o) \/ KnowsResume(o, packs)
      /\ Sound(r) /\ r \in RepoType
  BY <1>1, Running
<1>3. /\ Same(o, q) /\ q.pc = "push" /\ q.stash = o.stash
      /\ \A g \in Hosts : g # h => op'[g] = op[g]
  BY <1>1, GoesOn
<1>4. /\ s.stashes = r.stashes /\ r.tree \subseteq Content(HeadOf(s))
      /\ \A g \in Hosts : g # h => repo'[g] = repo[g]
  <2>1. CASE r.tree = {}
    BY <2>1 DEF CommitWork
  <2>2. CASE r.tree # {}
    <3>. DEFINE c == Append(Tip(h), r.tree)
    <3>1. repo' = CommitAll(h)
      BY <2>2, Zenon DEF CommitWork
    <3>2. /\ s.stashes = r.stashes /\ HeadOf(s) = c
          /\ \A g \in Hosts : g # h => repo'[g] = repo[g]
      BY <1>2, <3>1 DEF CommitAll, Tip, KeptInv, RepoType, HeadOf
    <3>3. Tip(h) \in Seq(SUBSET Dirt) /\ r.tree \in SUBSET Dirt
      BY <1>2, TipIsCommit DEF RepoType
    <3>4. r.tree \subseteq Content(c)
      BY <3>3, AppendedCommit
    <3>. QED
      BY <3>2, <3>4
  <2>. QED
    BY <2>1, <2>2
<1>5. OnTrack(q, s, packs, remote)
  <2>. HIDE DEF o, q, r, s
  <2>1. KnowsHandoff(q)
    BY <1>2, <1>3 DEF KnowsHandoff, KnowsResume, Same, GitPlaces, ResumePlaces
  <2>2. HasBefore(q, s)
    <3>. SUFFICES ASSUME o.list = <<>>
                  PROVE  /\ o.stash = 0 /\ Len(s.stashes) = 0
                         /\ o.before \subseteq Content(HeadOf(s))
      BY <1>3 DEF HasBefore, Same, InCommit
    <3>1. /\ o.stash = 0 /\ Len(r.stashes) = 0
          /\ o.before \subseteq r.tree \cup InStashes(r.stashes)
      BY <1>2 DEF OnTrack, HasBefore, InCommit, StashPopped
    <3>2. InStashes(r.stashes) = {}
      <4>1. r.stashes \in Seq(EntryType)
        BY <1>2 DEF RepoType
      <4>2. DOMAIN r.stashes = {}
        BY <3>1, <4>1, LenProperties
      <4>. QED
        BY <4>2 DEF InStashes
    <3>. QED
      BY <1>4, <3>1, <3>2
  <2>3. HasPushed(q, s, remote) /\ HasArrived(q, s)
    BY <1>3, <2>1 DEF HasPushed, HasArrived, KnowsHandoff
  <2>. QED
    BY <2>1, <2>2, <2>3 DEF OnTrack
<1>6. OnTrack(op'[h], repo'[h], packs', remote')
  BY <1>1, <1>5
<1>. QED
  BY <1>1, <1>3, <1>4, <1>6, EndTracks

(* A push that is not rejected takes nothing off the remote.               *)
LEMMA PushTracks ==
  ASSUME KeptInv, KeptInv', WorkInv, NEW h \in Hosts, PushBranch(h)
  PROVE  WorkInv'
<1>. DEFINE o == op[h]
            r == repo[h]
            q == op'[h]
            b == o.branch
<1>1. /\ At(h, "push") /\ Goto(h, "snapshot") /\ UNCHANGED <<repo, packs>>
      /\ FastForwards(remote[b], HeadOf(r))
      /\ remote' = [remote EXCEPT ![b] = HeadOf(r)]
  BY DEF PushBranch, HeadOf, Tip
<1>2. /\ o # Idle /\ o.pc = "push" /\ OnTrack(o, r, packs, remote)
      /\ KnowsHandoff(o) \/ KnowsResume(o, packs)
      /\ Sound(r) /\ b \in Branches
  BY <1>1, Running
<1>3. /\ Same(o, q) /\ q.pc = "snapshot" /\ q.stash = o.stash
      /\ \A g \in Hosts : g # h => op'[g] = op[g]
  BY <1>1, GoesOn
<1>4. HeadOf(r) \in Seq(SUBSET Dirt) /\ HeadOf(r) # NoRef /\ remote \in [Branches -> Commits]
  BY <1>2, TipIsCommit, RefsAssumption DEF HeadOf, Tip, KeptInv
<1>5. /\ remote'[b] = HeadOf(r)
      /\ \A d \in Branches : d # b => remote'[d] = remote[d]
  <2>. HIDE DEF b, r
  <2>. QED
    BY <1>1, <1>2, <1>4
<1>6. \A c \in Seq(SUBSET Dirt) : IsPrefix(c, c)
  BY PrefixOfPrefix
<1>7. Extends(remote, remote')
  <2>1. Extends(remote, remote)
    BY <1>4, SameExtends
  <2>. HIDE DEF b, r
  <2>. QED
    BY <1>1, <1>4, <1>5, <2>1 DEF Extends, FastForwards
<1>8. OnTrack(q, r, packs, remote')
  <2>. HIDE DEF o, q, r
  <2>1. KnowsHandoff(q)
    BY <1>2, <1>3 DEF KnowsHandoff, KnowsResume, Same, GitPlaces, ResumePlaces
  <2>2. HasBefore(q, r)
    BY <1>2, <1>3 DEF OnTrack, HasBefore, Same, InCommit, StashPopped, KnowsHandoff,
                      KnowsResume, ResumePlaces
  <2>3. HasPushed(q, r, remote')
    BY <1>3, <1>4, <1>5, <1>6 DEF HasPushed, Same, b
  <2>4. HasArrived(q, r)
    BY <2>1 DEF HasArrived, KnowsHandoff
  <2>. QED
    BY <2>1, <2>2, <2>3, <2>4 DEF OnTrack
<1>9. OnTrack(op'[h], repo'[h], packs', remote')
  BY <1>1, <1>8
<1>. QED
  BY <1>1, <1>3, <1>7, <1>9, StepTracks

(* A git pack names the commit that has the work, which the remote has.    *)
LEMMA PackTracks ==
  ASSUME KeptInv, KeptInv', WorkInv, NEW h \in Hosts, WritePack(h)
  PROVE  WorkInv'
<1>. DEFINE o == op[h]
            r == repo[h]
            p == PackOf(h)
<1>1. /\ At(h, "snapshot") /\ Done(h) /\ UNCHANGED remote /\ packs' = packs \cup {p}
      /\ \A g \in Hosts : g # h => repo'[g] = repo[g]
  BY DEF WritePack, KeptInv
<1>2. /\ o # Idle /\ o.pc = "snapshot" /\ OnTrack(o, r, packs, remote)
      /\ KnowsHandoff(o) \/ KnowsResume(o, packs)
      /\ Sound(r)
  BY <1>1, Running
<1>3. /\ p.mode = o.mode /\ p.branch = o.branch /\ p.commit = HeadOf(r)
      /\ p.carries = o.before /\ p.clean = (o.list = <<>>)
  BY DEF PackOf, Captured, Described, Origin, Tip, HeadOf
<1>4. HeadOf(r) \in Seq(SUBSET Dirt)
  BY <1>2, TipIsCommit DEF HeadOf, Tip
<1>. HIDE DEF p, o, r
<1>5. o.mode \in {"git", "metadata"}
  BY <1>2 DEF KnowsHandoff, KnowsResume, ResumePlaces
<1>6. Covered(p, remote)
  BY <1>2, <1>3 DEF Covered, OnTrack, HasPushed, HasBefore, InCommit
<1>7. op'[h] = Idle /\ \A g \in Hosts : g # h => op'[g] = op[g]
  BY <1>1 DEF Done, KeptInv
<1>8. Extends(remote, remote') /\ Covered(p, remote')
  BY <1>1, <1>6, SameExtends DEF KeptInv
<1>9. \A x \in packs' \ packs :
        /\ x.mode \in {"git", "metadata"} /\ x.commit \in Seq(SUBSET Dirt)
        /\ Covered(x, remote')
  <2>1. \A x \in packs' \ packs : x = p
    BY <1>1
  <2>2. p.mode \in {"git", "metadata"} /\ p.commit \in Seq(SUBSET Dirt)
    BY <1>3, <1>4, <1>5
  <2>. QED
    BY <1>8, <2>1, <2>2
<1>10. packs \subseteq packs'
  BY <1>1
<1>. QED
  BY <1>1, <1>7, <1>8, <1>9, <1>10, StepTracks

(* A command that begins has all work in the tree.                         *)
LEMMA StartsTrack ==
  ASSUME KeptInv, KeptInv', WorkInv, NEW h \in Hosts,
         \/ \E b \in Branches, mode \in {"git", "metadata"} : StartHandoff(h, b, mode)
         \/ \E p \in packs : StartResume(h, p)
  PROVE  WorkInv'
<1>. DEFINE r == repo[h]
<1>1. UNCHANGED <<repo, remote, packs>>
  BY DEF StartHandoff, StartResume
<1>2. r.stashes = <<>> => Len(r.stashes) = 0
  OBVIOUS
<1>3. ASSUME NEW b \in Branches, NEW mode \in {"git", "metadata"}, StartHandoff(h, b, mode)
      PROVE  /\ \A g \in Hosts : g # h => op'[g] = op[g]
             /\ OnTrack(op'[h], r, packs, remote)
  <2>. DEFINE o == [pc |-> IF mode = "git" THEN "stash" ELSE "snapshot",
                    kind |-> "handoff", mode |-> mode, branch |-> b,
                    label |-> "session", stash |-> 0, before |-> r.tree,
                    list |-> r.stashes]
  <2>1. op'[h] = o /\ \A g \in Hosts : g # h => op'[g] = op[g]
    BY <1>3 DEF StartHandoff, KeptInv
  <2>2. KnowsHandoff(o)
    BY DEF KnowsHandoff, GitPlaces
  <2>3. HasBefore(o, r)
    BY <1>2 DEF HasBefore, InCommit, StashPopped
  <2>4. HasPushed(o, r, remote) /\ HasArrived(o, r)
    BY DEF HasPushed, HasArrived
  <2>. HIDE DEF o
  <2>. QED
    BY <2>1, <2>2, <2>3, <2>4 DEF OnTrack
<1>4. ASSUME NEW p \in packs, StartResume(h, p)
      PROVE  /\ \A g \in Hosts : g # h => op'[g] = op[g]
             /\ OnTrack(op'[h], r, packs, remote)
  <2>. DEFINE o == [pc |-> IF p.mode = "git" THEN "stash" ELSE "validate",
                    kind |-> "resume", pack |-> p, branch |-> p.branch,
                    label |-> "resume", tip |-> NoRef, stash |-> 0,
                    before |-> r.tree, list |-> r.stashes]
  <2>1. op'[h] = o /\ \A g \in Hosts : g # h => op'[g] = op[g]
    BY <1>4 DEF StartResume, KeptInv
  <2>2. KnowsResume(o, packs)
    BY DEF KnowsResume, ResumePlaces, WorkInv
  <2>3. HasBefore(o, r)
    BY <1>2 DEF HasBefore, InCommit, StashPopped
  <2>4. HasPushed(o, r, remote) /\ HasArrived(o, r)
    BY DEF HasPushed, HasArrived
  <2>. HIDE DEF o
  <2>. QED
    BY <2>1, <2>2, <2>3, <2>4 DEF OnTrack
<1>5. /\ \A g \in Hosts : g # h => repo'[g] = repo[g] /\ op'[g] = op[g]
      /\ OnTrack(op'[h], repo'[h], packs', remote')
  BY <1>1, <1>3, <1>4
<1>. QED
  BY <1>1, <1>5, EndTracks

(* A command that ends forgets, and users work where none runs.            *)
LEMMA EndsTrack ==
  ASSUME KeptInv, KeptInv', WorkInv, NEW h \in Hosts,
         \/ Validate(h) /\ Done(h)
         \/ Prime(h) \/ Fail(h) \/ Refused(h)
         \/ \E w \in Works : Edit(h, w)
         \/ UserCommit(h) \/ UserLeaves(h) \/ UserGivesUpMerge(h)
  PROVE  WorkInv'
<1>1. /\ UNCHANGED <<remote, packs>>
      /\ \A g \in Hosts : g # h => repo'[g] = repo[g] /\ op'[g] = op[g]
      /\ op'[h] = Idle
  <2>1. CASE \/ Validate(h) /\ Done(h)
             \/ Prime(h) \/ Fail(h) \/ Refused(h)
    <3>1. Done(h) /\ UNCHANGED <<repo, remote, packs>>
      BY <2>1 DEF Validate, Prime, Fail, Refused
    <3>2. op = [g \in Hosts |-> op[g]]
      BY DEF KeptInv
    <3>3. op'[h] = Idle /\ \A g \in Hosts : g # h => op'[g] = op[g]
      BY <3>1, <3>2 DEF Done
    <3>. QED
      BY <3>1, <3>3
  <2>2. CASE \/ \E w \in Works : Edit(h, w)
             \/ UserCommit(h) \/ UserLeaves(h) \/ UserGivesUpMerge(h)
    BY <2>2 DEF Edit, UserCommit, UserLeaves, UserGivesUpMerge, CommitAll, Busy, KeptInv
  <2>. QED
    BY <2>1, <2>2
<1>. QED
  BY <1>1, EndTracks

(* Every command is on track, and every pack is covered.                   *)
LEMMA AlwaysOnTrack == Spec => [](KeptInv /\ WorkInv)
<1>1. Init => WorkInv
  BY DEF Init, WorkInv, Busy
<1>2. KeptInv /\ KeptInv' /\ WorkInv /\ [Next]_vars => WorkInv'
  <2>. SUFFICES ASSUME KeptInv, KeptInv', WorkInv, [Next]_vars PROVE WorkInv'
    OBVIOUS
  <2>1. CASE UNCHANGED vars
    BY <2>1 DEF vars, WorkInv, Busy
  <2>2. ASSUME NEW h \in Hosts, CheckCommit(h) PROVE WorkInv'
    <3>1. CASE Tip(h) = op[h].pack.commit
      BY <2>2, <3>1, LooksTrack DEF CheckCommit
    <3>2. CASE Tip(h) # op[h].pack.commit
      BY <2>2, <3>2, RestoreTracks DEF CheckCommit
    <3>. QED
      BY <3>1, <3>2
  <2>3. ASSUME NEW h \in Hosts, Validate(h) PROVE WorkInv'
    <3>1. CASE CheckoutMatches(h, op[h].pack)
      BY <2>3, <3>1, LooksTrack DEF Validate, CheckoutMatches
    <3>2. CASE ~CheckoutMatches(h, op[h].pack)
      BY <2>3, <3>2, EndsTrack DEF Validate
    <3>. QED
      BY <3>1, <3>2
  <2>4. ASSUME NEW h \in Hosts, ChooseBranch(h) PROVE WorkInv'
    BY <2>4, LooksTrack DEF ChooseBranch
  <2>. QED
    BY <2>1, <2>2, <2>3, <2>4, StashTracks, RestoreTracks, SwitchTracks, CommitTracks,
       PushTracks, PackTracks, FetchTracks, FollowTracks, StartsTrack, EndsTrack
    DEF Next, Tool
<1>. QED
  BY <1>1, <1>2, KeptAlways, PTL DEF Spec

(* A git pack that was written from a checkout without leftover stashes    *)
(* names a commit with all work of the checkout, and the remote keeps it   *)
(* whoever pushes after it (git_handoff.rs, prepare).                      *)
THEOREM PacksHoldWork == Spec => []PackHoldsWork
<1>1. WorkInv => PackHoldsWork
  BY DEF WorkInv, Covered, PackHoldsWork
<1>. QED
  BY <1>1, AlwaysOnTrack, PTL

(* What has no entry is the empty list.                                    *)
LEMMA NoEntries ==
  ASSUME NEW S, NEW s \in Seq(S), Len(s) = 0
  PROVE  s = <<>> /\ InStashes(s) = {}
<1>1. s = <<>>
  BY EmptySeq
<1>2. DOMAIN s = {}
  BY LenProperties
<1>. QED
  BY <1>1, <1>2 DEF InStashes

(* A command that gets to its end, or refuses, with a stash list that was  *)
(* empty when it began leaves an empty one and the work in the tree or in  *)
(* the commit (git_handoff.rs, restore_stash).                             *)
THEOREM StashesComeBack == Spec => WorkComesBack
<1>1. ASSUME KeptInv, KeptInv', WorkInv, [Next]_vars, NEW h \in Hosts,
             Busy(h), op[h].list = <<>>, Ends(h), ~repo'[h].unmerged
      PROVE  GivesBack(h)
  <2>. DEFINE o == op[h]
              r == repo[h]
              s == repo'[h]
  <2>1. /\ OnTrack(o, r, packs, remote) /\ Sound(r) /\ Sound(s) /\ OpSound(o, r)
        /\ o.pc \in {"snapshot", "prime", "branch", "check"}
        /\ Len(r.stashes) \in Nat
    <3>1. \E pc \in {"snapshot", "prime", "branch", "check"} : At(h, pc)
      BY <1>1 DEF Ends, WritePack, Prime, RefuseBranch, CheckCommit
    <3>. QED
      BY <1>1, <3>1, Running DEF KeptInv
  <2>2. /\ o.stash \in {0, 1} /\ Len(r.stashes) = o.stash
        /\ StashPopped(o) => o.stash = 0
        /\ o.before \subseteq r.tree \cup InStashes(r.stashes) \cup Content(HeadOf(r))
    BY <1>1, <2>1 DEF OnTrack, HasBefore
  <2>3. /\ Len(s.stashes) = 0
        /\ o.before \subseteq s.tree \cup InStashes(s.stashes) \cup Content(HeadOf(s))
    <3>1. CASE WritePack(h) \/ Prime(h)
      <4>1. /\ o.pc \in {"snapshot", "prime"}
            /\ s.stashes = r.stashes /\ r.tree \subseteq s.tree /\ HeadOf(s) = HeadOf(r)
        <5>1. CASE Prime(h)
          BY <5>1 DEF Prime, At
        <5>2. CASE WritePack(h) /\ ~PackInRepo
          BY <5>2 DEF WritePack, At
        <5>3. CASE WritePack(h) /\ PackInRepo
          <6>1. s = [r EXCEPT !.tree = @ \cup {PackFile}] /\ r \in RepoType
            BY <1>1, <5>3 DEF WritePack, KeptInv
          <6>2. s.stashes = r.stashes /\ s.heads = r.heads /\ s.branch = r.branch
                /\ s.tree = r.tree \cup {PackFile}
            BY <6>1 DEF RepoType
          <6>3. o.pc = "snapshot"
            BY <5>3 DEF WritePack, At
          <6>. QED
            BY <6>2, <6>3 DEF HeadOf
        <5>. QED
          BY <3>1, <5>1, <5>2, <5>3
      <4>. HIDE DEF o, r, s
      <4>. QED
        BY <2>2, <4>1 DEF StashPopped
    <3>2. CASE RestoreStash(h, "error")
      <4>1. CASE o.stash = 0
        <5>1. s = r
          BY <3>2, <4>1 DEF RestoreStash
        <5>. QED
          BY <2>2, <4>1, <5>1
      <4>2. CASE o.stash # 0
        <5>1. o.stash \in 1..Len(r.stashes) /\ Len(r.stashes) = 1
          BY <2>1, <2>2, <4>2
        <5>2. s = Pop(h, o.stash)[h]
          BY <3>2, <4>2 DEF RestoreStash
        <5>3. /\ s.heads = r.heads /\ s.branch = r.branch
              /\ Len(s.stashes) = Len(r.stashes) - 1
              /\ r.tree \cup InStashes(r.stashes) \subseteq s.tree \cup InStashes(s.stashes)
          BY <1>1, <2>1, <5>1, <5>2, PopMoves DEF KeptInv
        <5>. QED
          BY <2>2, <5>1, <5>3 DEF HeadOf
      <4>. QED
        BY <4>1, <4>2
    <3>3. CASE CheckCommit(h) /\ Done(h)
      <4>1. ~Goto(h, "pop")
        <5>1. Done(h) => op'[h].pc = "idle"
          BY <1>1 DEF Done, KeptInv, Idle
        <5>2. KnowsHandoff(o) \/ KnowsResume(o, packs)
          BY <2>1 DEF OnTrack
        <5>3. Goto(h, "pop") => op'[h].pc = "pop"
          BY <1>1, <5>2 DEF Goto, KeptInv, KnowsHandoff, KnowsResume
        <5>. QED
          BY <3>3, <5>1, <5>3
      <4>. QED
        BY <3>2, <3>3, <4>1 DEF CheckCommit
    <3>. QED
      BY <1>1, <3>1, <3>2, <3>3 DEF Ends, RefuseBranch
  <2>4. s.stashes \in Seq(EntryType)
    BY <2>1 DEF Sound, RepoType
  <2>5. s.stashes = <<>> /\ InStashes(s.stashes) = {}
    BY <2>3, <2>4, NoEntries
  <2>. QED
    BY <1>1, <2>3, <2>5 DEF GivesBack, HeadOf, Tip
<1>2. KeptInv /\ KeptInv' /\ WorkInv /\ [Next]_vars =>
        [\A h \in Hosts :
           (Busy(h) /\ op[h].list = <<>> /\ Ends(h) /\ ~repo'[h].unmerged)
             => GivesBack(h)]_vars
  BY <1>1
<1>. QED
  BY <1>2, AlwaysOnTrack, PTL DEF Spec, WorkComesBack

(* A resume that succeeds is on the branch of the pack, at a commit with   *)
(* the work the pack was written for (git_handoff.rs, restore; pack.rs).   *)
THEOREM ResumesArrive == Spec => ResumeArrives
<1>1. ASSUME KeptInv, WorkInv, NEW h \in Hosts, Prime(h), op[h].pack.mode = "git"
      PROVE  LET p == op[h].pack IN
             /\ repo'[h].branch = p.branch
             /\ p.clean => p.carries \subseteq Content(Tip(h)')
  <2>. DEFINE o == op[h]
              p == o.pack
  <2>1. o.pc = "prime" /\ OnTrack(o, repo[h], packs, remote)
    BY <1>1, Running DEF Prime
  <2>2. KnowsResume(o, packs)
    BY <2>1 DEF OnTrack, KnowsHandoff, GitPlaces
  <2>3. p \in packs /\ o.branch = p.branch /\ Covered(p, remote)
    BY <1>1, <2>2 DEF KnowsResume, WorkInv
  <2>4. repo[h].branch = p.branch /\ HeadOf(repo[h]) = p.commit
    BY <1>1, <2>1, <2>2, <2>3 DEF OnTrack, HasArrived, KnowsResume
  <2>5. Tip(h)' = HeadOf(repo[h]) /\ repo'[h].branch = repo[h].branch
    BY <1>1 DEF Prime, Tip, HeadOf
  <2>. HIDE DEF p
  <2>6. p.clean => p.carries \subseteq Content(Tip(h)')
    BY <1>1, <2>3, <2>4, <2>5 DEF Covered, p
  <2>. QED
    BY <2>4, <2>5, <2>6 DEF p
<1>2. KeptInv /\ WorkInv =>
        [\A h \in Hosts :
           (Prime(h) /\ op[h].pack.mode = "git") =>
             LET p == op[h].pack IN
             /\ repo'[h].branch = p.branch
             /\ p.clean => p.carries \subseteq Content(Tip(h)')]_vars
  BY <1>1
<1>. QED
  BY <1>2, AlwaysOnTrack, PTL DEF ResumeArrives

-----------------------------------------------------------------------------
(* The pack as a file.                                                     *)

(* Where packs are written elsewhere, no checkout and no pack has one.     *)
Bare(r) == PackFile \notin r.tree \cup InStashes(r.stashes)
BareInv ==
  /\ \A h \in Hosts : Bare(repo[h])
  /\ \A p \in packs : PackFile \notin p.dirty

(* A checkout to which nothing but edits came is as bare as before.        *)
LEMMA StepStaysBare ==
  ASSUME BareInv, NEW h \in Hosts, UNCHANGED packs,
         \A g \in Hosts : g # h => repo'[g] = repo[g],
         repo'[h].tree \cup InStashes(repo'[h].stashes)
           \subseteq repo[h].tree \cup InStashes(repo[h].stashes) \cup Works
  PROVE  BareInv'
BY HandoffAssumption DEF BareInv, Bare

(* Packs that are written outside of the checkouts never come into one.    *)
LEMMA AlwaysBare ==
  ASSUME ~PackInRepo
  PROVE  Spec => []BareInv
<1>1. Init => BareInv
  BY EmptySeq DEF Init, BareInv, Bare, InStashes
<1>2. KeptInv /\ BareInv /\ [Next]_vars => BareInv'
  <2>. SUFFICES ASSUME KeptInv, BareInv, [Next]_vars PROVE BareInv'
    OBVIOUS
  <2>. DEFINE All(r) == r.tree \cup InStashes(r.stashes)
  <2>1. CASE UNCHANGED vars
    BY <2>1 DEF vars, BareInv
  <2>2. ASSUME NEW h \in Hosts, UNCHANGED <<repo, packs>> PROVE BareInv'
    BY <2>2 DEF BareInv
  <2>3. ASSUME NEW h \in Hosts, StashIfDirty(h) PROVE BareInv'
    <3>1. CASE repo[h].tree = {}
      BY <2>2, <2>3, <3>1 DEF StashIfDirty
    <3>2. CASE repo[h].tree # {}
      <4>. DEFINE x == Push(h, op[h].label)[h]
      <4>1. op[h].label \in {"session", "resume"} /\ Sound(repo[h])
            /\ repo \in [Hosts -> RepoType]
        <5>1. op[h] # Idle
          BY <2>3 DEF StashIfDirty, At, Idle
        <5>. QED
          BY <5>1 DEF KeptInv, OpSound
      <4>2. repo' = Push(h, op[h].label) /\ UNCHANGED packs
        BY <2>3, <3>2 DEF StashIfDirty
      <4>3. repo' = [repo EXCEPT ![h] = x]
        BY <4>1, <4>2, PushKeeps
      <4>4. All(x) \subseteq All(repo[h])
        BY <4>1, PushMoves
      <4>. HIDE DEF x
      <4>5. repo'[h] = x /\ \A g \in Hosts : g # h => repo'[g] = repo[g]
        BY <4>1, <4>3
      <4>. QED
        BY <4>2, <4>4, <4>5, StepStaysBare
    <3>. QED
      BY <3>1, <3>2
  <2>4. ASSUME NEW h \in Hosts, Busy(h), NEW pc, RestoreStash(h, pc) PROVE BareInv'
    <3>1. CASE op[h].stash = 0
      BY <2>2, <2>4, <3>1 DEF RestoreStash
    <3>2. CASE op[h].stash # 0
      <4>. DEFINE x == Pop(h, op[h].stash)[h]
      <4>1. op[h].stash \in 1..Len(repo[h].stashes) /\ Sound(repo[h])
            /\ repo \in [Hosts -> RepoType]
        <5>1. /\ OpSound(op[h], repo[h]) /\ op[h] # Idle /\ Sound(repo[h])
              /\ repo \in [Hosts -> RepoType] /\ Len(repo[h].stashes) \in Nat
          BY <2>4, LenProperties DEF Busy, KeptInv, RepoType
        <5>. QED
          BY <3>2, <5>1 DEF OpSound
      <4>2. repo' = Pop(h, op[h].stash) /\ UNCHANGED packs
        BY <2>4, <3>2 DEF RestoreStash
      <4>3. repo' = [repo EXCEPT ![h] = x]
        BY <4>1, <4>2, PopKeeps
      <4>4. All(x) \subseteq All(repo[h])
        BY <4>1, PopMoves
      <4>. HIDE DEF x
      <4>5. repo'[h] = x /\ \A g \in Hosts : g # h => repo'[g] = repo[g]
        BY <4>1, <4>3
      <4>. QED
        BY <4>2, <4>4, <4>5, StepStaysBare
    <3>. QED
      BY <3>1, <3>2
  <2>5. ASSUME NEW h \in Hosts, RefuseBranch(h) \/ PopWork(h) PROVE BareInv'
    <3>1. \E pc \in {"error", "commit", "validate"} : Busy(h) /\ RestoreStash(h, pc)
      BY <2>5 DEF RefuseBranch, PopWork, At, Busy, Idle
    <3>. QED
      BY <2>4, <3>1
  <2>6. ASSUME NEW h \in Hosts, CheckCommit(h) PROVE BareInv'
    <3>1. \/ UNCHANGED <<repo, packs>>
          \/ Busy(h) /\ RestoreStash(h, "error")
      BY <2>6 DEF CheckCommit, At, Busy, Idle
    <3>. QED
      BY <2>2, <2>4, <2>6, <3>1
  <2>7. ASSUME NEW h \in Hosts, SwitchBranch(h) \/ FollowBranch(h) PROVE BareInv'
    <3>1. UNCHANGED packs /\ \A g \in Hosts : g # h => repo'[g] = repo[g]
      BY <2>7 DEF SwitchBranch, FollowBranch, KeptInv
    <3>2. repo'[h].tree = repo[h].tree /\ repo'[h].stashes = repo[h].stashes
      BY <2>7 DEF SwitchBranch, FollowBranch, KeptInv, RepoType
    <3>. QED
      BY <3>1, <3>2, StepStaysBare
  <2>8. ASSUME NEW h \in Hosts, repo' = CommitAll(h), UNCHANGED packs PROVE BareInv'
    <3>1. \A g \in Hosts : g # h => repo'[g] = repo[g]
      BY <2>8 DEF CommitAll, KeptInv
    <3>2. repo'[h].tree = {} /\ repo'[h].stashes = repo[h].stashes
      BY <2>8 DEF CommitAll, KeptInv, RepoType
    <3>. QED
      BY <2>8, <3>1, <3>2, StepStaysBare
  <2>9. ASSUME NEW h \in Hosts, CommitWork(h) \/ UserCommit(h) PROVE BareInv'
    BY <2>2, <2>8, <2>9 DEF CommitWork, UserCommit
  <2>10. ASSUME NEW h \in Hosts, WritePack(h) PROVE BareInv'
    <3>1. UNCHANGED repo /\ packs' = packs \cup {PackOf(h)}
      BY <2>10 DEF WritePack
    <3>2. PackOf(h).dirty = repo[h].tree
      BY DEF PackOf, Captured
    <3>. QED
      BY <3>1, <3>2 DEF BareInv, Bare
  <2>11. ASSUME NEW h \in Hosts, NEW w \in Works, Edit(h, w) PROVE BareInv'
    <3>1. UNCHANGED packs /\ \A g \in Hosts : g # h => repo'[g] = repo[g]
      BY <2>11 DEF Edit, KeptInv
    <3>2. /\ repo'[h].tree = repo[h].tree \cup {w}
          /\ repo'[h].stashes = repo[h].stashes
      BY <2>11 DEF Edit, KeptInv, RepoType
    <3>. QED
      BY <3>1, <3>2, StepStaysBare
  <2>12. ASSUME NEW h \in Hosts, UserLeaves(h) \/ UserGivesUpMerge(h) PROVE BareInv'
    <3>1. UNCHANGED packs /\ \A g \in Hosts : g # h => repo'[g] = repo[g]
      BY <2>12 DEF UserLeaves, UserGivesUpMerge, KeptInv
    <3>2. repo'[h].tree = repo[h].tree /\ repo'[h].stashes = repo[h].stashes
      BY <2>12 DEF UserLeaves, UserGivesUpMerge, KeptInv, RepoType
    <3>. QED
      BY <3>1, <3>2, StepStaysBare
  <2>13. ASSUME NEW h \in Hosts,
                \/ ChooseBranch(h) \/ PushBranch(h) \/ Fetch(h) \/ Validate(h)
                \/ Prime(h) \/ Fail(h) \/ Refused(h)
                \/ \E b \in Branches, mode \in {"git", "metadata"} : StartHandoff(h, b, mode)
                \/ \E p \in packs : StartResume(h, p)
         PROVE  BareInv'
    BY <2>2, <2>13 DEF ChooseBranch, PushBranch, Fetch, Validate, Prime, Fail, Refused,
                       StartHandoff, StartResume
  <2>. QED
    BY <2>1, <2>3, <2>5, <2>6, <2>7, <2>9, <2>10, <2>11, <2>12, <2>13 DEF Next, Tool
<1>. QED
  BY <1>1, <1>2, KeptAlways, PTL DEF Spec

(* A checkout that is as the metadata handoff left it can be resumed       *)
(* there, if the pack is written elsewhere (pack.rs, validate_checkout).   *)
THEOREM QuietResumesWork ==
  ASSUME ~PackInRepo
  PROVE  Spec => []QuietResume
<1>1. BareInv => QuietResume
  BY DEF BareInv, Bare, QuietResume, CheckoutMatches, SameDirt, InFiles
<1>. QED
  BY <1>1, AlwaysBare, PTL
=============================================================================
