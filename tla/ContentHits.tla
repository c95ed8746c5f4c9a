------------------------------ MODULE ContentHits ------------------------------
(***************************************************************************)
(* One search on the index (SearchEngine::search, search-index/src/        *)
(* engine.rs): the candidate documents are read and matched by a pool of   *)
(* threads that share the number of lines found so far (total_found) and a *)
(* flag that the limit is reached (done), both relaxed atomics.            *)
(*                                                                         *)
(*   idle --Take--> read --Look--> found --Load--> swap --Swap--> full     *)
(*                                                                         *)
(* Every step but Swap may end the work on a document; a Swap that finds   *)
(* total_found changed goes back to found.                                 *)
(***************************************************************************)
EXTENDS Candidates, FiniteSetsExt

CONSTANTS
  Threads,    \* the thread pool
  NoDoc,      \* no document
  IoMayFail   \* documents may be unreadable

ASSUME HitsAssumption == NoDoc \notin Docs /\ IoMayFail \in BOOLEAN

VARIABLES
  request,     \* the request searched for
  todo,        \* candidates no thread has taken
  thread,      \* what each thread does
  total,       \* total_found
  done,        \* the flag done
  kept,        \* the lines of each document in the answer
  unreadable   \* history: documents that could not be read

vars == <<request, todo, thread, total, done, kept, unreadable>>

At(step, d, found, prev) ==
  [step |-> step, doc |-> d, found |-> found, prev |-> prev]
Idle == At("idle", NoDoc, 0, 0)

Goes(t, state) == thread' = [thread EXCEPT ![t] = state]

Smaller(m, n) == IF m < n THEN m ELSE n

-----------------------------------------------------------------------------
(* collect_path_hits: every candidate is a hit. *)
PathHits ==
  /\ request.kind = "path"
  /\ todo # {}
  /\ kept' = [d \in Docs |-> IF d \in todo THEN 1 ELSE 0]
  /\ total' = Cardinality(todo)
  /\ todo' = {}
  /\ UNCHANGED <<request, thread, done, unreadable>>

(* A thread takes a document, unless the limit is known to be reached. *)
Take(t, d) ==
  /\ request.kind # "path"
  /\ thread[t] = Idle
  /\ d \in todo
  /\ todo' = todo \ {d}
  /\ Goes(t, IF done THEN Idle ELSE At("read", d, 0, 0))
  /\ UNCHANGED <<request, total, done, kept, unreadable>>

ReadFails(t) ==
  /\ thread[t].step = "read"
  /\ IoMayFail
  /\ unreadable' = unreadable \cup {thread[t].doc}
  /\ Goes(t, Idle)
  /\ UNCHANGED <<request, todo, total, done, kept>>

(* It reads the document, then total_found, and matches no more lines than *)
(* are missing.                                                            *)
Missing == request.max - total

Look(t) ==
  LET d == thread[t].doc
      found == Smaller(LineCount(d, request), Missing)
  IN /\ thread[t].step = "read"
     /\ done' = (done \/ Missing = 0)
     /\ Goes(t, IF found = 0 THEN Idle ELSE At("found", d, found, 0))
     /\ UNCHANGED <<request, todo, total, kept, unreadable>>

(* The loop around compare_exchange. *)
Load(t) ==
  /\ thread[t].step = "found"
  /\ done' = (done \/ Missing = 0)
  /\ Goes(t, IF Missing = 0 THEN Idle
             ELSE [thread[t] EXCEPT !.step = "swap", !.prev = total])
  /\ UNCHANGED <<request, todo, total, kept, unreadable>>

RetryStale(t) == Goes(t, thread[t])
Retry(t) == Goes(t, [thread[t] EXCEPT !.step = "found", !.prev = 0])

AddBlindly(t) == TRUE
Unchanged(t) == total = thread[t].prev

Swap(t) ==
  LET keep == Smaller(thread[t].found, request.max - thread[t].prev) IN
  /\ thread[t].step = "swap"
  /\ IF Unchanged(t)
     THEN /\ total' = thread[t].prev + keep
          /\ kept' = [kept EXCEPT ![thread[t].doc] = keep]
          /\ Goes(t, IF total' >= request.max
                     THEN At("full", thread[t].doc, 0, 0) ELSE Idle)
     ELSE Retry(t) /\ UNCHANGED <<total, kept>>
  /\ UNCHANGED <<request, todo, done, unreadable>>

SetDone(t) ==
  /\ thread[t].step = "full"
  /\ done' = TRUE
  /\ Goes(t, Idle)
  /\ UNCHANGED <<request, todo, total, kept, unreadable>>

-----------------------------------------------------------------------------
Init ==
  /\ request \in Requests
  /\ todo = CandidateDocs(request)
  /\ thread = [t \in Threads |-> Idle]
  /\ total = 0
  /\ done = FALSE
  /\ kept = [d \in Docs |-> 0]
  /\ unreadable = {}

Work(t) ==
  \/ \E d \in Docs : Take(t, d)
  \/ ReadFails(t)
  \/ Look(t)
  \/ Load(t)
  \/ Swap(t)
  \/ SetDone(t)

Next == PathHits \/ \E t \in Threads : Work(t)

Spec == Init /\ [][Next]_vars

(* Every thread of the pool runs. *)
FairSpec == Spec /\ WF_vars(PathHits) /\ \A t \in Threads : WF_vars(Work(t))

-----------------------------------------------------------------------------
(* Properties.                                                             *)

Finished == todo = {} /\ \A t \in Threads : thread[t] = Idle

(* A direct scan would look at d and find a line (search_direct). *)
Wanted(d) ==
  /\ PathMatchesFilters(d, request)
  /\ request.kind # "path" => MatchingLines(d, request) # {}

(* Every variable keeps its type. *)
TypeOK ==
  /\ request \in Requests
  /\ todo \in SUBSET Docs
  /\ thread \in [Threads ->
       [step : {"idle", "read", "found", "swap", "full"},
        doc : Docs \cup {NoDoc}, found : Nat, prev : Nat]]
  /\ total \in Nat
  /\ done \in BOOLEAN
  /\ kept \in [Docs -> Nat]
  /\ unreadable \in SUBSET Docs

(* The limit is kept to the line, whatever the threads do at the same time,*)
(* and total_found is what the answer has: docs/optimization-log.md:48     *)
(* "parallel verification so --max-results is enforced deterministically". *)
LimitKept ==
  /\ MapThenSumSet(LAMBDA d : kept[d], Docs) = total
  /\ request.kind # "path" => total <= request.max

(* The answer has no document that a direct scan would not have found, and *)
(* no more lines of it than match.  A path request with path_substrings is *)
(* the exception: the index takes its pattern for one more of them.        *)
PathIsAlternative ==
  request.kind = "path" /\ request.filters["path_substrings"] # {}
HitsAreMatches ==
  \A d \in Docs :
    kept[d] > 0 /\ ~PathIsAlternative =>
      /\ Wanted(d)
      /\ request.kind # "path" => kept[d] <= LineCount(d, request)

(* An answer below its limit is complete: the pruning by trigrams and the  *)
(* limit shared by the threads hide no line of a readable document.        *)
MissesNothing ==
  Finished /\ (request.kind = "path" \/ total < request.max) =>
    \A d \in Docs \ unreadable :
      Wanted(d) => kept[d] = IF request.kind = "path" THEN 1
                             ELSE LineCount(d, request)

(* The literals extracted from a regex are in everything it matches: "han- *)
(* dles alternation, optional quantifiers, groups, and character classes   *)
(* correctly" (planner.rs:200-201).                                        *)
SeedsSuffice == SeedsRequired(request)

(* The search ends: no thread retries its compare_exchange for ever.       *)
SearchEnds == <>Finished

(* The induction behind MissesNothing: below the limit nothing is set      *)
(* aside, and what a thread holds back would reach the limit.              *)
Held == {thread[t].doc : t \in Threads}
Settled(d) == d \notin todo /\ d \notin Held /\ d \notin unreadable

HitsInv ==
  /\ TypeOK
  /\ todo \subseteq CandidateDocs(request)
  /\ request.kind = "path" =>
       /\ \A t \in Threads : thread[t] = Idle
       /\ unreadable = {}
       /\ \/ todo = CandidateDocs(request)
          \/ todo = {} /\ \A d \in CandidateDocs(request) : kept[d] = 1
  /\ request.kind # "path" =>
       /\ total <= request.max
       /\ done => total = request.max
       /\ \A t \in Threads :
            /\ thread[t].step # "idle" => thread[t].doc \in Docs
            /\ thread[t].step = "full" => total = request.max
            /\ thread[t].step \in {"found", "swap"} =>
                 /\ thread[t].found \in 1..LineCount(thread[t].doc, request)
                 /\ thread[t].found < LineCount(thread[t].doc, request)
                      => total + thread[t].found >= request.max
            /\ thread[t].step = "swap" => thread[t].prev <= total
       /\ \A d \in CandidateDocs(request) :
            Settled(d) => \/ LineCount(d, request) \in {0, kept[d]}
                          \/ total = request.max
=============================================================================
