------------------------------ MODULE ChangeFeed ------------------------------
(***************************************************************************)
(* The change feed of one repository root inside the daemon: the watcher   *)
(* thread of search-index/src/watcher.rs, which turns file-system events   *)
(* into index updates, and the RepoService of search-server/src/main.rs,   *)
(* which numbers those updates (the generation), journals their paths and  *)
(* answers search_reuse_check from the numbers and the journal.            *)
(*                                                                         *)
(* The watcher thread runs concurrently with the single worker thread that *)
(* serves requests.  One loop iteration of the watcher is four actions,    *)
(* because a request can be served between any two of them:                *)
(*                                                                         *)
(*    idle --Collect--> collected --Apply--> applied                       *)
(*         --Announce--> announced --Publish--> idle                       *)
(*                                                                         *)
(* Here and in the other modules a few operators stand just before the     *)
(* definition they are a faulty variant of (JournalCoversLoosely before    *)
(* JournalCovers).  The specification never uses them: PROJECT.json pairs  *)
(* each with the property that has to notice it.                           *)
(***************************************************************************)
EXTENDS Naturals, Sequences

CONSTANTS
  Paths,          \* the paths file-system events name
  Ignored,        \* paths the loop skips: gitignored, or in the index directory
  Unnamed,        \* paths without a repo-relative name: the repository root
  JournalLimit,   \* SEARCH_CHANGE_JOURNAL_LIMIT
  MemoryRisk,     \* searchable_bytes exceeds the watcher's threshold
  IoMayFail,      \* file-system calls may fail on a present index
  OthersIndex,    \* other processes build the index, and remove it
  MayRestart,     \* the daemon may stop, or crash, and be started again
  MaxGeneration,  \* bound: generations of one watcher
  MaxEpoch,       \* bound: context epochs of one daemon
  MaxLife         \* bound: watchers started and stopped, daemons restarted

ASSUME FeedAssumption ==
  /\ Ignored \subseteq Paths
  /\ Unnamed \subseteq Paths
  /\ JournalLimit \in Nat \ {0}
  /\ MemoryRisk \in BOOLEAN
  /\ IoMayFail \in BOOLEAN
  /\ OthersIndex \in BOOLEAN
  /\ MayRestart \in BOOLEAN
  /\ MaxGeneration \in Nat
  /\ MaxEpoch \in Nat
  /\ MaxLife \in Nat

VARIABLES
  indexed,     \* base.bin exists in the index directory
  watching,    \* RepoService.watcher holds a WatcherHandle
  events,      \* paths with an undelivered event in the watcher's channel
  phase,       \* where the watcher thread is in its loop
  batch,       \* changed_paths of the iteration in progress
  generation,  \* WatcherHandle.generation
  lastSeen,    \* RepoService.last_seen_generation
  epoch,       \* RepoService.context_epoch
  journal,     \* RepoService.search_change_journal
  life,        \* history: which watcher (or absence of one) this is
  touched      \* history: generation of the last published batch with a path

watcherVars == <<events, phase, batch>>
feedVars == <<indexed, watching, events, phase, batch, generation, lastSeen,
              epoch, journal, life, touched>>

(* The paths a search can mention: the rest never reaches the journal. *)
Searchable == Paths \ (Ignored \cup Unnamed)

Untouched == [p \in Paths |-> 0]

(* One SearchChangeBatch.  The field life is history: the code keeps the   *)
(* journal when it replaces the watcher, and this tells the batches apart. *)
Batch(ps) == [generation |-> generation, paths |-> ps, life |-> life]

-----------------------------------------------------------------------------
(* What requests read.                                                     *)

CurrentGeneration == IF watching THEN generation ELSE lastSeen

EarliestGeneration == IF journal = <<>> THEN 0 ELSE Head(journal).generation

(* The journal still has every batch numbered g + 1 or more: no overflow.  *)
JournalCoversLoosely(g) == EarliestGeneration <= g + 2
JournalCovers(g) == EarliestGeneration <= g + 1

(* The batch b makes an answer of generation g that mentions rel stale. *)
MakesStaleInclusive(b, g, rel) == b.generation >= g /\ b.paths \cap rel # {}
MakesStale(b, g, rel) == b.generation > g /\ b.paths \cap rel # {}

(* check_search_reuse for an answer recorded at generation g and epoch e,  *)
(* of a search whose filters or results name the paths of rel, when it has *)
(* read current generation c and current epoch ce.  "Changed" stands for   *)
(* ChangedMatchedPath and ChangedSearchScope.                              *)
Verdict(g, e, rel, c, ce) ==
  IF ce # e THEN "ContextInvalidated"
  ELSE IF c < g THEN "GenerationReset"
  ELSE IF c = g THEN "Unchanged"
  ELSE IF ~JournalCovers(g) THEN "JournalOverflow"
  ELSE IF \E i \in 1..Len(journal) : MakesStale(journal[i], g, rel)
       THEN "Changed"
       ELSE "Unchanged"

(* The answer a request served now would get, at the current epoch. *)
VerdictNow(g, rel) == Verdict(g, epoch, rel, CurrentGeneration, epoch)

-----------------------------------------------------------------------------
(* The watcher thread.                                                     *)

(* A file changes on disk; notify sends an event while a watcher is there. *)
(* The bound keeps a generation for the batch the event will be part of.   *)
Edit(p) ==
  /\ watching
  /\ p \notin events
  /\ generation + (IF phase \in {"collected", "applied"} THEN 1 ELSE 0)
       < MaxGeneration
  /\ events' = events \cup {p}
  /\ UNCHANGED <<indexed, watching, phase, batch, generation, lastSeen, epoch,
                 journal, life, touched>>

(* The debounce ends: every queued event is in the pending map, ignored    *)
(* paths are filtered out, and a batch that is empty then is forgotten.    *)
Collect ==
  /\ watching
  /\ phase = "idle"
  /\ events # {}
  /\ events' = {}
  /\ batch' = events \ Ignored
  /\ phase' = IF events \subseteq Ignored THEN "idle" ELSE "collected"
  /\ UNCHANGED <<indexed, watching, generation, lastSeen, epoch, journal, life,
                 touched>>

(* apply_incremental_changes wrote the index. *)
Apply ==
  /\ phase = "collected"
  /\ indexed
  /\ phase' = "applied"
  /\ UNCHANGED <<indexed, watching, events, batch, generation, lastSeen, epoch,
                 journal, life, touched>>

ApplyGivesUp ==
  /\ phase = "collected"
  /\ phase' = "idle"
  /\ batch' = {}
  /\ UNCHANGED <<indexed, watching, events, generation, lastSeen, epoch,
                 journal, life, touched>>

(* It failed (there is no base to load, or an I/O error): the error is     *)
(* logged and the loop goes on, without a new generation.                  *)
ApplyFails ==
  /\ phase = "collected"
  /\ ~indexed \/ IoMayFail
  /\ phase' = "idle"
  /\ batch' = {}
  /\ UNCHANGED <<indexed, watching, events, generation, lastSeen, epoch,
                 journal, life, touched>>

(* generation.fetch_add: from here on requests see the new generation. *)
Announce ==
  /\ phase = "applied"
  /\ generation < MaxGeneration
  /\ generation' = generation + 1
  /\ phase' = "announced"
  /\ UNCHANGED <<indexed, watching, events, batch, lastSeen, epoch, journal,
                 life, touched>>

(* The on_index_update callback: paths without a relative name are dropped,*)
(* a batch of such paths only is not journalled, and the oldest batches    *)
(* make room.                                                              *)
Push(b) ==
  IF Len(journal) < JournalLimit THEN Append(journal, b)
                                 ELSE Append(Tail(journal), b)

Publish ==
  /\ phase = "announced"
  /\ LET named == batch \ Unnamed IN
       /\ journal' = IF named = {} THEN journal ELSE Push(Batch(named))
       /\ touched' = [p \in Paths |-> IF p \in named THEN generation
                                                     ELSE touched[p]]
  /\ phase' = "idle"
  /\ batch' = {}
  /\ UNCHANGED <<indexed, watching, events, generation, lastSeen, epoch, life>>

-----------------------------------------------------------------------------
(* The worker thread.                                                      *)

(* A new WatcherHandle, or none: its counter starts at 0 and history at a  *)
(* new life.                                                               *)
ReplaceWatcher(present) ==
  /\ life < MaxLife
  /\ watching' = present
  /\ generation' = 0
  /\ events' = {} /\ phase' = "idle" /\ batch' = {}
  /\ life' = life + 1
  /\ touched' = Untouched

(* ensure_ready without an index: stop_watcher joins the thread, so the    *)
(* iteration in progress ends first; what is queued is lost.               *)
ReadyWithoutIndex ==
  /\ ~indexed
  /\ watching
  /\ phase = "idle"
  /\ ReplaceWatcher(FALSE)
  /\ UNCHANGED <<indexed, lastSeen, epoch, journal>>

(* ensure_ready with an index: start_watcher_if_needed.  A memory-risk     *)
(* root is left without a watcher.                                         *)
StartWatcher ==
  /\ indexed
  /\ ~watching
  /\ ~MemoryRisk
  /\ ReplaceWatcher(TRUE)
  /\ lastSeen' = 0
  /\ UNCHANGED <<indexed, epoch, journal>>

(* ensure_ready with a watcher: reload_if_dirty.  (When the loaded engine  *)
(* cannot be reopened the call fails before last_seen_generation is set,   *)
(* which is the step not taken.)                                           *)
ReloadIfDirty ==
  /\ indexed
  /\ watching
  /\ lastSeen # generation
  /\ lastSeen' = generation
  /\ UNCHANGED <<indexed, watching, events, phase, batch, generation, epoch,
                 journal, life, touched>>

(* Nothing for ensure_ready to do. *)
AlreadyReady ==
  /\ IF indexed THEN watching \/ MemoryRisk ELSE ~watching
  /\ watching => lastSeen = generation
  /\ UNCHANGED feedVars

(* invalidate_search_context, on SessionStart and PreCompact. *)
InvalidateContextForgotten == epoch < MaxEpoch /\ UNCHANGED feedVars
InvalidateContext ==
  /\ epoch < MaxEpoch
  /\ epoch' = epoch + 1
  /\ UNCHANGED <<indexed, watching, events, phase, batch, generation, lastSeen,
                 journal, life, touched>>

(* The daemon stops or crashes and another one is started, which has no    *)
(* service for the root before the first request that names it.            *)
Restart ==
  /\ MayRestart
  /\ ReplaceWatcher(FALSE)
  /\ lastSeen' = 0
  /\ epoch' = 0
  /\ journal' = <<>>
  /\ UNCHANGED indexed

(* Another process builds the index or removes its directory. *)
BuildIndex ==
  /\ OthersIndex
  /\ ~indexed
  /\ indexed' = TRUE
  /\ UNCHANGED <<watching, events, phase, batch, generation, lastSeen, epoch,
                 journal, life, touched>>

RemoveIndex ==
  /\ OthersIndex
  /\ indexed
  /\ indexed' = FALSE
  /\ UNCHANGED <<watching, events, phase, batch, generation, lastSeen, epoch,
                 journal, life, touched>>

-----------------------------------------------------------------------------
Init ==
  /\ indexed \in BOOLEAN
  /\ watching = FALSE
  /\ events = {}
  /\ phase = "idle"
  /\ batch = {}
  /\ generation = 0
  /\ lastSeen = 0
  /\ epoch = 0
  /\ journal = <<>>
  /\ life = 0
  /\ touched = Untouched

WatcherStep == Collect \/ Apply \/ ApplyFails \/ Announce \/ Publish

ServiceStep == ReadyWithoutIndex \/ StartWatcher \/ ReloadIfDirty

Next ==
  \/ \E p \in Paths : Edit(p)
  \/ WatcherStep
  \/ ServiceStep
  \/ InvalidateContext
  \/ Restart
  \/ BuildIndex
  \/ RemoveIndex

Spec == Init /\ [][Next]_feedVars

-----------------------------------------------------------------------------
(* Properties.                                                             *)

BatchType == [generation : 0..MaxGeneration, paths : SUBSET Searchable,
              life : 0..MaxLife]

(* Every variable keeps its type and the journal its limit. *)
TypeOK ==
  /\ indexed \in BOOLEAN
  /\ watching \in BOOLEAN
  /\ events \in SUBSET Paths
  /\ phase \in {"idle", "collected", "applied", "announced"}
  /\ batch \in SUBSET (Paths \ Ignored)
  /\ generation \in 0..MaxGeneration
  /\ lastSeen \in 0..MaxGeneration
  /\ epoch \in 0..MaxEpoch
  /\ journal \in Seq(BatchType)
  /\ Len(journal) <= JournalLimit
  /\ life \in 0..MaxLife
  /\ touched \in [Paths -> 0..MaxGeneration]

(* The journal is ordered by watcher and generation, and what this watcher *)
(* put there is numbered no higher than what it announced.                 *)
JournalOrdered ==
  /\ \A i, j \in 1..Len(journal) :
       i < j => \/ journal[i].life < journal[j].life
                \/ /\ journal[i].life = journal[j].life
                   /\ journal[i].generation < journal[j].generation
  /\ \A i \in 1..Len(journal) :
       /\ journal[i].life <= life
       /\ journal[i].life = life =>
            /\ journal[i].generation <= generation
            /\ phase = "announced" => journal[i].generation < generation

(* A batch of this watcher touched its paths ... *)
BatchesTouched ==
  \A i \in 1..Len(journal) :
    journal[i].life = life =>
      \A p \in journal[i].paths : journal[i].generation <= touched[p]

(* ... and the last one to touch a path is there, unless it was evicted,   *)
(* which the number of the oldest batch shows.                             *)
TouchesJournalled ==
  \A p \in Searchable :
    touched[p] > 0 =>
      \/ \E i \in 1..Len(journal) :
           /\ journal[i].life = life
           /\ journal[i].generation = touched[p]
           /\ p \in journal[i].paths
      \/ /\ journal # <<>>
         /\ Head(journal).life = life
         /\ Head(journal).generation > touched[p]

(* The books the watcher thread and the worker keep together: what is      *)
(* touched was announced, only a running watcher touches, and the journal  *)
(* accounts for it.  This is the induction behind the properties below.    *)
FeedInv ==
  /\ TypeOK
  /\ ~watching => phase = "idle" /\ touched = Untouched
  /\ \A p \in Paths : touched[p] <= generation
  /\ JournalOrdered
  /\ BatchesTouched
  /\ TouchesJournalled

(* The promise of search reuse (check_search_reuse, main.rs 302-382): when *)
(* the daemon says Unchanged of an answer recorded at generation g of this *)
(* watcher, no batch published since named a path the search mentions,     *)
(* whatever the search mentions, however small the journal, and even when  *)
(* the generation was read before batches that the journal already has.    *)
UnchangedIsTrue ==
  \A g \in 0..CurrentGeneration, rel \in SUBSET Searchable :
    VerdictNow(g, rel) = "Unchanged" => \A p \in rel : touched[p] <= g

(* The daemon does not send the agent back to the disk for nothing: it     *)
(* says Changed of a recorded answer only when a published batch of this   *)
(* watcher did touch it, or while the journal still holds batches of an    *)
(* earlier watcher, whose generations mean nothing now.                    *)
ChangedHasCause ==
  \A g \in 0..CurrentGeneration, rel \in SUBSET Searchable :
    VerdictNow(g, rel) = "Changed" =>
      \/ \E p \in rel : touched[p] > g
      \/ Head(journal).life < life
=============================================================================
