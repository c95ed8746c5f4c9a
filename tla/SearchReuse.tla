------------------------------ MODULE SearchReuse ------------------------------
(***************************************************************************)
(* Repeated-search reuse end to end: the change feed of the daemon and one *)
(* MCP server process (search-cli/src/mcp) that remembers, for each search *)
(* it executed, the generation and context epoch the daemon reported just  *)
(* before, and later asks the daemon whether the agent may keep using the  *)
(* results it already has.                                                 *)
(*                                                                         *)
(* The MCP server handles one tool call at a time; the daemon serves one   *)
(* request at a time.  A tool call is a sequence of actions (pc), between  *)
(* which the watcher thread, other clients of the daemon, and people who   *)
(* edit files can act:                                                     *)
(*                                                                         *)
(*   idle --Call--> check --CheckReady--> checkReady --CheckRead-->        *)
(*     verdict --CheckFinish--> reused | status                            *)
(*   status --StatusReady--> statusReady --StatusRead--> execute           *)
(*     --Execute--> idle                                                   *)
(***************************************************************************)
EXTENDS ChangeFeed

CONSTANTS
  Queries,       \* cache keys of the searches the agent makes
  Scope,         \* Scope[q]: paths the filters of q let through
  None,          \* Option::None
  MaxVersion     \* bound: index contents written by other than the watcher

ASSUME ReuseAssumption ==
  /\ Scope \in [Queries -> SUBSET Searchable]
  /\ MaxVersion \in Nat

VARIABLES
  memo,        \* McpState.search_memo, by cache key
  engine,      \* McpState.cached_engine: the index version it was opened on
  pc,          \* where run_and_envelope is
  query,       \* the search of the call in progress
  context,     \* SearchContextStatus, or the generation and epoch a check read
  version,     \* history: index contents written so far
  changed,     \* history: files of q's scope edited since q was executed
  lost,        \* history: memoised searches whose results a compaction took
  since,       \* history: the life this daemon process began with
  stale        \* history: at the read of a check, what was published since

clientVars == <<memo, engine, pc, query, context>>
historyVars == <<version, changed, lost, since, stale>>
vars == <<feedVars, clientVars, historyVars>>

NoContext == [generation |-> 0, epoch |-> 0, life |-> 0]

(* The worker thread of the daemon is in the middle of our request. *)
DaemonBusy == pc \in {"checkReady", "verdict", "statusReady"}

-----------------------------------------------------------------------------
(* The daemon's side of a request.                                         *)

(* RepoService::ensure_ready: whichever of its steps is called for.  An    *)
(* error ends it before it changed anything.                               *)
EnsureReady == ServiceStep \/ AlreadyReady

EnsureReadyFails == indexed /\ IoMayFail /\ UNCHANGED feedVars

ReadContext ==
  [generation |-> CurrentGeneration, epoch |-> epoch, life |-> life]

-----------------------------------------------------------------------------
(* A search tool call of the MCP server: run_and_envelope.                 *)

(* A memoised search is checked first, unless force_refresh. *)
Call(q, force) ==
  /\ pc \in {"idle", "reused"}
  /\ query' = q
  /\ pc' = IF memo[q] # None /\ ~force THEN "check" ELSE "status"
  /\ context' = NoContext
  /\ stale' = {}
  /\ UNCHANGED <<feedVars, memo, engine, version, changed, lost, since>>

CheckReady ==
  /\ pc = "check"
  /\ EnsureReady
  /\ pc' = "checkReady"
  /\ UNCHANGED <<memo, engine, query, context, historyVars>>

(* search_reuse_check fails (daemon gone, ensure_ready in error): no reuse. *)
CheckFails ==
  /\ pc = "check"
  /\ pc' = "status"
  /\ UNCHANGED <<feedVars, memo, engine, query, context, historyVars>>

(* check_search_reuse reads the generation and the epoch ... *)
CheckRead ==
  /\ pc = "checkReady"
  /\ pc' = "verdict"
  /\ context' = ReadContext
  /\ stale' = {p \in Scope[query] : touched[p] > memo[query].generation}
  /\ UNCHANGED <<feedVars, memo, engine, query, version, changed, lost, since>>

(* ... and then, under its lock, the journal; the envelope tells the agent *)
(* to use the earlier results, or the search is executed.                  *)
CheckFinish ==
  /\ pc = "verdict"
  /\ LET fresh == Verdict(memo[query].generation, memo[query].epoch,
                          Scope[query], context.generation, context.epoch)
                  = "Unchanged"
     IN /\ pc' = IF fresh THEN "reused" ELSE "status"
        /\ stale' = IF fresh THEN stale ELSE {}
        /\ context' = IF fresh THEN context ELSE NoContext
  /\ UNCHANGED <<feedVars, memo, engine, query, version, changed, lost, since>>

(* The status request ignores the error of ensure_ready, *)
StatusReady ==
  /\ pc = "status"
  /\ EnsureReady \/ EnsureReadyFails
  /\ pc' = "statusReady"
  /\ UNCHANGED <<memo, engine, query, context, historyVars>>

(* but not that of a daemon that is gone: nothing will be memoised. *)
StatusFails ==
  /\ pc = "status"
  /\ pc' = "execute"
  /\ context' = None
  /\ UNCHANGED <<feedVars, memo, engine, query, historyVars>>

StatusRead ==
  /\ pc = "statusReady"
  /\ pc' = "execute"
  /\ context' = ReadContext
  /\ UNCHANGED <<feedVars, memo, engine, query, historyVars>>

(* with_cached_engine opens the index once and keeps the engine. *)
OpenedEngine ==
  IF engine # None THEN engine ELSE IF indexed THEN version ELSE None

(* The search runs, on the index or, when there is none or the router      *)
(* prefers it, without; the results enter the conversation.  An indexed    *)
(* search whose context is known is memoised.                              *)
Execute(fallback) ==
  /\ pc = "execute"
  /\ pc' = "idle"
  /\ engine' = OpenedEngine
  /\ engine' = None => fallback
  /\ memo' = IF fallback \/ context = None THEN memo
             ELSE [memo EXCEPT ![query] =
                     [generation |-> context.generation,
                      epoch |-> context.epoch, life |-> context.life,
                      view |-> engine']]
  /\ changed' = IF fallback \/ context = None THEN changed
                ELSE [changed EXCEPT ![query] = {}]
  /\ lost' = IF fallback \/ context = None THEN lost ELSE lost \ {query}
  /\ context' = NoContext
  /\ UNCHANGED <<feedVars, query, version, since, stale>>

(* The backend fails: the call returns an error and changes nothing. *)
ExecuteFails ==
  /\ pc = "execute"
  /\ pc' = "idle"
  /\ context' = NoContext
  /\ UNCHANGED <<feedVars, memo, engine, query, historyVars>>

(* The reindex tool rebuilds or updates the index in this process, forgets *)
(* the engine and the memo (invalidate_cached_engine), and registers the   *)
(* root with the daemon (preload_root), which may be down.                 *)
ForgetEngineOnly == engine' = None /\ UNCHANGED memo
InvalidateCachedEngine == engine' = None /\ memo' = [q \in Queries |-> None]

Reindex ==
  /\ pc \in {"idle", "reused"}
  /\ version < MaxVersion
  /\ version' = version + 1
  /\ indexed' = TRUE
  /\ InvalidateCachedEngine
  /\ changed' = [q \in Queries |-> {}]
  /\ pc' = "preload"
  /\ context' = NoContext
  /\ stale' = {}
  /\ UNCHANGED <<watching, watcherVars, generation, lastSeen, epoch, journal,
                 life, touched, query, lost, since>>

Preload ==
  /\ pc = "preload"
  /\ EnsureReady \/ UNCHANGED feedVars
  /\ pc' = "idle"
  /\ UNCHANGED <<memo, engine, query, context, historyVars>>

-----------------------------------------------------------------------------
(* The environment.                                                        *)

(* Somebody edits a file; it is no news to a watcher that has the event in *)
(* its queue already, and to a service without a watcher none at all.      *)
EditFile(p) ==
  /\ Edit(p) \/ ((p \in events \/ ~watching) /\ UNCHANGED feedVars)
  /\ changed' = [q \in Queries |->
                   IF memo[q] # None /\ p \in Scope[q] THEN changed[q] \cup {p}
                                                       ELSE changed[q]]
  /\ UNCHANGED <<clientVars, version, lost, since, stale>>

(* The watcher thread; its index update makes a new index content. *)
Watch ==
  /\ WatcherStep
  /\ version' = IF phase' = "applied" /\ phase # "applied" THEN version + 1
                                                           ELSE version
  /\ UNCHANGED <<clientVars, changed, lost, since, stale>>

(* Another client's request makes the service ready, or its compaction     *)
(* ends the contexts of every client of the root.                          *)
OtherRequest ==
  /\ ~DaemonBusy
  /\ ServiceStep \/ InvalidateContext
  /\ UNCHANGED <<clientVars, historyVars>>

(* The harness compacts the conversation: the PreCompact hook is observed, *)
(* and the results of earlier searches are gone.  The agent is not in the  *)
(* middle of a tool call.  A new conversation in a client that keeps its   *)
(* MCP server is no step of its own: the session-start hook calls          *)
(* memo_session_start, which touches neither the epoch nor the memo, so    *)
(* the memo speaks of the old conversation as if it were the new one.      *)
Compact ==
  /\ pc \in {"idle", "reused"}
  /\ InvalidateContext
  /\ lost' = {q \in Queries : memo[q] # None}
  /\ pc' = "idle"
  /\ context' = NoContext
  /\ stale' = {}
  /\ UNCHANGED <<memo, engine, query, version, changed, since>>

(* The daemon is restarted; a request in flight fails in the MCP server. *)
DaemonRestart ==
  /\ Restart
  /\ pc' = CASE pc \in {"checkReady", "verdict"} -> "status"
             [] pc = "statusReady" -> "execute"
             [] OTHER -> pc
  /\ context' = CASE pc = "statusReady" -> None
                  [] pc = "verdict" -> NoContext
                  [] OTHER -> context
  /\ stale' = IF pc = "verdict" THEN {} ELSE stale
  /\ since' = life'
  /\ UNCHANGED <<memo, engine, query, version, changed, lost>>

(* Another process builds the index, or removes it. *)
OtherBuild ==
  /\ BuildIndex
  /\ version < MaxVersion
  /\ version' = version + 1
  /\ UNCHANGED <<clientVars, changed, lost, since, stale>>

OtherRemove ==
  /\ RemoveIndex
  /\ UNCHANGED <<clientVars, historyVars>>

-----------------------------------------------------------------------------
ReuseInit ==
  /\ Init
  /\ memo = [q \in Queries |-> None]
  /\ engine = None
  /\ pc = "idle"
  /\ query \in Queries
  /\ context = NoContext
  /\ version = 0
  /\ changed = [q \in Queries |-> {}]
  /\ lost = {}
  /\ since = 0
  /\ stale = {}

Request ==
  \/ CheckReady \/ CheckFails \/ CheckRead \/ CheckFinish
  \/ StatusReady \/ StatusFails \/ StatusRead
  \/ \E fallback \in BOOLEAN : Execute(fallback)
  \/ ExecuteFails
  \/ Preload

ReuseNext ==
  \/ \E q \in Queries, force \in BOOLEAN : Call(q, force)
  \/ Request
  \/ Reindex
  \/ \E p \in Searchable : EditFile(p)
  \/ Watch
  \/ OtherRequest
  \/ Compact
  \/ DaemonRestart
  \/ OtherBuild
  \/ OtherRemove

ReuseSpec == ReuseInit /\ [][ReuseNext]_vars

(* The watcher thread is fair; whether the agent searches is its business. *)
FairReuseSpec == ReuseSpec /\ WF_vars(Watch)

-----------------------------------------------------------------------------
(* Properties.                                                             *)

Versions == 0..(MaxVersion + MaxGeneration * (MaxLife + 1))

Context == [generation : 0..MaxGeneration, epoch : 0..MaxEpoch,
            life : 0..MaxLife]
Entry == [generation : 0..MaxGeneration, epoch : 0..MaxEpoch,
          life : 0..MaxLife, view : Versions]

(* Every variable of the MCP server and the histories keep their types. *)
ReuseTypeOK ==
  /\ memo \in [Queries -> Entry \cup {None}]
  /\ engine \in Versions \cup {None}
  /\ pc \in {"idle", "check", "checkReady", "verdict", "reused", "status",
             "statusReady", "execute", "preload"}
  /\ query \in Queries
  /\ context \in Context \cup {None}
  /\ version \in Versions
  /\ changed \in [Queries -> SUBSET Searchable]
  /\ lost \in SUBSET Queries
  /\ since \in 0..MaxLife
  /\ stale \in SUBSET Searchable

(* Reuse is safe although the check reads generation and journal at        *)
(* different times: when the agent is told to reuse an answer recorded     *)
(* under the same watcher, no batch published before the check had named a *)
(* path of the search since the generation was recorded.                   *)
ReuseIsSafe ==
  pc = "reused" /\ memo[query].life = context.life => stale = {}

(* The induction behind ReuseIsSafe, on top of that of the change feed:    *)
(* between the two reads of a check the watcher may publish but not be     *)
(* replaced, so what was stale at the first read stays touched, and the    *)
(* generation read shows that something happened.                          *)
ClientInv ==
  /\ query \in Queries
  /\ memo = [q \in Queries |-> memo[q]]
  /\ \A q \in Queries : memo[q] # None => memo[q].generation \in Nat
  /\ context # None => context.generation \in Nat
  /\ pc \in {"check", "checkReady", "verdict"} => memo[query] # None
  /\ pc = "verdict" =>
       /\ context.generation \in Nat
       /\ stale \subseteq Scope[query]
       /\ stale # {} => context.generation > memo[query].generation
       /\ \A p \in stale : touched[p] > memo[query].generation
  /\ pc = "reused" => stale = {}

ReuseInv == FeedInv /\ ClientInv

(* What a compaction took is not reused: after a PreCompact hook (main.rs  *)
(* 938-955) the agent is sent back to the results of a search only when it *)
(* executed and memoised that search again.  The entry has to be of this   *)
(* daemon process: epochs start again at 0 with the next one, and an entry *)
(* of the last one may match by accident.                                  *)
CompactionEndsReuse ==
  pc = "reused" /\ memo[query].life >= since => query \notin lost

(* The induction behind it: among the entries of this daemon those whose   *)
(* results are lost are of an earlier epoch, and no bump falls between the *)
(* two halves of a check, whoever asks for it.                             *)
ContextInv ==
  /\ query \in Queries
  /\ memo = [q \in Queries |-> memo[q]]
  /\ epoch \in Nat /\ life \in Nat /\ since \in Nat
  /\ \A q \in Queries :
       memo[q] # None =>
         /\ memo[q].life \in 0..life
         /\ memo[q].life >= since =>
              /\ memo[q].epoch \in 0..epoch
              /\ q \in lost => memo[q].epoch < epoch
  /\ context # None =>
       /\ context.life \in 0..life
       /\ context.life >= since => context.epoch \in 0..epoch
  /\ pc \in {"check", "checkReady", "verdict", "reused"} => memo[query] # None
  /\ pc = "verdict" => context.epoch = epoch
  /\ CompactionEndsReuse

(* The memo never outlives the engine its answers came from: reindex drops *)
(* both (server.rs invalidate_cached_engine), so an answer that may be     *)
(* reused is an answer of the engine the next search would use.            *)
MemoFollowsEngine ==
  \A q \in Queries : memo[q] # None => memo[q].view = engine

(* A file edited after a search was executed ends the reuse of its answer, *)
(* sooner or later: docs/mcp.md:124-126 "Freshness is checked through the  *)
(* daemon's generation, context epoch, and change journal; if relevant     *)
(* files changed, TriSeek executes the search".                            *)
EditEndsReuse ==
  \A q \in Queries :
    changed[q] # {} ~>
      \/ changed[q] = {}
      \/ memo[q] # None
         /\ Verdict(memo[q].generation, memo[q].epoch, Scope[q],
                    CurrentGeneration, epoch) # "Unchanged"

(* docs/mcp.md:125-126 "if relevant files changed, TriSeek executes the    *)
(* search and returns fresh results": what is memoised as an answer of     *)
(* generation g was searched on the index of generation g or later.  The   *)
(* code does not keep this: see the README.                                *)
ResultsAreFresh ==
  [][ \A q \in Queries :
        (memo'[q] # memo[q] /\ memo'[q] # None /\ phase = "idle"
           /\ memo'[q].generation = CurrentGeneration)
          => memo'[q].view = version
    ]_vars
=============================================================================
