-------------------------------- MODULE Serving --------------------------------
(***************************************************************************)
(* What a search leaves behind: the engines the daemon keeps loaded (search*)
(* -server/src/main.rs), and the frecency of the files it found, which the *)
(* daemon keeps in memory and command lines read and write on their own    *)
(* (search-frecency/src/lib.rs, search-cli/src/main.rs).                   *)
(*                                                                         *)
(* The worker of the daemon serves one request after the other, its main   *)
(* loop flushes; command lines come and go.  A store is the set of its     *)
(* touches: a search that recorded its hits, a selection, a restored       *)
(* score.  What a touch adds to which score is left out.                   *)
(***************************************************************************)
EXTENDS Naturals, FiniteSets

CONSTANTS
  Roots,       \* repositories
  CommandLines, \* command lines
  NoRoot,      \* no repository
  MaxEngines,  \* max_loaded_engines
  MaxTouches,  \* bound: touches
  MaxCalls,    \* bound: requests and commands that touch nothing, restarts
  MaxMishaps   \* bound: processes killed, changes of an index

ASSUME ServingAssumption ==
  /\ {MaxEngines, MaxTouches, MaxCalls, MaxMishaps} \subseteq Nat
  /\ NoRoot \notin Roots
  /\ {"worker", "main"} \cap CommandLines = {}

VARIABLES
  phase,     \* the daemon: down, up, leaving
  left,      \* roots a leaving daemon has not flushed
  index,     \* the index of each root: absent, good, broken
  known,     \* roots with a service
  loaded,    \* services with an engine
  uses,      \* which engine_last_used is not later than which
  frec,      \* the daemon's store of each root
  file,      \* frecency.json
  tmp,       \* frecency.json.tmp
  work,      \* what each process does to a store
  made,      \* number of touches
  calls,     \* number of other calls
  mishaps,   \* number of faults
  answered,  \* history: searches the daemon answered
  alone,     \* history: no two processes held the store at a time
  promised   \* history: touches whose flush ended well, and those of a
             \* daemon that left in good order

pool == <<loaded, uses, answered>>
disk == <<file, tmp>>
bounds == <<made, calls, mishaps>>
serveVars == <<phase, left, index, known, pool, frec, disk, work, bounds, alone,
          promised>>

Daemon == {"worker", "main"}
Writers == CommandLines \cup Daemon

Content(kind, touches) == [kind |-> kind, touches |-> touches]
NoFile == Content("missing", {})
Torn == Content("torn", {})        \* truncated and not written yet
Mixed == Content("mixed", {})      \* written by two that differ
Whole(touches) == Content("whole", touches)

Resting == [pc |-> "idle", root |-> NoRoot, store |-> {}, at |-> "tmp"]
Flush(r, store) == [pc |-> "open", root |-> r, store |-> store, at |-> "tmp"]

(* Who holds the store of a root: clients that have read it, and a daemon  *)
(* that has a service for it.                                              *)
HeldByClient(r) ==
  \E c \in CommandLines : work[c].root = r /\ work[c].pc \notin {"idle", "local"}
Held(r) == r \in known \/ HeldByClient(r)

Touched == made < MaxTouches /\ made' = made + 1 /\ UNCHANGED <<calls, mishaps>>
Called == calls < MaxCalls /\ calls' = calls + 1 /\ UNCHANGED <<made, mishaps>>
Faulty == mishaps < MaxMishaps /\ mishaps' = mishaps + 1 /\ UNCHANGED <<made, calls>>

(* touch and restore_scores: the score decays and grows, or is at least what*)
(* a snapshot says.                                                        *)
Touch(store) == store \cup {made'}
Restore(store) == store \cup {made'}

-----------------------------------------------------------------------------
(* FrecencyStore::flush: create and truncate the temporary file, write it, *)
(* rename it.  A process writes to the file it opened, wherever another one*)
(* has moved that.                                                         *)

OpenTmp(w) ==
  /\ work[w].pc = "open"
  /\ tmp' = [tmp EXCEPT ![work[w].root] = Torn]
  /\ work' = [work EXCEPT ![w].pc = "write"]
  /\ UNCHANGED <<phase, left, index, known, pool, frec, file, bounds, alone,
                 promised>>

Filled(w, old) ==
  LET mine == Whole(work[w].store)
  IN IF old \in {Torn, mine} THEN {mine} ELSE {mine, Mixed}

WriteTmp(w) ==
  LET r == work[w].root IN
  /\ work[w].pc = "write"
  /\ work' = [work EXCEPT ![w].pc = "rename"]
  /\ \/ /\ work[w].at = "tmp"
        /\ \E x \in Filled(w, tmp[r]) : tmp' = [tmp EXCEPT ![r] = x]
        /\ UNCHANGED file
     \/ /\ work[w].at = "file"
        /\ \E x \in Filled(w, file[r]) : file' = [file EXCEPT ![r] = x]
        /\ UNCHANGED tmp
     \/ work[w].at = "gone" /\ UNCHANGED disk
  /\ UNCHANGED <<phase, left, index, known, pool, frec, bounds, alone, promised>>

(* The files others have open move along. *)
Moved(u, r) ==
  IF work[u].root # r \/ work[u].pc \notin {"write", "rename"} THEN work[u]
  ELSE [work[u] EXCEPT !.at = IF @ = "tmp" THEN "file" ELSE "gone"]

Rename(w) ==
  LET r == work[w].root IN
  /\ work[w].pc = "rename"
  /\ IF tmp[r] = NoFile
     THEN work' = [work EXCEPT ![w] = Resting] /\ UNCHANGED <<disk, promised>>
     ELSE /\ file' = [file EXCEPT ![r] = tmp[r]]
          /\ tmp' = [tmp EXCEPT ![r] = NoFile]
          /\ work' = [u \in Writers |-> IF u = w THEN Resting ELSE Moved(u, r)]
          /\ promised' = [promised EXCEPT ![r] = @ \cup work[w].store]
  /\ UNCHANGED <<phase, left, index, known, pool, frec, bounds, alone>>

FlushStep(w) == OpenTmp(w) \/ WriteTmp(w) \/ Rename(w)

-----------------------------------------------------------------------------
(* The services of the daemon.                                             *)

Serves(r) ==
  /\ phase = "up"
  /\ work["worker"] = Resting
  /\ work["main"].root # r            \* the store is locked during a flush

(* RepoService::new_with_index_dir opens the store; an unreadable file is  *)
(* an empty one.                                                           *)
StoreOf(r) == IF r \in known THEN frec[r] ELSE file[r].touches

Service(r, store) ==
  /\ known' = known \cup {r}
  /\ frec' = [frec EXCEPT ![r] = store]
  /\ alone' = [alone EXCEPT ![r] = @ /\ (r \in known \/ ~HeldByClient(r))]

(* ensure_ready drops the engine of an index that is gone. *)
ReadyEngines(r) == IF index[r] = "absent" THEN loaded \ {r} ELSE loaded

(* engine_last_used of the roots that have one, as the order of the roots: *)
(* <<x, y>> when that of x is not later than that of y.                    *)
Timed(order) == {x \in Roots : <<x, x>> \in order}
UsedBefore(x, y, order) == x # y /\ <<x, y>> \in order
Without(order, roots) == {p \in order : p[1] \notin roots /\ p[2] \notin roots}
MarkUsed(r) == Without(uses, {r}) \cup ((Timed(uses) \cup {r}) \X {r})

(* prune_engine_cache: the engines idle for too long, then what is above   *)
(* the limit, those not used for the longest time first.                   *)
Since(x, engines, order) == {y \in engines : UsedBefore(x, y, order)}
Until(x, engines, order) == {y \in engines : UsedBefore(y, x, order)}
PrunedNewest(engines, order, idle) ==
  LET busy == engines \ idle
  IN {x \in busy : Cardinality(Until(x, busy, order)) < MaxEngines}
Pruned(engines, order, idle) ==
  LET busy == engines \ idle
  IN {x \in busy : Cardinality(Since(x, busy, order)) < MaxEngines}

(* The method search: the engine is loaded when the index can be opened;   *)
(* an engine that is loaded serves on unless the watcher has reported a    *)
(* change.  Only an answered search prunes, after it has marked its engine,*)
(* which is not idle for too long yet, and records its hits.               *)
Opens(r) == index[r] = "good" \/ (index[r] = "broken" /\ r \in loaded)

Search(r) ==
  /\ Serves(r) /\ Opens(r)
  /\ Touched
  /\ Service(r, Touch(StoreOf(r)))
  /\ \E last \in Timed(MarkUsed(r)) :
       LET idle == Until(last, loaded, MarkUsed(r)) IN
       loaded' = Pruned(loaded \cup {r}, MarkUsed(r), idle)
  /\ uses' = Without(MarkUsed(r), (loaded \cup {r}) \ loaded')
  /\ answered' = [answered EXCEPT ![r] = @ + 1]
  /\ UNCHANGED <<phase, left, index, disk, work, promised>>

(* It fails: without an engine, or for a pattern the engine refuses.  A    *)
(* command line searches by itself then.                                   *)
SearchFails(c, r) ==
  LET opens == index[r] = "good" IN
  /\ Serves(r)
  /\ Called
  /\ Service(r, StoreOf(r))
  /\ loaded' = IF opens THEN loaded \cup {r} ELSE ReadyEngines(r)
  /\ uses' = IF opens THEN MarkUsed(r) ELSE uses
  /\ work[c] = Resting
  /\ work' = [work EXCEPT ![c] = [Resting EXCEPT !.pc = "local", !.root = r]]
  /\ UNCHANGED <<phase, left, index, answered, disk, promised>>

(* status, preload_root and reload make the service ready; other calls only*)
(* look it up.                                                             *)
MakeReady(r) ==
  /\ Serves(r)
  /\ Called
  /\ Service(r, StoreOf(r))
  /\ loaded' \in {loaded, ReadyEngines(r)}
  /\ UNCHANGED <<phase, left, index, uses, answered, disk, work, promised>>

(* frecency_select, and session_resume_prepare, which restores the scores  *)
(* of the snapshot: both flush at once.                                    *)
Records(r, store) ==
  /\ Serves(r)
  /\ Service(r, store)
  /\ work' = [work EXCEPT !["worker"] = Flush(r, store)]
  /\ UNCHANGED <<phase, left, index, pool, disk, promised>>

Select(r) == Touched /\ Records(r, Touch(StoreOf(r)))
Resume(r) == Touched /\ Records(r, Restore(StoreOf(r)))

-----------------------------------------------------------------------------
(* The main loop: a flush of every service every five seconds, and one more*)
(* on the way out, when the worker has ended.                              *)

DueIfLoaded(r) == r \in IF phase = "leaving" THEN left ELSE loaded
Due(r) == r \in IF phase = "leaving" THEN left ELSE known

FlushRoot(r) ==
  /\ work["main"] = Resting /\ work["worker"].root # r
  /\ Due(r)
  /\ work' = [work EXCEPT !["main"] = Flush(r, frec[r])]
  /\ left' = left \ {r}
  /\ UNCHANGED <<phase, index, known, pool, frec, disk, bounds, alone, promised>>

ToFlushNone == {}
ToFlush == known

Leave ==
  /\ phase = "up"
  /\ work["worker"] = Resting /\ work["main"] = Resting
  /\ phase' = "leaving"
  /\ left' = ToFlush
  /\ UNCHANGED <<index, known, pool, frec, disk, work, bounds, alone, promised>>

Forgets ==
  /\ phase' = "down"
  /\ known' = {} /\ loaded' = {} /\ uses' = {} /\ left' = {}
  /\ frec' = [r \in Roots |-> {}]

Down ==
  /\ phase = "leaving" /\ left = {} /\ work["main"] = Resting
  /\ promised' = [r \in Roots |-> promised[r] \cup frec[r]]
  /\ Forgets
  /\ UNCHANGED <<index, answered, disk, work, bounds, alone>>

Start ==
  /\ phase = "down"
  /\ Called
  /\ phase' = "up"
  /\ UNCHANGED <<left, index, known, pool, frec, disk, work, alone, promised>>

-----------------------------------------------------------------------------
(* Command lines.                                                          *)

(* handle_search without the daemon: none runs, or --no-daemon. *)
SearchAlone(c, r) ==
  /\ work[c] = Resting
  /\ Called
  /\ work' = [work EXCEPT ![c] = [Resting EXCEPT !.pc = "local", !.root = r]]
  /\ UNCHANGED <<phase, left, index, known, pool, frec, disk, alone, promised>>

Reads(c, r) ==
  /\ Touched
  /\ work' = [work EXCEPT ![c] = Flush(r, Touch(file[r].touches))]
  /\ alone' = [alone EXCEPT ![r] = @ /\ ~Held(r)]
  /\ UNCHANGED <<phase, left, index, known, pool, frec, disk, promised>>

(* It has hits: the store is read, touched and flushed. *)
RecordHits(c) ==
  /\ work[c].pc = "local"
  /\ index[work[c].root] # "broken"
  /\ Reads(c, work[c].root)

(* It has none, or fails. *)
NoHits(c) ==
  /\ work[c].pc = "local"
  /\ work' = [work EXCEPT ![c] = Resting]
  /\ UNCHANGED <<phase, left, index, known, pool, frec, disk, bounds, alone,
                 promised>>

(* handle_frecency_select *)
SelectAlone(c, r) == work[c] = Resting /\ Reads(c, r)

-----------------------------------------------------------------------------
(* Faults: a kill, and another process that builds, breaks or removes an   *)
(* index.                                                                  *)

KillDaemon ==
  /\ phase # "down"
  /\ Faulty
  /\ Forgets
  /\ work' = [w \in Writers |-> IF w \in Daemon THEN Resting ELSE work[w]]
  /\ UNCHANGED <<index, answered, disk, alone, promised>>

KillClient(c) ==
  /\ work[c] # Resting
  /\ Faulty
  /\ work' = [work EXCEPT ![c] = Resting]
  /\ UNCHANGED <<phase, left, index, known, pool, frec, disk, alone, promised>>

ChangeIndex(r, state) ==
  /\ index[r] # state
  /\ Faulty
  /\ index' = [index EXCEPT ![r] = state]
  /\ UNCHANGED <<phase, left, known, pool, frec, disk, work, alone, promised>>

-----------------------------------------------------------------------------
ServeInit ==
  /\ phase = "down" /\ left = {}
  /\ index = [r \in Roots |-> "good"]
  /\ known = {} /\ loaded = {} /\ uses = {}
  /\ frec = [r \in Roots |-> {}]
  /\ file = [r \in Roots |-> NoFile]
  /\ tmp = [r \in Roots |-> NoFile]
  /\ work = [w \in Writers |-> Resting]
  /\ made = 0 /\ calls = 0 /\ mishaps = 0
  /\ answered = [r \in Roots |-> 0]
  /\ alone = [r \in Roots |-> TRUE]
  /\ promised = [r \in Roots |-> {}]

ServiceStep == \E r \in Roots : Search(r) \/ MakeReady(r) \/ Select(r) \/ Resume(r)
CommandStep(c) ==
  \/ \E r \in Roots : SearchFails(c, r) \/ SearchAlone(c, r) \/ SelectAlone(c, r)
  \/ RecordHits(c)
  \/ NoHits(c)
Fault ==
  \/ KillDaemon
  \/ \E c \in CommandLines : KillClient(c)
  \/ \E r \in Roots, s \in {"absent", "good", "broken"} : ChangeIndex(r, s)

ServeNext ==
  \/ ServiceStep
  \/ \E c \in CommandLines : CommandStep(c)
  \/ \E w \in Writers : FlushStep(w)
  \/ \E r \in Roots : FlushRoot(r)
  \/ Leave \/ Down \/ Start
  \/ Fault

ServeSpec == ServeInit /\ [][ServeNext]_serveVars

(* Threads and processes run on, and the main loop flushes every service   *)
(* every five seconds.                                                     *)
ServeFairSpec ==
  /\ ServeSpec
  /\ \A w \in Writers : WF_serveVars(FlushStep(w))
  /\ \A r \in Roots : SF_serveVars(FlushRoot(r))

-----------------------------------------------------------------------------
(* Properties.                                                             *)

Contents == [kind : {"missing", "torn", "mixed", "whole"},
             touches : SUBSET (1..MaxTouches)]
InOrder(order) ==
  /\ order \subseteq Timed(order) \X Timed(order)
  /\ \A x, y \in Timed(order) :
       (<<x, y>> \in order \/ <<y, x>> \in order) /\ ~(UsedBefore(x, y, order) /\ UsedBefore(y, x, order))
  /\ \A x, y, z \in Timed(order) :
       <<x, y>> \in order /\ <<y, z>> \in order => <<x, z>> \in order

(* Every variable keeps its type; an engine that is loaded belongs to a    *)
(* service and has a time of last use.                                     *)
ServeTypeOK ==
  /\ phase \in {"down", "up", "leaving"}
  /\ left \subseteq known /\ known \subseteq Roots
  /\ index \in [Roots -> {"absent", "good", "broken"}]
  /\ loaded \subseteq Timed(uses) /\ Timed(uses) \subseteq known /\ InOrder(uses)
  /\ frec \in [Roots -> SUBSET (1..made)]
  /\ file \in [Roots -> Contents] /\ tmp \in [Roots -> Contents]
  /\ \A w \in Writers :
       /\ work[w].pc \in {"idle", "local", "open", "write", "rename"}
       /\ work[w].root \in Roots \cup {NoRoot}
       /\ work[w].store \subseteq 1..made
       /\ work[w].at \in {"tmp", "file", "gone"}
  /\ alone \in [Roots -> BOOLEAN]
  /\ promised \in [Roots -> SUBSET (1..made)]

(* As long as no two processes held the store of a root at a time,         *)
(* frecency.json is readable and has every touch whose flush ended well and*)
(* every touch of a daemon that left in good order, whoever was killed in  *)
(* between and whatever file it left half written ("verify frecency loads  *)
(* without corruption", docs/regression-test-plan.md:583).                 *)
StoreKeepsAll ==
  \A r \in Roots :
    alone[r] => /\ file[r].kind \in {"missing", "whole"}
                /\ promised[r] \subseteq file[r].touches

(* When the daemon has answered a search, no more engines are loaded than  *)
(* allowed, the one just used is, unless none is allowed, and those that   *)
(* went were used less recently than all that stay.  A search that failed  *)
(* may leave more.                                                         *)
PoolKeepsLatest ==
  [][\A r \in Roots :
       answered'[r] > answered[r] =>
         /\ Cardinality(loaded') <= MaxEngines
         /\ MaxEngines > 0 => r \in loaded'
         /\ \A x \in (loaded \cup {r}) \ loaded', y \in loaded' :
              UsedBefore(x, y, MarkUsed(r))]_serveVars

(* What the daemon has recorded is in frecency.json at some time, while it *)
(* stays up, although command lines keep putting back what they read.      *)
TouchesReachDisk ==
  \A r \in Roots, t \in 1..MaxTouches :
    (phase = "up" /\ t \in frec[r]) ~> (t \in file[r].touches \/ phase # "up")
=============================================================================
