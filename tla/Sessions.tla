------------------------------ MODULE Sessions ------------------------------
(***************************************************************************)
(* Work sessions of the daemon (search-server/src/session_state.rs,        *)
(* snapshot.rs, the session_* requests of main.rs) and the MCP servers     *)
(* that use them (search-cli/src/mcp/tools.rs).                            *)
(*                                                                         *)
(* Two threads of the daemon write: the connection worker, which serves    *)
(* one request at a time, and the main loop, which flushes every five      *)
(* seconds.  Both replace sessions.json through the same temporary file.   *)
(* An action is appended to the log of its session as a line and a newline,*)
(* two writes.  A snapshot is filled under a temporary name and renamed;   *)
(* the one it replaces is removed file by file.                            *)
(* The daemon may be killed between any two steps.                         *)
(***************************************************************************)
EXTENDS Naturals, FiniteSets, SequencesExt

CONSTANTS
  Names,       \* session ids
  Clients,     \* MCP servers
  NoSession,   \* no session
  Missing,     \* a file or directory that does not exist
  Torn,        \* a file that is truncated, or a mixture
  MaxEntries,  \* bound: ids of actions, and actions of a session
  MaxKills,    \* bound: kills of the daemon
  MaxCopies,   \* bound: imports of one snapshot
  FlushesOn    \* bound: if FALSE the main loop does not flush any more
               \* when two flushes have overlapped, or after a kill

ASSUME SessionsAssumption ==
  /\ MaxEntries \in Nat
  /\ MaxKills \in Nat
  /\ MaxCopies \in Nat
  /\ FlushesOn \in BOOLEAN
  /\ NoSession \notin Names

VARIABLES
  up,        \* the daemon: "up", "down", or "broken" when it cannot start
  mem,       \* SessionStore: status per session and next_entry_id
  served,    \* the daemon has a RepoService, so the main loop flushes
  index,     \* sessions.json
  tmp,       \* sessions.json.tmp
  flush,     \* what each thread is doing in flush_to_disk
  log,       \* per session: action_log.jsonl as it was written
  job,       \* the request the worker serves
  dirs,      \* the snapshot directories
  drafts,    \* per session: the files of the directory <snapshot id>.tmp
  draft,     \* the snapshot the worker makes: its id and its log
  unpacked,  \* the directory import-* of a process that imports a pack
  current,   \* per MCP server: current_session_id
  told,      \* history: the status of a session its clients were told
  kills,     \* history: kills of the daemon
  raced,     \* history: two flushes have overlapped
  packs      \* history: snapshots that were published, and so may be imported

snapshots == <<dirs, drafts, draft, unpacked>>
daemon == <<up, mem, served, index, tmp, flush, log, job, snapshots>>
clients == <<current, told>>
history == <<kills, raced, packs>>
vars == <<daemon, clients, history>>

Threads == {"worker", "main"}

(* Nothing here tells "resolved" and "abandoned" apart: both are closed. *)
Statuses == {"none", "open", "closed"}
Stores == [status : [Names -> Statuses], next : Nat]

NoSessions == [status |-> [s \in Names |-> "none"], next |-> 1]

(* An entry of a log, without and with the newline behind it. *)
Line(n) == [id |-> n, ended |-> FALSE]
EndLast(lines) ==
  [lines EXCEPT ![Len(lines)] = [id |-> lines[Len(lines)].id, ended |-> TRUE]]

(* A snapshot id: the session, the second and the suffix of an import.  All*)
(* snapshots are of one second here: those of others never meet.           *)
Ids == [of : Names, copy : 0..MaxCopies]

IndexType == {store \in Stores : store.next > 0}
EntryType == [id : 1..MaxEntries]
PackType == [id : Ids, log : Seq(EntryType)]

(* The files of a snapshot that its readers open.  One that is torn has    *)
(* been created and is not written yet.                                    *)
Files == {"manifest", "working_set", "action_log"}

SnapshotType == [id : Ids, log : Seq(EntryType), files : SUBSET Files]
DraftType == SUBSET (Files \cup {"torn manifest"})

(* What stands for no file, a spoilt file or no session is none. *)
ASSUME ValuesAssumption ==
  /\ Missing \notin Stores /\ Torn \notin Stores /\ Missing # Torn
  /\ Missing \notin SnapshotType /\ Missing \notin PackType
  /\ Missing \notin Seq(EntryType)
  /\ NoSession \notin Names

NoFlush == [pc |-> "none", data |-> NoSessions, file |-> "tmp"]
NoJob == [kind |-> "none", pc |-> "none", client |-> NoSession, session |-> NoSession]
NoDraft == [id |-> Missing, log |-> <<>>]

(* read_action_log: the entries of a log; an entry that was not ended      *)
(* before the next makes one line of both, and no reader gets past it.     *)
EntriesOf(lines) == [i \in 1..Len(lines) |-> [id |-> lines[i].id]]
Readable(lines) == \A i \in 1..(Len(lines) - 1) : lines[i].ended

-----------------------------------------------------------------------------
(* flush_to_disk: collect under the lock, create and truncate the          *)
(* temporary file, write it, rename it.  The thread writes to the file it  *)
(* opened, wherever another thread has renamed that to.                    *)

Collect(t) ==
  flush' = [flush EXCEPT ![t] = [pc |-> "open", data |-> mem, file |-> "tmp"]]

OpenTmp(t) ==
  /\ flush[t].pc = "open"
  /\ tmp' = Torn
  /\ flush' = [flush EXCEPT ![t].pc = "write"]
  /\ raced' = (raced \/ \E u \in Threads \ {t} : flush[u] # NoFlush)
  /\ UNCHANGED <<up, mem, served, index, log, job, snapshots, clients,
                 kills, packs>>

(* Two threads that fill the same file may mix what differs; a file that   *)
(* is torn before it is filled is one that was truncated.                  *)
Filled(t, old) ==
  IF old \in {Torn, flush[t].data} THEN {flush[t].data} ELSE {flush[t].data, Torn}

WriteTmp(t) ==
  /\ flush[t].pc = "write"
  /\ flush' = [flush EXCEPT ![t] = [@ EXCEPT !.pc = "rename", !.data = NoSessions]]
  /\ CASE flush[t].file = "tmp" -> tmp' \in Filled(t, tmp) /\ UNCHANGED index
       [] flush[t].file = "index" -> index' \in Filled(t, index) /\ UNCHANGED tmp
       [] OTHER -> UNCHANGED <<index, tmp>>
  /\ UNCHANGED <<up, mem, served, log, job, snapshots, clients, history>>

(* The files the other threads have open move along. *)
Moved(u) ==
  IF flush[u].pc \notin {"write", "rename"} THEN flush[u].file
  ELSE IF flush[u].file = "tmp" THEN "index" ELSE "gone"

Renames(t) == flush[t].pc = "rename" /\ tmp # Missing

RenameTmp(t) ==
  /\ index' = tmp
  /\ tmp' = Missing
  /\ flush' = [u \in Threads |-> IF u = t THEN NoFlush
                                 ELSE [flush[u] EXCEPT !.file = Moved(u)]]

(* The main loop: every five seconds, when it has a service to flush. *)
MainFlush ==
  /\ up = "up" /\ served
  /\ flush["main"] = NoFlush
  /\ raced \/ kills > 0 => FlushesOn
  /\ Collect("main")
  /\ UNCHANGED <<up, mem, served, index, tmp, log, job, snapshots, clients,
                 history>>

MainRenames ==
  /\ \/ Renames("main") /\ RenameTmp("main")
     \/ /\ flush["main"].pc = "rename" /\ tmp = Missing
        /\ flush' = [flush EXCEPT !["main"] = NoFlush]
        /\ UNCHANGED <<index, tmp>>
  /\ UNCHANGED <<up, mem, served, log, job, snapshots, clients, history>>

-----------------------------------------------------------------------------
(* Requests: an MCP tool sends one and waits for its answer, and the worker*)
(* serves them one after the other.                                        *)

Free(c) == up = "up" /\ job = NoJob /\ c \in Clients

Serve(kind, pc, c, s) ==
  job' = [kind |-> kind, pc |-> pc, client |-> c, session |-> s]

(* The answer: what the caller is told of the session. *)
Told(s, status) == told' = [told EXCEPT ![s] = status]

(* session_open: a known session is opened again. *)
Open(c, s) ==
  /\ Free(c)
  /\ mem' = [mem EXCEPT !.status[s] = "open"]
  /\ flush' = [flush EXCEPT !["worker"] = [pc |-> "open", data |-> mem', file |-> "tmp"]]
  /\ Serve("open", "flush", c, s)
  /\ Told(s, "none")
  /\ UNCHANGED <<up, served, index, tmp, log, snapshots, current, history>>

(* session_close of a session that is named or, at the end of a handoff, of*)
(* the current one, which then stays current; an unknown one is an error.  *)
(* (A handoff is a snapshot and, when its pack is written, this request.)  *)
Close(c, s, kind) ==
  /\ Free(c)
  /\ kind = "handoff" => s = current[c]
  /\ IF mem.status[s] = "none" THEN UNCHANGED <<mem, flush, job, told>>
     ELSE /\ mem' = [mem EXCEPT !.status[s] = "closed"]
          /\ flush' = [flush EXCEPT !["worker"] =
                         [pc |-> "open", data |-> mem', file |-> "tmp"]]
          /\ Serve(kind, "flush", c, s)
          /\ Told(s, "none")
  /\ UNCHANGED <<up, served, index, tmp, log, snapshots, current, history>>

(* record_action: an id is taken, then the line is appended. *)
Record(c) ==
  /\ Free(c)
  /\ current[c] # NoSession
  /\ mem.next <= MaxEntries /\ Len(log[current[c]]) < MaxEntries
  /\ served' = TRUE
  /\ IF mem.status[current[c]] = "none" THEN UNCHANGED job
     ELSE Serve("record", "append", c, current[c])
  /\ UNCHANGED <<up, mem, index, tmp, flush, log, snapshots, clients, history>>

AppendLine ==
  /\ job.kind = "record" /\ job.pc = "append"
  /\ mem' = [mem EXCEPT !.next = @ + 1]
  /\ log' = [log EXCEPT ![job.session] = Append(@, Line(mem.next))]
  /\ job' = [job EXCEPT !.pc = "newline"]
  /\ UNCHANGED <<up, served, index, tmp, flush, snapshots, clients, history>>

AppendNewline ==
  /\ job.pc = "newline"
  /\ log' = [log EXCEPT ![job.session] = EndLast(@)]
  /\ job' = NoJob
  /\ UNCHANGED <<up, mem, served, index, tmp, flush, snapshots, clients, history>>

(* session_snapshot and session_handoff: of the session that is named, or  *)
(* of the current one, or of an open one of the repository; it becomes the *)
(* current one before the daemon is asked.                                 *)
Chosen(c, s) ==
  \/ s \in Names
  \/ current[c] = NoSession /\ mem.status[s] = "open"

BecomesCurrent(c, s) == current' = [current EXCEPT ![c] = s]

Snapshot(c, s) ==
  /\ Free(c)
  /\ Chosen(c, s)
  /\ BecomesCurrent(c, s)
  /\ served' = TRUE
  /\ IF mem.status[s] = "none" THEN UNCHANGED <<flush, job>>
     ELSE /\ Collect("worker")
          /\ Serve("snapshot", "flush", c, s)
  /\ UNCHANGED <<up, mem, index, tmp, log, snapshots, told, history>>

(* The end of the worker's flush. *)
Answer ==
  /\ job' = NoJob
  /\ Told(job.session, mem.status[job.session])
  /\ current' = [current EXCEPT ![job.client] =
                   CASE job.kind = "open" -> job.session
                     [] job.kind = "close" -> NoSession
                     [] OTHER -> @]

WorkerRenames ==
  /\ Renames("worker") /\ RenameTmp("worker")
  /\ IF job.kind \in {"open", "close", "handoff"} THEN Answer
     ELSE /\ job' = [job EXCEPT !.pc = "read"]
          /\ UNCHANGED clients
  /\ UNCHANGED <<up, mem, served, log, snapshots, history>>

(* The other thread has renamed the file: an error for the caller. *)
Fails ==
  /\ job' = NoJob
  /\ UNCHANGED clients

WorkerRenameFails ==
  /\ flush["worker"].pc = "rename" /\ tmp = Missing
  /\ flush' = [flush EXCEPT !["worker"] = NoFlush]
  /\ Fails
  /\ UNCHANGED <<up, mem, served, index, tmp, log, snapshots, history>>

(* create_snapshot, with the id of this second: a new temporary directory, *)
(* its files, then the final directory of the same name is replaced.       *)
CopyOfEnded(s) ==
  EntriesOf(IF log[s] # <<>> /\ ~Last(log[s]).ended THEN Front(log[s]) ELSE log[s])
CopyOf(s) == EntriesOf(log[s])

SnapshotId(s) == [of |-> s, copy |-> 0]

ReadLog ==
  /\ job.pc = "read"
  /\ IF Readable(log[job.session])
     THEN /\ draft' = [id |-> SnapshotId(job.session), log |-> CopyOf(job.session)]
          /\ drafts' = [drafts EXCEPT ![job.session] = {}]
          /\ job' = [job EXCEPT !.pc = "fill"]
          /\ UNCHANGED clients
     ELSE Fails /\ UNCHANGED <<draft, drafts>>
  /\ UNCHANGED <<up, mem, served, index, tmp, flush, log, dirs, unpacked, history>>

(* The manifest is created and written first, then the other files. *)
FillWith(files) ==
  /\ job.pc = "fill"
  /\ drafts' = [drafts EXCEPT ![job.session] = files]
  /\ job' = [job EXCEPT !.pc = "remove"]
  /\ UNCHANGED <<up, mem, served, index, tmp, flush, log, dirs, draft, unpacked,
                 clients, history>>

FillTheRestLater == FillWith({"manifest"})
FillDraft == FillWith(Files)

(* remove_dir_all of the snapshot of the same name, which is there until   *)
(* the last of its files is not.                                           *)
RemoveOld ==
  /\ job.pc = "remove"
  /\ dirs' = [dirs EXCEPT ![draft.id] = Missing]
  /\ job' = [job EXCEPT !.pc = "publish"]
  /\ UNCHANGED <<up, mem, served, index, tmp, flush, log, drafts, draft, unpacked,
                 clients, history>>

(* The rename, which fails, and leaves the temporary directory, when an    *)
(* import took the name.                                                   *)
Publish ==
  /\ job.pc = "publish"
  /\ IF dirs[draft.id] = Missing
     THEN /\ dirs' = [dirs EXCEPT ![draft.id] =
                         [id |-> draft.id, log |-> draft.log,
                          files |-> drafts[job.session]]]
          /\ drafts' = [drafts EXCEPT ![job.session] = {}]
          /\ packs' = packs \cup {draft}
          /\ job' = NoJob
          /\ UNCHANGED clients
     ELSE Fails /\ UNCHANGED <<dirs, drafts, packs>>
  /\ draft' = NoDraft
  /\ UNCHANGED <<up, mem, served, index, tmp, flush, log, unpacked, kills, raced>>

(* The bound on imports leaves a name. *)
HasFree(id) == \E n \in 0..MaxCopies : dirs[[id EXCEPT !.copy = n]] = Missing

(* pack::import by a command-line process: the pack is unpacked into a     *)
(* directory of its own, where it stays if the process is killed, ...      *)
Unpack(pack) ==
  /\ unpacked = Missing
  /\ HasFree(pack.id)
  /\ unpacked' = pack
  /\ UNCHANGED <<up, mem, served, index, tmp, flush, log, job, dirs, drafts, draft,
                 clients, history>>

(* ... which gets the name of the manifest or, with the first suffix that  *)
(* is free, another, which the manifest gets then.                         *)
FreeCopy(id) == CHOOSE n \in 0..MaxCopies :
                  /\ dirs[[id EXCEPT !.copy = n]] = Missing
                  /\ \A k \in 0..(n - 1) : dirs[[id EXCEPT !.copy = k]] # Missing
Imported(pack, id) == [id |-> id, log |-> pack.log, files |-> Files]

Import ==
  /\ unpacked # Missing
  /\ HasFree(unpacked.id)
  /\ LET id == [unpacked.id EXCEPT !.copy = FreeCopy(unpacked.id)]
     IN dirs' = [dirs EXCEPT ![id] = Imported(unpacked, id)]
  /\ unpacked' = Missing
  /\ UNCHANGED <<up, mem, served, index, tmp, flush, log, job, drafts, draft,
                 clients, history>>

(* list_snapshots: the name in the manifest of every directory, also of    *)
(* those that have a temporary name; a manifest that cannot be parsed, of  *)
(* a draft or of a pack that is being unpacked, ends it with an error.     *)
ListMayFail ==
  (\E s \in Names : "torn manifest" \in drafts[s]) \/ unpacked # Missing
Listed ==
  {id \in Ids : dirs[id] # Missing /\ "manifest" \in dirs[id].files}
  \cup {SnapshotId(s) : s \in {n \in Names : "manifest" \in drafts[n]}}
  \cup (IF unpacked = Missing THEN {} ELSE {unpacked.id})

(* read_snapshot: the log it reads, none if the manifest or the working set*)
(* is not there; a log that is not there reads as an empty one.            *)
ReadSnapshot(id) ==
  IF dirs[id] # Missing /\ {"manifest", "working_set"} \subseteq dirs[id].files
  THEN dirs[id].log ELSE Missing

(* session_resume: the session of the snapshot becomes the current one,    *)
(* whether this daemon knows it or not.                                    *)
SessionOf(id) == dirs[id].id.of

Resume(c, id) ==
  /\ Free(c)
  /\ served' = TRUE
  /\ current' = [current EXCEPT ![c] =
                   IF ReadSnapshot(id) = Missing THEN @ ELSE SessionOf(id)]
  /\ UNCHANGED <<up, mem, index, tmp, flush, log, job, snapshots, told, history>>

(* The working set of a snapshot names each search by the entry it was     *)
(* recorded in, and the diff of two snapshots compares these names.        *)
SearchIds(snapshot) == {snapshot.log[i].id : i \in DOMAIN snapshot.log}
AddedSearches(a, b) == SearchIds(b) \ SearchIds(a)

-----------------------------------------------------------------------------
(* The life of the daemon.                                                 *)

Gone ==
  /\ mem' = NoSessions
  /\ served' = FALSE
  /\ flush' = [t \in Threads |-> NoFlush]
  /\ job' = NoJob
  /\ draft' = NoDraft

(* Shutdown: the worker is joined, then the services flush. *)
StopUnflushed ==
  /\ up = "up" /\ job = NoJob /\ \A t \in Threads : flush[t] = NoFlush
  /\ up' = "down"
  /\ UNCHANGED <<index, tmp>>
  /\ Gone
  /\ UNCHANGED <<log, dirs, drafts, unpacked, current, told, history>>
Stop ==
  /\ up = "up" /\ job = NoJob /\ \A t \in Threads : flush[t] = NoFlush
  /\ up' = "down"
  /\ IF served THEN index' = mem /\ tmp' = Missing ELSE UNCHANGED <<index, tmp>>
  /\ Gone
  /\ UNCHANGED <<log, dirs, drafts, unpacked, current, told, history>>

(* A kill in the middle of filling a directory leaves the beginning of it, *)
(* in the middle of removing one any part, with the name of the whole.     *)
KilledFilling ==
  IF job.pc = "fill"
  THEN \E files \in {{}, {"torn manifest"}, {"manifest"}} :
         drafts' = [drafts EXCEPT ![job.session] = files]
  ELSE UNCHANGED drafts

Remains(id, files) ==
  [id |-> id, log |-> IF "action_log" \in files THEN dirs[id].log ELSE <<>>,
   files |-> files]

KilledRemoving ==
  IF job.pc = "remove" /\ dirs[draft.id] # Missing
  THEN \E files \in SUBSET dirs[draft.id].files :
         dirs' = [dirs EXCEPT ![draft.id] = Remains(draft.id, files)]
  ELSE UNCHANGED dirs

(* Nobody reads a sessions.json.tmp: the next flush truncates it. *)
Kill ==
  /\ up = "up"
  /\ kills < MaxKills
  /\ kills' = kills + 1
  /\ up' = "down"
  /\ tmp' = Missing
  /\ KilledFilling
  /\ KilledRemoving
  /\ Gone
  /\ UNCHANGED <<index, log, unpacked, current, told, raced, packs>>

(* load_from_disk *)
StartEmpty ==
  /\ up = "down"
  /\ up' = IF index = Torn THEN "broken" ELSE "up"
  /\ UNCHANGED <<mem, served, index, tmp, flush, log, job, snapshots, clients, history>>
Start ==
  /\ up = "down"
  /\ IF index = Torn THEN up' = "broken" /\ UNCHANGED mem
     ELSE /\ up' = "up"
          /\ mem' = IF index = Missing THEN NoSessions ELSE index
  /\ UNCHANGED <<served, index, tmp, flush, log, job, snapshots, clients, history>>

-----------------------------------------------------------------------------
Init ==
  /\ up = "down" /\ mem = NoSessions /\ served = FALSE
  /\ index = Missing /\ tmp = Missing
  /\ flush = [t \in Threads |-> NoFlush]
  /\ log = [s \in Names |-> <<>>]
  /\ job = NoJob
  /\ dirs = [id \in Ids |-> Missing]
  /\ drafts = [s \in Names |-> {}] /\ draft = NoDraft
  /\ unpacked = Missing
  /\ current = [c \in Clients |-> NoSession]
  /\ told = [s \in Names |-> "none"]
  /\ kills = 0 /\ raced = FALSE /\ packs = {}

Worker ==
  \/ OpenTmp("worker") \/ WriteTmp("worker") \/ WorkerRenames \/ WorkerRenameFails
  \/ AppendLine \/ AppendNewline
  \/ ReadLog \/ FillDraft \/ RemoveOld \/ Publish

Main == OpenTmp("main") \/ WriteTmp("main") \/ MainRenames \/ MainFlush

Tools ==
  \E c \in Clients :
    \/ Record(c)
    \/ \E s \in Names :
         \/ Open(c, s)
         \/ \E kind \in {"close", "handoff"} : Close(c, s, kind)
         \/ Snapshot(c, s)
    \/ \E id \in Ids : Resume(c, id)

Next ==
  \/ Worker \/ Main \/ Tools
  \/ (\E pack \in packs : Unpack(pack)) \/ Import
  \/ Stop \/ Kill \/ Start

Spec == Init /\ [][Next]_vars

-----------------------------------------------------------------------------
(* Properties.                                                             *)

(* sessions.json is a store or torn, and a snapshot names the directory it *)
(* is in, also when it was imported under another name.                    *)
TypeOK ==
  /\ up \in {"up", "down", "broken"}
  /\ mem \in IndexType
  /\ served \in BOOLEAN /\ raced \in BOOLEAN
  /\ index \in IndexType \cup {Missing, Torn}
  /\ tmp \in IndexType \cup {Missing, Torn}
  /\ \A t \in Threads :
       /\ flush[t].pc \in {"none", "open", "write", "rename"}
       /\ flush[t].data \in IndexType
       /\ flush[t].file \in {"tmp", "index", "gone"}
  /\ log \in [Names -> Seq([id : 1..MaxEntries, ended : BOOLEAN])]
  /\ \A id \in Ids : dirs[id] # Missing => dirs[id] \in SnapshotType /\ dirs[id].id = id
  /\ current \in [Clients -> Names \cup {NoSession}]
  /\ told \in [Names -> Statuses]
  /\ drafts \in [Names -> DraftType]
  /\ unpacked \in PackType \cup {Missing}
  /\ packs \subseteq PackType

(* What a client was told of a session is in sessions.json, whatever kills *)
(* the daemon: docs/releases/v0.4.2.md:7 "persisted under the daemon".     *)
(* Two flushes that overlap share the temporary file and void this.        *)
ToldIsOnDisk ==
  ~raced =>
    /\ index # Torn
    /\ \A s \in Names :
         told[s] # "none" =>
           index # Missing /\ index.status[s] = told[s]

(* Entry ids tell actions apart, so the diff of two snapshots of a session *)
(* counts what was done between them, also after the daemon was stopped and*)
(* started.  A killed daemon may give an id twice.                         *)
DiffCountsActions ==
  \A a, b \in packs :
    (a.id.of = b.id.of /\ Len(a.log) <= Len(b.log) /\ kills = 0)
      => Cardinality(AddedSearches(a, b)) = Len(b.log) - Len(a.log)

(* What session_snapshot_list names can be read in full, unless the daemon *)
(* was killed: an import that takes the name between the removal of the old*)
(* snapshot and the rename leaves two of that name, but one that is whole. *)
(* An import that is not over names its snapshot before it is there.       *)
ListedIsWhole ==
  kills = 0 /\ job = NoJob =>
    /\ ListMayFail => unpacked # Missing
    /\ \A id \in Listed :
         \/ dirs[id] # Missing /\ dirs[id].files = Files
         \/ unpacked # Missing /\ unpacked.id = id

(* Whatever crashes, races and retries do, what is read under the name of  *)
(* a snapshot is the log of its session when it was made, whole, until the *)
(* snapshot is replaced; a kill in the middle of that leaves no snapshot,  *)
(* one that cannot be read, or one that reads as if nothing had been done. *)
(* No log gets shorter.  The store implements SessionLog.                  *)
Promise == INSTANCE SessionLog WITH
  Sessions <- Names,
  Entries <- EntryType,
  None <- Missing,
  Of <- [id \in Ids |-> id.of],
  log <- [s \in Names |-> EntriesOf(log[s])],
  snaps <- [id \in Ids |-> ReadSnapshot(id)],
  seen <- {pack.log : pack \in packs}
KeepsPromise == Promise!Spec
=============================================================================
