---------------------------- MODULE SessionsProofs --------------------------
(***************************************************************************)
(* Proofs about Sessions, for every set of sessions and MCP servers and    *)
(* every number of kills: what a client was told of a session is in        *)
(* sessions.json, the store implements SessionLog, and ids tell the actions*)
(* of a session apart.                                                     *)
(***************************************************************************)
EXTENDS Sessions, FiniteSetTheorems, FunctionTheorems, TLAPS

-----------------------------------------------------------------------------
(* What clients were told.                                                 *)

(* A store that has what the clients were told.                            *)
Has(store) == \A s \in Names : told[s] # "none" => store.status[s] = told[s]

(* The shape of the variables that the two threads share.                  *)
FlushType ==
  /\ up \in {"up", "down", "broken"}
  /\ raced \in BOOLEAN
  /\ mem \in Stores
  /\ index \in Stores \cup {Missing, Torn}
  /\ tmp \in Stores \cup {Missing, Torn}
  /\ told \in [Names -> Statuses]
  /\ flush \in [Threads -> [pc : {"none", "open", "write", "rename"},
                            data : Stores, file : {"tmp", "index", "gone"}]]
  /\ flush["worker"].pc # "none" => job.pc = "flush"
  /\ up # "up" => \A t \in Threads : flush[t].pc = "none"

(* As long as two flushes have not overlapped: one thread at a time has the*)
(* temporary file, what the worker flushes is the store as it is, and what *)
(* the main loop flushes has what the clients were told, though the store  *)
(* may have gone on since.                                                 *)
DiskInv ==
  /\ index \in Stores \cup {Missing}
  /\ index = Missing => \A s \in Names : told[s] = "none"
  /\ index # Missing => Has(index)
  /\ up = "up" => Has(mem)
  /\ \A t \in Threads :
       /\ flush[t].pc \in {"open", "write"} => flush[t].file = "tmp"
       /\ flush[t].pc = "write" => tmp = Torn
  /\ flush["worker"].pc \in {"open", "write"} => flush["worker"].data = mem
  /\ flush["worker"].pc = "rename" => tmp = mem
  /\ flush["main"].pc \in {"open", "write"} => Has(flush["main"].data)
  /\ flush["main"].pc = "rename" => tmp \in Stores /\ Has(tmp)
  /\ flush["main"].pc \in {"write", "rename"} =>
       flush["worker"].pc \in {"none", "open"}
  /\ flush["worker"].pc \in {"write", "rename"} =>
       /\ flush["main"].pc \in {"none", "open"}
       /\ flush["main"].pc = "open" => flush["main"].data = mem

ToldInv == FlushType /\ (~raced => DiskInv)

(* The store of a daemon that knows no session.                            *)
LEMMA NoSessionsIsStore == NoSessions \in Stores
BY DEF NoSessions, Stores, Statuses

(* The steps of a flush: create, write, rename.                            *)
LEMMA OpenTmpKeepsToldInv ==
  ASSUME ToldInv, NEW t \in Threads, OpenTmp(t)
  PROVE  ToldInv'
<1>1. /\ flush[t].pc = "open" /\ tmp' = Torn
      /\ flush' = [flush EXCEPT ![t].pc = "write"]
      /\ raced' = (raced \/ \E u \in Threads \ {t} : flush[u] # NoFlush)
      /\ UNCHANGED <<up, mem, index, job, told>>
  BY DEF OpenTmp, clients
<1>2. /\ flush'[t] = [flush[t] EXCEPT !.pc = "write"]
      /\ \A u \in Threads : u # t => flush'[u] = flush[u]
  BY <1>1 DEF ToldInv, FlushType
<1>3. /\ flush'[t].pc = "write" /\ flush'[t].data = flush[t].data
      /\ flush'[t].file = flush[t].file
  BY <1>2 DEF ToldInv, FlushType
<1>4. FlushType'
  BY <1>1, <1>2, <1>3 DEF ToldInv, FlushType, Threads
<1>5. ASSUME ~raced' PROVE DiskInv'
  <2>0. \A u \in Threads : u # t => flush[u] = NoFlush
    BY <1>1, <1>5, Zenon
  <2>1. \A u \in Threads : u # t => flush[u].pc = "none"
    BY <2>0 DEF NoFlush
  <2>2. DiskInv
    BY <1>1, <1>5 DEF ToldInv
  <2>3. CASE t = "worker"
    BY <1>1, <1>2, <1>3, <2>1, <2>2, <2>3 DEF DiskInv, Threads, Has
  <2>4. CASE t = "main"
    BY <1>1, <1>2, <1>3, <2>1, <2>2, <2>4 DEF DiskInv, Threads, Has
  <2>. QED
    BY <2>3, <2>4 DEF Threads
<1>. QED
  BY <1>4, <1>5 DEF ToldInv

(* The thread that has the file to itself fills it with what it collected. *)
LEMMA WriteTmpKeepsToldInv ==
  ASSUME ToldInv, NEW t \in Threads, WriteTmp(t)
  PROVE  ToldInv'
<1>1. /\ flush[t].pc = "write"
      /\ flush' = [flush EXCEPT ![t] = [@ EXCEPT !.pc = "rename", !.data = NoSessions]]
      /\ UNCHANGED <<up, mem, job, told, raced>>
  BY DEF WriteTmp, clients, history
<1>2. /\ flush'[t].pc = "rename" /\ flush'[t].file = flush[t].file
      /\ flush' \in [Threads -> [pc : {"none", "open", "write", "rename"},
                            data : Stores, file : {"tmp", "index", "gone"}]]
      /\ \A u \in Threads : u # t => flush'[u] = flush[u]
  BY <1>1, NoSessionsIsStore DEF ToldInv, FlushType
<1>3. FlushType'
  <2>1. \A old \in Stores \cup {Missing, Torn} :
          Filled(t, old) \subseteq Stores \cup {Torn}
    BY DEF Filled, ToldInv, FlushType
  <2>2. /\ index' \in Stores \cup {Missing, Torn}
        /\ tmp' \in Stores \cup {Missing, Torn}
    BY <2>1 DEF WriteTmp, ToldInv, FlushType
  <2>. QED
    BY <1>1, <1>2, <2>2 DEF ToldInv, FlushType, Threads
<1>4. ASSUME ~raced' PROVE DiskInv'
  <2>1. DiskInv /\ flush[t].file = "tmp" /\ tmp = Torn
    BY <1>1, <1>4 DEF ToldInv, DiskInv
  <2>2. tmp' = flush[t].data /\ UNCHANGED index
    BY <2>1 DEF WriteTmp, Filled
  <2>3. flush[t].data \in Stores
    BY DEF ToldInv, FlushType
  <2>4. CASE t = "worker"
    BY <1>1, <1>2, <2>1, <2>2, <2>3, <2>4 DEF DiskInv, Threads, Has
  <2>5. CASE t = "main"
    BY <1>1, <1>2, <2>1, <2>2, <2>3, <2>5 DEF DiskInv, Threads, Has
  <2>. QED
    BY <2>4, <2>5 DEF Threads
<1>. QED
  BY <1>3, <1>4 DEF ToldInv

(* What a rename does to the thread that renames and to the other.         *)
LEMMA Renaming ==
  ASSUME ToldInv, NEW t \in Threads, RenameTmp(t)
  PROVE  /\ flush'[t] = NoFlush
         /\ flush' \in [Threads -> [pc : {"none", "open", "write", "rename"},
                            data : Stores, file : {"tmp", "index", "gone"}]]
         /\ \A u \in Threads : u # t =>
              /\ flush'[u].pc = flush[u].pc
              /\ flush'[u].data = flush[u].data
              /\ flush[u].pc \in {"none", "open"} => flush'[u].file = flush[u].file
<1>1. flush' = [u \in Threads |-> IF u = t THEN NoFlush
                                  ELSE [flush[u] EXCEPT !.file = Moved(u)]]
  BY DEF RenameTmp
<1>2. \A u \in Threads : Moved(u) \in {"tmp", "index", "gone"}
  BY DEF Moved, ToldInv, FlushType
<1>. QED
  BY <1>1, <1>2, NoSessionsIsStore DEF ToldInv, FlushType, NoFlush, Moved

(* The main loop's rename puts what it collected in place of sessions.json.*)
LEMMA MainRenamesKeepsToldInv ==
  ASSUME ToldInv, MainRenames
  PROVE  ToldInv'
<1>0. "main" \in Threads /\ "worker" \in Threads
  BY DEF Threads
<1>1. UNCHANGED <<up, mem, job, told, raced>>
  BY DEF MainRenames, clients, history
<1>2. CASE Renames("main") /\ RenameTmp("main")
  <2>1. /\ flush["main"].pc = "rename" /\ index' = tmp /\ tmp' = Missing
        /\ flush'["main"].pc = "none"
        /\ flush'["worker"].pc = flush["worker"].pc
        /\ flush'["worker"].data = flush["worker"].data
        /\ flush["worker"].pc \in {"none", "open"} =>
             flush'["worker"].file = flush["worker"].file
    BY <1>0, <1>2, Renaming DEF Renames, RenameTmp, NoFlush
  <2>2. FlushType'
    BY <1>0, <1>1, <1>2, <2>1, Renaming DEF ToldInv, FlushType, Threads
  <2>3. ASSUME ~raced' PROVE DiskInv'
    <3>1. DiskInv
      BY <1>1, <2>3 DEF ToldInv
    <3>. QED
      BY <1>1, <2>1, <3>1, ValuesAssumption DEF DiskInv, Threads, Has, ValuesAssumption
  <2>. QED
    BY <2>2, <2>3 DEF ToldInv
<1>3. CASE /\ flush["main"].pc = "rename" /\ tmp = Missing
           /\ flush' = [flush EXCEPT !["main"] = NoFlush]
           /\ UNCHANGED <<index, tmp>>
  <2>1. /\ flush'["main"] = NoFlush /\ flush'["worker"] = flush["worker"]
        /\ NoFlush.pc = "none"
    BY <1>0, <1>3 DEF ToldInv, FlushType, NoFlush
  <2>2. FlushType'
    BY <1>1, <1>3, <2>1, NoSessionsIsStore DEF ToldInv, FlushType, Threads, NoFlush
  <2>. QED
    BY <1>1, <1>3, <2>1, <2>2, ValuesAssumption
    DEF ToldInv, DiskInv, Has, ValuesAssumption
<1>. QED
  BY <1>2, <1>3 DEF MainRenames

(* The worker's puts the store as it is there, and answers.                *)
LEMMA WorkerRenamesKeepsToldInv ==
  ASSUME ToldInv, WorkerRenames
  PROVE  ToldInv'
<1>0. "main" \in Threads /\ "worker" \in Threads
  BY DEF Threads
<1>1. /\ UNCHANGED <<up, mem, raced>>
      /\ flush["worker"].pc = "rename" /\ index' = tmp /\ tmp' = Missing
      /\ RenameTmp("worker")
      /\ \/ told' = [told EXCEPT ![job.session] = mem.status[job.session]]
         \/ UNCHANGED told
  BY DEF WorkerRenames, Renames, RenameTmp, Answer, Told, clients, history
<1>2. /\ flush'["worker"].pc = "none"
      /\ flush'["main"].pc = flush["main"].pc
      /\ flush'["main"].data = flush["main"].data
      /\ flush["main"].pc \in {"none", "open"} =>
           flush'["main"].file = flush["main"].file
  BY <1>0, <1>1, Renaming DEF NoFlush
<1>3. told' \in [Names -> Statuses]
      /\ \A s \in Names : told'[s] \in {told[s], mem.status[s]}
  BY <1>1 DEF ToldInv, FlushType, Stores
<1>4. FlushType'
  BY <1>0, <1>1, <1>2, <1>3, Renaming DEF ToldInv, FlushType, Threads
<1>5. ASSUME ~raced' PROVE DiskInv'
  <2>1. DiskInv /\ tmp = mem /\ mem \in Stores /\ up = "up"
    BY <1>0, <1>1, <1>5 DEF ToldInv, DiskInv, FlushType
  <2>2. Has(mem)'
    BY <1>1, <1>3, <2>1 DEF DiskInv, Has
  <2>3. flush["main"].pc \in {"none", "open"}
        /\ (flush["main"].pc = "open" => flush["main"].data = mem)
    BY <1>1, <2>1 DEF DiskInv
  <2>4. flush'["main"].pc = "open" => Has(flush["main"].data)'
    BY <1>1, <1>2, <2>2, <2>3 DEF Has
  <2>5. index' = mem /\ index' # Missing /\ Has(index)'
    BY <1>1, <2>1, <2>2, ValuesAssumption DEF Has, ValuesAssumption
  <2>. QED
    BY <1>1, <1>2, <2>1, <2>2, <2>3, <2>4, <2>5 DEF DiskInv, Threads
<1>. QED
  BY <1>4, <1>5 DEF ToldInv

-----------------------------------------------------------------------------
(* The other steps.                                                        *)

(* A request that changes the store flushes it, and takes back what the    *)
(* clients were told of its session.                                       *)
LEMMA ChangeKeepsToldInv ==
  ASSUME ToldInv, job = NoJob, up = "up", NEW s, NEW status \in Statuses,
         mem' = [mem EXCEPT !.status[s] = status],
         flush' = [flush EXCEPT !["worker"] = [pc |-> "open", data |-> mem', file |-> "tmp"]],
         job'.pc = "flush", Told(s, "none"),
         UNCHANGED <<up, index, tmp, raced>>
  PROVE  ToldInv'
<1>1. mem' \in Stores /\ \A r \in Names : r # s => mem'.status[r] = mem.status[r]
  BY DEF ToldInv, FlushType, Stores
<1>2. /\ told' \in [Names -> Statuses]
      /\ \A r \in Names : told'[r] = IF r = s THEN "none" ELSE told[r]
  BY DEF ToldInv, FlushType, Told, Statuses
<1>3. /\ flush["worker"].pc = "none"
      /\ flush'["worker"] = [pc |-> "open", data |-> mem', file |-> "tmp"]
      /\ flush'["main"] = flush["main"]
  BY DEF ToldInv, FlushType, NoJob, Threads
<1>4. FlushType'
  BY <1>1, <1>2, <1>3 DEF ToldInv, FlushType, Threads
<1>5. ASSUME ~raced' PROVE DiskInv'
  <2>1. DiskInv
    BY <1>5 DEF ToldInv
  <2>2. Has(mem)' /\ (index # Missing => Has(index)')
    BY <1>1, <1>2, <2>1 DEF DiskInv, Has
  <2>3. /\ flush["main"].pc \in {"open", "write"} => Has(flush["main"].data)'
        /\ flush["main"].pc = "rename" => Has(tmp)'
    BY <1>2, <1>3, <2>1 DEF DiskInv, Has
  <2>. QED
    BY <1>2, <1>3, <2>1, <2>2, <2>3 DEF DiskInv, Threads
<1>. QED
  BY <1>4, <1>5 DEF ToldInv

(* A flush of the store as it is.                                          *)
LEMMA CollectKeepsToldInv ==
  ASSUME ToldInv, up = "up", NEW t \in Threads, flush[t].pc = "none",
         Collect(t), t = "worker" => job'.pc = "flush",
         t = "main" => UNCHANGED job,
         UNCHANGED <<up, mem, index, tmp, told, raced>>
  PROVE  ToldInv'
<1>1. /\ flush'[t] = [pc |-> "open", data |-> mem, file |-> "tmp"]
      /\ \A u \in Threads : u # t => flush'[u] = flush[u]
  BY DEF Collect, ToldInv, FlushType
<1>2. FlushType'
  BY <1>1 DEF ToldInv, FlushType, Threads, Collect
<1>3. CASE t = "worker"
  BY <1>1, <1>2, <1>3 DEF ToldInv, DiskInv, Has, Threads
<1>4. CASE t = "main"
  BY <1>1, <1>2, <1>4 DEF ToldInv, DiskInv, Has, Threads
<1>. QED
  BY <1>3, <1>4 DEF Threads

(* Steps that touch none of it, but for the place of the worker.           *)
LEMMA RestKeepsToldInv ==
  ASSUME ToldInv, UNCHANGED <<up, mem, flush, told, index, tmp, raced>>,
         flush["worker"].pc # "none" => job'.pc = "flush"
  PROVE  ToldInv'
<1>1. FlushType'
  BY DEF ToldInv, FlushType
<1>2. DiskInv => DiskInv'
  BY DEF DiskInv, Has
<1>. QED
  BY <1>1, <1>2 DEF ToldInv

(* Tools.                                                                  *)
LEMMA ToolsKeepToldInv ==
  ASSUME ToldInv, Tools
  PROVE  ToldInv'
<1>0. PICK c \in Clients :
        \/ Record(c)
        \/ \E s \in Names :
             \/ Open(c, s)
             \/ \E kind \in {"close", "handoff"} : Close(c, s, kind)
             \/ Snapshot(c, s)
        \/ \E id \in Ids : Resume(c, id)
  BY DEF Tools
<1>1. /\ job = NoJob => flush["worker"].pc = "none"
      /\ "worker" \in Threads
  BY DEF ToldInv, FlushType, NoJob, Threads
<1>2. CASE Record(c) \/ \E id \in Ids : Resume(c, id)
  <2>1. /\ job = NoJob
        /\ UNCHANGED <<up, mem, flush, told, index, tmp, raced>>
    BY <1>2 DEF Record, Resume, Free, clients, history
  <2>. QED
    BY <1>1, <2>1, RestKeepsToldInv
<1>3. ASSUME NEW s \in Names, Open(c, s) PROVE ToldInv'
  <2>1. /\ job = NoJob /\ up = "up" /\ job'.pc = "flush"
        /\ UNCHANGED <<up, index, tmp, raced>>
    BY <1>3 DEF Open, Free, Serve, history
  <2>. QED
    BY <1>3, <2>1, ChangeKeepsToldInv DEF Open, Statuses
<1>4. ASSUME NEW s \in Names, NEW kind, Close(c, s, kind) PROVE ToldInv'
  <2>1. /\ job = NoJob /\ up = "up" /\ UNCHANGED <<up, index, tmp, raced>>
    BY <1>4 DEF Close, Free, history
  <2>2. CASE mem.status[s] = "none"
    BY <1>1, <1>4, <2>1, <2>2, RestKeepsToldInv DEF Close
  <2>3. CASE mem.status[s] # "none"
    <3>1. /\ mem' = [mem EXCEPT !.status[s] = "closed"]
          /\ flush' = [flush EXCEPT !["worker"] =
                         [pc |-> "open", data |-> mem', file |-> "tmp"]]
          /\ job'.pc = "flush" /\ Told(s, "none")
      BY <1>4, <2>3 DEF Close, Serve
    <3>. QED
      BY <2>1, <3>1, ChangeKeepsToldInv DEF Statuses
  <2>. QED
    BY <2>2, <2>3
<1>5. ASSUME NEW s \in Names, Snapshot(c, s) PROVE ToldInv'
  <2>1. /\ job = NoJob /\ up = "up"
        /\ UNCHANGED <<up, mem, index, tmp, told, raced>>
    BY <1>5 DEF Snapshot, Free, history
  <2>2. CASE mem.status[s] = "none"
    BY <1>1, <1>5, <2>1, <2>2, RestKeepsToldInv DEF Snapshot
  <2>3. CASE mem.status[s] # "none"
    <3>1. Collect("worker") /\ job'.pc = "flush"
      BY <1>5, <2>3 DEF Snapshot, Serve
    <3>. QED
      BY <1>1, <2>1, <3>1, CollectKeepsToldInv
  <2>. QED
    BY <2>2, <2>3
<1>. QED
  BY <1>0, <1>2, <1>3, <1>4, <1>5

(* The worker between its flushes, and a process that imports a pack.      *)
LEMMA WorkKeepsToldInv ==
  ASSUME ToldInv,
         \/ AppendLine \/ AppendNewline
         \/ ReadLog \/ FillDraft \/ RemoveOld \/ Publish
         \/ (\E pack \in packs : Unpack(pack)) \/ Import
  PROVE  ToldInv'
<1>0. "worker" \in Threads /\ NoJob.pc = "none"
  BY DEF Threads, NoJob
<1>1. CASE AppendLine
  <2>1. /\ job.pc = "append"
        /\ mem' = [mem EXCEPT !.next = @ + 1]
        /\ UNCHANGED <<up, flush, told, index, tmp, raced>>
    BY <1>1 DEF AppendLine, clients, history
  <2>2. flush["worker"].pc = "none"
    BY <1>0, <2>1 DEF ToldInv, FlushType
  <2>3. mem' \in Stores /\ mem'.status = mem.status
    BY <2>1 DEF ToldInv, FlushType, Stores
  <2>4. FlushType'
    BY <2>1, <2>2, <2>3 DEF ToldInv, FlushType
  <2>5. DiskInv => DiskInv'
    BY <2>1, <2>2, <2>3 DEF DiskInv, Has
  <2>. QED
    BY <2>1, <2>4, <2>5 DEF ToldInv
<1>2. CASE AppendNewline \/ ReadLog \/ FillDraft \/ RemoveOld \/ Publish
  <2>1. /\ job.pc \in {"newline", "read", "fill", "remove", "publish"}
        /\ UNCHANGED <<up, mem, flush, told, index, tmp, raced>>
    BY <1>2 DEF AppendNewline, ReadLog, FillDraft, FillWith, RemoveOld, Publish, Fails,
       clients, history
  <2>2. flush["worker"].pc = "none"
    BY <2>1 DEF ToldInv, FlushType
  <2>. QED
    BY <2>1, <2>2, RestKeepsToldInv
<1>3. CASE (\E pack \in packs : Unpack(pack)) \/ Import
  <2>1. UNCHANGED <<up, mem, flush, told, index, tmp, raced, job>>
    BY <1>3 DEF Unpack, Import, clients, history
  <2>2. flush["worker"].pc # "none" => job'.pc = "flush"
    BY <2>1 DEF ToldInv, FlushType
  <2>. QED
    BY <2>1, <2>2, RestKeepsToldInv
<1>. QED
  BY <1>1, <1>2, <1>3

(* A daemon that is killed leaves sessions.json as it is, one that is      *)
(* stopped writes it once more, and one that starts reads it.              *)
LEMMA LivesKeepToldInv ==
  ASSUME ToldInv, Stop \/ Kill \/ Start
  PROVE  ToldInv'
<1>0. /\ NoFlush.pc = "none" /\ NoFlush \in [pc : {"none", "open", "write", "rename"},
                            data : Stores, file : {"tmp", "index", "gone"}]
      /\ "main" \in Threads /\ "worker" \in Threads
  BY NoSessionsIsStore DEF NoFlush, Threads
<1>1. CASE Stop \/ Kill
  <2>1. /\ up = "up" /\ up' = "down" /\ mem' = NoSessions
        /\ flush' = [t \in Threads |-> NoFlush]
        /\ UNCHANGED <<told, raced>>
        /\ UNCHANGED index \/ index' = mem
    BY <1>1 DEF Stop, Kill, Gone, history
  <2>2. tmp' \in Stores \cup {Missing, Torn}
    BY <1>1 DEF Stop, Kill, ToldInv, FlushType
  <2>3. FlushType'
    BY <1>0, <2>1, <2>2, NoSessionsIsStore DEF ToldInv, FlushType
  <2>4. ASSUME ~raced' PROVE DiskInv'
    <3>1. DiskInv /\ mem \in Stores
      BY <2>1, <2>4 DEF ToldInv, FlushType
    <3>2. /\ index' \in Stores \cup {Missing}
          /\ index' = Missing => \A s \in Names : told'[s] = "none"
          /\ index' # Missing => Has(index)'
      BY <2>1, <3>1, ValuesAssumption DEF DiskInv, Has, ValuesAssumption
    <3>. QED
      BY <1>0, <2>1, <3>2 DEF DiskInv
  <2>. QED
    BY <2>3, <2>4 DEF ToldInv
<1>2. CASE Start
  <2>1. /\ up = "down" /\ UNCHANGED <<flush, told, index, tmp, raced, job>>
        /\ \/ index = Torn /\ up' = "broken" /\ UNCHANGED mem
           \/ /\ index # Torn /\ up' = "up"
              /\ mem' = IF index = Missing THEN NoSessions ELSE index
    BY <1>2 DEF Start, clients, history
  <2>2. \A t \in Threads : flush[t].pc = "none"
    BY <2>1 DEF ToldInv, FlushType
  <2>3. FlushType'
    BY <2>1, <2>2, NoSessionsIsStore DEF ToldInv, FlushType
  <2>4. DiskInv => DiskInv'
    BY <1>0, <2>1, <2>2 DEF DiskInv, Has
  <2>. QED
    BY <2>1, <2>3, <2>4 DEF ToldInv
<1>. QED
  BY <1>1, <1>2

(* What the daemon told a client of a session survives every kill and      *)
(* every interleaving of the two threads that does not make them share the *)
(* temporary file (SessionStore::flush_to_disk, session_state.rs, called by*)
(* the worker and by the main loop of main.rs).                            *)
THEOREM ToldStaysOnDisk == Spec => []ToldIsOnDisk
<1>1. Init => ToldInv
  <2>. SUFFICES ASSUME Init PROVE ToldInv
    OBVIOUS
  <2>1. \A t \in Threads : flush[t].pc = "none"
    BY DEF Init, NoFlush
  <2>2. FlushType
    BY <2>1, NoSessionsIsStore DEF Init, FlushType, NoFlush, Statuses, Threads
  <2>3. DiskInv
    BY <2>1 DEF Init, DiskInv, Threads, Has
  <2>. QED
    BY <2>2, <2>3 DEF ToldInv
<1>2. ToldInv /\ [Next]_vars => ToldInv'
  <2>. SUFFICES ASSUME ToldInv, [Next]_vars PROVE ToldInv'
    OBVIOUS
  <2>0. "main" \in Threads /\ "worker" \in Threads
    BY DEF Threads
  <2>1. CASE Worker
    <3>1. CASE WorkerRenameFails
      <4>1. /\ flush["worker"].pc = "rename" /\ tmp = Missing
            /\ flush' = [flush EXCEPT !["worker"] = NoFlush]
            /\ UNCHANGED <<up, mem, told, index, tmp, raced>>
        BY <3>1 DEF WorkerRenameFails, Fails, clients, history
      <4>2. /\ flush'["worker"] = NoFlush /\ flush'["main"] = flush["main"]
            /\ NoFlush.pc = "none"
        BY <2>0, <4>1 DEF ToldInv, FlushType, NoFlush
      <4>3. FlushType'
        BY <4>1, <4>2, NoSessionsIsStore DEF ToldInv, FlushType, Threads, NoFlush
      <4>. QED
        BY <2>0, <4>1, <4>2, <4>3, ValuesAssumption
        DEF ToldInv, DiskInv, FlushType, ValuesAssumption
    <3>. QED
      BY <2>0, <2>1, <3>1, OpenTmpKeepsToldInv, WriteTmpKeepsToldInv,
         WorkerRenamesKeepsToldInv, WorkKeepsToldInv DEF Worker
  <2>2. CASE Main
    <3>1. CASE MainFlush
      <4>1. /\ up = "up" /\ flush["main"].pc = "none" /\ Collect("main")
            /\ UNCHANGED <<up, mem, index, tmp, told, raced, job>>
        BY <3>1 DEF MainFlush, NoFlush, clients, history
      <4>. QED
        BY <2>0, <4>1, CollectKeepsToldInv
    <3>. QED
      BY <2>0, <2>2, <3>1, OpenTmpKeepsToldInv, WriteTmpKeepsToldInv,
         MainRenamesKeepsToldInv DEF Main
  <2>3. CASE Tools
    BY <2>3, ToolsKeepToldInv
  <2>4. CASE (\E pack \in packs : Unpack(pack)) \/ Import
    BY <2>4, WorkKeepsToldInv
  <2>5. CASE Stop \/ Kill \/ Start
    BY <2>5, LivesKeepToldInv
  <2>6. CASE UNCHANGED vars
    <3>1. UNCHANGED <<up, mem, flush, told, index, tmp, raced, job>>
      BY <2>6 DEF vars, daemon, clients, history
    <3>. QED
      BY <3>1, RestKeepsToldInv DEF ToldInv, FlushType
  <2>. QED
    BY <2>1, <2>2, <2>3, <2>4, <2>5, <2>6 DEF Next
<1>3. ToldInv => ToldIsOnDisk
  BY ValuesAssumption DEF ToldInv, DiskInv, Has, ToldIsOnDisk, ValuesAssumption
<1>. QED
  BY <1>1, <1>2, <1>3, PTL DEF Spec

-----------------------------------------------------------------------------
(* Types.                                                                  *)

Shapes == [pc : {"none", "open", "write", "rename"}, data : IndexType,
           file : {"tmp", "index", "gone"}]
Jobs == [kind : {"open", "close", "record", "snapshot", "handoff"},
         pc : {"flush", "append", "newline", "read", "fill", "remove", "publish"},
         client : Clients, session : Names]
Lines == [id : 1..MaxEntries, ended : BOOLEAN]

(* The snapshot a request makes: the log as it is.                         *)
DraftOf(s) == [id |-> SnapshotId(s), log |-> EntriesOf(log[s])]

(* The worker's place in its request says what it has prepared: an id that *)
(* is free, the line that has no end yet, the copy of the log, which nobody*)
(* else appends to, and the directory with all its files.                  *)
StoreInv ==
  /\ TypeOK
  /\ flush \in [Threads -> Shapes]
  /\ flush["worker"].pc # "none" => job.pc = "flush"
  /\ dirs \in [Ids -> SnapshotType \cup {Missing}]
  /\ job \in Jobs \cup {NoJob}
  /\ up # "up" => job = NoJob
  /\ job.pc = "append" => mem.next <= MaxEntries
  /\ job.pc = "newline" => log[job.session] # <<>>
  /\ job.pc \in {"fill", "remove", "publish"} => draft = DraftOf(job.session)
  /\ job.pc \in {"remove", "publish"} => drafts[job.session] = Files
  /\ unpacked # Missing => unpacked \in packs

(* The entries of a log: one more for a line, the same for its newline.    *)
LEMMA EntriesTyped ==
  ASSUME NEW lines \in Seq(Lines)
  PROVE  EntriesOf(lines) \in Seq(EntryType) /\ Len(EntriesOf(lines)) = Len(lines)
<1>. DEFINE entries == EntriesOf(lines)
<1>1. entries \in [1..Len(lines) -> EntryType]
  <2>1. \A i \in 1..Len(lines) : lines[i] \in Lines
    OBVIOUS
  <2>2. \A line \in Lines : [id |-> line.id] \in EntryType
    BY DEF EntryType, Lines
  <2>. QED
    BY <2>1, <2>2, Zenon DEF EntriesOf
<1>. QED
  BY <1>1

(* A line more is an entry more.                                           *)
LEMMA EntriesOfLine ==
  ASSUME NEW lines \in Seq(Lines), NEW n \in 1..MaxEntries
  PROVE  EntriesOf(Append(lines, Line(n))) = Append(EntriesOf(lines), [id |-> n])
<1>1. Append(lines, Line(n)) \in Seq(Lines)
  BY DEF Lines, Line
<1>. QED
  BY <1>1, EntriesTyped DEF EntriesOf, Line

(* The end of a line is no entry.                                          *)
LEMMA EntriesOfNewline ==
  ASSUME NEW lines \in Seq(Lines), lines # <<>>
  PROVE  /\ EndLast(lines) \in Seq(Lines)
         /\ EntriesOf(EndLast(lines)) = EntriesOf(lines)
<1>. DEFINE n == Len(lines)
            last == [id |-> lines[n].id, ended |-> TRUE]
            ended == [lines EXCEPT ![n] = last]
<1>1. n \in 1..n /\ lines[n] \in Lines
  OBVIOUS
<1>2. last \in Lines /\ last.id = lines[n].id
  BY <1>1 DEF Lines
<1>3. ended \in Seq(Lines) /\ Len(ended) = Len(lines)
  BY <1>1, <1>2
<1>4. \A i \in 1..Len(lines) : ended[i].id = lines[i].id
  BY <1>1, <1>2
<1>. QED
  BY <1>3, <1>4 DEF EntriesOf, EndLast

(* An empty store, no flush and no draft are of their types.               *)
LEMMA NothingIsTyped ==
  /\ NoSessions \in IndexType /\ NoFlush \in Shapes /\ NoFlush.pc = "none"
  /\ NoJob.pc = "none"
BY DEF NoSessions, IndexType, Stores, Statuses, NoFlush, Shapes, NoJob

(* The steps of a flush.                                                   *)
LEMMA FlushKeepsStoreInv ==
  ASSUME StoreInv, NEW t \in Threads,
         \/ OpenTmp(t) \/ WriteTmp(t)
         \/ t = "main" /\ (MainRenames \/ MainFlush)
  PROVE  StoreInv'
<1>0. "main" \in Threads /\ "worker" \in Threads /\ flush[t] \in Shapes
  BY DEF Threads, StoreInv
<1>1. UNCHANGED <<up, mem, log, job, snapshots, clients, packs>>
      /\ served' \in BOOLEAN /\ raced' \in BOOLEAN
  BY DEF OpenTmp, WriteTmp, MainRenames, MainFlush, StoreInv, TypeOK, history
<1>2. /\ index' \in IndexType \cup {Missing, Torn}
      /\ tmp' \in IndexType \cup {Missing, Torn}
  <2>1. Filled(t, tmp) \cup Filled(t, index) \subseteq IndexType \cup {Torn}
    BY <1>0 DEF Filled, Shapes
  <2>. QED
    BY <2>1 DEF OpenTmp, WriteTmp, MainRenames, MainFlush, RenameTmp, StoreInv, TypeOK
<1>3. /\ flush' \in [Threads -> Shapes]
      /\ flush["worker"].pc = "none" => flush'["worker"].pc = "none"
  <2>1. CASE OpenTmp(t)
    <3>1. [flush[t] EXCEPT !.pc = "write"] \in Shapes
      BY <1>0 DEF Shapes
    <3>. QED
      BY <1>0, <2>1, <3>1 DEF OpenTmp, StoreInv
  <2>2. CASE WriteTmp(t)
    <3>1. [flush[t] EXCEPT !.pc = "rename", !.data = NoSessions] \in Shapes
      BY <1>0, NothingIsTyped DEF Shapes
    <3>. QED
      BY <1>0, <2>2, <3>1 DEF WriteTmp, StoreInv
  <2>3. CASE MainRenames
    <3>1. \A u \in Threads : /\ [flush[u] EXCEPT !.file = Moved(u)] \in Shapes
                             /\ [flush[u] EXCEPT !.file = Moved(u)].pc = flush[u].pc
      BY DEF Moved, Shapes, StoreInv
    <3>. QED
      BY <1>0, <2>3, <3>1, NothingIsTyped DEF MainRenames, RenameTmp, StoreInv
  <2>4. CASE MainFlush /\ t = "main"
    <3>1. [pc |-> "open", data |-> mem, file |-> "tmp"] \in Shapes
      BY DEF Shapes, StoreInv, TypeOK
    <3>. QED
      BY <1>0, <2>4, <3>1 DEF MainFlush, Collect, StoreInv
  <2>. QED
    BY <2>1, <2>2, <2>3, <2>4
<1>4. \A u \in Threads :
        /\ flush'[u].pc \in {"none", "open", "write", "rename"}
        /\ flush'[u].data \in IndexType
        /\ flush'[u].file \in {"tmp", "index", "gone"}
  BY <1>3 DEF Shapes
<1>. QED
  BY <1>1, <1>2, <1>3, <1>4 DEF StoreInv, TypeOK, DraftOf, clients, snapshots

(* The end of the worker's flush: the answer, or the snapshot.             *)
LEMMA WorkerRenamesKeepsStoreInv ==
  ASSUME StoreInv, WorkerRenames \/ WorkerRenameFails
  PROVE  StoreInv'
<1>0. "worker" \in Threads /\ flush["worker"].pc = "rename" /\ job \in Jobs
      /\ job.pc = "flush" /\ up = "up"
  BY NothingIsTyped DEF Threads, StoreInv, WorkerRenames, WorkerRenameFails, Renames
<1>1. /\ UNCHANGED <<up, mem, served, raced, log, snapshots, packs>>
      /\ index' \in {index, tmp} /\ tmp' \in {tmp, Missing}
      /\ flush'["worker"].pc = "none"
      /\ flush' \in [Threads -> Shapes]
  <2>1. \A u \in Threads : [flush[u] EXCEPT !.file = Moved(u)] \in Shapes
    BY DEF Moved, Shapes, StoreInv
  <2>2. UNCHANGED <<up, mem, served, raced, log, snapshots, packs>>
    BY DEF WorkerRenames, WorkerRenameFails, history
  <2>3. CASE WorkerRenames
    <3>1. /\ index' = tmp /\ tmp' = Missing
          /\ flush' = [u \in Threads |-> IF u = "worker" THEN NoFlush
                                         ELSE [flush[u] EXCEPT !.file = Moved(u)]]
      BY <2>3 DEF WorkerRenames, RenameTmp
    <3>2. flush'["worker"].pc = "none" /\ flush' \in [Threads -> Shapes]
      BY <1>0, <2>1, <3>1, NothingIsTyped
    <3>. QED
      BY <2>2, <3>1, <3>2
  <2>4. CASE WorkerRenameFails
    <3>1. /\ index' = index /\ tmp' = tmp
          /\ flush' = [flush EXCEPT !["worker"] = NoFlush]
      BY <2>4 DEF WorkerRenameFails
    <3>2. flush'["worker"].pc = "none" /\ flush' \in [Threads -> Shapes]
      BY <1>0, <3>1, NothingIsTyped DEF StoreInv
    <3>. QED
      BY <2>2, <3>1, <3>2
  <2>. QED
    BY <2>3, <2>4
<1>2. job' = NoJob \/ job' = [job EXCEPT !.pc = "read"]
  BY DEF WorkerRenames, WorkerRenameFails, Answer, Fails
<1>3. /\ job' \in Jobs \cup {NoJob}
      /\ job'.pc \in {"none", "read"}
  BY <1>0, <1>2, NothingIsTyped DEF Jobs
<1>4. /\ current' \in [Clients -> Names \cup {NoSession}]
      /\ told' \in [Names -> Statuses]
  <2>1. job.client \in Clients /\ job.session \in Names
    BY <1>0 DEF Jobs
  <2>2. mem.status[job.session] \in Statuses
    BY <2>1 DEF StoreInv, TypeOK, IndexType, Stores
  <2>3. /\ current \in [Clients -> Names \cup {NoSession}]
        /\ told \in [Names -> Statuses]
    BY DEF StoreInv, TypeOK
  <2>4. CASE Answer
    BY <2>1, <2>2, <2>3, <2>4 DEF Answer, Told
  <2>5. CASE Fails \/ UNCHANGED clients
    BY <2>1, <2>3, <2>5 DEF Fails, clients
  <2>. QED
    BY <2>4, <2>5 DEF WorkerRenames, WorkerRenameFails
<1>5. \A u \in Threads :
        /\ flush'[u].pc \in {"none", "open", "write", "rename"}
        /\ flush'[u].data \in IndexType
        /\ flush'[u].file \in {"tmp", "index", "gone"}
  BY <1>1 DEF Shapes
<1>. QED
  BY <1>0, <1>1, <1>3, <1>4, <1>5 DEF StoreInv, TypeOK, DraftOf, snapshots

(* The requests of the tools.                                              *)
LEMMA ToolsKeepStoreInv ==
  ASSUME StoreInv, Tools
  PROVE  StoreInv'
<1>0. PICK c \in Clients :
        \/ Record(c)
        \/ \E s \in Names :
             \/ Open(c, s)
             \/ \E kind \in {"close", "handoff"} : Close(c, s, kind)
             \/ Snapshot(c, s)
        \/ \E id \in Ids : Resume(c, id)
  BY DEF Tools
<1>1. /\ job = NoJob /\ up = "up"
      /\ UNCHANGED <<up, index, tmp, log, snapshots, raced, packs>>
      /\ served' \in BOOLEAN
  BY <1>0 DEF Record, Open, Close, Snapshot, Resume, Free, history, StoreInv, TypeOK
<1>2. "worker" \in Threads /\ flush["worker"].pc = "none"
  BY <1>1, NothingIsTyped DEF StoreInv, Threads
<1>3. ASSUME NEW kind \in {"open", "close", "record", "snapshot", "handoff"},
             NEW pc \in {"flush", "append"}, NEW s \in Names, Serve(kind, pc, c, s)
      PROVE  job' \in Jobs /\ job'.pc = pc
  BY <1>3 DEF Serve, Jobs
<1>4. ASSUME NEW store \in IndexType, flush' = [flush EXCEPT !["worker"] =
               [pc |-> "open", data |-> store, file |-> "tmp"]]
      PROVE  /\ flush' \in [Threads -> Shapes]
             /\ \A u \in Threads :
                  /\ flush'[u].pc \in {"none", "open", "write", "rename"}
                  /\ flush'[u].data \in IndexType
                  /\ flush'[u].file \in {"tmp", "index", "gone"}
  <2>1. [pc |-> "open", data |-> store, file |-> "tmp"] \in Shapes
    BY <1>4 DEF Shapes
  <2>2. flush' \in [Threads -> Shapes]
    BY <1>4, <2>1 DEF StoreInv
  <2>. QED
    BY <2>2 DEF Shapes
<1>5. ASSUME NEW s \in Names, NEW status \in Statuses,
             mem' = [mem EXCEPT !.status[s] = status]
      PROVE  mem' \in IndexType /\ mem'.next = mem.next
  BY <1>5 DEF StoreInv, TypeOK, IndexType, Stores
<1>6. CASE Record(c)
  <2>1. /\ UNCHANGED <<mem, flush, current, told>>
        /\ mem.next <= MaxEntries /\ current[c] # NoSession
        /\ UNCHANGED job \/ Serve("record", "append", c, current[c])
    BY <1>6 DEF Record, clients
  <2>2. current[c] \in Names
    BY <2>1 DEF StoreInv, TypeOK
  <2>3. job' = NoJob \/ (job' \in Jobs /\ job'.pc = "append")
    BY <1>1, <1>3, <2>1, <2>2
  <2>. QED
    BY <1>1, <1>2, <2>1, <2>3, NothingIsTyped DEF StoreInv, TypeOK, snapshots
<1>7. ASSUME NEW s \in Names, Open(c, s) PROVE StoreInv'
  <2>1. /\ mem' = [mem EXCEPT !.status[s] = "open"]
        /\ flush' = [flush EXCEPT !["worker"] =
                       [pc |-> "open", data |-> mem', file |-> "tmp"]]
        /\ Serve("open", "flush", c, s) /\ Told(s, "none")
        /\ UNCHANGED current
    BY <1>7 DEF Open
  <2>2. mem' \in IndexType
    BY <1>5, <2>1 DEF Statuses
  <2>3. job' \in Jobs /\ job'.pc = "flush"
    BY <1>3, <2>1
  <2>4. told' \in [Names -> Statuses]
    BY <2>1 DEF Told, Statuses, StoreInv, TypeOK
  <2>. QED
    BY <1>1, <1>4, <2>1, <2>2, <2>3, <2>4 DEF StoreInv, TypeOK, snapshots
<1>8. ASSUME NEW s \in Names, NEW kind \in {"close", "handoff"}, Close(c, s, kind)
      PROVE  StoreInv'
  <2>1. UNCHANGED <<served, current>>
    BY <1>8 DEF Close
  <2>2. CASE mem.status[s] = "none"
    <3>1. UNCHANGED <<mem, flush, job, told>>
      BY <1>8, <2>2 DEF Close
    <3>. QED
      BY <1>1, <1>2, <2>1, <3>1, NothingIsTyped DEF StoreInv, TypeOK, snapshots
  <2>3. CASE mem.status[s] # "none"
    <3>1. /\ mem' = [mem EXCEPT !.status[s] = "closed"]
          /\ flush' = [flush EXCEPT !["worker"] =
                         [pc |-> "open", data |-> mem', file |-> "tmp"]]
          /\ Serve(kind, "flush", c, s) /\ Told(s, "none")
      BY <1>8, <2>3 DEF Close
    <3>2. mem' \in IndexType
      BY <1>5, <3>1 DEF Statuses
    <3>3. job' \in Jobs /\ job'.pc = "flush"
      BY <1>3, <3>1
    <3>4. told' \in [Names -> Statuses]
      BY <3>1 DEF Told, Statuses, StoreInv, TypeOK
    <3>. QED
      BY <1>1, <1>4, <2>1, <3>1, <3>2, <3>3, <3>4 DEF StoreInv, TypeOK, snapshots
  <2>. QED
    BY <2>2, <2>3
<1>9. ASSUME NEW s \in Names, Snapshot(c, s) PROVE StoreInv'
  <2>1. /\ UNCHANGED <<mem, told>>
        /\ current' = [current EXCEPT ![c] = s]
        /\ \/ UNCHANGED <<flush, job>>
           \/ Collect("worker") /\ Serve("snapshot", "flush", c, s)
    BY <1>9 DEF Snapshot, BecomesCurrent
  <2>2. current' \in [Clients -> Names \cup {NoSession}]
    BY <2>1 DEF StoreInv, TypeOK
  <2>3. CASE UNCHANGED <<flush, job>>
    BY <1>1, <1>2, <2>1, <2>2, <2>3, NothingIsTyped DEF StoreInv, TypeOK, snapshots
  <2>4. CASE Collect("worker") /\ Serve("snapshot", "flush", c, s)
    <3>1. job' \in Jobs /\ job'.pc = "flush"
      BY <1>3, <2>4
    <3>2. mem \in IndexType
      BY DEF StoreInv, TypeOK
    <3>. QED
      BY <1>1, <1>4, <2>1, <2>2, <2>4, <3>1, <3>2 DEF Collect, StoreInv, TypeOK, snapshots
  <2>. QED
    BY <2>1, <2>3, <2>4
<1>10. ASSUME NEW id \in Ids, Resume(c, id) PROVE StoreInv'
  <2>1. /\ UNCHANGED <<mem, flush, job, told>>
        /\ current' = [current EXCEPT ![c] =
                         IF ReadSnapshot(id) = Missing THEN @ ELSE dirs[id].id.of]
    BY <1>10 DEF Resume, SessionOf
  <2>2. ReadSnapshot(id) # Missing => dirs[id].id.of \in Names
    BY DEF ReadSnapshot, StoreInv, TypeOK, SnapshotType, Ids
  <2>3. current' \in [Clients -> Names \cup {NoSession}]
    BY <2>1, <2>2 DEF StoreInv, TypeOK
  <2>. QED
    BY <1>1, <1>2, <2>1, <2>3, NothingIsTyped DEF StoreInv, TypeOK, snapshots
<1>. QED
  BY <1>0, <1>6, <1>7, <1>8, <1>9, <1>10

(* The log of a request's session: a line, then its newline.               *)
LEMMA AppendsKeepStoreInv ==
  ASSUME StoreInv, AppendLine \/ AppendNewline
  PROVE  StoreInv'
<1>1. /\ job \in Jobs /\ job.pc \in {"append", "newline"} /\ job.session \in Names
      /\ up = "up"
      /\ flush["worker"].pc = "none"
  BY NothingIsTyped DEF AppendLine, AppendNewline, StoreInv, Jobs, NoJob, TypeOK, Threads
<1>2. log[job.session] \in Seq(Lines)
  BY <1>1 DEF StoreInv, TypeOK, Lines
<1>3. CASE AppendLine
  <2>1. /\ job.pc = "append"
        /\ mem' = [mem EXCEPT !.next = @ + 1]
        /\ log' = [log EXCEPT ![job.session] = Append(@, Line(mem.next))]
        /\ job' = [job EXCEPT !.pc = "newline"]
        /\ UNCHANGED <<up, served, index, tmp, flush, snapshots, current, told,
                       raced, packs>>
    BY <1>3 DEF AppendLine, clients, history
  <2>2. mem.next \in 1..MaxEntries /\ mem' \in IndexType
    <3>1. mem \in Stores /\ mem.next > 0 /\ mem.next <= MaxEntries
      BY <2>1 DEF StoreInv, TypeOK, IndexType
    <3>2. mem.next \in Nat /\ MaxEntries \in Nat
      BY <3>1, SessionsAssumption DEF Stores, SessionsAssumption
    <3>3. mem' \in Stores /\ mem'.next = mem.next + 1
      BY <2>1, <3>1, <3>2 DEF Stores
    <3>. QED
      BY <3>1, <3>2, <3>3 DEF IndexType
  <2>3. Append(log[job.session], Line(mem.next)) \in Seq(Lines)
    BY <1>2, <2>2 DEF Lines, Line
  <2>4. log' \in [Names -> Seq(Lines)] /\ log'[job.session] # <<>>
    <3>1. Append(log[job.session], Line(mem.next)) # <<>>
      BY <1>2, <2>3
    <3>. QED
      BY <1>1, <2>1, <2>3, <3>1 DEF StoreInv, TypeOK, Lines
  <2>5. job' \in Jobs /\ job'.pc = "newline" /\ job'.session = job.session
    BY <1>1, <2>1 DEF Jobs
  <2>. QED
    BY <1>1, <2>1, <2>2, <2>4, <2>5 DEF StoreInv, TypeOK, Lines, snapshots
<1>4. CASE AppendNewline
  <2>. DEFINE lines == log[job.session]
  <2>1. /\ job.pc = "newline"
        /\ log' = [log EXCEPT ![job.session] = EndLast(@)]
        /\ job' = NoJob
        /\ UNCHANGED <<up, mem, served, index, tmp, flush, snapshots, current,
                       told, raced, packs>>
    BY <1>4 DEF AppendNewline, clients, history
  <2>2. EndLast(lines) \in Seq(Lines)
    BY <1>2, <2>1, EntriesOfNewline DEF StoreInv
  <2>3. log' \in [Names -> Seq(Lines)]
    BY <1>1, <2>1, <2>2 DEF StoreInv, TypeOK, Lines
  <2>. QED
    BY <1>1, <2>1, <2>3, NothingIsTyped DEF StoreInv, TypeOK, Lines, snapshots
<1>. QED
  BY <1>3, <1>4

(* A snapshot: read, fill, make room, publish.                             *)
LEMMA SnapshotKeepsStoreInv ==
  ASSUME StoreInv, ReadLog \/ FillDraft \/ RemoveOld \/ Publish
  PROVE  StoreInv'
<1>1. /\ job \in Jobs /\ job.pc \in {"read", "fill", "remove", "publish"}
      /\ up = "up" /\ job.session \in Names
      /\ flush["worker"].pc = "none"
  BY NothingIsTyped
  DEF ReadLog, FillDraft, FillWith, RemoveOld, Publish, StoreInv, Jobs, NoJob, TypeOK,
      Threads
<1>2. /\ log[job.session] \in Seq(Lines)
      /\ EntriesOf(log[job.session]) \in Seq(EntryType)
  BY <1>1, EntriesTyped DEF StoreInv, TypeOK, Lines
<1>3. DraftOf(job.session) \in PackType /\ DraftOf(job.session).id \in Ids
  <2>1. SnapshotId(job.session) \in Ids
    BY <1>1, SessionsAssumption DEF Ids, SnapshotId, SessionsAssumption
  <2>. QED
    BY <1>2, <2>1 DEF DraftOf, PackType
<1>4. UNCHANGED <<up, mem, served, index, tmp, flush, log, raced, unpacked, current, told>>
  BY DEF ReadLog, FillDraft, FillWith, RemoveOld, Publish, Fails, clients, history
<1>5. ASSUME NEW pc \in {"fill", "remove", "publish"}, job' = [job EXCEPT !.pc = pc]
      PROVE  job' \in Jobs /\ job'.pc = pc /\ job'.session = job.session
  BY <1>1, <1>5 DEF Jobs
<1>7. CASE ReadLog
  <2>1. UNCHANGED <<dirs, packs>>
    BY <1>7 DEF ReadLog, history
  <2>2. CASE job' = NoJob /\ UNCHANGED <<draft, drafts>>
    BY <1>1, <1>4, <2>1, <2>2, NothingIsTyped DEF StoreInv, TypeOK
  <2>3. CASE /\ draft' = DraftOf(job.session)
             /\ drafts' = [drafts EXCEPT ![job.session] = {}]
             /\ job' = [job EXCEPT !.pc = "fill"]
    <3>1. drafts' \in [Names -> DraftType]
      BY <2>3 DEF StoreInv, TypeOK, DraftType
    <3>2. job' \in Jobs /\ job'.pc = "fill" /\ job'.session = job.session
      BY <1>5, <2>3
    <3>3. draft' = DraftOf(job.session)'
      BY <1>4, <2>3, <3>2 DEF DraftOf
    <3>. QED
      BY <1>1, <1>4, <2>1, <3>1, <3>2, <3>3 DEF StoreInv, TypeOK
  <2>. QED
    BY <1>7, <2>2, <2>3 DEF ReadLog, Fails, DraftOf, CopyOf
<1>8. CASE FillDraft
  <2>1. /\ drafts' = [drafts EXCEPT ![job.session] = Files]
        /\ job' = [job EXCEPT !.pc = "remove"] /\ job.pc = "fill"
        /\ UNCHANGED <<dirs, draft, packs>>
    BY <1>8 DEF FillDraft, FillWith, history
  <2>2. drafts' \in [Names -> DraftType] /\ drafts'[job.session] = Files
    BY <1>1, <2>1 DEF StoreInv, TypeOK, DraftType
  <2>3. job' \in Jobs /\ job'.pc = "remove" /\ job'.session = job.session
    BY <1>5, <2>1
  <2>4. draft' = DraftOf(job.session)'
    BY <1>4, <2>1, <2>3 DEF DraftOf, StoreInv
  <2>. QED
    BY <1>1, <1>4, <2>1, <2>2, <2>3, <2>4 DEF StoreInv, TypeOK
<1>9. CASE RemoveOld
  <2>1. /\ dirs' = [dirs EXCEPT ![draft.id] = Missing]
        /\ job' = [job EXCEPT !.pc = "publish"] /\ UNCHANGED <<draft, drafts, packs>>
        /\ job.pc = "remove"
    BY <1>9 DEF RemoveOld, history
  <2>2. /\ job' \in Jobs /\ job'.pc = "publish" /\ job'.session = job.session
    BY <1>5, <2>1
  <2>3. dirs' \in [Ids -> SnapshotType \cup {Missing}]
    BY <2>1 DEF StoreInv
  <2>4. \A id \in Ids : dirs'[id] # Missing => dirs'[id] = dirs[id]
    BY <2>1 DEF StoreInv
  <2>5. draft' = DraftOf(job.session)'
    BY <1>4, <2>1, <2>2 DEF DraftOf, StoreInv
  <2>. QED
    BY <1>1, <1>4, <2>1, <2>2, <2>3, <2>4, <2>5 DEF StoreInv, TypeOK
<1>10. CASE Publish
  <2>. DEFINE snapshot == [id |-> draft.id, log |-> draft.log,
                           files |-> drafts[job.session]]
  <2>1. job' = NoJob
    BY <1>10 DEF Publish, Fails
  <2>2. /\ draft \in PackType /\ draft.id \in Ids
        /\ snapshot \in SnapshotType /\ snapshot.id = draft.id
    <3>1. job.pc = "publish"
      BY <1>10 DEF Publish
    <3>2. draft = DraftOf(job.session) /\ drafts[job.session] = Files
      BY <3>1 DEF StoreInv
    <3>. QED
      BY <1>3, <3>2 DEF SnapshotType, PackType
  <2>. HIDE DEF snapshot
  <2>3. \/ /\ dirs' = [dirs EXCEPT ![draft.id] = snapshot]
           /\ drafts' = [drafts EXCEPT ![job.session] = {}]
           /\ packs' = packs \cup {draft}
        \/ UNCHANGED <<dirs, drafts, packs>>
    BY <1>10 DEF Publish, snapshot
  <2>4. /\ dirs' \in [Ids -> SnapshotType \cup {Missing}]
        /\ \A id \in Ids : dirs'[id] # Missing =>
             dirs'[id] \in SnapshotType /\ dirs'[id].id = id
    BY <2>2, <2>3 DEF StoreInv, TypeOK
  <2>5. /\ drafts' \in [Names -> DraftType] /\ packs' \subseteq PackType
        /\ packs \subseteq packs'
    BY <2>2, <2>3 DEF StoreInv, TypeOK, DraftType
  <2>. QED
    BY <1>1, <1>4, <2>1, <2>4, <2>5, NothingIsTyped DEF StoreInv, TypeOK
<1>. QED
  BY <1>7, <1>8, <1>9, <1>10

(* Every set of numbers has a least one.                                   *)
LEMMA LeastNumber ==
  ASSUME NEW T, T \subseteq Nat, T # {}
  PROVE  \E i \in T : \A j \in T : ~(j < i)
<1>. DEFINE below == {1..k : k \in T}
            less == StrictSubsetOrdering(Nat)
            finite == FiniteSubsetsOf(Nat)
<1>1. below \subseteq finite /\ below # {}
  <2>1. \A k \in Nat : 1..k \subseteq Nat /\ IsFiniteSet(1..k)
    BY FS_Interval
  <2>. QED
    BY <2>1 DEF FiniteSubsetsOf
<1>2. IsWellFoundedOn(less, finite)
  BY FS_StrictSubsetOrderingWellFounded
<1>. HIDE DEF less, finite, below
<1>3. \E x \in below : \A y \in below : ~(<<y, x>> \in less)
  BY <1>1, <1>2, WFMin
<1>4. PICK i \in T : \A j \in T : <<1..j, 1..i>> \notin less
  BY <1>3 DEF below
<1>5. ASSUME NEW j \in T, j < i PROVE FALSE
  <2>1. i \in Nat /\ j \in Nat /\ 1..j \subseteq Nat /\ 1..i \subseteq Nat
    OBVIOUS
  <2>2. 1..j \subseteq 1..i /\ i \in 1..i /\ i \notin 1..j
    BY <1>5, <2>1
  <2>3. <<1..j, 1..i>> \in less
    BY <2>1, <2>2 DEF less, StrictSubsetOrdering
  <2>. QED
    BY <1>4, <2>3
<1>. QED
  BY <1>5

(* The first name that is free for an import.                              *)
LEMMA FreeCopyIsFree ==
  ASSUME StoreInv, NEW id \in Ids, HasFree(id)
  PROVE  LET free == [id EXCEPT !.copy = FreeCopy(id)]
         IN  free \in Ids /\ free.of = id.of /\ dirs[free] = Missing
<1>. DEFINE FreeOnes == {n \in 0..MaxCopies : dirs[[id EXCEPT !.copy = n]] = Missing}
<1>1. FreeOnes \subseteq Nat /\ FreeOnes # {}
  BY SessionsAssumption DEF HasFree, SessionsAssumption
<1>. HIDE DEF FreeOnes
<1>2. PICK n \in FreeOnes : \A k \in FreeOnes : ~(k < n)
  BY <1>1, LeastNumber
<1>3. n \in 0..MaxCopies /\ dirs[[id EXCEPT !.copy = n]] = Missing
  BY <1>2 DEF FreeOnes
<1>4. ASSUME NEW k \in 0..(n - 1) PROVE dirs[[id EXCEPT !.copy = k]] # Missing
  <2>1. k < n /\ k \in 0..MaxCopies
    BY <1>3, SessionsAssumption DEF SessionsAssumption
  <2>2. k \notin FreeOnes
    BY <1>2, <2>1
  <2>. QED
    BY <2>1, <2>2 DEF FreeOnes
<1>5. /\ FreeCopy(id) \in 0..MaxCopies
      /\ dirs[[id EXCEPT !.copy = FreeCopy(id)]] = Missing
  BY <1>3, <1>4, Zenon DEF FreeCopy
<1>. QED
  BY <1>5 DEF Ids

(* An import, and the life of the daemon.                                  *)
LEMMA ImportKeepsStoreInv ==
  ASSUME StoreInv, (\E pack \in packs : Unpack(pack)) \/ Import
  PROVE  StoreInv'
<1>0. /\ UNCHANGED <<up, mem, served, index, tmp, flush, log, job, drafts, draft,
                     current, told, raced, packs>>
      /\ DraftOf(job.session)' = DraftOf(job.session)
  BY DEF Unpack, Import, clients, history, DraftOf, SnapshotId
<1>1. CASE \E pack \in packs : Unpack(pack)
  <2>1. UNCHANGED dirs /\ unpacked' \in packs
    BY <1>1 DEF Unpack
  <2>2. unpacked' \in PackType
    BY <2>1 DEF StoreInv, TypeOK
  <2>3. TypeOK'
    BY <1>0, <2>1, <2>2 DEF StoreInv, TypeOK
  <2>. QED
    BY <1>0, <2>1, <2>3 DEF StoreInv
<1>2. CASE Import
  <2>. DEFINE id == [unpacked.id EXCEPT !.copy = FreeCopy(unpacked.id)]
              copy == Imported(unpacked, id)
  <2>1. unpacked \in PackType /\ unpacked.id \in Ids
    BY <1>2 DEF Import, StoreInv, TypeOK, PackType
  <2>2. id \in Ids
    BY <1>2, <2>1, FreeCopyIsFree DEF Import
  <2>3. copy \in SnapshotType /\ copy.id = id
    BY <2>1, <2>2 DEF Imported, SnapshotType, PackType
  <2>. HIDE DEF copy, id
  <2>4. dirs' = [dirs EXCEPT ![id] = copy] /\ unpacked' = Missing
    BY <1>2 DEF Import, id, copy
  <2>5. dirs' \in [Ids -> SnapshotType \cup {Missing}]
        /\ \A i \in Ids : dirs'[i] # Missing =>
             dirs'[i] \in SnapshotType /\ dirs'[i].id = i
    BY <2>2, <2>3, <2>4 DEF StoreInv, TypeOK
  <2>6. TypeOK'
    BY <1>0, <2>4, <2>5 DEF StoreInv, TypeOK
  <2>. QED
    BY <1>0, <2>4, <2>5, <2>6 DEF StoreInv
<1>. QED
  BY <1>1, <1>2

(* What a kill leaves of the snapshot that is being removed.       *)
LEMMA KillLeavesRemains ==
  ASSUME StoreInv, Kill
  PROVE  \/ UNCHANGED dirs
         \/ \E id \in Ids : \E files \in SUBSET dirs[id].files :
              /\ dirs[id] # Missing
              /\ Remains(id, files) \in SnapshotType
              /\ dirs' = [dirs EXCEPT ![id] = Remains(id, files)]
<1>. SUFFICES ASSUME ~UNCHANGED dirs
              PROVE  \E id \in Ids : \E files \in SUBSET dirs[id].files :
                       /\ dirs[id] # Missing
                       /\ Remains(id, files) \in SnapshotType
                       /\ dirs' = [dirs EXCEPT ![id] = Remains(id, files)]
  OBVIOUS
<1>1. /\ job.pc = "remove" /\ dirs[draft.id] # Missing
      /\ \E files \in SUBSET dirs[draft.id].files :
           dirs' = [dirs EXCEPT ![draft.id] = Remains(draft.id, files)]
  BY DEF Kill, KilledRemoving
<1>2. job \in Jobs /\ job.session \in Names /\ draft = DraftOf(job.session)
  BY <1>1, NothingIsTyped DEF StoreInv, Jobs
<1>3. draft.id \in Ids
  BY <1>2, SessionsAssumption DEF Ids, SnapshotId, DraftOf, SessionsAssumption
<1>4. PICK files \in SUBSET dirs[draft.id].files :
        dirs' = [dirs EXCEPT ![draft.id] = Remains(draft.id, files)]
  BY <1>1
<1>5. dirs[draft.id] \in SnapshotType
  BY <1>1, <1>3 DEF StoreInv
<1>6. dirs[draft.id].log \in Seq(EntryType) /\ files \in SUBSET Files
  BY <1>4, <1>5 DEF SnapshotType
<1>7. Remains(draft.id, files) \in SnapshotType
  BY <1>3, <1>6 DEF Remains, SnapshotType
<1>. QED
  BY <1>1, <1>3, <1>4, <1>7

(* Stops, kills and starts: what is gone from memory is not lost from the  *)
(* logs.                                                                   *)
LEMMA LivesKeepStoreInv ==
  ASSUME StoreInv, Stop \/ Kill \/ Start
  PROVE  StoreInv'
<1>0. "worker" \in Threads
  BY DEF Threads
<1>1. CASE Stop \/ Kill
  <2>1. /\ up' = "down" /\ mem' = NoSessions /\ served' = FALSE
        /\ flush' = [t \in Threads |-> NoFlush] /\ job' = NoJob
        /\ UNCHANGED <<log, unpacked, current, told, raced, packs>>
        /\ index' \in {index, mem} /\ tmp' \in {tmp, Missing}
    BY <1>1 DEF Stop, Kill, Gone, history
  <2>2. \A t \in Threads : /\ NoFlush.pc \in {"none", "open", "write", "rename"}
                           /\ NoFlush.data \in IndexType
                           /\ NoFlush.file \in {"tmp", "index", "gone"}
    BY NothingIsTyped DEF Shapes
  <2>3. drafts' \in [Names -> DraftType]
    <3>1. drafts \in [Names -> DraftType]
      BY DEF StoreInv, TypeOK
    <3>2. \A files \in {{}, {"torn manifest"}, {"manifest"}} : files \in DraftType
      BY DEF DraftType, Files
    <3>3. \/ UNCHANGED drafts
          \/ \E files \in {{}, {"torn manifest"}, {"manifest"}} :
               drafts' = [drafts EXCEPT ![job.session] = files]
      BY <1>1 DEF Stop, Kill, KilledFilling
    <3>. QED
      BY <3>1, <3>2, <3>3
  <2>4. /\ dirs' \in [Ids -> SnapshotType \cup {Missing}]
        /\ \A id \in Ids : dirs'[id] # Missing =>
             dirs'[id] \in SnapshotType /\ dirs'[id].id = id
    <3>1. CASE UNCHANGED dirs
      BY <3>1 DEF StoreInv, TypeOK
    <3>2. CASE Kill /\ ~UNCHANGED dirs
      <4>1. PICK id \in Ids : \E files \in SUBSET dirs[id].files :
              /\ Remains(id, files) \in SnapshotType
              /\ dirs' = [dirs EXCEPT ![id] = Remains(id, files)]
        BY <3>2, KillLeavesRemains
      <4>2. \A files : Remains(id, files).id = id
        BY DEF Remains
      <4>. QED
        BY <4>1, <4>2 DEF StoreInv, TypeOK
    <3>. QED
      BY <1>1, <3>1, <3>2 DEF Stop
  <2>. QED
    BY <1>0, <2>1, <2>2, <2>3, <2>4, NothingIsTyped DEF StoreInv, TypeOK
<1>2. CASE Start
  BY <1>2, NothingIsTyped DEF Start, clients, history, snapshots, StoreInv, TypeOK
<1>. QED
  BY <1>1, <1>2

(* Sessions, snapshots and what the two threads hold keep their types, and *)
(* the worker's place in its request says what it has prepared (record_    *)
(* action, create_snapshot).                                               *)
THEOREM StoreInvHolds == Spec => []StoreInv
<1>1. Init => StoreInv
  <2>. SUFFICES ASSUME Init PROVE StoreInv
    OBVIOUS
  <2>1. \A t \in Threads : flush[t] = NoFlush
    BY DEF Init
  <2>2. /\ flush \in [Threads -> Shapes]
        /\ \A t \in Threads :
             /\ flush[t].pc \in {"none", "open", "write", "rename"}
             /\ flush[t].data \in IndexType
             /\ flush[t].file \in {"tmp", "index", "gone"}
    BY <2>1, NothingIsTyped DEF Init, Shapes
  <2>3. log \in [Names -> Seq(Lines)]
    BY DEF Init
  <2>4. flush["worker"].pc = "none" /\ job = NoJob
    BY <2>1, NothingIsTyped DEF Init, Threads
  <2>5. drafts \in [Names -> DraftType]
    BY DEF Init, DraftType
  <2>6. job.pc = "none"
    BY <2>4, NothingIsTyped
  <2>7. dirs \in [Ids -> SnapshotType \cup {Missing}] /\ \A id \in Ids : dirs[id] = Missing
    BY DEF Init
  <2>. QED
    BY <2>2, <2>3, <2>4, <2>5, <2>6, <2>7, NothingIsTyped
    DEF Init, StoreInv, TypeOK, Lines, Statuses
<1>2. StoreInv /\ [Next]_vars => StoreInv'
  <2>. SUFFICES ASSUME StoreInv, [Next]_vars PROVE StoreInv'
    OBVIOUS
  <2>0. "main" \in Threads /\ "worker" \in Threads
    BY DEF Threads
  <2>1. CASE Worker
    BY <2>0, <2>1, FlushKeepsStoreInv, WorkerRenamesKeepsStoreInv,
       AppendsKeepStoreInv, SnapshotKeepsStoreInv DEF Worker
  <2>2. CASE Main
    BY <2>0, <2>2, FlushKeepsStoreInv DEF Main
  <2>3. CASE UNCHANGED vars
    <3>1. UNCHANGED <<up, mem, served, index, tmp, flush, log, job, snapshots, current,
                      told, raced, packs>>
      BY <2>3 DEF vars, daemon, clients, history
    <3>2. TypeOK'
      BY <3>1 DEF StoreInv, TypeOK, snapshots
    <3>. QED
      BY <3>1, <3>2 DEF StoreInv, DraftOf, snapshots
  <2>. QED
    BY <2>1, <2>2, <2>3, ToolsKeepStoreInv, ImportKeepsStoreInv, LivesKeepStoreInv
    DEF Next
<1>. QED
  BY <1>1, <1>2, PTL DEF Spec

(* Sessions, logs, snapshots and what each thread holds keep their types   *)
(* in every interleaving of requests, flushes, kills and imports           *)
(* (session_state.rs, snapshot.rs).                                        *)
THEOREM TypeCorrect == Spec => []TypeOK
<1>1. StoreInv => TypeOK
  BY DEF StoreInv
<1>. QED
  BY <1>1, StoreInvHolds, PTL

-----------------------------------------------------------------------------
(* The promise of SessionLog.                                              *)

(* What SessionLog sees of a state.                                        *)
Logs == [s \in Names |-> EntriesOf(log[s])]
Snaps == [id \in Ids |-> ReadSnapshot(id)]
Seen == {pack.log : pack \in packs}

(* Steps that neither write a log nor touch a snapshot show nothing.       *)
LEMMA RestIsStutter ==
  ASSUME UNCHANGED <<log, dirs, packs>>
  PROVE  UNCHANGED Promise!vars
BY DEF Promise!vars, ReadSnapshot

(* What is read of a directory.                                            *)
Shown(dir) ==
  IF dir # Missing /\ {"manifest", "working_set"} \subseteq dir.files
  THEN dir.log ELSE Missing

(* A snapshot that is read is that of its directory, and its copy is no    *)
(* missing one.                                                            *)
LEMMA SnapIsCopy ==
  ASSUME StoreInv, NEW id \in Ids
  PROVE  /\ Snaps[id] = Shown(dirs[id])
         /\ Snaps[id] # Missing => Snaps[id] = dirs[id].log /\ dirs[id] # Missing
         /\ dirs[id] = Missing => Snaps[id] = Missing
BY DEF Snaps, Shown, ReadSnapshot

(* The snapshots change where a directory does.                            *)
LEMMA SnapsChange ==
  ASSUME StoreInv, NEW id \in Ids, NEW dir,
         dirs' = [dirs EXCEPT ![id] = dir]
  PROVE  Snaps' = [Snaps EXCEPT ![id] = Shown(dir)]
<1>1. \A i \in Ids : dirs'[i] = IF i = id THEN dir ELSE dirs[i]
  BY DEF StoreInv
<1>2. \A i \in Ids : Snaps'[i] = IF i = id THEN Shown(dir) ELSE Snaps[i]
  BY <1>1 DEF Snaps, Shown, ReadSnapshot
<1>. QED
  BY <1>2 DEF Snaps

(* A line that is appended is an entry that is recorded, its newline is    *)
(* nothing new.                                                            *)
LEMMA AppendsRefine ==
  ASSUME StoreInv, AppendLine \/ AppendNewline
  PROVE  [Promise!Next]_(Promise!vars)
<1>1. /\ job \in Jobs /\ job.session \in Names /\ UNCHANGED <<dirs, packs>>
  BY NothingIsTyped
  DEF AppendLine, AppendNewline, StoreInv, Jobs, NoJob, TypeOK, history, snapshots
<1>2. log[job.session] \in Seq(Lines)
  BY <1>1 DEF StoreInv, TypeOK, Lines
<1>3. Snaps' = Snaps /\ Seen' = Seen
  BY <1>1 DEF Snaps, Seen, ReadSnapshot, snapshots
<1>4. CASE AppendLine
  <2>1. /\ mem.next \in 1..MaxEntries
        /\ log' = [log EXCEPT ![job.session] = Append(@, Line(mem.next))]
    <3>1. job.pc = "append" /\ mem \in Stores /\ mem.next > 0
      BY <1>4 DEF AppendLine, StoreInv, TypeOK, IndexType
    <3>2. mem.next \in Nat /\ mem.next <= MaxEntries
      BY <3>1 DEF Stores, StoreInv
    <3>. QED
      BY <1>4, <3>1, <3>2 DEF AppendLine
  <2>2. EntriesOf(Append(log[job.session], Line(mem.next)))
          = Append(EntriesOf(log[job.session]), [id |-> mem.next])
    BY <1>2, <2>1, EntriesOfLine
  <2>3. Logs' = [Logs EXCEPT ![job.session] = Append(@, [id |-> mem.next])]
    <3>1. log = [s \in Names |-> log[s]]
      BY DEF StoreInv, TypeOK
    <3>2. \A s \in Names : log'[s] = IF s = job.session
                                     THEN Append(log[s], Line(mem.next)) ELSE log[s]
      BY <2>1, <3>1
    <3>. QED
      BY <1>1, <2>2, <3>2 DEF Logs
  <2>4. [id |-> mem.next] \in EntryType
    BY <2>1 DEF EntryType
  <2>5. Promise!Record(job.session, [id |-> mem.next])
    BY <1>3, <2>3 DEF Promise!Record, Logs, Snaps, Seen
  <2>. QED
    BY <1>1, <2>4, <2>5 DEF Promise!Next
<1>5. CASE AppendNewline
  <2>1. /\ log[job.session] # <<>>
        /\ log' = [log EXCEPT ![job.session] = EndLast(@)]
    BY <1>5 DEF AppendNewline, StoreInv
  <2>2. EntriesOf(EndLast(log[job.session])) = EntriesOf(log[job.session])
    BY <1>2, <2>1, EntriesOfNewline
  <2>3. Logs' = Logs
    <3>1. log = [s \in Names |-> log[s]]
      BY DEF StoreInv, TypeOK
    <3>2. \A s \in Names : log'[s] = IF s = job.session THEN EndLast(log[s]) ELSE log[s]
      BY <2>1, <3>1
    <3>. QED
      BY <2>2, <3>2 DEF Logs
  <2>. QED
    BY <1>3, <2>3 DEF Promise!vars, Logs, Snaps, Seen
<1>. QED
  BY <1>4, <1>5

(* The old snapshot of a second is withdrawn, and a new one shows the whole*)
(* log, which has not grown since it was read.                             *)
LEMMA SnapshotRefines ==
  ASSUME StoreInv, RemoveOld \/ Publish
  PROVE  [Promise!Next]_(Promise!vars)
<1>. DEFINE dir == SnapshotId(job.session)
<1>1. /\ job \in Jobs /\ job.session \in Names /\ job.pc \in {"remove", "publish"}
      /\ draft = [id |-> dir, log |-> EntriesOf(log[job.session])]
      /\ drafts[job.session] = Files
      /\ UNCHANGED log
  BY NothingIsTyped DEF RemoveOld, Publish, StoreInv, Jobs, NoJob, DraftOf
<1>2. dir \in Ids /\ dir.of = job.session /\ draft.id = dir
      /\ draft.log = EntriesOf(log[job.session])
  BY <1>1, SessionsAssumption DEF Ids, SnapshotId, SessionsAssumption
<1>3. draft.log \in Seq(EntryType)
  BY <1>1, <1>2, EntriesTyped DEF StoreInv, TypeOK, Lines
<1>. HIDE DEF dir
<1>4. Logs' = Logs
  BY <1>1 DEF Logs
<1>5. CASE RemoveOld
  <2>1. dirs' = [dirs EXCEPT ![dir] = Missing] /\ UNCHANGED packs
    BY <1>2, <1>5 DEF RemoveOld, history
  <2>2. Snaps' = [Snaps EXCEPT ![dir] = Missing] /\ Seen' = Seen
    BY <1>2, <2>1, SnapsChange DEF Seen, Shown
  <2>3. CASE Snaps[dir] = Missing
    <3>1. Snaps' = Snaps
      BY <2>2, <2>3 DEF Snaps
    <3>. QED
      BY <1>4, <2>2, <3>1 DEF Promise!vars, Logs, Snaps, Seen
  <2>4. CASE Snaps[dir] # Missing
    <3>1. PICK i \in Ids : i = dir
      BY <1>2
    <3>2. Promise!Withdraw(i)
      BY <1>4, <2>2, <2>4, <3>1 DEF Promise!Withdraw, Logs, Snaps, Seen
    <3>. QED
      BY <3>2 DEF Promise!Next
  <2>. QED
    BY <2>3, <2>4
<1>6. CASE Publish
  <2>. DEFINE snapshot == [id |-> draft.id, log |-> draft.log,
                           files |-> drafts[job.session]]
  <2>1. CASE dirs[dir] # Missing
    <3>1. UNCHANGED <<log, dirs, packs>>
      BY <1>2, <1>6, <2>1 DEF Publish
    <3>. QED
      BY <3>1, RestIsStutter
  <2>2. CASE dirs[dir] = Missing
    <3>1. /\ dirs' = [dirs EXCEPT ![dir] = snapshot]
          /\ packs' = packs \cup {draft}
      BY <1>2, <1>6, <2>2 DEF Publish
    <3>2. /\ snapshot \in SnapshotType /\ snapshot.log = Logs[job.session]
          /\ snapshot.files = Files
      BY <1>1, <1>2, <1>3 DEF SnapshotType, Logs
    <3>3. snapshot # Missing
      BY <3>2, ValuesAssumption DEF ValuesAssumption
    <3>. HIDE DEF snapshot
    <3>4. Snaps' = [Snaps EXCEPT ![dir] = Logs[job.session]]
      <4>1. Snaps' = [Snaps EXCEPT ![dir] = Shown(snapshot)]
        BY <1>2, <3>1, SnapsChange
      <4>2. Shown(snapshot) = Logs[job.session]
        BY <3>2, <3>3 DEF Shown, Files
      <4>. QED
        BY <4>1, <4>2
    <3>5. Seen' = Seen \cup {Logs[job.session]}
      <4>1. draft.log = Logs[job.session]
        BY <1>1, <1>2 DEF Logs
      <4>. QED
        BY <3>1, <4>1 DEF Seen
    <3>6. Snaps[dir] = Missing
      BY <1>2, <2>2, SnapIsCopy
    <3>7. PICK i \in Ids : i = dir
      BY <1>2
    <3>8. Promise!Publish(i)
      <4>1. [id \in Ids |-> id.of][i] = job.session
        BY <1>2, <3>7
      <4>. QED
        BY <1>4, <3>4, <3>5, <3>6, <3>7, <4>1 DEF Promise!Publish, Logs, Snaps, Seen
    <3>. QED
      BY <3>8 DEF Promise!Next
  <2>. QED
    BY <2>1, <2>2
<1>. QED
  BY <1>5, <1>6

(* An import brings back a copy that was published.                        *)
LEMMA ImportRefines ==
  ASSUME StoreInv, Import
  PROVE  [Promise!Next]_(Promise!vars)
<1>. DEFINE dir == [unpacked.id EXCEPT !.copy = FreeCopy(unpacked.id)]
            copy == Imported(unpacked, dir)
<1>1. unpacked \in packs /\ unpacked \in PackType /\ unpacked.id \in Ids
  BY DEF Import, StoreInv, TypeOK, PackType
<1>2. dir \in Ids /\ dirs[dir] = Missing
  BY <1>1, FreeCopyIsFree DEF Import
<1>3. Shown(copy) = unpacked.log
  <2>1. /\ copy \in SnapshotType /\ copy.log = unpacked.log
        /\ copy.files = Files
    BY <1>1, <1>2 DEF Imported, SnapshotType, PackType
  <2>. QED
    BY <2>1, ValuesAssumption DEF Shown, Files, ValuesAssumption
<1>4. UNCHANGED <<log, packs>>
  BY DEF Import, history
<1>5. dirs' = [dirs EXCEPT ![dir] = copy]
  BY DEF Import
<1>. HIDE DEF copy, dir
<1>6. Logs' = Logs /\ Seen' = Seen /\ Snaps' = [Snaps EXCEPT ![dir] = unpacked.log]
  BY <1>2, <1>3, <1>4, <1>5, SnapsChange DEF Logs, Seen
<1>7. Snaps[dir] = Missing /\ unpacked.log \in Seen
  BY <1>1, <1>2, SnapIsCopy DEF Seen
<1>8. PICK i \in Ids : i = dir
  BY <1>2
<1>9. Promise!Import(i)
  BY <1>6, <1>7, <1>8 DEF Promise!Import, Logs, Snaps, Seen
<1>. QED
  BY <1>9 DEF Promise!Next

(* What a kill leaves of a snapshot reads as nothing, as an empty log or as*)
(* it was.                                                                 *)
LEMMA KillRefines ==
  ASSUME StoreInv, Kill
  PROVE  [Promise!Next]_(Promise!vars)
<1>1. UNCHANGED <<log, packs>>
  BY DEF Kill
<1>2. CASE UNCHANGED dirs
  BY <1>1, <1>2, RestIsStutter
<1>3. CASE ~UNCHANGED dirs
  <2>0. PICK id \in Ids : \E files \in SUBSET dirs[id].files :
          /\ dirs[id] # Missing
          /\ Remains(id, files) \in SnapshotType
          /\ dirs' = [dirs EXCEPT ![id] = Remains(id, files)]
    BY <1>3, KillLeavesRemains
  <2>1. PICK files \in SUBSET dirs[id].files :
          /\ dirs[id] # Missing
          /\ Remains(id, files) \in SnapshotType
          /\ dirs' = [dirs EXCEPT ![id] = Remains(id, files)]
    BY <2>0
  <2>2. /\ Logs' = Logs /\ Seen' = Seen
        /\ Snaps' = [Snaps EXCEPT ![id] = Shown(Remains(id, files))]
    BY <1>1, <2>1, SnapsChange DEF Logs, Seen
  <2>3. /\ Remains(id, files).files = files /\ Remains(id, files) # Missing
        /\ Remains(id, files).log \in {dirs[id].log, <<>>}
    BY <2>1, ValuesAssumption DEF Remains, ValuesAssumption
  <2>4. CASE Shown(Remains(id, files)) = Snaps[id]
    <3>1. Snaps' = Snaps
      BY <2>2, <2>4 DEF Snaps
    <3>. QED
      BY <2>2, <3>1 DEF Promise!vars, Logs, Snaps, Seen
  <2>5. CASE Shown(Remains(id, files)) # Snaps[id]
    <3>1. /\ Snaps[id] # Missing
          /\ Shown(Remains(id, files)) \in {Missing, <<>>}
      <4>1. CASE {"manifest", "working_set"} \subseteq files
        <5>1. Shown(Remains(id, files)) = Remains(id, files).log
          BY <2>3, <4>1 DEF Shown
        <5>2. Snaps[id] = dirs[id].log
          BY <2>1, <4>1, SnapIsCopy DEF Shown
        <5>3. dirs[id].log # Missing
          BY <2>1, ValuesAssumption DEF StoreInv, SnapshotType, ValuesAssumption
        <5>. QED
          BY <2>3, <2>5, <5>1, <5>2, <5>3
      <4>2. CASE ~({"manifest", "working_set"} \subseteq files)
        BY <2>3, <2>5, <4>2 DEF Shown
      <4>. QED
        BY <4>1, <4>2
    <3>2. CASE Shown(Remains(id, files)) = Missing
      <4>1. Promise!Withdraw(id)
        BY <2>2, <3>1, <3>2 DEF Promise!Withdraw, Logs, Snaps, Seen
      <4>. QED
        BY <4>1 DEF Promise!Next
    <3>3. CASE Shown(Remains(id, files)) = <<>>
      <4>1. Promise!Hollow(id)
        BY <2>2, <3>1, <3>3 DEF Promise!Hollow, Logs, Snaps, Seen
      <4>. QED
        BY <4>1 DEF Promise!Next
    <3>. QED
      BY <3>1, <3>2, <3>3
  <2>. QED
    BY <2>4, <2>5
<1>. QED
  BY <1>2, <1>3

(* The store keeps what SessionLog promises: no step of a thread, a tool,  *)
(* an import or a start shortens a log, shows a snapshot that is not the   *)
(* whole log of its moment, or changes one that is shown, and a kill       *)
(* changes only the one that is being replaced, to none or to an empty one *)
(* (append_action, create_snapshot, read_snapshot, pack::import).          *)
THEOREM StoreImplementsLog == Spec => KeepsPromise
<1>1. Init => Promise!Init
  BY DEF Init, Promise!Init, EntriesOf, ReadSnapshot
<1>2. StoreInv /\ [Next]_vars => [Promise!Next]_(Promise!vars)
  <2>. SUFFICES ASSUME StoreInv, [Next]_vars PROVE [Promise!Next]_(Promise!vars)
    OBVIOUS
  <2>1. CASE AppendLine \/ AppendNewline
    BY <2>1, AppendsRefine
  <2>2. CASE RemoveOld \/ Publish
    BY <2>2, SnapshotRefines
  <2>3. CASE Import
    BY <2>3, ImportRefines
  <2>4. CASE \/ OpenTmp("worker") \/ WriteTmp("worker") \/ WorkerRenames
             \/ WorkerRenameFails \/ ReadLog \/ FillDraft
    <3>1. UNCHANGED <<log, dirs, packs>>
      BY <2>4 DEF OpenTmp, WriteTmp, WorkerRenames, WorkerRenameFails, ReadLog,
         FillDraft, FillWith, snapshots, history
    <3>. QED
      BY <3>1, RestIsStutter
  <2>5. CASE Main \/ Tools
    <3>1. UNCHANGED <<log, dirs, packs>>
      BY <2>5 DEF Main, OpenTmp, WriteTmp, MainRenames, MainFlush, Tools, Record, Open,
         Close, Snapshot, Resume, snapshots, history
    <3>. QED
      BY <3>1, RestIsStutter
  <2>6. CASE Kill
    BY <2>6, KillRefines
  <2>7. CASE Stop \/ Start \/ (\E pack \in packs : Unpack(pack)) \/ UNCHANGED vars
    <3>1. UNCHANGED <<log, dirs, packs>>
      BY <2>7 DEF Stop, Start, Unpack, vars, daemon, snapshots, history
    <3>. QED
      BY <3>1, RestIsStutter
  <2>. QED
    BY <2>1, <2>2, <2>3, <2>4, <2>5, <2>6, <2>7 DEF Next, Worker
<1>. QED
  BY <1>1, <1>2, StoreInvHolds, PTL DEF Spec, KeepsPromise, Promise!Spec

-----------------------------------------------------------------------------
(* What is listed.                                                         *)

(* Without a kill every directory has all its files, and one with a        *)
(* temporary name is that of the request the worker serves, or was left    *)
(* when its name was taken.                                                *)
Whole ==
  /\ \A id \in Ids : dirs[id] # Missing => dirs[id].files = Files
  /\ \A s \in Names : drafts[s] \in {{}, Files}
  /\ \A s \in Names : drafts[s] = Files =>
       \/ dirs[SnapshotId(s)] # Missing
       \/ job.pc \in {"remove", "publish"} /\ job.session = s

WholeInv == kills \in Nat /\ (kills = 0 => Whole)

(* A request between two steps of a snapshot, or of no snapshot.           *)
LEMMA RestKeepsWholeInv ==
  ASSUME WholeInv, UNCHANGED <<dirs, drafts, kills>>,
         job.pc \notin {"remove", "publish"}
  PROVE  WholeInv'
BY DEF WholeInv, Whole, SnapshotId

(* A snapshot that is made or imported is whole.                           *)
LEMMA SnapshotKeepsWholeInv ==
  ASSUME StoreInv, WholeInv, ReadLog \/ FillDraft \/ RemoveOld \/ Publish \/ Import
  PROVE  WholeInv'
<1>0. UNCHANGED kills
  BY DEF ReadLog, FillDraft, FillWith, RemoveOld, Publish, Import, history
<1>. SUFFICES ASSUME Whole PROVE Whole'
  BY <1>0 DEF WholeInv
<1>1. drafts \in [Names -> DraftType] /\ dirs \in [Ids -> SnapshotType \cup {Missing}]
  BY DEF StoreInv, TypeOK
<1>2. \A s, r \in Names : /\ SnapshotId(s) \in Ids
                         /\ SnapshotId(s) = SnapshotId(r) => s = r
  BY SessionsAssumption DEF SnapshotId, Ids, SessionsAssumption
<1>3. job.pc \in {"read", "fill", "remove", "publish"} => job \in Jobs /\ job.session \in Names
  BY NothingIsTyped DEF StoreInv, Jobs
<1>4. {} # Files
  BY DEF Files
<1>5. CASE ReadLog
  <2>1. /\ UNCHANGED dirs /\ job.pc = "read"
        /\ UNCHANGED drafts \/ drafts' = [drafts EXCEPT ![job.session] = {}]
    BY <1>5 DEF ReadLog
  <2>. QED
    BY <1>1, <1>3, <1>4, <2>1 DEF Whole, SnapshotId
<1>6. CASE FillDraft
  <2>1. /\ UNCHANGED dirs /\ job.pc = "fill"
        /\ drafts' = [drafts EXCEPT ![job.session] = Files]
        /\ job' = [job EXCEPT !.pc = "remove"]
    BY <1>6 DEF FillDraft, FillWith
  <2>2. job'.pc = "remove" /\ job'.session = job.session
    BY <1>3, <2>1 DEF Jobs
  <2>. QED
    BY <1>1, <1>3, <2>1, <2>2 DEF Whole, SnapshotId
<1>7. CASE RemoveOld
  <2>0. draft.id = SnapshotId(job.session)
    <3>1. draft = DraftOf(job.session)
      BY <1>7 DEF RemoveOld, StoreInv
    <3>. QED
      BY <3>1 DEF DraftOf
  <2>1. /\ UNCHANGED drafts /\ job.pc = "remove"
        /\ dirs' = [dirs EXCEPT ![SnapshotId(job.session)] = Missing]
        /\ job' = [job EXCEPT !.pc = "publish"]
    BY <1>7, <2>0 DEF RemoveOld
  <2>2. job'.pc = "publish" /\ job'.session = job.session
    BY <1>3, <2>1 DEF Jobs
  <2>3. \A s \in Names : s # job.session => dirs'[SnapshotId(s)] = dirs[SnapshotId(s)]
    BY <1>1, <1>2, <1>3, <2>1
  <2>4. \A s \in Names : SnapshotId(s)' = SnapshotId(s)
    BY DEF SnapshotId
  <2>. QED
    BY <1>1, <1>3, <2>1, <2>2, <2>3, <2>4 DEF Whole
<1>8. CASE Publish
  <2>. DEFINE snapshot == [id |-> draft.id, log |-> draft.log,
                           files |-> drafts[job.session]]
  <2>1. /\ job.pc = "publish" /\ draft = DraftOf(job.session)
        /\ drafts[job.session] = Files
    BY <1>8 DEF Publish, StoreInv
  <2>2. draft.id = SnapshotId(job.session) /\ snapshot.files = Files
    BY <2>1 DEF DraftOf
  <2>3. \A s \in Names : SnapshotId(s)' = SnapshotId(s)
    BY DEF SnapshotId
  <2>4. CASE dirs[draft.id] # Missing
    <3>1. UNCHANGED <<dirs, drafts>>
      BY <1>8, <2>4 DEF Publish
    <3>. QED
      BY <2>1, <2>2, <2>3, <2>4, <3>1 DEF Whole
  <2>5. CASE dirs[draft.id] = Missing
    <3>1. /\ dirs' = [dirs EXCEPT ![draft.id] = snapshot]
          /\ drafts' = [drafts EXCEPT ![job.session] = {}]
      BY <1>8, <2>5 DEF Publish
    <3>. HIDE DEF snapshot
    <3>2. \A s \in Names : s # job.session =>
            dirs'[SnapshotId(s)] = dirs[SnapshotId(s)] /\ drafts'[s] = drafts[s]
      BY <1>1, <1>2, <1>3, <2>1, <2>2, <3>1
    <3>3. drafts'[job.session] = {}
      BY <1>1, <1>3, <2>1, <3>1
    <3>4. \A id \in Ids : dirs'[id] # Missing => dirs'[id].files = Files
      BY <1>1, <2>2, <3>1 DEF Whole
    <3>. QED
      BY <1>3, <1>4, <2>1, <2>3, <3>2, <3>3, <3>4 DEF Whole
  <2>. QED
    BY <2>4, <2>5
<1>9. CASE Import
  <2>. DEFINE id == [unpacked.id EXCEPT !.copy = FreeCopy(unpacked.id)]
              copy == Imported(unpacked, id)
  <2>1. id \in Ids /\ dirs[id] = Missing
    <3>1. unpacked.id \in Ids
      BY <1>9 DEF Import, StoreInv, TypeOK, PackType
    <3>. QED
      BY <1>9, <3>1, FreeCopyIsFree DEF Import
  <2>2. dirs' = [dirs EXCEPT ![id] = copy] /\ UNCHANGED <<drafts, job>>
    BY <1>9 DEF Import
  <2>3. copy.files = Files
    BY DEF Imported
  <2>4. copy # Missing
    <3>1. copy \in SnapshotType
      BY <1>9, <2>1 DEF Imported, SnapshotType, Import, StoreInv, TypeOK, PackType
    <3>. QED
      BY <3>1, ValuesAssumption DEF ValuesAssumption
  <2>. HIDE DEF copy, id
  <2>5. \A i \in Ids : dirs'[i] = IF i = id THEN copy ELSE dirs[i]
    BY <1>1, <2>2
  <2>. QED
    BY <1>2, <2>2, <2>3, <2>4, <2>5 DEF Whole, SnapshotId
<1>. QED
  BY <1>5, <1>6, <1>7, <1>8, <1>9

(* Unless the daemon is killed, what session_snapshot_list names can be    *)
(* read in full, but for a pack that is still being imported               *)
(* (create_snapshot and list_snapshots, snapshot.rs; import, pack.rs).     *)
THEOREM ListedCanBeRead == Spec => []ListedIsWhole
<1>1. Init => WholeInv
  <2>. SUFFICES ASSUME Init PROVE WholeInv
    OBVIOUS
  <2>1. /\ \A id \in Ids : dirs[id] = Missing
        /\ \A s \in Names : drafts[s] = {}
        /\ kills = 0
    BY DEF Init
  <2>. QED
    BY <2>1 DEF WholeInv, Whole, Files
<1>2. StoreInv /\ WholeInv /\ [Next]_vars => WholeInv'
  <2>. SUFFICES ASSUME StoreInv, WholeInv, [Next]_vars PROVE WholeInv'
    OBVIOUS
  <2>1. CASE ReadLog \/ FillDraft \/ RemoveOld \/ Publish \/ Import
    BY <2>1, SnapshotKeepsWholeInv
  <2>2. CASE \/ OpenTmp("worker") \/ WriteTmp("worker") \/ WorkerRenames
             \/ WorkerRenameFails
    <3>1. flush["worker"].pc # "none" /\ UNCHANGED <<dirs, drafts, kills>>
      BY <2>2 DEF OpenTmp, WriteTmp, WorkerRenames, WorkerRenameFails, Renames, snapshots,
         history
    <3>2. job.pc = "flush"
      BY <3>1 DEF StoreInv
    <3>. QED
      BY <3>1, <3>2, RestKeepsWholeInv
  <2>3. CASE AppendLine \/ AppendNewline \/ Tools
    <3>1. /\ job.pc \in {"append", "newline"} \/ job = NoJob
          /\ UNCHANGED <<dirs, drafts, kills>>
      BY <2>3 DEF AppendLine, AppendNewline, Tools, Record, Open, Close, Snapshot, Resume,
         Free, snapshots, history
    <3>2. job.pc \notin {"remove", "publish"}
      BY <3>1, NothingIsTyped
    <3>. QED
      BY <3>1, <3>2, RestKeepsWholeInv
  <2>4. CASE Main \/ (\E pack \in packs : Unpack(pack)) \/ UNCHANGED vars
    <3>1. UNCHANGED <<dirs, drafts, kills, job>>
      BY <2>4 DEF Main, OpenTmp, WriteTmp, MainRenames, MainFlush, Unpack, vars, daemon,
         snapshots, history
    <3>. QED
      BY <3>1 DEF WholeInv, Whole, SnapshotId
  <2>5. CASE Stop \/ Start
    <3>1. job = NoJob /\ UNCHANGED <<dirs, drafts, kills>>
      BY <2>5 DEF Stop, Start, StoreInv, snapshots, history
    <3>. QED
      BY <3>1, NothingIsTyped, RestKeepsWholeInv
  <2>6. CASE Kill
    BY <2>6 DEF Kill, WholeInv
  <2>. QED
    BY <2>1, <2>2, <2>3, <2>4, <2>5, <2>6 DEF Next, Worker
<1>3. StoreInv /\ WholeInv => ListedIsWhole
  <2>. SUFFICES ASSUME StoreInv, Whole, job = NoJob
                PROVE  /\ ListMayFail => unpacked # Missing
                       /\ \A id \in Listed :
                            \/ dirs[id] # Missing /\ dirs[id].files = Files
                            \/ unpacked # Missing /\ unpacked.id = id
    BY DEF WholeInv, ListedIsWhole
  <2>1. "torn manifest" \notin Files /\ "manifest" \in Files
    BY DEF Files
  <2>2. \A s \in Names : SnapshotId(s) \in Ids
    BY SessionsAssumption DEF SnapshotId, Ids, SessionsAssumption
  <2>3. \A s \in Names : drafts[s] # {} =>
          drafts[s] = Files /\ dirs[SnapshotId(s)] # Missing
    BY NothingIsTyped DEF Whole
  <2>4. ASSUME NEW s \in Names, "manifest" \in drafts[s]
        PROVE  LET id == SnapshotId(s) IN dirs[id] # Missing /\ dirs[id].files = Files
    BY <2>2, <2>3, <2>4 DEF Whole
  <2>5. ListMayFail => unpacked # Missing
    BY <2>1, <2>3 DEF ListMayFail
  <2>6. ASSUME NEW id \in Listed
        PROVE  \/ dirs[id] # Missing /\ dirs[id].files = Files
               \/ unpacked # Missing /\ unpacked.id = id
    BY <2>4 DEF Listed, Whole
  <2>. QED
    BY <2>5, <2>6
<1>. QED
  BY <1>1, <1>2, <1>3, StoreInvHolds, PTL DEF Spec

-----------------------------------------------------------------------------
(* The ids of entries.                                                     *)

Below(next) == \A s \in Names : \A i \in 1..Len(log[s]) : log[s][i].id < next

(* What a start reads gives no id that a log has.                          *)
DiskBelow ==
  /\ index = Missing => Below(1)
  /\ index \in IndexType => Below(index.next)

(* A daemon that has recorded nothing has taken no id, and the worker, the *)
(* only one that flushes then, writes the number it was started with.      *)
Unserved ==
  /\ flush["main"].pc = "none"
  /\ job.pc # "append"
  /\ flush["worker"].pc \in {"open", "write"} => flush["worker"].data.next = mem.next
  /\ flush["worker"].pc \in {"open", "write"} => flush["worker"].file = "tmp"
  /\ (flush["worker"].pc = "rename" /\ tmp \in IndexType) => tmp.next = mem.next

(* Ids rise along every log, and nothing that numbers the next entry, in   *)
(* memory or on the disk it will be read from, is behind a log.            *)
RisingIds ==
  /\ \A s \in Names : \A i, j \in 1..Len(log[s]) : i < j => log[s][i].id < log[s][j].id
  /\ up = "up" => Below(mem.next)
  /\ (up # "up" \/ ~served) => DiskBelow

IdInv ==
  /\ up # "up" => ~served
  /\ ~served => Unserved
  /\ \A pack \in packs :
       /\ Len(pack.log) <= Len(log[pack.id.of])
       /\ \A i \in 1..Len(pack.log) : pack.log[i].id = log[pack.id.of][i].id
  /\ kills \in Nat /\ (kills = 0 => RisingIds)

(* A daemon that has a service to flush, and may write sessions.json as it *)
(* likes while it runs: the next start is behind its stop.                 *)
LEMMA ServedKeepsIdInv ==
  ASSUME IdInv, UNCHANGED <<up, mem, log, packs, kills>>, up = "up", served'
  PROVE  IdInv'
BY DEF IdInv, RisingIds, Below

(* A step that is no matter of ids.                                        *)
LEMMA RestKeepsIdInv ==
  ASSUME IdInv,
         UNCHANGED <<up, mem, served, index, tmp, flush, log, packs, kills>>,
         job'.pc = "append" => served
  PROVE  IdInv'
BY DEF IdInv, Unserved, RisingIds, Below, DiskBelow

(* The steps of a flush.                                                   *)
LEMMA FlushKeepsIdInv ==
  ASSUME StoreInv, IdInv,
         \/ \E t \in Threads : OpenTmp(t) \/ WriteTmp(t)
         \/ MainRenames \/ MainFlush \/ WorkerRenames \/ WorkerRenameFails
  PROVE  IdInv'
<1>1. UNCHANGED <<up, mem, log, packs, served, kills>>
  BY DEF OpenTmp, WriteTmp, MainRenames, MainFlush, WorkerRenames, WorkerRenameFails,
     history
<1>2. CASE served
  BY <1>1, <1>2, ServedKeepsIdInv DEF IdInv
<1>3. CASE ~served
  <2>1. /\ Unserved /\ "worker" \in Threads /\ "main" \in Threads
        /\ flush \in [Threads -> Shapes]
    BY <1>3 DEF IdInv, Threads, StoreInv
  <2>2. OpenTmp("worker") \/ WriteTmp("worker") \/ WorkerRenames \/ WorkerRenameFails
    BY <1>3, <2>1 DEF Unserved, OpenTmp, WriteTmp, MainRenames, MainFlush, Renames, Threads
  <2>3. CASE OpenTmp("worker")
    <3>1. /\ UNCHANGED <<index, job>> /\ flush["worker"].pc = "open"
          /\ flush' = [flush EXCEPT !["worker"].pc = "write"]
      BY <2>3 DEF OpenTmp
    <3>2. /\ flush'["worker"].pc = "write" /\ flush'["main"] = flush["main"]
          /\ flush'["worker"].data = flush["worker"].data
          /\ flush'["worker"].file = flush["worker"].file
      BY <2>1, <3>1 DEF Shapes
    <3>3. Unserved'
      BY <1>1, <2>1, <3>1, <3>2 DEF Unserved
    <3>. QED
      BY <1>1, <3>1, <3>3 DEF IdInv, RisingIds, Below, DiskBelow
  <2>4. CASE WriteTmp("worker")
    <3>1. /\ UNCHANGED <<index, job>> /\ flush["worker"].pc = "write"
          /\ flush' = [flush EXCEPT !["worker"] =
                         [@ EXCEPT !.pc = "rename", !.data = NoSessions]]
          /\ tmp' \in Filled("worker", tmp)
      BY <2>1, <2>4 DEF WriteTmp, Unserved
    <3>2. flush'["worker"].pc = "rename" /\ flush'["main"] = flush["main"]
      BY <2>1, <3>1 DEF Shapes
    <3>3. tmp' = Torn \/ tmp'.next = mem.next
      BY <2>1, <3>1 DEF Filled, Unserved
    <3>4. Unserved'
      BY <1>1, <2>1, <3>1, <3>2, <3>3, ValuesAssumption
      DEF Unserved, ValuesAssumption, IndexType
    <3>. QED
      BY <1>1, <3>1, <3>4 DEF IdInv, RisingIds, Below, DiskBelow
  <2>5. CASE WorkerRenames
    <3>1. /\ flush["worker"].pc = "rename" /\ tmp # Missing
          /\ index' = tmp /\ tmp' = Missing
          /\ flush' = [u \in Threads |-> IF u = "worker" THEN NoFlush
                                         ELSE [flush[u] EXCEPT !.file = Moved(u)]]
      BY <2>5 DEF WorkerRenames, Renames, RenameTmp
    <3>2. job'.pc # "append"
      <4>1. job' = NoJob \/ job' = [job EXCEPT !.pc = "read"]
        BY <2>5 DEF WorkerRenames, Answer
      <4>2. job = NoJob \/ job \in Jobs
        BY DEF StoreInv
      <4>. QED
        BY <4>1, <4>2 DEF Jobs, NoJob
    <3>3. flush'["worker"].pc = "none" /\ flush'["main"].pc = "none"
      BY <2>1, <3>1, NothingIsTyped DEF Unserved, Shapes, Threads
    <3>4. Unserved'
      BY <3>2, <3>3 DEF Unserved
    <3>5. kills = 0 => RisingIds'
      <4>1. kills = 0 /\ up = "up" => Below(mem.next)
        BY DEF IdInv, RisingIds
      <4>2. up = "up"
        BY <2>1, <3>1, NothingIsTyped DEF StoreInv
      <4>3. index' \in IndexType => index'.next = mem.next
        BY <2>1, <3>1 DEF Unserved
      <4>. QED
        BY <1>1, <3>1, <4>1, <4>2, <4>3 DEF IdInv, RisingIds, Below, DiskBelow
    <3>. QED
      BY <1>1, <3>4, <3>5 DEF IdInv
  <2>6. CASE WorkerRenameFails
    <3>1. /\ flush' = [flush EXCEPT !["worker"] = NoFlush] /\ UNCHANGED <<index, tmp>>
          /\ job' = NoJob
      BY <2>6 DEF WorkerRenameFails, Fails
    <3>2. flush'["worker"].pc = "none" /\ flush'["main"].pc = "none" /\ job'.pc = "none"
      BY <2>1, <3>1, NothingIsTyped DEF Unserved, Shapes
    <3>3. Unserved'
      BY <3>2 DEF Unserved
    <3>. QED
      BY <1>1, <3>1, <3>3 DEF IdInv, RisingIds, Below, DiskBelow
  <2>. QED
    BY <2>2, <2>3, <2>4, <2>5, <2>6
<1>. QED
  BY <1>2, <1>3

(* The requests of the tools: all but open and close make a service.       *)
LEMMA ToolsKeepIdInv ==
  ASSUME StoreInv, IdInv, Tools
  PROVE  IdInv'
<1>0. PICK c \in Clients :
        \/ Record(c)
        \/ \E s \in Names :
             \/ Open(c, s)
             \/ \E kind \in {"close", "handoff"} : Close(c, s, kind)
             \/ Snapshot(c, s)
        \/ \E id \in Ids : Resume(c, id)
  BY DEF Tools
<1>1. CASE \/ Record(c)
           \/ \E s \in Names : Snapshot(c, s)
           \/ \E id \in Ids : Resume(c, id)
  <2>1. UNCHANGED <<up, mem, log, packs, kills>> /\ up = "up" /\ served'
    BY <1>1 DEF Record, Snapshot, Resume, Free, history
  <2>. QED
    BY <2>1, ServedKeepsIdInv
<1>2. ASSUME NEW s \in Names, Open(c, s) \/ \E kind \in {"close", "handoff"} : Close(c, s, kind)
      PROVE  IdInv'
  <2>1. /\ job = NoJob /\ up = "up"
        /\ UNCHANGED <<up, served, index, tmp, log, packs, kills>>
    BY <1>2 DEF Open, Close, Free, history
  <2>2. CASE UNCHANGED <<mem, flush, job>>
    BY <2>1, <2>2, NothingIsTyped, RestKeepsIdInv
  <2>3. CASE ~UNCHANGED <<mem, flush, job>>
    <3>1. PICK status : /\ mem' = [mem EXCEPT !.status[s] = status]
                        /\ flush' = [flush EXCEPT !["worker"] =
                                       [pc |-> "open", data |-> mem', file |-> "tmp"]]
                        /\ \E kind : Serve(kind, "flush", c, s)
      BY <1>2, <2>3 DEF Open, Close
    <3>2. mem'.next = mem.next
      BY <3>1 DEF StoreInv, TypeOK, IndexType, Stores
    <3>3. job'.pc = "flush"
      BY <3>1 DEF Serve
    <3>4. /\ flush'["worker"].pc = "open" /\ flush'["worker"].data = mem'
          /\ flush'["worker"].file = "tmp" /\ flush'["main"] = flush["main"]
      BY <3>1 DEF StoreInv, Threads
    <3>5. Unserved => Unserved'
      BY <2>1, <3>2, <3>3, <3>4 DEF Unserved
    <3>. QED
      BY <2>1, <3>2, <3>5 DEF IdInv, RisingIds, Below, DiskBelow
  <2>. QED
    BY <2>2, <2>3
<1>. QED
  BY <1>0, <1>1, <1>2

(* A line takes the next id, and its end changes no id.                    *)
LEMMA AppendsKeepIdInv ==
  ASSUME StoreInv, IdInv, AppendLine \/ AppendNewline
  PROVE  IdInv'
<1>1. /\ job \in Jobs /\ job.session \in Names /\ up = "up"
      /\ UNCHANGED <<up, served, index, tmp, flush, packs, kills>>
  BY NothingIsTyped
  DEF AppendLine, AppendNewline, StoreInv, Jobs, NoJob, TypeOK, history
<1>2. log \in [Names -> Seq(Lines)]
  BY DEF StoreInv, TypeOK, Lines
<1>3. \A pack \in packs : pack.id.of \in Names /\ Len(pack.log) \in Nat
  BY DEF StoreInv, TypeOK, PackType, Ids
<1>4. CASE AppendLine
  <2>. DEFINE line == Line(mem.next)
              lines == log[job.session]
  <2>1. /\ mem.next \in 1..MaxEntries /\ served
        /\ log' = [log EXCEPT ![job.session] = Append(@, line)]
        /\ mem' = [mem EXCEPT !.next = @ + 1]
    <3>1. job.pc = "append" /\ mem \in Stores /\ mem.next > 0
      BY <1>4 DEF AppendLine, StoreInv, TypeOK, IndexType
    <3>2. mem.next \in Nat /\ mem.next <= MaxEntries
      BY <3>1 DEF Stores, StoreInv
    <3>. QED
      BY <1>4, <3>1, <3>2 DEF AppendLine, IdInv, Unserved
  <2>2. mem'.next = mem.next + 1
    BY <2>1 DEF StoreInv, TypeOK, IndexType, Stores
  <2>3. line.id = mem.next /\ line \in Lines
    BY <2>1 DEF Line, Lines
  <2>. HIDE DEF line
  <2>4. \A s \in Names :
          /\ Len(log'[s]) = IF s = job.session THEN Len(log[s]) + 1 ELSE Len(log[s])
          /\ \A i \in 1..Len(log[s]) : log'[s][i] = log[s][i]
    BY <1>1, <1>2, <2>1, <2>3
  <2>5. log'[job.session][Len(lines) + 1].id = mem.next
    BY <1>1, <1>2, <2>1, <2>3
  <2>6. ASSUME kills = 0 PROVE RisingIds'
    <3>1. RisingIds /\ Below(mem.next)
      BY <1>1, <2>6 DEF IdInv, RisingIds
    <3>2. \A s \in Names : \A i \in 1..Len(log'[s]) :
            \/ i \in 1..Len(log[s])
            \/ s = job.session /\ i = Len(lines) + 1
      BY <1>1, <1>2, <2>4
    <3>3. \A s \in Names : \A i \in 1..Len(log[s]) : log[s][i].id \in Nat
      <4>1. \A s \in Names : \A i \in 1..Len(log[s]) : log[s][i] \in Lines
        BY <1>2
      <4>. QED
        BY <4>1, SessionsAssumption DEF Lines, SessionsAssumption
    <3>4. Below(mem.next)'
      BY <1>2, <2>1, <2>2, <2>4, <2>5, <3>1, <3>2, <3>3 DEF Below
    <3>5. ASSUME NEW s \in Names, NEW i \in 1..Len(log'[s]), NEW j \in 1..Len(log'[s]),
                 i < j
          PROVE  log'[s][i].id < log'[s][j].id
      <4>1. i \in 1..Len(log[s])
        BY <1>1, <1>2, <2>4, <3>5
      <4>2. CASE j \in 1..Len(log[s])
        BY <2>4, <3>1, <3>5, <4>1, <4>2 DEF RisingIds
      <4>3. CASE s = job.session /\ j = Len(lines) + 1
        BY <2>4, <2>5, <3>1, <4>1, <4>3 DEF Below
      <4>. QED
        BY <3>2, <4>2, <4>3
    <3>. QED
      BY <1>1, <2>1, <3>4, <3>5 DEF RisingIds
  <2>7. \A pack \in packs :
          /\ Len(pack.log) <= Len(log'[pack.id.of])
          /\ \A i \in 1..Len(pack.log) : pack.log[i].id = log'[pack.id.of][i].id
    <3>. SUFFICES ASSUME NEW pack \in packs
                  PROVE  /\ Len(pack.log) <= Len(log'[pack.id.of])
                         /\ \A i \in 1..Len(pack.log) :
                              pack.log[i].id = log'[pack.id.of][i].id
      OBVIOUS
    <3>1. /\ Len(pack.log) <= Len(log[pack.id.of])
          /\ \A i \in 1..Len(pack.log) : pack.log[i].id = log[pack.id.of][i].id
      BY DEF IdInv
    <3>2. /\ pack.id.of \in Names /\ Len(pack.log) \in Nat
          /\ log[pack.id.of] \in Seq(Lines)
      BY <1>2, <1>3
    <3>3. Len(log[pack.id.of]) \in Nat /\ Len(log[pack.id.of]) <= Len(log'[pack.id.of])
      BY <2>4, <3>2
    <3>4. \A i \in 1..Len(pack.log) : i \in 1..Len(log[pack.id.of])
      BY <3>1, <3>2, <3>3
    <3>5. Len(pack.log) <= Len(log'[pack.id.of])
      <4>1. Len(log'[pack.id.of]) \in Nat
        BY <2>4, <3>2, <3>3
      <4>. QED
        BY <3>1, <3>2, <3>3, <4>1
    <3>. QED
      BY <2>4, <3>1, <3>2, <3>4, <3>5
  <2>. QED
    BY <1>1, <2>1, <2>6, <2>7 DEF IdInv
<1>5. CASE AppendNewline
  <2>. DEFINE lines == log[job.session]
  <2>1. /\ lines # <<>> /\ log' = [log EXCEPT ![job.session] = EndLast(@)]
        /\ UNCHANGED mem /\ job' = NoJob
    BY <1>5 DEF AppendNewline, StoreInv
  <2>2. EntriesOf(EndLast(lines)) = EntriesOf(lines) /\ EndLast(lines) \in Seq(Lines)
    BY <1>1, <1>2, <2>1, EntriesOfNewline
  <2>3. /\ Len(EndLast(lines)) = Len(lines)
        /\ \A i \in 1..Len(lines) : EndLast(lines)[i].id = lines[i].id
    <3>1. Len(EndLast(lines)) = Len(lines)
      BY <1>1, <1>2, <2>2, EntriesTyped
    <3>2. \A i \in 1..Len(lines) :
            EntriesOf(EndLast(lines))[i] = [id |-> EndLast(lines)[i].id]
            /\ EntriesOf(lines)[i] = [id |-> lines[i].id]
      BY <3>1 DEF EntriesOf
    <3>3. ASSUME NEW i \in 1..Len(lines) PROVE EndLast(lines)[i].id = lines[i].id
      <4>1. [id |-> EndLast(lines)[i].id] = [id |-> lines[i].id]
        BY <2>2, <3>2
      <4>2. \A a, b : [id |-> a] = [id |-> b] => a = b
        BY Zenon
      <4>. QED
        BY <4>1, <4>2
    <3>. QED
      BY <3>1, <3>3
  <2>4. \A s \in Names :
          /\ Len(log'[s]) = Len(log[s])
          /\ \A i \in 1..Len(log[s]) : log'[s][i].id = log[s][i].id
    BY <1>2, <2>1, <2>3
  <2>5. RisingIds => RisingIds'
    BY <1>1, <2>1, <2>4 DEF RisingIds, Below, DiskBelow
  <2>6. Unserved => Unserved'
    BY <1>1, <2>1, NothingIsTyped DEF Unserved
  <2>7. \A pack \in packs :
          /\ Len(pack.log) <= Len(log'[pack.id.of])
          /\ \A i \in 1..Len(pack.log) : pack.log[i].id = log'[pack.id.of][i].id
    <3>. SUFFICES ASSUME NEW pack \in packs
                  PROVE  /\ Len(pack.log) <= Len(log'[pack.id.of])
                         /\ \A i \in 1..Len(pack.log) :
                              pack.log[i].id = log'[pack.id.of][i].id
      OBVIOUS
    <3>1. /\ Len(pack.log) <= Len(log[pack.id.of])
          /\ \A i \in 1..Len(pack.log) : pack.log[i].id = log[pack.id.of][i].id
      BY DEF IdInv
    <3>2. /\ pack.id.of \in Names /\ Len(pack.log) \in Nat
          /\ log[pack.id.of] \in Seq(Lines)
      BY <1>2, <1>3
    <3>3. Len(log[pack.id.of]) \in Nat /\ Len(log[pack.id.of]) <= Len(log'[pack.id.of])
      BY <2>4, <3>2
    <3>4. \A i \in 1..Len(pack.log) : i \in 1..Len(log[pack.id.of])
      BY <3>1, <3>2, <3>3
    <3>5. Len(pack.log) <= Len(log'[pack.id.of])
      <4>1. Len(log'[pack.id.of]) \in Nat
        BY <2>4, <3>2, <3>3
      <4>. QED
        BY <3>1, <3>2, <3>3, <4>1
    <3>. QED
      BY <2>4, <3>1, <3>2, <3>4, <3>5
  <2>. QED
    BY <1>1, <2>5, <2>6, <2>7 DEF IdInv
<1>. QED
  BY <1>4, <1>5

(* A snapshot that is published is the log of its session.                 *)
LEMMA SnapshotKeepsIdInv ==
  ASSUME StoreInv, IdInv, ReadLog \/ FillDraft \/ RemoveOld \/ Publish
  PROVE  IdInv'
<1>1. /\ job \in Jobs /\ job.session \in Names
      /\ UNCHANGED <<up, mem, served, index, tmp, flush, log, kills>>
  BY NothingIsTyped
  DEF ReadLog, FillDraft, FillWith, RemoveOld, Publish, StoreInv, Jobs, NoJob, history
<1>2. job'.pc # "append"
  <2>1. \/ job' = NoJob
        \/ \E pc \in {"fill", "remove", "publish"} : job' = [job EXCEPT !.pc = pc]
    BY DEF ReadLog, FillDraft, FillWith, RemoveOld, Publish, Fails
  <2>. QED
    BY <1>1, <2>1 DEF Jobs, NoJob
<1>3. CASE UNCHANGED packs
  BY <1>1, <1>2, <1>3, RestKeepsIdInv
<1>4. CASE ~UNCHANGED packs
  <2>1. packs' = packs \cup {draft} /\ job.pc = "publish"
    BY <1>4 DEF Publish, ReadLog, FillDraft, FillWith, RemoveOld, history
  <2>2. draft.id.of = job.session /\ draft.log = EntriesOf(log[job.session])
    BY <2>1 DEF StoreInv, DraftOf, SnapshotId
  <2>3. log[job.session] \in Seq(Lines)
    BY <1>1 DEF StoreInv, TypeOK, Lines
  <2>4. /\ Len(draft.log) = Len(log[draft.id.of])
        /\ \A i \in 1..Len(draft.log) : draft.log[i].id = log[draft.id.of][i].id
    BY <2>2, <2>3, EntriesTyped DEF EntriesOf
  <2>5. Len(log[draft.id.of]) <= Len(log[draft.id.of])
    BY <2>2, <2>3
  <2>. QED
    BY <1>1, <1>2, <2>1, <2>4, <2>5 DEF IdInv, Unserved, RisingIds, Below, DiskBelow
<1>. QED
  BY <1>3, <1>4

(* What a stop writes and a start reads: the next id, or none if nothing   *)
(* was ever recorded.                                                      *)
LEMMA LivesKeepIdInv ==
  ASSUME StoreInv, IdInv, Stop \/ Kill \/ Start
  PROVE  IdInv'
<1>0. "worker" \in Threads /\ "main" \in Threads
  BY DEF Threads
<1>1. CASE Stop \/ Kill
  <2>1. /\ up = "up" /\ up' = "down" /\ served' = FALSE
        /\ flush' = [t \in Threads |-> NoFlush] /\ job' = NoJob
        /\ UNCHANGED <<log, packs>>
    BY <1>1 DEF Stop, Kill, Gone, history
  <2>2. Unserved'
    BY <1>0, <2>1, NothingIsTyped DEF Unserved
  <2>3. kills' \in Nat /\ (kills' = 0 => kills = 0 /\ Stop)
    BY <1>1 DEF Kill, Stop, history, IdInv
  <2>4. ASSUME kills' = 0 PROVE RisingIds'
    <3>1. Stop /\ RisingIds
      BY <2>3, <2>4 DEF IdInv
    <3>2. CASE served
      <4>1. index' = mem /\ Below(mem.next)
        BY <2>1, <3>1, <3>2 DEF Stop, RisingIds
      <4>2. mem # Missing
        BY ValuesAssumption DEF StoreInv, TypeOK, IndexType, ValuesAssumption
      <4>. QED
        BY <2>1, <3>1, <4>1, <4>2 DEF RisingIds, DiskBelow, Below
    <3>3. CASE ~served
      BY <2>1, <3>1, <3>3 DEF Stop, RisingIds, DiskBelow, Below
    <3>. QED
      BY <3>2, <3>3
  <2>. QED
    BY <2>1, <2>2, <2>3, <2>4 DEF IdInv
<1>2. CASE Start
  <2>1. /\ up = "down" /\ ~served
        /\ UNCHANGED <<served, index, tmp, flush, log, job, packs, kills>>
        /\ \/ index = Torn /\ up' = "broken" /\ UNCHANGED mem
           \/ /\ index # Torn /\ up' = "up"
              /\ mem' = IF index = Missing THEN NoSessions ELSE index
    BY <1>2 DEF Start, clients, history, IdInv
  <2>2. \A t \in Threads : flush[t].pc = "none"
    <3>1. job = NoJob
      BY <2>1 DEF StoreInv
    <3>. QED
      BY <1>0, <2>1, <3>1, NothingIsTyped DEF StoreInv, IdInv, Unserved, Threads
  <2>3. Unserved'
    BY <1>0, <2>1, <2>2 DEF IdInv, Unserved
  <2>4. RisingIds => RisingIds'
    <3>1. index \in IndexType \cup {Missing, Torn} /\ NoSessions.next = 1
      BY DEF StoreInv, TypeOK, NoSessions
    <3>. QED
      BY <2>1, <3>1 DEF RisingIds, DiskBelow, Below
  <2>. QED
    BY <2>1, <2>3, <2>4 DEF IdInv
<1>. QED
  BY <1>1, <1>2

(* The ids of a copy of a log in which they rise: as many as its entries.  *)
LEMMA RisingAreDistinct ==
  ASSUME NEW a, NEW b, a \in Nat, b \in Nat, a <= b,
         NEW f, \A i, j \in 1..b : i < j => f[i] < f[j],
         \A i \in 1..b : f[i] \in Nat
  PROVE  Cardinality({f[i] : i \in 1..b} \ {f[i] : i \in 1..a}) = b - a
<1>. DEFINE S == (a + 1)..b
            T == {f[i] : i \in 1..b} \ {f[i] : i \in 1..a}
            g == [i \in S |-> f[i]]
<1>1. IsFiniteSet(S) /\ Cardinality(S) = b - a
  <2>1. a + 1 \in Int /\ b \in Int
    OBVIOUS
  <2>2. IsFiniteSet(S) /\ Cardinality(S) = IF a + 1 > b THEN 0 ELSE b - (a + 1) + 1
    BY <2>1, FS_Interval
  <2>. QED
    BY <2>2
<1>2. \A i, j \in 1..b : f[i] = f[j] => i = j
  <2>. SUFFICES ASSUME NEW i \in 1..b, NEW j \in 1..b, f[i] = f[j], i # j PROVE FALSE
    OBVIOUS
  <2>1. i < j \/ j < i
    OBVIOUS
  <2>2. f[i] < f[j] \/ f[j] < f[i]
    BY <2>1
  <2>. QED
    BY <2>2
<1>3. \A i \in S : f[i] \in T
  <2>. SUFFICES ASSUME NEW i \in S, NEW j \in 1..a, f[i] = f[j] PROVE FALSE
    OBVIOUS
  <2>. QED
    BY <1>2
<1>4. \A x \in T : \E i \in S : f[i] = x
  <2>. SUFFICES ASSUME NEW i \in 1..b, f[i] \notin {f[j] : j \in 1..a} PROVE i \in S
    OBVIOUS
  <2>. QED
    OBVIOUS
<1>5. g \in Bijection(S, T)
  <2>1. g \in [S -> T]
    BY <1>3
  <2>2. \A i, j \in S : g[i] = g[j] => i = j
    BY <1>2
  <2>3. \A x \in T : \E i \in S : g[i] = x
    BY <1>4
  <2>. HIDE DEF S, T, g
  <2>. QED
    BY <2>1, <2>2, <2>3, Fun_IsBij
<1>. HIDE DEF S, T, g
<1>6. ExistsBijection(S, T)
  BY <1>5 DEF ExistsBijection
<1>7. Cardinality(T) = Cardinality(S)
  BY <1>1, <1>6, FS_Bijection
<1>. QED
  BY <1>1, <1>7 DEF T

(* The diff of two snapshots counts what was done between them: no daemon  *)
(* that was started after a stop gives an id again (next_entry_id, session_*)
(* state.rs; diff_snapshots, snapshot.rs).                                 *)
THEOREM DiffsCountActions == Spec => []DiffCountsActions
<1>1. Init => IdInv
  <2>. SUFFICES ASSUME Init PROVE IdInv
    OBVIOUS
  <2>1. \A t \in Threads : flush[t].pc = "none"
    BY NothingIsTyped DEF Init
  <2>2. \A s \in Names : log[s] = <<>>
    BY DEF Init
  <2>3. Unserved
    BY <2>1, NothingIsTyped DEF Init, Unserved, Threads
  <2>4. RisingIds
    BY <2>2 DEF Init, RisingIds, DiskBelow, Below
  <2>. QED
    BY <2>3, <2>4 DEF Init, IdInv
<1>2. StoreInv /\ IdInv /\ [Next]_vars => IdInv'
  <2>. SUFFICES ASSUME StoreInv, IdInv, [Next]_vars PROVE IdInv'
    OBVIOUS
  <2>0. "main" \in Threads /\ "worker" \in Threads
    BY DEF Threads
  <2>1. CASE Worker
    BY <2>0, <2>1, FlushKeepsIdInv, AppendsKeepIdInv, SnapshotKeepsIdInv DEF Worker
  <2>2. CASE Main
    BY <2>0, <2>2, FlushKeepsIdInv DEF Main
  <2>3. CASE (\E pack \in packs : Unpack(pack)) \/ Import \/ UNCHANGED vars
    <3>1. UNCHANGED <<up, mem, served, index, tmp, flush, log, packs, kills, job>>
      BY <2>3 DEF Unpack, Import, vars, daemon, clients, history
    <3>. QED
      BY <3>1, RestKeepsIdInv DEF IdInv, Unserved
  <2>. QED
    BY <2>1, <2>2, <2>3, ToolsKeepIdInv, LivesKeepIdInv DEF Next
<1>3. StoreInv /\ IdInv => DiffCountsActions
  <2>. SUFFICES ASSUME StoreInv, IdInv, NEW a \in packs, NEW b \in packs,
                       a.id.of = b.id.of, Len(a.log) <= Len(b.log), kills = 0
                PROVE  Cardinality(AddedSearches(a, b)) = Len(b.log) - Len(a.log)
    BY DEF DiffCountsActions
  <2>. DEFINE lines == log[b.id.of]
              f == [i \in 1..Len(b.log) |-> lines[i].id]
  <2>1. /\ a.log \in Seq(EntryType) /\ b.log \in Seq(EntryType)
        /\ b.id.of \in Names
    BY DEF StoreInv, TypeOK, PackType, Ids
  <2>2. lines \in Seq(Lines)
    BY <2>1 DEF StoreInv, TypeOK, Lines
  <2>3. /\ Len(b.log) <= Len(lines)
        /\ \A i \in 1..Len(b.log) : b.log[i].id = f[i]
        /\ \A i \in 1..Len(a.log) : a.log[i].id = f[i]
    BY <2>1, <2>2 DEF IdInv
  <2>4. SearchIds(b) = {f[i] : i \in 1..Len(b.log)}
        /\ SearchIds(a) = {f[i] : i \in 1..Len(a.log)}
    <3>1. DOMAIN a.log = 1..Len(a.log) /\ DOMAIN b.log = 1..Len(b.log)
      BY <2>1
    <3>. HIDE DEF f
    <3>2. /\ {b.log[i].id : i \in 1..Len(b.log)} = {f[i] : i \in 1..Len(b.log)}
          /\ {a.log[i].id : i \in 1..Len(a.log)} = {f[i] : i \in 1..Len(a.log)}
      BY <2>3
    <3>. QED
      BY <3>1, <3>2, Zenon DEF SearchIds
  <2>5. ASSUME NEW i \in 1..Len(b.log), NEW j \in 1..Len(b.log), i < j
        PROVE  f[i] < f[j]
    <3>1. i \in 1..Len(lines) /\ j \in 1..Len(lines)
      BY <2>1, <2>2, <2>3
    <3>2. lines[i].id < lines[j].id
      BY <2>1, <2>5, <3>1 DEF IdInv, RisingIds
    <3>. QED
      BY <3>2
  <2>6. \A i \in 1..Len(b.log) : f[i] \in Nat
    <3>1. \A i \in 1..Len(lines) : lines[i] \in Lines
      BY <2>2
    <3>2. \A i \in 1..Len(b.log) : i \in 1..Len(lines)
      BY <2>1, <2>2, <2>3
    <3>. QED
      BY <3>1, <3>2, SessionsAssumption DEF Lines, SessionsAssumption
  <2>7. Len(a.log) \in Nat /\ Len(b.log) \in Nat
    BY <2>1
  <2>. HIDE DEF f
  <2>. QED
    BY <2>4, <2>5, <2>6, <2>7, RisingAreDistinct DEF AddedSearches
<1>. QED
  BY <1>1, <1>2, <1>3, StoreInvHolds, PTL DEF Spec
=============================================================================
