--------------------------------- MODULE Memo ---------------------------------
(***************************************************************************)
(* The file-read memo: MemoState of the daemon (search-server/src/memo.rs) *)
(* and the hook processes that feed it (search-cli/src/memo_shim.rs).      *)
(* Before an agent reads a file its client runs a hook that asks the       *)
(* daemon, and blocks the read when the answer is skip_reread; after a     *)
(* read, an edit or before a compaction another hook tells the daemon.     *)
(*                                                                         *)
(* Conversations, the people and programs that write files, and the        *)
(* daemon's watcher run concurrently.  A read is four actions:             *)
(*                                                                         *)
(*   idle --ReadCheck--> read --ReadFile--> hook --SendRead--> sent        *)
(*        --ServeRead--> idle                                              *)
(*                                                                         *)
(* Content hashes are the contents themselves: xxh3 is taken to tell them  *)
(* apart.  The counters of a session are left out.                         *)
(***************************************************************************)
EXTENDS Naturals

CONSTANTS
  Conversations,   \* conversations of agents
  Sessions,        \* session ids
  SessionId,       \* SessionId[c]: the id the hooks of c find in the payload
  Files,
  Contents,        \* contents of a file
  Parts,           \* parts of contents that agents read
  Size,            \* Size[x]: estimate_tokens of content or part x
  Gone,            \* the content of a file that cannot be read
  None,            \* Option::None
  PayloadContent,  \* the post-tool-use payload carries what the agent read
  CompactHook,     \* the client has a PreCompact hook
  MaxWrites        \* bound: writes to files

ASSUME MemoAssumption ==
  /\ SessionId \in [Conversations -> Sessions]
  /\ Size \in [Contents \cup Parts -> Nat]
  /\ Parts \cap Contents = {}
  /\ PayloadContent \in BOOLEAN
  /\ CompactHook \in BOOLEAN
  /\ MaxWrites \in Nat
  /\ Gone \notin Contents /\ None \notin Contents

VARIABLES
  disk,     \* the content of each file
  writes,   \* history: writes so far
  changed,  \* files the watcher has events for
  up,       \* the daemon is running
  memo,     \* MemoState.sessions: the files of each session, by id
  tool,     \* the tool call in progress in each conversation
  held      \* history: what of each file a conversation has, whole or in part

vars == <<disk, writes, changed, up, memo, tool, held>>

NoFiles == [f \in Files |-> None]
Nothing == [f \in Files |-> {}]
Idle == [step |-> "idle", file |-> None, hash |-> None, tokens |-> 0]
Call(step, f, hash, tokens) ==
  [step |-> step, file |-> f, hash |-> hash, tokens |-> tokens]

-----------------------------------------------------------------------------
(* What the daemon and the hooks compute.                                  *)

(* read_disk_hash, or 0 *)
DiskHash(f) == IF disk[f] = Gone THEN 0 ELSE disk[f]

(* fs::metadata of the file, as tokens *)
DiskTokens(f) == IF disk[f] = Gone THEN 0 ELSE Size[disk[f]]

(* check and status look at the disk again, whatever the flag was. *)
Refreshed(entry, f) ==
  [entry EXCEPT !.stale = DiskHash(f) = 0 \/ DiskHash(f) # entry.content]

CloseTo(now, before) ==
  /\ before > 0
  /\ 10 * (IF now > before THEN now - before ELSE before - now) < before

(* MemoState::check *)
RecommendByFlag(s, f) ==
  IF memo[s][f] = None THEN "reread"
  ELSE IF ~memo[s][f].stale THEN "skip_reread"
  ELSE IF disk[f] # Gone /\ CloseTo(DiskTokens(f), memo[s][f].tokens)
       THEN "reread_with_diff"
  ELSE "reread"

Recommend(s, f) ==
  IF memo[s][f] = None THEN "reread"
  ELSE IF ~Refreshed(memo[s][f], f).stale THEN "skip_reread"
  ELSE IF disk[f] # Gone /\ CloseTo(DiskTokens(f), memo[s][f].tokens)
       THEN "reread_with_diff"
  ELSE "reread"

LargerOf(m, n) == IF m > n THEN m ELSE n

(* MemoState::observe of a read: a redundant one only updates the tokens,  *)
(* any other makes the entry anew.                                         *)
Observed(entry, hash, tokens) ==
  IF entry # None /\ ~entry.stale /\ entry.content = hash
  THEN [entry EXCEPT !.tokens = IF tokens > 0 THEN tokens ELSE entry.tokens]
  ELSE [content |-> hash, stale |-> FALSE,
        tokens |-> LargerOf(tokens, IF entry = None THEN 0 ELSE entry.tokens)]

MarkedStale(entry) ==
  IF entry = None THEN None ELSE [entry EXCEPT !.stale = TRUE]

-----------------------------------------------------------------------------
(* A read of a file by the agent of a conversation.                        *)

(* The pre-tool-use hook.  The read is blocked on skip_reread; check has   *)
(* refreshed the entry in any case.  Without a daemon nothing is blocked.  *)
ReadCheck(c, f) ==
  LET s == SessionId[c] IN
  /\ tool[c] = Idle
  /\ tool' = IF up /\ Recommend(s, f) = "skip_reread" THEN tool
             ELSE [tool EXCEPT ![c] = Call("read", f, None, 0)]
  /\ memo' = IF up /\ memo[s][f] # None
             THEN [memo EXCEPT ![s][f] = Refreshed(memo[s][f], f)]
             ELSE memo
  /\ UNCHANGED <<disk, writes, changed, up, held>>

(* What a read of the file can return: all of it, or a part no larger. *)
Readable(f) == {disk[f]} \cup {p \in Parts : Size[p] <= Size[disk[f]]}

(* The tool reads the file, or a part of it, into the conversation; what   *)
(* the payload carries is what was read.                                   *)
ReadFile(c) ==
  LET f == tool[c].file IN
  /\ tool[c].step = "read"
  /\ \/ /\ disk[f] = Gone
        /\ tool' = [tool EXCEPT ![c] = Idle]
        /\ UNCHANGED held
     \/ /\ disk[f] # Gone
        /\ \E x \in Readable(f) :
             /\ tool' = [tool EXCEPT ![c] = Call("hook", f, x, Size[x])]
             /\ held' = [held EXCEPT ![c][f] = @ \cup {x}]
  /\ UNCHANGED <<disk, writes, changed, up, memo>>

(* The post-tool-use hook: find_content_hash and find_tokens take what the *)
(* payload carries, or else look at the file as it is now.                 *)
SendRead(c) ==
  LET f == tool[c].file IN
  /\ tool[c].step = "hook"
  /\ tool' = [tool EXCEPT ![c] =
                IF ~up THEN Idle
                ELSE IF PayloadContent
                     THEN Call("sent", f, tool[c].hash, tool[c].tokens)
                     ELSE Call("sent", f, DiskHash(f), DiskTokens(f))]
  /\ UNCHANGED <<disk, writes, changed, up, memo, held>>

ServeRead(c) ==
  LET s == SessionId[c]
      f == tool[c].file
  IN
  /\ tool[c].step = "sent"
  /\ memo' = [memo EXCEPT ![s][f] =
                Observed(memo[s][f], tool[c].hash, tool[c].tokens)]
  /\ tool' = [tool EXCEPT ![c] = Idle]
  /\ UNCHANGED <<disk, writes, changed, up, held>>

-----------------------------------------------------------------------------
(* The other tool calls and events of a conversation.                      *)

(* The agent changes the file with an edit tool: if it had the file, it    *)
(* has the new content too. *)
EditFile(c, f, x) ==
  /\ tool[c] = Idle
  /\ writes < MaxWrites
  /\ writes' = writes + 1
  /\ disk' = [disk EXCEPT ![f] = x]
  /\ changed' = changed \cup {f}
  /\ held' = IF disk[f] \in held[c][f] THEN [held EXCEPT ![c][f] = @ \cup {x}]
                                     ELSE held
  /\ tool' = [tool EXCEPT ![c] = Call("edited", f, None, 0)]
  /\ UNCHANGED <<up, memo>>

ServeEdit(c) ==
  LET s == SessionId[c]
      f == tool[c].file
  IN
  /\ tool[c].step = "edited"
  /\ memo' = IF up THEN [memo EXCEPT ![s][f] = MarkedStale(memo[s][f])]
                   ELSE memo
  /\ tool' = [tool EXCEPT ![c] = Idle]
  /\ UNCHANGED <<disk, writes, changed, up, held>>

(* The client compacts the conversation after its hook, if it has one. *)
ForgetsNothing(s) == memo
ForgetFiles(s) == [memo EXCEPT ![s] = NoFiles]

Compact(c) ==
  /\ tool[c] = Idle
  /\ held[c] # Nothing
  /\ memo' = IF up /\ CompactHook THEN ForgetFiles(SessionId[c]) ELSE memo
  /\ held' = [held EXCEPT ![c] = Nothing]
  /\ UNCHANGED <<disk, writes, changed, up, tool>>

(* memo_session_end, or prune_idle_sessions before the next request: the   *)
(* session is removed.                                                     *)
DropSession(s) ==
  /\ up
  /\ memo[s] # NoFiles
  /\ memo' = [memo EXCEPT ![s] = NoFiles]
  /\ UNCHANGED <<disk, writes, changed, up, tool, held>>

(* memo_status of a file refreshes its entry as check does. *)
Status(s, f) ==
  /\ up
  /\ memo[s][f] # None
  /\ memo' = [memo EXCEPT ![s][f] = Refreshed(memo[s][f], f)]
  /\ UNCHANGED <<disk, writes, changed, up, tool, held>>

-----------------------------------------------------------------------------
(* The environment and the daemon's life.                                  *)

(* Another program writes the file, or removes it. *)
Write(f, x) ==
  /\ writes < MaxWrites
  /\ x # disk[f]
  /\ writes' = writes + 1
  /\ disk' = [disk EXCEPT ![f] = x]
  /\ changed' = changed \cup {f}
  /\ UNCHANGED <<up, memo, tool, held>>

(* The watcher's on_path_changed: mark_stale_for_all. *)
MarkStaleForAll(f) ==
  /\ up
  /\ f \in changed
  /\ changed' = changed \ {f}
  /\ memo' = [s \in Sessions |->
                [memo[s] EXCEPT ![f] = MarkedStale(memo[s][f])]]
  /\ UNCHANGED <<disk, writes, up, tool, held>>

(* The memo lives in the daemon's memory; requests in flight fail. *)
Stop ==
  /\ up
  /\ up' = FALSE
  /\ memo' = [s \in Sessions |-> NoFiles]
  /\ changed' = {}
  /\ tool' = [c \in Conversations |->
                IF tool[c].step = "sent" THEN Idle ELSE tool[c]]
  /\ UNCHANGED <<disk, writes, held>>

Start ==
  /\ ~up
  /\ up' = TRUE
  /\ changed' = {}
  /\ UNCHANGED <<disk, writes, memo, tool, held>>

-----------------------------------------------------------------------------
Init ==
  /\ disk \in [Files -> Contents]
  /\ writes = 0
  /\ changed = {}
  /\ up = TRUE
  /\ memo = [s \in Sessions |-> NoFiles]
  /\ tool = [c \in Conversations |-> Idle]
  /\ held = [c \in Conversations |-> Nothing]

Next ==
  \/ \E c \in Conversations :
       \/ \E f \in Files : ReadCheck(c, f)
       \/ ReadFile(c)
       \/ SendRead(c)
       \/ ServeRead(c)
       \/ \E f \in Files, x \in Contents : EditFile(c, f, x)
       \/ ServeEdit(c)
       \/ Compact(c)
  \/ \E s \in Sessions : DropSession(s) \/ \E f \in Files : Status(s, f)
  \/ \E f \in Files, x \in Contents \cup {Gone} : Write(f, x)
  \/ \E f \in Files : MarkStaleForAll(f)
  \/ Stop
  \/ Start

Spec == Init /\ [][Next]_vars

-----------------------------------------------------------------------------
(* Properties.                                                             *)

Hashes == Contents \cup Parts \cup {0}
Tokens == {0} \cup {Size[x] : x \in Contents \cup Parts}
Entry == [content : Hashes, tokens : Tokens, stale : BOOLEAN]

(* Every variable keeps its type. *)
TypeOK ==
  /\ disk \in [Files -> Contents \cup {Gone}]
  /\ writes \in 0..MaxWrites
  /\ changed \in SUBSET Files
  /\ up \in BOOLEAN
  /\ memo \in [Sessions -> [Files -> Entry \cup {None}]]
  /\ tool \in [Conversations ->
                 [step : {"idle", "read", "hook", "sent", "edited"},
                  file : Files \cup {None}, hash : Hashes \cup {None},
                  tokens : Tokens]]
  /\ held \in [Conversations -> [Files -> SUBSET (Contents \cup Parts)]]

(* What an entry says was read, and what a report on its way says, the     *)
(* conversation holds.                                                     *)
EntriesAreHeld ==
  \A c \in Conversations, f \in Files :
    LET entry == memo[SessionId[c]][f] IN
    entry # None /\ entry.content \in Contents => entry.content \in held[c][f]

ReportsAreHeld ==
  \A c \in Conversations :
    /\ tool[c].step # "idle" => tool[c].file \in Files
    /\ tool[c].step \in {"hook", "sent"} =>
         /\ tool[c].hash \in Hashes
         /\ tool[c].hash \in Contents => tool[c].hash \in held[c][tool[c].file]

(* The induction behind SkipIsSafe, for hooks that report what the agent   *)
(* read, clients that announce a compaction and sessions of their own for  *)
(* conversations (memo_shim.rs): the daemon never knows more of a          *)
(* conversation than the conversation holds, and knows nothing while down. *)
MemoInv ==
  /\ TypeOK
  /\ ~up => /\ memo = [s \in Sessions |-> NoFiles]
            /\ \A c \in Conversations : tool[c].step # "sent"
  /\ EntriesAreHeld
  /\ ReportsAreHeld

(* README.md:179 "a skip recommendation is only safe when the model still  *)
(* has the content.  The daemon never pretends otherwise": whatever was    *)
(* written, compacted, restarted, dropped or delayed, a read is blocked    *)
(* only when the conversation holds what is on disk.                       *)
SkipIsSafe ==
  \A c \in Conversations, f \in Files :
    up /\ tool[c] = Idle /\ Recommend(SessionId[c], f) = "skip_reread"
      => disk[f] \in held[c][f]

(* docs/codex-memo-skill.md:28 of reread_with_diff: "File changed, but     *)
(* only slightly (<10% size delta)".  It is advised (memo.rs 302-318) only *)
(* when the conversation has, since its last compaction, read something of *)
(* the file that is within a tenth of its size now.  That may be a part: a *)
(* large one is taken for the file, and there is then no whole version to  *)
(* compare with.                                                           *)
DiffIsSlight ==
  \A c \in Conversations, f \in Files :
    up /\ tool[c] = Idle /\ Recommend(SessionId[c], f) = "reread_with_diff"
      => \E x \in held[c][f] : CloseTo(DiskTokens(f), Size[x])
=============================================================================
