# TriSeek in TLA+

TriSeek is a code search engine for agents: a trigram index on disk, a daemon
that keeps the index of a repository up to date and remembers what agents have
read, and an MCP server per client that runs the searches.  This directory
models the parts of it that several threads and processes share, checks them
with TLC on small instances, and proves their safety properties with TLAPS for
all instances.  Paths below are relative to `src/crates` unless they start with
a directory of their own (`docs/`, `README.md`).

- [The system](#the-system)
- [The modules and the code](#the-modules-and-the-code)
- [The runs](#the-runs)
- [What is proved](#what-is-proved)
- [Where code and documents disagree](#where-code-and-documents-disagree)
- [What is not modelled](#what-is-not-modelled)
- [Plan](#plan)

## The system

| Component | State | Operations | Code |
|---|---|---|---|
| Repository service of the daemon | watcher handle, generation, last seen generation, context epoch, journal of changed paths | `ensure_ready`, `reload_if_dirty`, `status`, `check_search_reuse`, `invalidate_search_context` | `search-server/src/main.rs` 56-382 |
| File watcher | events of the OS, pending map, changed paths of the batch | debounce and merge, `apply_incremental_changes`, publish | `search-index/src/watcher.rs` |
| Search reuse of the MCP server | memo of searches, cached engine | `run_and_envelope`, `reindex`, the checks with the daemon | `search-cli/src/mcp/{tools,server,search_memo}.rs` |
| File-read memo | files of each session with hash, tokens, stale flag | `observe`, `check`, `status`, `mark_stale_for_all`, session start and end, pruning | `search-server/src/memo.rs` |
| Memo hooks | none: a process per tool call | pre- and post-tool-use, pre-compact, session-start | `search-cli/src/memo_shim.rs` |
| Index directory | `base.bin`, `fast.idx`, `delta.bin`, `metadata.json` | `build_index`, `update_index`, `apply_incremental_changes`, `SearchEngine::open` | `search-index/src/{build,storage,model,fastindex}.rs` |
| Query engine | shared counter and flag of the thread pool | plan, candidate selection, parallel matching | `search-core/src/{planner,trigram}.rs`, `search-index/src/engine.rs` |
| Router and backends | none | `plan_query`, `route_query`, `adjust_route_for_filters`, the requests of the tools, what they show | `search-core/src/{planner,repo}.rs`, `search-cli/src/{search_runner,rg}.rs` |
| Engine pool, frecency store | loaded engines, when each was used, touches of each root, `frecency.json` | load, prune, record, flush | `search-server/src/main.rs` 425-790, `search-frecency/src/lib.rs` |
| Session store and snapshots | sessions, next entry id, `sessions.json`, action logs, snapshot directories | open, close, record, flush, snapshot, import, resume | `search-server/src/{session_state,snapshot}.rs`, `search-cli/src/{pack,mcp/tools}.rs` |
| Daemon life cycle | port and pid files, listener, queue, worker | start, stop, signal, accept, answer, panic | `search-server/src/main.rs` 578-701, `search-cli/src/main.rs` 1570-1760 |
| Handoff through git | branches, stashes and work tree of a checkout, the remote, packs | prepare, restore, validate | `search-cli/src/{git_handoff,handoff_metadata,pack}.rs` |
| Installers | configuration files of five clients | install, uninstall, doctor | `search-cli/src/install` |
| Walker, usage metrics, context packs, output, benchmarks | see [below](#what-is-not-modelled) | | |

**How they interact.**  The watcher is a thread of the daemon; it writes the
index directory and calls back into the service, which numbers the update and
puts its paths on the journal, and into the memo, which marks files stale.  A
single worker thread of the daemon serves requests; the main loop accepts
connections and flushes the stores every five seconds.  MCP servers, hooks and
command lines are processes of their own: they find the daemon through its port
file, ask it over TCP, and read and write the index directory, `frecency.json`
and the snapshots directly, without a lock.  A handoff is a snapshot by the
daemon and a series of git commands by the client.

**What is hard.** A check of reuse reads the generation, the epoch and the
journal one after the other while the watcher publishes.  Numbers that mean
something under one watcher or daemon are remembered under the next.  Hooks
report a read after it happened, when the file may be another.  Four index
files are three copies of the documents, any process may be killed between two
writes, and readers open one copy after the other.  Threads that match
documents share a limit through relaxed atomics.  Two threads, or two
processes, write one temporary file and rename it.  A handoff sets the user's
work aside and then runs ten commands that may fail.  A daemon that leaves
removes files that another may have written.  PROJECT.json lists each of these
hazards at its line, with the properties that watch it or the reason why none
does.

**What makes it correct.**

- Reuse: an earlier answer is reused only when nothing it mentions has changed
  since and no compaction took it from the conversation; and an edit ends
  reuse.
- Memo: a read is blocked only when the conversation holds what is on disk.
- Index: what a finished job scanned is what readers find, a full build repairs
  anything, and a reader that comes in the middle of one finds the old or the
  new of each file, or loses some when the ids of two generations meet.
- Search: the limit is kept, an answer below it is what a scan of every file
  would find, whichever backend gave it, and a cut is told.
- Sessions: what a client was told of a session survives, a log only grows, and
  a snapshot that is listed is whole unless something was killed.
- Stores: no touch whose flush ended well is lost while one process holds the
  store, and what the daemon knows reaches the disk.
- Handoff: no edit is ever gone; a pack's work is on the remote; what was
  stashed comes back.
- Daemon: it is found, every call ends, and it stops when told to.
- Installers: the user's entries stay, outside of the groups TriSeek takes for
  its own; what ended well is complete or clean.

## The modules and the code

| Module | Models | State and actions |
|---|---|---|
| `ChangeFeed` | watcher thread and `RepoService` of one root | `phase` is the watcher's place in its loop: `Collect`, `Apply` or `ApplyFails`, `Announce` (the `fetch_add`), `Publish` (the callback). The worker's `ensure_ready` is one of `ReadyWithoutIndex`, `StartWatcher`, `ReloadIfDirty`, `AlreadyReady`. `Verdict` is `check_search_reuse`. |
| `SearchReuse` | `ChangeFeed` composed with an MCP server | `pc` follows `run_and_envelope`: a check is `CheckReady`, `CheckRead` (generation and epoch), `CheckFinish` (journal); a search `StatusReady`, `StatusRead`, `Execute`; any request may fail. `Reindex`, other clients, compactions, restarts and other builders come in between; `lost` records the searches whose results a compaction took. |
| `Memo` | `MemoState` and the hooks | a read is `ReadCheck`, `ReadFile`, `SendRead`, `ServeRead`; edits, other writers, the watcher's mark, compactions, pruning and restarts interleave. A read returns the file or a part of it (`Readable`), which the hook reports with its own size. `held` is what a conversation really has. |
| `IndexStore` | writers of the index directory | a job is a list of assignments to files, a `fs::write` being two of them (truncated, filled); `Step` makes one, `Crash` drops the rest. `Opened` is what `SearchEngine::open` would search, were nothing to change meanwhile; `Doubled` counts the document ids that a delta shares with a larger base than it was made on. |
| `IndexReader` | `IndexStore` with a process that opens the index | `SearchEngine::open` file by file: `LoadDelta`, `FindFast`, `ReadMeta`, `OpenFast`, `LoadBase`, `MergeBase`, which loses one of two documents with the same id; `Fail` is each of its `?`. `offered` records what each file was, or a job makes of it, since the open began. |
| `Candidates` | the planner, the trigrams, the filters | operators only. `ExtractRegexLiterals` and `HasAlternation` read a pattern from left to right as the two loops of the code do; `CandidateDocs` is what the index lets through, `MatchingLines` and `PathMatchesFilters` what a direct scan finds. |
| `ContentHits` | the thread pool of one search on the index | each thread goes through `Take`, `Look` (reads `total_found`), `Load`, `Swap` (`compare_exchange`), `SetDone`; reads of files may fail. |
| `Routing` | the router and the two other backends, on top of `ContentHits` | operators only: `SelectedRoute` of a request in given circumstances, `Answer` of the backend it names, and what a tool shows of an answer. `FlagAnswer` is what ripgrep makes of a pattern that begins with a dash. |
| `Serving` | the services of the daemon: engine pool and frecency store, and command lines that write the store too | a request is `Search`, `SearchFails`, `MakeReady`, `Select` or `Resume`; a flush is `OpenTmp`, `WriteTmp`, `Rename` by any process, which keeps writing to the file it has open wherever another one moved it; `FlushRoot` is the main loop's, `Leave` and `Down` its way out. A store is the set of touches it has. |
| `Sessions` | `SessionStore`, snapshots, packs and the MCP tools that use them | `job` is the worker's request and `flush` the place of each thread in `flush_to_disk`; `AppendLine` and `AppendNewline` are the two writes of `writeln!`; `ReadLog`, `FillDraft`, `RemoveOld`, `Publish` are `create_snapshot`, `Unpack` and `Import` the command line's `pack::import`; a kill in the middle of filling or removing a directory leaves a part of it (`KilledFilling`, `KilledRemoving`). `Listed` is what `list_snapshots` names, `ReadSnapshot` what is read of it. |
| `SessionLog` | what the session store promises | logs grow, copies appear whole and are withdrawn, perhaps with the log first. `Sessions` implements it (`KeepsPromise`). |
| `Daemon` | daemons, their files, and the calls of clients | `main` is where a daemon's main thread is, `Starts` and `ShutDown` its steps outside of the loop, one per file written or removed; `backlog` is what its listener holds, `queue` what its worker has before it; a client is `ReadPort`, `Connect`, and waits. |
| `Handoff` | `triseek handoff` and `resume` in two checkouts | one action per git command (`StashIfDirty`, `SwitchBranch`, `PopWork`, `CommitWork`, `PushBranch`, `Fetch`, `FollowBranch`, `CheckCommit`); a commit is the sequence of the works it was built from; users edit, commit and change branches in between. |
| `Install` | install and uninstall of five clients | a command is a list of steps; `ReadFile` and one of `Install`, `InstallFlag`, `InstallOwned`, `Uninstall`, `RemoveOwned` make one, `ReadManifest` and `RemovePlugin` the removal of a Codex plugin, `RunCli` leaves it to the client's own command. |
| `*Proofs` | | the theorems of the module they are named after; `SearchReuseProofs` has those of `ChangeFeed` too, `ContentHitsProofs` those of `Candidates` and `Routing`, `DaemonProofs` those of `Serving` |
| `MC*` | | values for the model checker |

Variables marked `history` in a module record what happened; no action reads
them, except that a bound may.  Operators that stand just before the one they
resemble (`JournalCoversLoosely` before `JournalCovers`) are faulty variants of
it: PROJECT.json pairs each with a property that fails when the original is
replaced by it.

**Abstractions that matter.** Content hashes are contents, so collisions do not
exist.  A file-system event is its path, and in `IndexStore` the path and its
last kind.  The debounce is the fact that `Collect` may happen at any time.
Documents have ASCII characters, so that folding a character is folding a byte,
and do not change during a search.  The regex crate is the set of words a
pattern matches, given with the request.  In `Candidates` all postings are
current; how they become so is the matter of `IndexStore`, and an engine has
its documents from the moment it opened them.  Scores of the frecency store do
not decay: a touch is there or not.  What ripgrep does with a request is taken
from the arguments the code gives it.  Git is what its documentation says of
the commands that are run: a pop conflicts when a file of the stash is dirty or
was changed by commits since, and then leaves the stash in the list.  The five
clients' configuration files differ in format only.

## The runs

| Run | Properties | What it shows |
|---|---|---|
| `MCChangeFeed` | `UnchangedIsTrue`, `ChangedHasCause` | verdicts agree with what was published, with eviction, failures and restarts |
| `MCSearchReuse` | `ReuseIsSafe`, `CompactionEndsReuse`, `MemoFollowsEngine` | the same end to end, with the reads of a check apart; what a compaction took is not reused |
| `MCReuseLive` | `EditEndsReuse` | reuse ends after an edit |
| `MCMemo` | `SkipIsSafe`, `DiffIsSlight` | skips are safe for hooks that report what was read, and diffs are advised over something of nearly the size of the file |
| `MCIndexReader` | `FinishedJobIsVisible`, `BuildRecovers`, `FoundWasThere` | a job alone on a sound index is visible when done; a full build repairs what crashes and overlaps leave; an open next to a job finds of each file what it was or is to be, but for documents whose ids meet |
| `MCIndexLive` | `EditBecomesSearchable` | the watcher gets every edit into the index at some time |
| `MCContentHits` | `LimitKept`, `HitsAreMatches`, `MissesNothing`, `SeedsSuffice`, `RoutesAgree`, `TruncationIsTold`, `SearchEnds` | the index hides nothing, the limit is kept, the threads end; the backends agree wherever the router sends a request, and a cut answer is called so |
| `MCServing` | `StoreKeepsAll`, `PoolKeepsLatest`, `TouchesReachDisk` | the store that one process held at a time has what it should, whoever was killed; the pool keeps what was used last; touches reach the disk |
| `MCSessions` | `ToldIsOnDisk`, `DiffCountsActions`, `ListedIsWhole`, `KeepsPromise` | what a client was told survives kills; two snapshots differ by what was done between them; what is listed is whole while nothing is killed; the store implements `SessionLog` |
| `MCDaemon` | `TypeOK`, `FoundWhileAlone`, `EveryCallEnds`, `AskedDaemonStops` | a daemon that was alone is found; no command waits for ever; a daemon told to stop ends |
| `MCHandoff` | `NothingLost`, `PackHoldsWork`, `QuietResume`, `WorkComesBack`, `ResumeArrives` | work is in the tree, a stash or a commit, whatever fails; packs name commits that have it; stashes come back |
| `MCInstall` | `UsersEntriesStay`, `InstallIsComplete`, `UninstallIsClean` | the user's entries stay through killed and repeated commands, outside of the groups TriSeek takes for its own; what ended well is complete or clean |

**Bounds.** `JournalLimit` stands for 256 and is 2 (`MCChangeFeed`) or 1
(`MCSearchReuse`): three generations evict from it, which is all its size is
about.  `MaxGeneration`, `MaxEpoch`, `MaxLife`, `MaxVersion`, `MaxWrites`,
`MaxEdits`, `MaxRuns`, `MaxCalls`, `MaxTouches`, `MaxEntries` and the numbers
of faults cap counters; `MaxLife` 3 lets a watcher, its absence and another
watcher follow each other, so batches of a dead watcher meet those of a live
one in the journal.  One search over one of two files is enough for reuse,
since entries of the memo do not affect each other.  `Memo` has two
conversations with one file whose contents have 20, 21 and 40 tokens, and reads
of it in full or of a part of 20, so that a diff is advised between the first
two, and over the part.  In `IndexStore`, `OtherDocs` 7
(`MCIndexReader`) and 8 (`MCIndexLive`) put a change of one file on either side
of the ratio at which an update becomes a full build (4 changes count against
the documents of the base, a changed file twice), and the file that comes and
goes makes a base larger than the one a delta was made on; one reader stands for all,
since readers change nothing.  `ContentHits` has three threads, so that two can
change the counter between a load and a swap of the third, and limits of 0, 1,
2, 3 and more than there are lines; `MCSizes` has the size of a repository on
both sides of every bound of `classify_repo`, and of the patterns `-v` is a flag
of ripgrep and `->` is refused by it.  `Serving` has two roots and one
place in the pool, so that every second search evicts, one command line beside
the daemon, two touches (one the daemon's, one the command line's, or both of
one) and one fault.  `Sessions` has one session and one client: the races are
between the two threads of the daemon, and two entries are what a duplicate id
needs.  `FlushesOn` FALSE keeps the main loop from flushing again after two flushes have
overlapped or the daemon was killed, which keeps the run short: what one overlap
can do, also together with a kill, and what a kill leaves for the next daemon is
there.  The theorems need no such bound.  `Daemon` has two daemons that may overlap and two clients, one of which
starts daemons (`Starters`) while the other stops and calls them; two starts of
the one already make two daemons, when a stop came in between or the first has
not written its port.  `Handoff` has two checkouts, one file
that both edit, and four commands: out and back, twice, or two that race for
the branch.  `Install` has three commands, two edits and two entries of the user's, of which
one may share a matcher group: install, break, uninstall, repair, install.

**Deadlock** is not checked: each of these systems may rest, or stops at the
bounds of its counters or when its search is over.

**Fairness.** `MCReuseLive` assumes that the watcher thread goes on, in the
model `WF` of its whole loop: the loop is a thread without other duties, and
`recv_timeout` returns.  It does not assume that events pause; the model has no
clock, and a steady stream of events can postpone a batch for ever in the code
(`search-index/src/watcher.rs` 158-159).  `MCIndexLive` assumes the same of the
watcher's batches and of the writes in them, and that no process is killed.
`MCContentHits` assumes that each thread of the pool runs.  `MCDaemon` assumes
that processes and threads go on: each client's own steps, the deadline of a
start, the main thread and the worker of each daemon; it does not assume that a
client begins a command.  `MCServing` assumes that a flush that has begun goes
on (`WF`), and that the main loop, which comes round every five seconds,
flushes a service that is again and again free (`SF` of `FlushRoot`: the lock
of a store is held during requests only, so it is free infinitely often, but
not always).  None assumes that a client makes a request.

**Choices of the constants.**  `MCSearchReuse` and `MCReuseLive` have a watcher
that can be started (`MemoryRisk` FALSE), and `MCReuseLive` no failing I/O and
no restart of the daemon, which `MCSearchReuse` has; `MCMemo` has session ids of their own, a
pre-compact hook and payloads with content; `MCHandoff` writes packs outside of
the checkout.  What happens otherwise is said
[below](#where-code-and-documents-disagree).

## What is proved

Checked by `tlapm`, for every value of the constants that satisfies the
assumptions of the module:

| Theorem | Statement |
|---|---|
| `SearchReuseProofs!TypeCorrect`, `FeedInvHolds` | `Spec => []TypeOK`, `Spec => []FeedInv` |
| `SearchReuseProofs!ReuseVerdictIsTrue` | `Spec => []UnchangedIsTrue` |
| `SearchReuseProofs!ChangeVerdictHasCause` | `Spec => []ChangedHasCause` |
| `SearchReuseProofs!ReuseInvHolds`, `ReuseIsAlwaysSafe` | `ReuseSpec => []ReuseInv`, `=> []ReuseIsSafe` |
| `SearchReuseProofs!CompactedIsNotReused` | `ReuseSpec => []CompactionEndsReuse` |
| `SearchReuseProofs!MemoKeepsToItsEngine` | `ReuseSpec => []MemoFollowsEngine` |
| `MemoProofs!MemoInvHolds`, `SkipsAreSafe` | `Spec => []MemoInv`, `=> []SkipIsSafe`, for hooks that report what was read |
| `MemoProofs!DiffsAreSlight` | `Spec => []DiffIsSlight`, for the same hooks |
| `IndexStoreProofs!TypeCorrect` | `Spec => []TypeOK` |
| `IndexStoreProofs!BuildsRecover`, `FinishedJobsAreVisible` | `Spec => BuildRecovers`, `Spec => FinishedJobIsVisible` |
| `IndexStoreProofs!OpensFindWhatWas` | `ReadSpec => []FoundWasThere` |
| `ContentHitsProofs!HitsInvHolds`, `EveryHitMatches` | `Spec => []HitsInv`, `=> []HitsAreMatches` |
| `ContentHitsProofs!LimitIsKept` | `Spec => []LimitKept` |
| `ContentHitsProofs!NothingIsMissed` | `Spec => []MissesNothing`, when the seeds of every regex are required by what it matches |
| `ContentHitsProofs!BackendsAgree`, `ToolsTellTruncation` | `Spec => []RoutesAgree`, `=> []TruncationIsTold`, under the same condition (the properties leave out patterns that ripgrep takes for flags) |
| `ContentHitsProofs!SeedsAreRequired` | `Spec => []SeedsSuffice`, when the words of every regex spell its pattern (`IsSpelled`) |
| `DaemonProofs!StoresKeepAll` | `ServeSpec => []StoreKeepsAll` |
| `DaemonProofs!PoolIsLatest` | `ServeSpec => PoolKeepsLatest` |
| `SessionsProofs!TypeCorrect` | `Spec => []TypeOK` |
| `SessionsProofs!StoreImplementsLog` | `Spec => KeepsPromise`: `Sessions` implements `SessionLog` |
| `SessionsProofs!ToldStaysOnDisk` | `Spec => []ToldIsOnDisk` |
| `SessionsProofs!ListedCanBeRead` | `Spec => []ListedIsWhole` |
| `SessionsProofs!DiffsCountActions` | `Spec => []DiffCountsActions` |
| `DaemonProofs!TypeCorrect`, `AloneIsFound` | `Spec => []TypeOK`, `Spec => []FoundWhileAlone` |
| `HandoffProofs!NothingIsEverLost` | `Spec => []NothingLost` |
| `HandoffProofs!PacksHoldWork` | `Spec => []PackHoldsWork` |
| `HandoffProofs!StashesComeBack`, `ResumesArrive` | `Spec => WorkComesBack`, `Spec => ResumeArrives` |
| `HandoffProofs!QuietResumesWork` | `Spec => []QuietResume`, when the pack is not written into the checkout |
| `InstallProofs!EntriesAlwaysStay` | `Spec => []UsersEntriesStay` |
| `InstallProofs!InstallsAreComplete`, `UninstallsAreClean` | `Spec => []InstallIsComplete`, `Spec => []UninstallIsClean` |

**Change feed.**  That Unchanged is true is not inductive: the verdict looks at
the oldest number in the journal to tell whether anything was evicted.
`FeedInv` says that the journal is ordered by watcher and generation, that its
batches touched what they name, and that the last batch of this watcher to
touch a path is in the journal or older than a head that is of this watcher
too.  `Publish` is the step that can break it; `PushShifts` says what it does
to the positions.  An answer at generation g is then unchanged only if no path
of it was touched after g.

**Reuse.**  A check reads the generation first and the journal later.  Between
the two the watcher can publish, but the worker is busy, so the watcher cannot
be replaced: what was stale at the first read stays touched (`ClientInv`), and
`UnchangedIsTrue` of the later journal applies.  `ContextInv` is for
`CompactionEndsReuse`: among the entries that this daemon process answered for,
those whose results a compaction took are of an earlier epoch.  It has to say so
of the numbers a check or a status has read and not yet used, too; `life` and
`since` tell which of them are of this process, because the next one counts its
epochs from 0 again.  No bump can fall between the two halves of a check: the
worker is busy with it.
`EngineInv` says that there is an entry only while an engine is open, and that
its results are of that engine: `with_cached_engine` never replaces an open one,
and `invalidate_cached_engine` drops the entries with it.

**Memo.**  `MemoInv` says that an entry's content, and the content in a report
under way, is one the conversation holds.  `check` compares the entry with the
disk at the moment it answers, so skip implies that the disk is held.  The
assumptions are those of the hooks: own session ids, payload content, a
pre-compact hook.

An entry's tokens, and those of a report under way, are the size of something
the conversation has (`BaseInv`), and a diff is advised when that is within a
tenth of the file as it is (`DiffsAreSlight`).  That it is the whole file, in an
older version, does not follow: an entry keeps the larger of two counts, and a
part may be nearly as large as the file.

**Index.**  A job is a list of assignments and may be killed between any two,
so the invariant must say of every point of the list what the directory holds.
`FullInv` and `PartInv` do, for a job nobody interferes with: what is left of
its list is the tail of a full build, of a delta or of a removal of the delta
(`IsRestOf`), and what is not left has been done (`FullDone`, `DeltaDone`,
`NoDeltaDone`).  `AloneInv` is needed because one such job may not disturb
another, `SoundInv` because a delta shows readers what it should only over a
base that `fast.idx` agrees with; a sound index loses this only to a full build,
which restores it.  `BuildRecovers` follows from the last point of the first
list, `FinishedJobIsVisible` from all three.  Both say of the ids, too, that no
two documents share one (`IdsAreApart`): a delta that is done is numbered above
the base it lies over (`Fits`).

An open reads the delta first and the fast index or the base later, when a
writer may be at any point of its list.  `ReaderInv` says that what it has read
(`DeltaHolds`), or its decision that there is no delta (`FastHolds`), still
goes with what it has to read: each file that the delta covers was offered with
the delta's content, each other file with the content the base has now, if it
has one.  That this holds when the open begins needs what a full build
remembers of the index it takes apart (`BeforeInv`: the delta is removed last,
and until then it agrees with what was there), and that only the last step of a
job finds the metadata torn (`MetaInv`, `CleanInv`).  That it stays is because
a job writes a base or a fast index only to what it offers (`Leaves`).  Were
the delta removed first, as in `FullDropsDeltaFirst`, a reader would take the
old fast index for the current one.  A reader that has read the delta of the
old base and then reads a new, larger base merges ids that meet; what it loses
by that is bounded by their number (`doubled`), and nothing else it finds is
wrong.  `StoreAssumption` has it that a missing, a
torn and a whole file and the contents of a file are different values.

**Search.**  `HitsInv` says that below the limit nothing is set aside: a
document that no thread has, and that was read, has all its lines in the
answer or the limit is reached; a thread that holds back lines would reach the
limit with those it has.  `MatchIsCandidate` shows that a match is a candidate:
a word that stands in a document has its trigrams there (`TrigramsInside`),
which needs that extracted seeds are required by the words (`SeedsRequired`).
Nothing false is found because only candidates are looked at
and what is kept of a document was matched in it (`MatchInv`); a path request
with `path_substrings` is the exception (`PathIsAlternative`).

**Seeds.**  That extracted seeds are required is not true of every regex:
`SeedsSuffice` checks it for eleven, and TLC refutes it for the four of
`MCHardRegexes`.  `SeedsAreRequired` says which regexes keep it.  A pattern is
cut into pieces (`IsCut`): a character that stands for itself, one that does
not, the brackets and members of a class, the parts of a count.  A word spells
it (`Spells`) when it has what the pieces stand for one after the other; of the
pieces only the characters that stand for themselves count, each of them one
character of the word unless `?`, `*` or `{0` follows.  `HasRead` is the
invariant of `extract_regex_literals` between two pieces: every seed so far
occurs in the word, and the literal under way ends where the word has been read
to, but for a last character that may be absent.  A word of an alternation need
only spell a part of the pattern that has a seed, a branch or what the branches
share; `PartHasSeeds` shows, by reading the part and the pattern side by side
(`IsAhead`), that what is a seed of the part is one of the pattern.  The words
of all eleven regexes spell their pattern; of the four hard ones none does: an
optional group, a branch without a seed, the `?` of `(?:` and a class that begins
with a bracket are what `IsSpelled` leaves out.  `SpelledMissNothing` is
`NothingIsMissed` for such requests.  The library has no induction theorem these
provers can use, so `UpTo` takes the least number at which a claim fails
(`LeastNumber`, from the well-foundedness of finite sets under inclusion), and
`ReadingUnfolds` shows by it that the recursive function `Reading` exists.

That the limit is kept is about a sum over the documents (`Lines`).  The proofs
count it without recursion (`LinesAreMarks`): `Count` is the cardinality of a
set, of a pair for each line of each document, and what a document adds to it is
a disjoint union (`FiniteSetTheorems`).  `LinesInv` says that `total_found` is that number,
and why no line counts twice: a document is in the hands of one thread.
`BackendsAgree` puts the above together: with the seeds required, the lines of
the index, of a direct scan and of ripgrep are all the lines wanted, for the
requests whose filters mean the same to them and whose pattern is no flag; `ToolsTellTruncation` then needs only that an
answer which is short of them has as many as its limit.

**Sessions.**  What a client was told is on disk only if the two threads of the
daemon never shared the temporary file (`raced`).  Until they do, `DiskInv`
follows what was told through a flush: it is in the memory of a daemon that is
up, in what each thread is about to write, in the temporary file from write to
rename, and in `sessions.json`; and the two threads are never both past
creating the file.  A kill loses memory and leaves `sessions.json`, which is
why the last part is needed on its own.  `ValuesAssumption` is that the values for no file, a torn file and no session
are none of the files and sessions.

The refinement of `SessionLog` rests on `StoreInv`: what the worker is about to
append, what it has read of a log, and that a snapshot is published from a draft
which is the whole log.  A snapshot request is the only job that reads a log, so
no entry can be appended between its reading and its publishing.  With it each
action of `Sessions` is shown to be a step of `SessionLog` or to leave logs and
copies alone.  A kill may leave any part of a directory that is being replaced
(`KilledRemoving`); what is read of it is still the log, or nothing, or, when
only the log is gone, an empty one, for `read_action_log` takes a missing file
for that (`KillRefines`).  `ListedIsWhole` holds without a kill: `WholeInv` says
that every directory of a final name has all its files, and that a draft which
is listed under such a name is of the request the worker serves or has lost its
name to an import, which then is whole.  `DiffCountsActions` holds without a kill only: `IdInv` says that the
ids of a log rise, and that what numbers the next entry is not behind: the
memory of a daemon that is up, and the disk a start reads while the daemon is
down or has no service yet that would flush.

**Daemon.**  `FoundInv` says that a daemon with which no other overlapped is
the only one alive, and that each file names it from the moment it has written
it until it removes it, the pid file first; the time it loads, which
`FoundWhileAlone` leaves out, is needed for the step that follows.

The type of `Daemon` says that a client is in one place only, which is not
inductive without saying where: `PlaceInv` has the clients in the backlog, the
queue and the hands of the worker of a daemon, each once, and as those that
wait for it.  A daemon that dies drops all of them at once.  The assumption is
that no client is called free or dead.

**Stores.** `DaemonProofs` has the proofs of `Serving` too.  `StoresKeepAll`
needs to follow a flush: `Kinds` and `Threads` say that of the two threads of
the daemon one at most flushes a store, which stays as it is in memory
meanwhile; `RootInv` says, as long as nobody else has held the store, that the
temporary file is torn or has the flusher's store in it, that this store has
all that is in `frecency.json`, and that the daemon's memory has it too.  The
rename then loses nothing.  A kill leaves the temporary file as it is, and the
next flush truncates it.

**Pool.**  `PoolInv` says that `uses` is a linear order, that what is loaded is in
it and that the daemon knows finitely many services.  Marking an engine puts it
last (`MarkUsedIsLatest`), evicting some keeps the order of the rest
(`WithoutIsInOrder`).  That no more stay than allowed is a matter of counting:
finitely many engines that stay have an oldest one (`OneIsOldest`), and all others
are among those used since, of which there are fewer than the limit
(`PrunedKeepsLatest`).

**Install.**  `EntriesInv` is the shape of files and commands on which the edits
rely, together with the property.  `EditsKeepEntries` shows of each kind of edit
that it drops no entry of the user's other than those that share a group with a
command naming triseek (`Kept`); a step that is killed or fails leaves its file
as it was.

That an install is complete looks back over all its steps. `ProgressInv` gives
every step a goal (`Goal`: of an install, that the entry is there or the flag
is on; of an uninstall, that the entry is gone) and says that each step of the
client is still to do or has reached it; a step must therefore not undo the
goal of another, which `StepDone` states and which holds because only the first
step can be done by the client's own command (`McpComesFirst`). A broken-off or
older command leaves nothing the goals depend on.

**Handoff.**  What was edited can move between the work tree, a stash and a
commit, so the invariant has to say where a git command may take it: `Sound`
says that a checkout is on a branch that exists and has what was made in it in
one of the three, `OpSound` that a command under way names a branch and an
entry of the stash list that exist.  The difficult step is `StashIfDirty`, which
finds the new entry as the first line that differs from the list before; the
list grew by one, so there is such a line and it is within the list
(`LeastNumber`, `NewEntryIsThere`).  It need not be the entry that was pushed: no
work is lost by popping another, which is what keeps `NothingLost` true while
`ResumeReappliesStash` below is not.  `RefsAssumption` is that the value of a
branch that does not exist is no commit.

That the work is in the pack, comes back and arrives is the subject of
`WorkInv`.  It says for each place of a command what has been done so far
(`OnTrack`): of a list of stashes that was empty, that it has at most the entry
of this command and that the work is in the tree, in that entry or committed
(`HasBefore`); that the remote has what a pack is about to name (`HasPushed`);
that a resume stays on the commit it checked (`HasArrived`).  Commits are
sequences, and that the remote keeps what it has is the transitivity of being a
prefix (`PrefixOfPrefix`).  `WorkComesBack` asks for an empty list when the
command began, because then the first line that differs is the new entry.
`BareInv`, for `QuietResume`, says that no work tree and no stash has the file of
a pack; it holds when `PackInRepo` is false, and with the command line's default
the property is violated (below).

**Only model-checked.**

- Liveness: `EditEndsReuse`, `EditBecomesSearchable`, `SearchEnds`,
  `EveryCallEnds`, `AskedDaemonStops`, `TouchesReachDisk`.  Out of the prover's
  reach.
- That regexes outside of `IsSpelled` have seeds their matches require: the
  theorem about `SeedsSuffice` does not say they have none.

All other properties of the runs are proved, for every value of the constants
that satisfies the assumptions and, where the table says so, a condition.  The
conditions are not for the proofs' sake: TLC violates the property where one does
not hold (below).  Type invariants that no run lists, those of `Serving`,
`Install` and `Handoff`, are proved as far as the inductive invariants contain
them.

## Where code and documents disagree

The modules state these claims, and TLC refutes each of them in a few seconds
when it is made a property of the named instance with the constants given.

- `BatchKeepsOthers` (`MCIndexLive`): `apply_incremental_changes` builds the
  delta from the latest batch only and overwrites `delta.bin`
  (`search-index/src/build.rs` 403), so the files of the batch before go back
  to their content in the base; `docs/regression-test-plan.md` 493 says
  "updated content becomes searchable without restarting daemon".
- `ResultsAreFresh` (`MCSearchReuse`, no failing I/O, restarts or others): the
  MCP server keeps the engine it opened first (`search-cli/src/mcp/server.rs`
  136), so a search that is executed because something changed is answered from
  the old index, and memoised under the new generation; `docs/mcp.md` 125 says
  "if relevant files changed, TriSeek executes the search and returns fresh
  results".
- `SkipIsSafe` (`MCMemo` with `PayloadContent` FALSE): a hook whose payload has
  no content hashes the file as it is when the hook runs, not as it was read
  (`memo_shim.rs` 293), and a partial read counts as a read of the whole file;
  `README.md` 179 says "The daemon never pretends otherwise".  The same with
  `SessionId <- MCSharedId`: conversations without a session id share the
  session "default".
- `MissesNothing` (`MCContentHits` with `Requests <- MCHardRegexes`):
  `(nnn)?abc`, `cba|ab`, `(?:abc)` and `[]a]bc` have extracted literals that
  their matches lack, so documents that match are not read; the comment at
  `search-core/src/planner.rs` 200 says "handles alternation (picks longest
  branch), optional quantifiers, groups, and character classes correctly".
- `ResumeReappliesStash` (`MCHandoff`): with a stash of an earlier command in
  the list every line of it gets a new number, and the first line that differs
  need not be the new one (`search-cli/src/git_handoff.rs` 217-221), so another
  stash may be popped; `docs/mcp.md` 672 says "stashes local target changes
  [...] reapplies the stash".
- `QuietResume` (`MCHandoff` with `PackInRepo` TRUE): the pack that a metadata
  handoff writes into the checkout, the command line's default, is a dirty file
  the snapshot does not list, so resuming in that very checkout fails
  (`search-cli/src/main.rs` 958); `docs/mcp.md` 548 says the target "must
  already match the snapshot commit and dirty-file list".

What else the models show, or what reading the code for them did:

- The session-start hook calls `memo_session_start`, which does not bump the
  context epoch (`search-cli/src/memo_shim.rs` 36-42, `search-server/src/main.rs`
  965-973), so a new conversation of a client that keeps its MCP server is told
  to reuse results it never saw; `search_memo.rs` 4 says "an earlier search
  result already in conversation context".  `CompactionEndsReuse` speaks of the
  PreCompact hook, which bumps it.
- A start that begins after a stop was answered is told "daemon already running"
  by the daemon that leaves; `README.md` 281 gives "`triseek daemon stop` then
  `triseek daemon start`" as the way to restart.
- A pattern that begins with a dash is a flag to ripgrep (`search-cli/src/rg.rs`
  73): `->` fails, and `-v` shows the lines without a dot, which the tools do
  not call truncated, when the router sends the search there
  (`search-core/src/planner.rs` 109-125).  `RoutesAgree` and `TruncationIsTold`
  are violated in `MCContentHits` without `ReadAsFlag`.
- The ids of a delta begin above those of its base (`search-index/src/build.rs`
  286, 387), a full build numbers from 1 (192), and `RuntimeIndex::from_snapshots`
  looks documents up by id (`model.rs` 114-131): an open that reads the old
  delta and then the new, larger base loses documents that may have nothing to
  do with the changes, although "merges base + delta correctly" is the comment
  at `engine.rs` 70.  `FoundWasThere` bounds their number by `doubled`.
- `session_snapshot_list` takes every directory with a manifest
  (`search-server/src/snapshot.rs` 106-119): what a kill left of a draft
  (`.tmp`) or of an unpacked pack (`import-*`) is listed for good, under an id
  that may have no directory; a manifest that is torn makes the list fail until
  somebody removes it; and what a kill left of a snapshot that was being
  replaced is listed though it cannot be read, or reads as if nothing had been
  done.  Hence `kills = 0` in `ListedIsWhole`, and `Hollow` in `SessionLog`.
- `MemoryRisk = TRUE` in `MCReuseLive`: a root that is too large for a watcher
  has a constant generation, and every repeated search is reused.
  After a restart of the daemon epochs and generations count from 0 again, and
  numbers recorded under the previous process become current by accident:
  `ReuseIsSafe` and `CompactionEndsReuse` speak of entries of this one.
- Between `Announce` and `Publish` a check answers Unchanged under a generation
  whose batch it has not seen.
- A partial read is filed with the tokens of the part (`memo_shim.rs` 314-316).
  When that is within a tenth of the file, a diff is advised (`memo.rs` 302-318)
  to a conversation that has the part only and no version to compare with;
  `docs/codex-memo-skill.md` 28 says "File changed, but only slightly (<10% size
  delta)".  `DiffIsSlight` asks for something of nearly that size, no more.
- `Noted` never turns deleted into changed: a file that is replaced by
  removing and creating it within one batch leaves the index.
- A build killed between `base.bin` and `fast.idx` leaves a base that
  `update_index` finds no fault with, while readers use the old or torn
  `fast.idx`; this is why `FinishedJobIsVisible` asks for a sound index.  A
  batch that meets the build of another process is dropped with a message.
- A path request with `path_substrings` too: the index returns files that match
  the pattern or one of the substrings, a direct scan those that match both.
  Ripgrep gets the filters of several kinds as alternatives where the index
  intersects them, limits each file instead of the answer, and refuses patterns
  with a line break.  These are the exceptions of `RoutesAgree`.
- The overlap of two flushes of `sessions.json` (`raced` in `Sessions`) can put
  older content over newer, fail the caller, or, with a kill, leave a torn file
  with which no daemon starts.  A kill between the two writes of `writeln!`
  joins the next entry to the line, and the log is unreadable from then on;
  entry ids may be given twice after a kill.
- Two `triseek daemon start` at once may leave a daemon the port file does not
  name; a daemon that leaves removes the files of its successor.  `shared` in
  `Daemon` marks both.
- A failing git command after the stash returns without popping it: the work is
  in the stash list (`NothingLost`) but not given back.
- A command line that writes `frecency.json` while the daemon runs is
  overwritten by the daemon's next flush, and two writers may leave a mixture
  that is read as an empty store: `alone` in `Serving` marks both.
- The engine pool is pruned after answered searches only; searches that fail
  may leave more engines loaded than allowed.
- A matcher group in which any command names triseek is taken for TriSeek's own
  and dropped, the user's hooks in it too (`install/shared.rs` 674, 699,
  719-743); `install/mod.rs` 6 says "merge-preserving edits".  The histories of
  `Install` leave such hooks out (`shared`).  An unreadable file is taken for an
  absent one, and a write between the read and the replacement of a file is
  lost (`excused`).
- Uninstalling OpenCode and Pi removes the file of TriSeek's name whatever it
  holds; the other clients look for the mark first, and remove what is there
  when they come to it (`shared.rs` 530-536).  A Codex plugin that was never
  completed, or that a kill left half removed, is never removed.

## What is not modelled

- The walker and its ignore rules: the set of documents is a constant, or what
  the disk holds.  Usage metrics: counters and an event log that no decision
  reads.  Context packs, briefs and hydration texts, output formats: documents
  made from what the modules model.  Benchmarks.
- Of the MCP server: more than one root, the query cache, the limit of the memo
  of searches, symbol and context tools, session ids in memo keys.
- The layout of the index files, compression and memory maps: a file is what
  it holds, or torn.  An engine that is open over a file that is being
  rewritten would need pages.
- Failing writes of the session store and its snapshots (a full disk), and the
  export of a pack from a directory that is being replaced: a pack is what a
  snapshot held when it was published.
- Clocks: debounce, idle limits and timeouts are steps that may happen.  A
  search is taken to end within the idle limit of its engine, ten minutes unless
  configured.
- A client that holds a connection open without a request keeps the single
  worker from all others; `Daemon` has the clients of this repository, which
  send one request and close.
- Hash collisions, non-ASCII case folding, the order of hits, columns, the
  decay of scores, what a resume primes the memo with.

## Plan

Done: the modules above, in the order of their importance to what an agent is
told, and the proofs of their safety properties.  Next:

1. An abstract index (a map from files to contents that jobs update at once)
   that `IndexStore` with one writer and no crash implements: `IndexInv` says
   most of what the refinement needs.
2. The MCP server with two roots and the bounded memo of searches, so that
   `with_cached_engine` (one engine for whichever root came first) can be
   stated.
