---------------------------- MODULE InstallProofs ---------------------------
(***************************************************************************)
(* Proofs about Install: the entries of the user survive every sequence of *)
(* commands, kills, upgrades and edits, for every set of entries and       *)
(* however they share matcher groups with what names triseek; and commands *)
(* that end well have done what they are for.                              *)
(***************************************************************************)
EXTENDS Install, TLAPS

Steps == {"mcp", "cli", "cliOrMcp", "hooks", "flag", "own", "ownManifest",
          "marked", "markedPlugin"}

(* The user's entries that no edit may take for TriSeek's own.             *)
Apart(content) == content.user \ content.shared

(* No entry that the user left apart is missing or has come into a group   *)
(* that names triseek.                                                     *)
EntriesApart ==
  \A name \in {"config", "hooks"} \ excused : users[name] \subseteq Apart(file[name])

(* The running command alone.                                              *)
RunInv ==
  /\ run = [op |-> run.op, todo |-> run.todo, seen |-> run.seen,
            pc |-> run.pc, calm |-> run.calm]
  /\ run.seen \in Contents
  /\ run.todo \in Seq(Steps)
  /\ run.pc = "read" => run.todo # <<>>

(* Files, histories and the running command have the shape the edits rely  *)
(* on, and no entry of the user is missing.                                *)
EntriesInv ==
  /\ file \in [Names -> Contents]
  /\ users \in [{"config", "hooks"} -> SUBSET Items]
  /\ binary \in {"old", "new"}
  /\ RunInv
  /\ harness \in Harnesses
  /\ edits \in Nat
  /\ EntriesApart

(* What the lemmas below show of a step.                                   *)
FilesKept ==
  /\ file' \in [Names -> Contents]
  /\ users' \in [{"config", "hooks"} -> SUBSET Items]
  /\ EntriesApart'

-----------------------------------------------------------------------------
(* The edits.                                                              *)

(* A file of nothing is a file.                                            *)
LEMMA AbsentIsContents == Absent \in Contents /\ Empty \in Contents
BY DEF Absent, Empty, Contents, Flags

(* What is read is the content of a file, and the file's own when that is  *)
(* readable.                                                               *)
LEMMA ReadIsContents ==
  ASSUME NEW content \in Contents
  PROVE  /\ Read(content) \in Contents
         /\ content.state # "unreadable" => Read(content) = content
BY AbsentIsContents DEF Read

(* An insertion or removal of TriSeek's entry gives a file again, with the *)
(* user's entries but those that share a group with what names triseek     *)
(* (upsert_mcp_json, upsert_hooks_json and their removals, shared.rs).     *)
LEMMA EditsKeepEntries ==
  ASSUME NEW content \in Contents, binary \in {"old", "new"},
         Step \in {"mcp", "cliOrMcp", "hooks"},
         NEW edited \in {InstallEdit(content), UninstallEdit(content)}
  PROVE  /\ edited \in Contents
         /\ Apart(content) \subseteq Apart(edited)
<1>2. /\ UpsertMcp(content) \in Contents /\ RemoveMcp(content) \in Contents
      /\ UpsertMcp(content).user = content.user
      /\ UpsertMcp(content).shared = content.shared
      /\ RemoveMcp(content).user = content.user
      /\ RemoveMcp(content).shared = content.shared
  BY DEF UpsertMcp, RemoveMcp, Good, Contents
<1>3. /\ UpsertHooks(content) \in Contents /\ RemoveHooks(content) \in Contents
      /\ UpsertHooks(content).user = Kept(content) /\ UpsertHooks(content).shared = {}
      /\ RemoveHooks(content).user = Kept(content) /\ RemoveHooks(content).shared = {}
  BY DEF UpsertHooks, RemoveHooks, Good, Contents, Kept
<1>4. CASE Step \in {"mcp", "cliOrMcp"}
  <2>1. edited \in {UpsertMcp(content), RemoveMcp(content)}
    BY <1>4 DEF InstallEdit, UninstallEdit, UpsertCodexConfig, RemoveCodexConfig
  <2>. QED
    BY <1>2, <2>1 DEF Apart
<1>5. CASE Step = "hooks"
  <2>1. edited \in {UpsertHooks(content), RemoveHooks(content)}
    BY <1>5 DEF InstallEdit, UninstallEdit, UpsertCodexHooks, RemoveCodexHooks
  <2>. QED
    BY <1>3, <2>1 DEF Kept, Apart
<1>. QED
  BY <1>4, <1>5

(* The commands are made of steps.                                         *)
LEMMA StepsAreSteps ==
  ASSUME harness \in Harnesses
  PROVE  /\ InstallSteps(harness) \in Seq(Steps) /\ InstallSteps(harness) # <<>>
         /\ UninstallSteps(harness) \in Seq(Steps) /\ UninstallSteps(harness) # <<>>
<1>1. /\ InstallClaudeProject \in Seq(Steps) /\ InstallClaude \in Seq(Steps)
      /\ InstallOpencode \in Seq(Steps) /\ InstallPi \in Seq(Steps)
  BY DEF InstallClaudeProject, InstallClaude, InstallOpencode, InstallPi, Steps
<1>2. InstallCodex \in Seq(Steps)
  BY DEF InstallCodex, Steps
<1>3. /\ UninstallClaudeProject \in Seq(Steps) /\ UninstallClaude \in Seq(Steps)
      /\ UninstallCodex \in Seq(Steps)
      /\ UninstallOpencode \in Seq(Steps) /\ UninstallPi \in Seq(Steps)
  BY DEF UninstallClaudeProject, UninstallClaude, UninstallCodex,
     UninstallOpencode, UninstallPi, Steps
<1>4. /\ InstallClaudeProject # <<>> /\ InstallClaude # <<>> /\ InstallCodex # <<>>
      /\ InstallOpencode # <<>> /\ InstallPi # <<>>
      /\ UninstallClaudeProject # <<>> /\ UninstallClaude # <<>>
      /\ UninstallCodex # <<>> /\ UninstallOpencode # <<>> /\ UninstallPi # <<>>
  BY DEF InstallClaudeProject, InstallClaude, InstallCodex, InstallOpencode,
     InstallPi, UninstallClaudeProject, UninstallClaude, UninstallCodex,
     UninstallOpencode, UninstallPi
<1>5. harness \in {"project", "claude", "codex", "opencode", "pi"}
  BY InstallAssumption DEF InstallAssumption
<1>. QED
  BY <1>1, <1>2, <1>3, <1>4, <1>5 DEF InstallSteps, UninstallSteps

(* Every step has a file.                                                  *)
LEMMA StepHasTarget ==
  /\ Step \in {"mcp", "cli", "cliOrMcp"} => Target(Step) = "config"
  /\ Step = "flag" => Target(Step) = "config"
  /\ Step = "hooks" => Target(Step) = "hooks"
  /\ Step \in {"own", "marked", "markedPlugin"} => Target(Step) = "owned"
  /\ Step = "ownManifest" => Target(Step) = "manifest"
BY DEF Target

-----------------------------------------------------------------------------
(* Writing a file.                                                         *)

(* A file that is put in place of another keeps the user's entries if what *)
(* was apart in the other is apart in it, or the file is excused.          *)
LEMMA PutKeepsEntries ==
  ASSUME EntriesInv, NEW name \in Names, NEW content \in Contents,
         Put(name, content), excused \subseteq excused',
         name \in {"config", "hooks"} \ excused'
           => Apart(file[name]) \subseteq Apart(content)
  PROVE  FilesKept
<1>1. file' = [file EXCEPT ![name] = content] /\ users' = users
  BY DEF Put
<1>2. file' \in [Names -> Contents] /\ users' \in [{"config", "hooks"} -> SUBSET Items]
  BY <1>1 DEF EntriesInv
<1>3. ASSUME NEW n \in {"config", "hooks"} \ excused'
      PROVE  users'[n] \subseteq Apart(file'[n])
  <2>1. n \in Names /\ users[n] \subseteq Apart(file[n])
    BY <1>3 DEF EntriesInv, EntriesApart, Names
  <2>2. file'[n] = IF n = name THEN content ELSE file[n]
    BY <1>1, <2>1 DEF EntriesInv
  <2>. QED
    BY <1>1, <1>3, <2>1, <2>2
<1>4. EntriesApart'
  BY <1>3 DEF EntriesApart, Apart
<1>. QED
  BY <1>2, <1>4 DEF FilesKept

(* A step that replaces its file by an edit of what it read.               *)
LEMMA ReplaceKeepsEntries ==
  ASSUME EntriesInv, NEW content \in Contents, Target(Step) \in Names,
         Replace(content),
         Target(Step) \in {"config", "hooks"} =>
           Apart(Read(run.seen)) \subseteq Apart(content)
  PROVE  FilesKept
<1>. DEFINE name == Target(Step)
<1>1. /\ Put(name, content)
      /\ excused' = IF run.seen = file[name] /\ file[name].state # "unreadable"
                    THEN excused ELSE excused \cup {name}
  BY DEF Replace, Excuse
<1>2. run.seen \in Contents
  BY DEF EntriesInv, RunInv
<1>3. ASSUME name \in {"config", "hooks"} \ excused'
      PROVE  Apart(file[name]) \subseteq Apart(content)
  <2>1. run.seen = file[name] /\ file[name].state # "unreadable"
    BY <1>1, <1>3
  <2>2. Read(run.seen) = file[name]
    BY <1>2, <2>1, ReadIsContents
  <2>. QED
    BY <1>3, <2>2
<1>4. excused \subseteq excused'
  BY <1>1
<1>. QED
  BY <1>1, <1>3, <1>4, PutKeepsEntries

(* The command between two steps.                                          *)
LEMMA RunKept ==
  ASSUME RunInv, Fail \/ (GoOn /\ run.todo # <<>>)
  PROVE  RunInv'
<1>1. CASE run' = NoRun
  BY <1>1, AbsentIsContents DEF NoRun, RunInv
<1>2. CASE /\ run' = [run EXCEPT !.todo = Tail(run.todo), !.pc = "read"]
           /\ run.todo # <<>> /\ Tail(run.todo) # <<>>
  <2>1. /\ run'.todo = Tail(run.todo) /\ run'.seen = run.seen /\ run'.pc = "read"
        /\ run' = [op |-> run'.op, todo |-> run'.todo, seen |-> run'.seen,
                   pc |-> run'.pc, calm |-> run'.calm]
    BY <1>2 DEF RunInv
  <2>2. Tail(run.todo) \in Seq(Steps)
    BY <1>2 DEF RunInv
  <2>. QED
    BY <1>2, <2>1, <2>2 DEF RunInv
<1>. QED
  BY <1>1, <1>2 DEF Fail, GoOn

(* What leaves files, histories and excuses alone keeps the entries.       *)
LEMMA SameKeepsEntries ==
  ASSUME EntriesInv, UNCHANGED <<file, users, excused>>
  PROVE  FilesKept
BY DEF EntriesInv, FilesKept, EntriesApart, Apart

-----------------------------------------------------------------------------
(* The steps.                                                              *)

(* `claude mcp add` and `remove` edit what is there.                       *)
LEMMA RunCliKeepsEntries ==
  ASSUME EntriesInv, RunCli
  PROVE  FilesKept
<1>1. CASE Fail
  BY <1>1, SameKeepsEntries DEF Fail
<1>2. CASE ~Fail
  <2>1. PICK content \in {UpsertMcp(file["config"]), RemoveMcp(file["config"])} :
          Put("config", content) /\ UNCHANGED excused
    BY <1>2 DEF RunCli
  <2>2. "config" \in Names /\ file["config"] \in Contents
    BY DEF Names, EntriesInv
  <2>3. content \in Contents /\ Apart(content) = Apart(file["config"])
    BY <2>2 DEF UpsertMcp, RemoveMcp, Good, Contents, EntriesInv, Apart
  <2>. QED
    BY <2>1, <2>2, <2>3, PutKeepsEntries
<1>. QED
  BY <1>1, <1>2

(* The steps of an install.                                                *)
LEMMA InstallKeepsEntries ==
  ASSUME EntriesInv, Install \/ InstallFlag \/ InstallOwned
  PROVE  FilesKept
<1>0. run.seen \in Contents /\ Read(run.seen) \in Contents /\ binary \in {"old", "new"}
  BY ReadIsContents DEF EntriesInv, RunInv
<1>1. CASE Install
  <2>1. Step \in {"mcp", "cliOrMcp", "hooks"}
    BY <1>1 DEF Install, At
  <2>2. Replace(InstallEdit(Read(run.seen))) \/ Fail
    BY <1>1 DEF Install
  <2>3. Target(Step) \in Names
    BY <2>1, StepHasTarget DEF Names
  <2>4. CASE Replace(InstallEdit(Read(run.seen)))
    BY <1>0, <2>1, <2>3, <2>4, EditsKeepEntries, ReplaceKeepsEntries
  <2>. QED
    BY <2>2, <2>4, SameKeepsEntries DEF Fail
<1>2. CASE InstallFlag
  <2>1. Target(Step) = "config" /\ "config" \in Names
    BY <1>2, StepHasTarget DEF InstallFlag, At, Names
  <2>2. \/ Replace(EnableFlag(Read(run.seen)))
        \/ UNCHANGED <<file, users, excused>>
    BY <1>2 DEF InstallFlag, Same, Fail
  <2>3. /\ EnableFlag(Read(run.seen)) \in Contents
        /\ Apart(EnableFlag(Read(run.seen))) = Apart(Read(run.seen))
    BY <1>0 DEF EnableFlag, Contents, Flags, Apart
  <2>4. CASE Replace(EnableFlag(Read(run.seen)))
    BY <2>1, <2>3, <2>4, ReplaceKeepsEntries
  <2>. QED
    BY <2>2, <2>4, SameKeepsEntries
<1>3. CASE InstallOwned
  <2>1. Target(Step) \in {"manifest", "owned"} /\ Target(Step) \in Names
    BY <1>3, StepHasTarget DEF InstallOwned, At, Names
  <2>2. WriteOwned \in Contents
    BY <1>0, AbsentIsContents DEF WriteOwned, Contents
  <2>. QED
    BY <1>3, <2>1, <2>2, ReplaceKeepsEntries DEF InstallOwned
<1>. QED
  BY <1>1, <1>2, <1>3

(* The steps of an uninstall.                                              *)
LEMMA UninstallKeepsEntries ==
  ASSUME EntriesInv, Uninstall \/ RemoveOwned \/ ReadManifest \/ RemovePlugin
  PROVE  FilesKept
<1>0. run.seen \in Contents /\ Read(run.seen) \in Contents /\ binary \in {"old", "new"}
  BY ReadIsContents DEF EntriesInv, RunInv
<1>1. CASE Uninstall
  <2>1. Step \in {"mcp", "cliOrMcp", "hooks"}
    BY <1>1 DEF Uninstall, At
  <2>2. \/ Replace(UninstallEdit(Read(run.seen)))
        \/ UNCHANGED <<file, users, excused>>
    BY <1>1 DEF Uninstall, Same, Fail
  <2>3. Target(Step) \in Names
    BY <2>1, StepHasTarget DEF Names
  <2>4. CASE Replace(UninstallEdit(Read(run.seen)))
    BY <1>0, <2>1, <2>3, <2>4, EditsKeepEntries, ReplaceKeepsEntries
  <2>. QED
    BY <2>2, <2>4, SameKeepsEntries
<1>2. CASE RemoveOwned \/ RemovePlugin
  <2>1. /\ UNCHANGED excused
        /\ \/ UNCHANGED <<file, users>>
           \/ Put("owned", Absent) \/ Put("manifest", Absent)
    BY <1>2 DEF RemoveOwned, RemovePlugin, Plugin, Same
  <2>. QED
    BY <2>1, AbsentIsContents, PutKeepsEntries, SameKeepsEntries DEF Names
<1>3. CASE ReadManifest
  BY <1>3, SameKeepsEntries DEF ReadManifest
<1>. QED
  BY <1>1, <1>2, <1>3

(* An edit by the user or the client is what the user wants.               *)
LEMMA EditKeepsEntries ==
  ASSUME EntriesInv, NEW name \in Names, NEW content \in Contents,
         EditFile(name, content)
  PROVE  EntriesInv'
<1>1. /\ file' = [file EXCEPT ![name] = content]
      /\ users' = [n \in DOMAIN users |-> IF n = name THEN Apart(content) ELSE users[n]]
      /\ excused' = excused \ {name}
      /\ run' = [run EXCEPT !.calm = (run = NoRun)]
      /\ UNCHANGED <<binary, harness>>
      /\ edits' = edits + 1
  BY DEF EditFile, Apart
<1>2. /\ file' \in [Names -> Contents] /\ users' \in [{"config", "hooks"} -> SUBSET Items]
  BY <1>1 DEF EntriesInv, Contents, Apart
<1>3. RunInv'
  BY <1>1 DEF EntriesInv, RunInv
<1>4. ASSUME NEW n \in {"config", "hooks"} \ excused'
      PROVE  users'[n] \subseteq Apart(file'[n])
  <2>1. CASE n = name
    BY <1>1, <2>1 DEF EntriesInv
  <2>2. CASE n # name
    <3>1. users'[n] = users[n] /\ file'[n] = file[n] /\ n \notin excused
      BY <1>1, <1>4, <2>2 DEF EntriesInv, Names
    <3>. QED
      BY <3>1 DEF EntriesInv, EntriesApart
  <2>. QED
    BY <2>1, <2>2
<1>5. EntriesApart'
  BY <1>4 DEF EntriesApart, Apart
<1>. QED
  BY <1>1, <1>2, <1>3, <1>5 DEF EntriesInv

(* The edits the model has.                                                *)
LEMMA UserKeepsEntries ==
  ASSUME EntriesInv, NEW name \in Names,
         \/ UserEdits(name) \/ UserBreaks(name) \/ UserRepairs(name)
         \/ UserTurnsHooksOff
  PROVE  EntriesInv'
<1>1. name \in Names /\ "config" \in Names
  BY DEF Names
<1>2. file[name] \in Contents /\ file["config"] \in Contents
  BY <1>1 DEF EntriesInv
<1>3. \A n \in Names, content \in Contents : EditFile(n, content) => EntriesInv'
  BY EditKeepsEntries
<1>4. \A items \in SUBSET Items : \A shared \in SUBSET items :
        [Good(file[name]) EXCEPT !.user = items, !.shared = shared] \in Contents
  BY <1>2 DEF Contents, Good
<1>6. UserEdits(name) => \E content \in Contents : EditFile(name, content)
  <2>1. \A items \in SUBSET Items :
          SUBSET (IF name = "hooks" THEN items ELSE {}) \subseteq SUBSET items
    OBVIOUS
  <2>2. \A shared \in SUBSET file[name].shared :
          [file[name] EXCEPT !.ours = "none", !.shared = shared] \in Contents
    BY <1>2 DEF Contents
  <2>. QED
    BY <1>4, <2>1, <2>2 DEF UserEdits
<1>5. /\ \A state \in {"odd", "broken", "unreadable"} :
           [file[name] EXCEPT !.state = state] \in Contents
      /\ Good(file[name]) \in Contents
      /\ [file["config"] EXCEPT !.flag = "off"] \in Contents
  BY <1>2 DEF Contents, Good, Flags
<1>. QED
  BY <1>1, <1>3, <1>5, <1>6 DEF UserBreaks, UserRepairs, UserTurnsHooksOff

-----------------------------------------------------------------------------
(* The theorem.                                                            *)

(* The invariant holds in every reachable state.                           *)
LEMMA EntriesInvHolds == Spec => []EntriesInv
<1>1. Init => EntriesInv
  BY AbsentIsContents
  DEF Init, EntriesInv, RunInv, EntriesApart, NoRun, Names
<1>2. EntriesInv /\ [Next]_vars => EntriesInv'
  <2>. SUFFICES ASSUME EntriesInv, [Next]_vars PROVE EntriesInv'
    OBVIOUS
  <2>1. ASSUME NEW op \in {"install", "uninstall"}, Begin(op)
        PROVE  EntriesInv'
    <3>1. /\ UNCHANGED <<file, users, excused, binary, harness, edits>>
          /\ run' = [NoRun EXCEPT !.op = op, !.pc = "read",
                      !.todo = IF op = "install" THEN InstallSteps(harness)
                               ELSE UninstallSteps(harness)]
      BY <2>1 DEF Begin
    <3>2. run'.todo \in {InstallSteps(harness), UninstallSteps(harness)}
      BY <3>1 DEF NoRun
    <3>3. run'.todo \in Seq(Steps) /\ run'.todo # <<>>
      BY <3>2, StepsAreSteps DEF EntriesInv
    <3>4. RunInv'
      BY <3>1, <3>3, AbsentIsContents DEF NoRun, RunInv
    <3>. QED
      BY <3>1, <3>4 DEF EntriesInv, EntriesApart, Apart
  <2>2. CASE ReadFile
    <3>1. /\ UNCHANGED <<file, users, excused, binary, harness, edits>>
          /\ run.pc = "read"
          /\ run' = [run EXCEPT !.seen = file[Target(Step)], !.pc = "write"]
      BY <2>2 DEF ReadFile, history
    <3>2. Step \in Steps
      BY <3>1 DEF EntriesInv, RunInv, Step
    <3>3. file[Target(Step)] \in Contents
      BY <3>2, StepHasTarget DEF Steps, Names, EntriesInv
    <3>4. RunInv'
      BY <3>1, <3>3 DEF EntriesInv, RunInv
    <3>. QED
      BY <3>1, <3>4 DEF EntriesInv, EntriesApart, Apart
  <2>3. CASE RunCli \/ Install \/ InstallFlag \/ InstallOwned
             \/ Uninstall \/ RemoveOwned \/ ReadManifest \/ RemovePlugin
    <3>1. FilesKept
      BY <2>3, RunCliKeepsEntries, InstallKeepsEntries, UninstallKeepsEntries
    <3>2. /\ UNCHANGED <<binary, harness, edits>>
          /\ run.todo # <<>>
          /\ Fail \/ GoOn \/ UNCHANGED run \/ run' = [run EXCEPT !.pc = "remove"]
      BY <2>3 DEF RunCli, Install, InstallFlag, InstallOwned, Uninstall,
         RemoveOwned, ReadManifest, RemovePlugin, At, EntriesInv, RunInv
    <3>3. ASSUME Fail \/ GoOn PROVE RunInv'
      BY <3>2, <3>3, RunKept DEF EntriesInv
    <3>4. ASSUME UNCHANGED run \/ run' = [run EXCEPT !.pc = "remove"] PROVE RunInv'
      BY <3>2, <3>4 DEF EntriesInv, RunInv
    <3>5. RunInv'
      BY <3>2, <3>3, <3>4
    <3>6. harness' \in Harnesses /\ binary' \in {"old", "new"} /\ edits' \in Nat
      BY <3>2 DEF EntriesInv
    <3>. QED
      BY <3>1, <3>5, <3>6 DEF FilesKept, EntriesInv
  <2>4. CASE Killed
    BY <2>4, RunKept, SameKeepsEntries DEF Killed, Fail, FilesKept, EntriesInv, RunInv
  <2>5. CASE \/ \E name \in Names :
                  UserEdits(name) \/ UserBreaks(name) \/ UserRepairs(name)
             \/ UserTurnsHooksOff
    BY <2>5, UserKeepsEntries DEF Names
  <2>6. CASE Upgrade \/ UNCHANGED vars
    BY <2>6 DEF Upgrade, vars, history, EntriesInv, RunInv, EntriesApart, Apart
  <2>. QED
    BY <2>1, <2>2, <2>3, <2>4, <2>5, <2>6 DEF Next
<1>. QED
  BY <1>1, <1>2, PTL DEF Spec

(* An install or uninstall, killed or not and however often repeated,      *)
(* loses no entry of the user in a configuration it could read and nobody  *)
(* raced it on (install/mod.rs 6; write_atomic, shared.rs).                *)
THEOREM EntriesAlwaysStay == Spec => []UsersEntriesStay
<1>1. EntriesInv => UsersEntriesStay
  BY DEF EntriesInv, EntriesApart, UsersEntriesStay, Apart
<1>. QED
  BY <1>1, EntriesInvHolds, PTL

-----------------------------------------------------------------------------
(* What a command that ends well has done.                                 *)

Elems(s) == {s[i] : i \in 1..Len(s)}
ToDo == Elems(run.todo)
StepsOf(op) ==
  IF op = "install" THEN Elems(InstallSteps(harness)) ELSE Elems(UninstallSteps(harness))
Targets == {Target(s) : s \in StepsOf("install")}

Named(name) == HasEntry(name) /\ file[name].ours = binary

(* What a step of an install, or of an uninstall, is for.                  *)
Goal(op, s) ==
  IF op = "install"
  THEN IF s = "flag" THEN FlagOn(file["config"]) ELSE Named(Target(s))
  ELSE HasEntry(Target(s)) => s = "markedPlugin" /\ ~HasEntry("manifest")

(* An install promises nothing once a file was excused.                    *)
Counts(op) == op = "install" => excused = {}

(* TriSeek is in no file its client has no step for.  As long as nobody    *)
(* else writes, what a command has read is what is there, the edits of the *)
(* MCP entry come first, and every step that is not to do any more has     *)
(* what it is for; so has a command that has ended.                        *)
ProgressInv ==
  /\ run.op \in {"none", "install", "uninstall"}
  /\ run.pc \in {"none", "read", "write", "remove"}
  /\ run.pc # "none" => run.op # "none"
  /\ run.op # "none" => ended = "none"
  /\ ended \in {"none", "install", "uninstall"}
  /\ \A n \in Names : file[n].ours # "none" => n \in Targets
  /\ run.op # "none" => ToDo \subseteq StepsOf(run.op)
  /\ (run.op # "none" /\ run.calm) =>
       /\ run.pc = "write" => run.seen = file[Target(Step)]
       /\ \A j \in 2..Len(run.todo) : run.todo[j] # "cliOrMcp"
       /\ Counts(run.op) => \A s \in StepsOf(run.op) : s \in ToDo \/ Goal(run.op, s)
  /\ (ended # "none" /\ Counts(ended)) => \A s \in StepsOf(ended) : Goal(ended, s)

(* The steps of each client (the lists of install/mod.rs).                 *)
LEMMA StepsAreKnown ==
  /\ harness = "project" => /\ StepsOf("install") = {"mcp", "hooks", "own"}
                            /\ StepsOf("uninstall") = {"mcp", "hooks", "marked"}
  /\ harness = "claude" => /\ StepsOf("install") = {"cli", "hooks", "own"}
                           /\ StepsOf("uninstall") = {"cli", "hooks", "marked"}
  /\ harness = "codex" =>
       /\ StepsOf("install") = {"cliOrMcp", "hooks", "flag", "ownManifest", "own"}
       /\ StepsOf("uninstall") = {"cliOrMcp", "hooks", "markedPlugin"}
  /\ harness = "opencode" => /\ StepsOf("install") = {"mcp", "own"}
                             /\ StepsOf("uninstall") = {"mcp", "own"}
  /\ harness = "pi" => /\ StepsOf("install") = {"mcp", "own"}
                       /\ StepsOf("uninstall") = {"mcp", "own"}
<1>1. ASSUME NEW a, NEW b PROVE Elems(<<a, b>>) = {a, b}
  BY DEF Elems
<1>2. ASSUME NEW a, NEW b, NEW c PROVE Elems(<<a, b, c>>) = {a, b, c}
  BY DEF Elems
<1>3. ASSUME NEW a, NEW b, NEW c, NEW d, NEW e
      PROVE  Elems(<<a, b, c, d, e>>) = {a, b, c, d, e}
  BY DEF Elems
<1>. QED
  BY <1>1, <1>2, <1>3
  DEF StepsOf, InstallSteps, UninstallSteps, InstallClaudeProject,
      InstallClaude, InstallCodex, InstallOpencode, InstallPi,
      UninstallClaudeProject, UninstallClaude, UninstallCodex,
      UninstallOpencode, UninstallPi

(* Each step of a client works on one file of that client.                 *)
LEMMA StepsHaveTargets ==
  ASSUME harness \in Harnesses
  PROVE  /\ \A s \in StepsOf("install") \cup StepsOf("uninstall") :
              s \in Steps /\ Target(s) \in Targets
         /\ {"config", "owned"} \subseteq Targets /\ Targets \subseteq Names
         /\ \A s \in StepsOf("uninstall") : Target(s) \in {"config", "hooks", "owned"}
         /\ "flag" \in StepsOf("install") => "cliOrMcp" \in StepsOf("install")
         /\ "markedPlugin" \in StepsOf("uninstall") => harness = "codex"
         /\ harness = "codex" => "flag" \in StepsOf("install")
<1>1. harness \in {"project", "claude", "codex", "opencode", "pi"}
  BY InstallAssumption DEF InstallAssumption
<1>2. /\ \A s \in {"mcp", "cli", "cliOrMcp", "flag"} : Target(s) = "config"
      /\ Target("hooks") = "hooks" /\ Target("ownManifest") = "manifest"
      /\ \A s \in {"own", "marked", "markedPlugin"} : Target(s) = "owned"
  BY DEF Target
<1>. QED
  BY <1>1, <1>2, StepsAreKnown DEF Targets, Names, Steps

(* Every file that has a step has one that is for TriSeek's entry in it.   *)
LEMMA TargetsHaveSteps ==
  ASSUME harness \in Harnesses, NEW name \in Targets
  PROVE  /\ \E s \in StepsOf("install") : s # "flag" /\ Target(s) = name
         /\ name # "manifest" => \E s \in StepsOf("uninstall") : Target(s) = name
<1>1. harness \in {"project", "claude", "codex", "opencode", "pi"}
  BY InstallAssumption DEF InstallAssumption
<1>2. /\ \A s \in {"mcp", "cli", "cliOrMcp", "flag"} : Target(s) = "config"
      /\ Target("hooks") = "hooks" /\ Target("ownManifest") = "manifest"
      /\ \A s \in {"own", "marked", "markedPlugin"} : Target(s) = "owned"
  BY DEF Target
<1>. QED
  BY <1>1, <1>2, StepsAreKnown DEF Targets

(* Only the first step may be done by the command line of the client.      *)
LEMMA McpComesFirst ==
  ASSUME harness \in Harnesses
  PROVE  /\ \A j \in 2..Len(InstallSteps(harness)) : InstallSteps(harness)[j] # "cliOrMcp"
         /\ \A j \in 2..Len(UninstallSteps(harness)) : UninstallSteps(harness)[j] # "cliOrMcp"
<1>1. harness \in {"project", "claude", "codex", "opencode", "pi"}
  BY InstallAssumption DEF InstallAssumption
<1>. QED
  BY <1>1
  DEF InstallSteps, UninstallSteps, InstallClaudeProject,
      InstallClaude, InstallCodex, InstallOpencode, InstallPi,
      UninstallClaudeProject, UninstallClaude, UninstallCodex,
      UninstallOpencode, UninstallPi

(* What a step has to show that the command goes on from.                  *)
StepDone(op) ==
  /\ excused \subseteq excused'
  /\ UNCHANGED <<harness, binary>>
  /\ \A n \in Names : file'[n].ours # "none" => n \in Targets
  /\ (run.calm /\ Counts(op)') =>
       \A s \in StepsOf(op) : (s = Step \/ Goal(op, s)) => Goal(op, s)'

(* The current step is one of those the command still has to do.           *)
LEMMA StepIsToDo ==
  ASSUME EntriesInv, ProgressInv, run.op # "none", run.todo # <<>>
  PROVE  /\ Step \in StepsOf(run.op) /\ Step \in ToDo
         /\ Step \in Steps /\ Target(Step) \in Targets /\ Target(Step) \in Names
<1>1. 1 \in 1..Len(run.todo)
  BY DEF EntriesInv, RunInv
<1>2. Step \in ToDo
  BY <1>1 DEF ToDo, Elems, Step
<1>3. Step \in StepsOf(run.op)
  BY <1>2 DEF ProgressInv
<1>4. StepsOf(run.op) \subseteq StepsOf("install") \cup StepsOf("uninstall")
  BY DEF ProgressInv
<1>. QED
  BY <1>2, <1>3, <1>4, StepsHaveTargets DEF EntriesInv

(* A step that reached its goal without undoing another may be left        *)
(* behind.                                                                 *)
LEMMA GoOnKeepsProgress ==
  ASSUME EntriesInv, ProgressInv, run.todo # <<>>,
         NEW op \in {"install", "uninstall"}, op = run.op, StepDone(op), GoOn
  PROVE  ProgressInv'
<1>1. /\ harness' = harness /\ binary' = binary /\ Targets' = Targets
      /\ \A o \in {"install", "uninstall"} : StepsOf(o)' = StepsOf(o)
  BY DEF StepDone, Targets, StepsOf
<1>2. \A n \in Names : file'[n].ours # "none" => n \in Targets'
  BY <1>1 DEF StepDone
<1>3. ended = "none" /\ ToDo \subseteq StepsOf(op)
  BY DEF ProgressInv
<1>4. run.calm /\ Counts(op)' =>
        \A s \in StepsOf(op) : (s \in ToDo /\ s # Step) \/ Goal(op, s)'
  <2>. SUFFICES ASSUME run.calm, Counts(op)', NEW s \in StepsOf(op),
                       ~(s \in ToDo /\ s # Step)
                PROVE  Goal(op, s)'
    OBVIOUS
  <2>1. Counts(op)
    BY DEF Counts, StepDone
  <2>2. s = Step \/ Goal(op, s)
    BY <2>1 DEF ProgressInv
  <2>. QED
    BY <2>2 DEF StepDone
<1>5. CASE Tail(run.todo) = <<>>
  <2>1. run' = NoRun /\ ended' = IF run.calm THEN run.op ELSE "none"
    BY <1>5 DEF GoOn
  <2>2. ToDo \subseteq {Step}
    <3>1. Len(run.todo) = 1
      <4>1. run.todo \in Seq(Steps)
        BY DEF EntriesInv, RunInv
      <4>2. Len(run.todo) \in Nat /\ Len(run.todo) # 0
        BY <4>1
      <4>3. Len(Tail(run.todo)) = Len(run.todo) - 1
        BY <4>1
      <4>4. Len(Tail(run.todo)) = 0
        <5>1. Len(<<>>) = 0
          OBVIOUS
        <5>. QED
          BY <1>5, <5>1, Zenon
      <4>. QED
        BY <4>2, <4>3, <4>4
    <3>. QED
      BY <3>1 DEF ToDo, Elems, Step
  <2>3. ended' # "none" => ended' = op /\ run.calm
    BY <2>1
  <2>4. (ended' # "none" /\ Counts(ended)') => \A s \in StepsOf(ended)' : Goal(ended, s)'
    <3>. SUFFICES ASSUME ended' # "none", Counts(ended)' PROVE \A s \in StepsOf(ended)' : Goal(ended, s)'
      OBVIOUS
    <3>2. ended' = op /\ Counts(op)' /\ StepsOf(ended)' = StepsOf(op)
      BY <1>1, <2>3 DEF Counts, StepsOf
    <3>3. \A s \in StepsOf(op) : Goal(op, s)'
      BY <1>4, <2>2, <2>3, <3>2
    <3>4. ASSUME NEW s PROVE Goal(ended, s)' <=> Goal(op, s)'
      BY <3>2 DEF Goal
    <3>. QED
      BY <3>2, <3>3, <3>4
  <2>5. /\ run'.op = "none" /\ run'.pc = "none"
    BY <2>1 DEF NoRun
  <2>. QED
    BY <1>2, <1>3, <2>1, <2>4, <2>5 DEF ProgressInv
<1>6. CASE Tail(run.todo) # <<>>
  <2>1. /\ run' = [run EXCEPT !.todo = Tail(run.todo), !.pc = "read"]
        /\ ended' = ended
    BY <1>6 DEF GoOn
  <2>2. /\ run'.op = run.op /\ run'.pc = "read" /\ run'.todo = Tail(run.todo)
        /\ run'.calm = run.calm
    BY <2>1 DEF EntriesInv, RunInv
  <2>3. /\ Len(run'.todo) = Len(run.todo) - 1 /\ Len(run.todo) \in Nat
        /\ \A i \in 1..Len(run'.todo) : run'.todo[i] = run.todo[i + 1]
    BY <2>2 DEF EntriesInv, RunInv
  <2>4. \A i \in 1..Len(run'.todo) : i + 1 \in 1..Len(run.todo)
    BY <2>3
  <2>5. ToDo' \subseteq ToDo
    BY <2>3, <2>4 DEF ToDo, Elems
  <2>6. \A s \in ToDo : s = Step \/ s \in ToDo'
    <3>. SUFFICES ASSUME NEW i \in 1..Len(run.todo), i # 1 PROVE run.todo[i] \in ToDo'
      BY DEF ToDo, Elems, Step
    <3>1. i - 1 \in 1..Len(run'.todo) /\ run'.todo[i - 1] = run.todo[i]
      BY <2>3
    <3>. QED
      BY <3>1 DEF ToDo, Elems
  <2>7. (\A j \in 2..Len(run.todo) : run.todo[j] # "cliOrMcp")
          => \A j \in 2..Len(run'.todo) : run'.todo[j] # "cliOrMcp"
    <3>1. \A j \in 2..Len(run'.todo) : j + 1 \in 2..Len(run.todo) /\ run'.todo[j] = run.todo[j + 1]
      BY <2>3
    <3>. QED
      BY <3>1
  <2>8. run'.calm /\ Counts(run.op)' =>
          \A s \in StepsOf(run.op)' : s \in ToDo' \/ Goal(run.op, s)'
    <3>2. StepsOf(run.op)' = StepsOf(op) /\ (Counts(run.op)' <=> Counts(op)')
      BY <1>1, <2>2 DEF Counts, StepsOf
    <3>3. ASSUME NEW s PROVE Goal(run.op, s)' <=> Goal(op, s)'
      BY <2>2 DEF Goal
    <3>. QED
      BY <1>4, <2>2, <2>6, <3>2, <3>3
  <2>9. ToDo' \subseteq StepsOf(run.op)'
    <3>1. StepsOf(run.op)' = StepsOf(op)
      BY <1>1, <2>2 DEF StepsOf
    <3>. QED
      BY <1>3, <2>5, <3>1
  <2>10. run'.calm => \A j \in 2..Len(run'.todo) : run'.todo[j] # "cliOrMcp"
    BY <2>2, <2>7 DEF ProgressInv
  <2>. QED
    BY <1>2, <1>3, <2>1, <2>2, <2>8, <2>9, <2>10 DEF ProgressInv
<1>. QED
  BY <1>5, <1>6

(* A step that puts a file in place, and one that leaves everything.       *)
LEMMA PutIsDone ==
  ASSUME EntriesInv, ProgressInv, NEW op \in {"install", "uninstall"},
         op = run.op, run.todo # <<>>, Step # "markedPlugin",
         NEW name \in Names, name = Target(Step), NEW content \in Contents,
         file' = [file EXCEPT ![name] = content],
         excused \subseteq excused', UNCHANGED <<harness, binary>>,
         (run.calm /\ Counts(op)') =>
            IF op = "install"
            THEN /\ content.state = "good" /\ content.ours = binary
                 /\ (name = "config" /\ (Step = "flag" \/ FlagOn(file["config"])))
                      => FlagOn(content)
            ELSE content.state # "good" \/ content.ours = "none"
  PROVE  StepDone(op)
<1>1. name \in Targets
  BY StepIsToDo DEF ProgressInv
<1>2. /\ file'[name] = content
      /\ \A n \in Names \ {name} : file'[n] = file[n]
  BY DEF EntriesInv
<1>3. \A n \in Names : file'[n].ours # "none" => n \in Targets
  BY <1>1, <1>2 DEF ProgressInv
<1>4. ASSUME run.calm, Counts(op)', NEW s \in StepsOf(op), s = Step \/ Goal(op, s)
      PROVE  Goal(op, s)'
  <2>1. Target(s) \in Targets /\ Target(s) \in Names /\ "config" \in Names
    BY StepsHaveTargets DEF EntriesInv, Names
  <2>2. CASE op = "install"
    <3>1. Named(name)'
      <4>1. content.state = "good" /\ content.ours = binary
        BY <1>4, <2>2
      <4>2. content.ours # "none"
        BY <4>1 DEF EntriesInv
      <4>. QED
        BY <1>2, <4>1, <4>2 DEF Named, HasEntry
    <3>2. CASE s = "flag"
      <4>1. name = "config" => FlagOn(content)
        BY <1>4, <2>2, <3>2 DEF Goal
      <4>2. s = Step => name = "config"
        BY <3>2, StepHasTarget
      <4>3. FlagOn(file'["config"])
        BY <1>2, <1>4, <2>1, <2>2, <3>2, <4>1, <4>2 DEF Goal
      <4>. QED
        BY <2>2, <3>2, <4>3 DEF Goal, FlagOn
    <3>3. CASE s # "flag"
      <4>1. CASE Target(s) = name
        BY <2>2, <3>1, <3>3, <4>1 DEF Goal
      <4>2. CASE Target(s) # name
        <5>1. Named(Target(s))
          BY <1>4, <2>2, <3>3, <4>2 DEF Goal
        <5>2. file'[Target(s)] = file[Target(s)]
          BY <1>2, <2>1, <4>2
        <5>3. Named(Target(s))'
          BY <5>1, <5>2 DEF Named, HasEntry
        <5>. QED
          BY <2>2, <3>3, <5>3 DEF Goal
      <4>. QED
        BY <4>1, <4>2
    <3>. QED
      BY <3>2, <3>3
  <2>3. CASE op = "uninstall"
    <3>1. ~HasEntry(name)'
      BY <1>2, <1>4, <2>3 DEF HasEntry
    <3>2. CASE Target(s) = name
      BY <2>3, <3>1, <3>2 DEF Goal
    <3>3. CASE Target(s) # name
      <4>1. file'[Target(s)] = file[Target(s)]
        BY <1>2, <2>1, <3>3
      <4>2. HasEntry("manifest")' => HasEntry("manifest")
        BY <1>2, <3>1 DEF HasEntry, Names
      <4>3. Goal(op, s)
        BY <1>4, <3>3
      <4>4. HasEntry(Target(s))' => HasEntry(Target(s))
        BY <4>1 DEF HasEntry
      <4>. QED
        BY <2>3, <4>2, <4>3, <4>4 DEF Goal
    <3>. QED
      BY <3>2, <3>3
  <2>. QED
    BY <2>2, <2>3
<1>. QED
  BY <1>3, <1>4 DEF StepDone

(* A step that finds its goal reached and changes nothing is done.         *)
LEMMA SameIsDone ==
  ASSUME ProgressInv, NEW op \in {"install", "uninstall"}, op = run.op,
         UNCHANGED <<file, excused, harness, binary>>,
         (run.calm /\ Counts(op)') => Goal(op, Step)
  PROVE  StepDone(op)
<1>1. ASSUME NEW s, Goal(op, s) PROVE Goal(op, s)'
  BY <1>1 DEF Goal, Named, HasEntry
<1>. QED
  BY <1>1 DEF StepDone, ProgressInv

(* A command that breaks off has not ended well.                           *)
LEMMA FailKeepsProgress ==
  ASSUME ProgressInv, run' = NoRun, UNCHANGED <<file, excused, ended, harness, binary>>
  PROVE  ProgressInv'
<1>1. /\ Targets' = Targets /\ run'.op = "none" /\ run'.pc = "none"
      /\ StepsOf(ended)' = StepsOf(ended) /\ (Counts(ended)' <=> Counts(ended))
  BY DEF Targets, StepsOf, Counts, NoRun
<1>2. ASSUME NEW s PROVE Goal(ended, s)' <=> Goal(ended, s)
  BY DEF Goal, Named, HasEntry
<1>. QED
  BY <1>1, <1>2 DEF ProgressInv

(* What a calm command reads and writes: the file, unless it is excused.   *)
LEMMA ReplacesWhatItRead ==
  ASSUME EntriesInv, ProgressInv, run.op # "none", run.calm, run.pc = "write",
         run.todo # <<>>
  PROVE  /\ run.seen = file[Target(Step)]
         /\ Excuse(Target(Step)) /\ excused' = {} => Read(run.seen) = file[Target(Step)]
         /\ Excuse(Target(Step)) => excused \subseteq excused'
<1>1. run.seen = file[Target(Step)] /\ run.seen \in Contents
  BY DEF ProgressInv, EntriesInv, RunInv
<1>. QED
  BY <1>1, ReadIsContents DEF Excuse

(* A file with an entry reads as what it is.                               *)
LEMMA ReadOfEntry ==
  ASSUME EntriesInv, NEW name \in Names, HasEntry(name)
  PROVE  Read(file[name]).ours # "none" /\ file[name].state # "absent"
BY ReadIsContents DEF EntriesInv, HasEntry

(* The steps of an install or uninstall.                                   *)
LEMMA StepsAreDone ==
  ASSUME EntriesInv, ProgressInv,
         RunCli \/ Install \/ InstallFlag \/ InstallOwned \/ Uninstall \/ RemoveOwned
  PROVE  \/ Fail
         \/ /\ GoOn /\ run.todo # <<>>
            /\ \E op \in {"install", "uninstall"} : op = run.op /\ StepDone(op)
<1>0. /\ run.op # "none" /\ run.todo # <<>> /\ UNCHANGED <<harness, binary>>
  BY DEF RunCli, Install, InstallFlag, InstallOwned, Uninstall, RemoveOwned, At,
     EntriesInv, RunInv, ProgressInv
<1>1. PICK op \in {"install", "uninstall"} : op = run.op
  BY <1>0 DEF ProgressInv
<1>2. /\ Target(Step) \in Names /\ Step \in StepsOf(op) /\ "config" \in Names
      /\ run.seen \in Contents /\ Read(run.seen) \in Contents
      /\ binary \in {"old", "new"} /\ file["config"] \in Contents
  BY <1>0, <1>1, StepIsToDo, ReadIsContents DEF EntriesInv, RunInv, Names
<1>3. SUFFICES ASSUME ~Fail PROVE GoOn /\ StepDone(op)
  BY <1>0, <1>1
(* What a step that puts an edit of what it read in place has to show.     *)
<1>4. ASSUME NEW content \in Contents, Replace(content), run.pc = "write",
             Step # "markedPlugin",
             IF op = "install"
             THEN /\ content.state = "good" \/ (Step = "flag" /\ content.state = Read(run.seen).state)
                  /\ content.ours = binary \/ (Step = "flag" /\ content.ours = Read(run.seen).ours)
                  /\ Step = "flag" => FlagOn(content)
                  /\ Target(Step) = "config" /\ FlagOn(Read(run.seen)) => FlagOn(content)
             ELSE content.ours = "none"
      PROVE  StepDone(op)
  <2>1. /\ file' = [file EXCEPT ![Target(Step)] = content]
        /\ excused \subseteq excused' /\ Excuse(Target(Step))
    BY <1>4 DEF Replace, Put, Excuse
  <2>2. ASSUME run.calm, op = "install", Counts(op)'
        PROVE  /\ content.state = "good" /\ content.ours = binary
               /\ (Target(Step) = "config" /\ (Step = "flag" \/ FlagOn(file["config"])))
                    => FlagOn(content)
    <3>1. excused' = {} /\ Read(run.seen) = file[Target(Step)]
      BY <1>0, <1>4, <2>1, <2>2, ReplacesWhatItRead DEF Counts
    <3>2. CASE Step # "flag"
      BY <1>4, <2>2, <3>1, <3>2
    <3>3. CASE Step = "flag"
      <4>1. "cliOrMcp" \in StepsOf(op) /\ Target(Step) = "config" /\ Target("cliOrMcp") = "config"
        BY <1>2, <2>2, <3>3, StepsHaveTargets DEF EntriesInv, Target
      <4>2. "cliOrMcp" \notin ToDo
        BY <1>0, <2>2, <3>3 DEF ProgressInv, ToDo, Elems, Step
      <4>3. excused = {}
        BY <2>1, <3>1
      <4>4. Named("config")
        BY <1>1, <2>2, <4>1, <4>2, <4>3 DEF ProgressInv, Counts, Goal
      <4>. QED
        BY <1>4, <2>2, <3>1, <3>3, <4>1, <4>4 DEF Named, HasEntry
    <3>. QED
      BY <3>2, <3>3
  <2>. QED
    BY <1>0, <1>1, <1>2, <1>4, <2>1, <2>2, PutIsDone
<1>5. CASE RunCli
  <2>1. PICK content : /\ content = IF op = "install" THEN UpsertMcp(file["config"])
                                     ELSE RemoveMcp(file["config"])
                       /\ file' = [file EXCEPT !["config"] = content]
                       /\ GoOn /\ UNCHANGED excused
    BY <1>1, <1>3, <1>5 DEF RunCli, Put
  <2>2. Target(Step) = "config" /\ Step # "flag" /\ Step # "markedPlugin"
    BY <1>5 DEF RunCli, Target
  <2>3. /\ content \in Contents
        /\ content.flag = file["config"].flag
        /\ op = "install" => content.state = "good" /\ content.ours = binary
        /\ op = "uninstall" => content.ours = "none"
    BY <1>2, <2>1 DEF UpsertMcp, RemoveMcp, Good, Contents
  <2>4. StepDone(op)
    BY <1>0, <1>1, <1>2, <2>1, <2>2, <2>3, PutIsDone DEF FlagOn
  <2>. QED
    BY <2>1, <2>4
<1>6. CASE Install
  <2>. DEFINE content == InstallEdit(Read(run.seen))
  <2>1. /\ op = "install" /\ run.pc = "write" /\ Step \in {"mcp", "cliOrMcp", "hooks"}
        /\ Replace(content) /\ GoOn
    BY <1>1, <1>3, <1>6 DEF Install, At
  <2>2. content \in Contents
    BY <1>2, <2>1, EditsKeepEntries
  <2>3. /\ content.state = "good" /\ content.ours = binary
        /\ content.flag = Read(run.seen).flag
    <3>1. content \in {UpsertMcp(Read(run.seen)), UpsertHooks(Read(run.seen))}
      BY <2>1 DEF InstallEdit, UpsertCodexConfig, UpsertCodexHooks
    <3>. QED
      BY <1>2, <3>1 DEF UpsertMcp, UpsertHooks, Good, Contents
  <2>. HIDE DEF content
  <2>. QED
    BY <1>4, <2>1, <2>2, <2>3 DEF FlagOn
<1>7. CASE InstallFlag
  <2>1. op = "install" /\ run.pc = "write" /\ Step = "flag" /\ GoOn
    BY <1>1, <1>3, <1>7 DEF InstallFlag, At
  <2>2. CASE ~FlagOn(Read(run.seen))
    <3>1. Replace(EnableFlag(Read(run.seen)))
      BY <1>3, <1>7, <2>2 DEF InstallFlag
    <3>2. /\ EnableFlag(Read(run.seen)) \in Contents
          /\ EnableFlag(Read(run.seen)).flag = "on"
          /\ EnableFlag(Read(run.seen)).state = Read(run.seen).state
          /\ EnableFlag(Read(run.seen)).ours = Read(run.seen).ours
      BY <1>2 DEF EnableFlag, Contents, Flags
    <3>. QED
      BY <1>4, <2>1, <3>1, <3>2 DEF FlagOn
  <2>3. CASE FlagOn(Read(run.seen))
    <3>1. UNCHANGED <<file, excused>>
      BY <1>3, <1>7, <2>3 DEF InstallFlag, Same
    <3>2. ASSUME run.calm, Counts(op)' PROVE Goal(op, Step)
      <4>1. /\ "cliOrMcp" \in StepsOf(op) /\ Target("flag") = "config"
            /\ Target("cliOrMcp") = "config"
        BY <1>2, <2>1, StepsHaveTargets DEF EntriesInv, Target
      <4>2. "cliOrMcp" \notin ToDo
        BY <1>0, <2>1, <3>2 DEF ProgressInv, ToDo, Elems, Step
      <4>3. excused = {}
        BY <2>1, <3>1, <3>2 DEF Counts
      <4>4. Named("config")
        BY <1>1, <2>1, <3>2, <4>1, <4>2, <4>3 DEF ProgressInv, Counts, Goal
      <4>5. run.seen = file["config"]
        BY <1>0, <2>1, <3>2, <4>1, ReplacesWhatItRead
      <4>6. Read(run.seen) = file["config"]
        BY <1>2, <4>4, <4>5, ReadIsContents DEF Named, HasEntry
      <4>. QED
        BY <2>1, <2>3, <4>6 DEF Goal
    <3>. QED
      BY <1>0, <1>1, <2>1, <3>1, <3>2, SameIsDone
  <2>. QED
    BY <2>2, <2>3
<1>8. CASE InstallOwned
  <2>1. /\ op = "install" /\ run.pc = "write" /\ Step \in {"own", "ownManifest"}
        /\ GoOn /\ Replace(WriteOwned) /\ Target(Step) # "config"
    BY <1>1, <1>8 DEF InstallOwned, At, Target
  <2>2. /\ WriteOwned \in Contents /\ WriteOwned.state = "good" /\ WriteOwned.ours = binary
    BY <1>2, AbsentIsContents DEF WriteOwned, Contents, Empty
  <2>. QED
    BY <1>4, <2>1, <2>2
<1>9. CASE Uninstall
  <2>. DEFINE content == UninstallEdit(Read(run.seen))
  <2>1. /\ op = "uninstall" /\ run.pc = "write" /\ Step \in {"mcp", "cliOrMcp", "hooks"}
        /\ GoOn
    BY <1>1, <1>3, <1>9 DEF Uninstall, At
  <2>2. /\ content \in Contents /\ content.ours = "none"
    <3>1. content \in {RemoveMcp(Read(run.seen)), RemoveHooks(Read(run.seen))}
      BY <2>1 DEF UninstallEdit, RemoveCodexConfig, RemoveCodexHooks
    <3>2. content.ours = "none"
      BY <1>2, <3>1 DEF RemoveMcp, RemoveHooks, Contents
    <3>. QED
      BY <1>2, <2>1, <3>2, EditsKeepEntries
  <2>3. CASE Read(run.seen).state = "good" /\ content # Read(run.seen)
    <3>1. Replace(content)
      BY <1>3, <1>9, <2>3 DEF Uninstall
    <3>. HIDE DEF content
    <3>. QED
      BY <1>4, <2>1, <2>2, <3>1
  <2>4. CASE ~(Read(run.seen).state = "good" /\ content # Read(run.seen))
    <3>1. UNCHANGED <<file, excused>>
      BY <1>3, <1>9, <2>4 DEF Uninstall, Same
    <3>. HIDE DEF content
    <3>2. ASSUME run.calm PROVE ~HasEntry(Target(Step))
      <4>1. run.seen = file[Target(Step)]
        BY <1>0, <2>1, <3>2, ReplacesWhatItRead
      <4>2. CASE run.seen.state = "unreadable"
        BY <4>1, <4>2 DEF HasEntry
      <4>3. CASE run.seen.state # "unreadable"
        <5>1. Read(run.seen) = file[Target(Step)]
          BY <1>2, <4>1, <4>3, ReadIsContents
        <5>. QED
          BY <2>2, <2>4, <5>1 DEF HasEntry
      <4>. QED
        BY <4>2, <4>3
    <3>. QED
      BY <1>0, <1>1, <2>1, <3>1, <3>2, SameIsDone DEF Goal
  <2>. QED
    BY <2>1, <2>3, <2>4
<1>10. CASE RemoveOwned
  <2>1. /\ op = "uninstall" /\ run.pc = "write" /\ Step \in {"own", "marked"} /\ GoOn
        /\ UNCHANGED excused /\ Target(Step) = "owned" /\ "owned" \in Names
    BY <1>1, <1>10 DEF RemoveOwned, At, Target, Names
  <2>2. CASE ~Removable
    <3>1. UNCHANGED file
      BY <1>10, <2>2 DEF RemoveOwned, Same
    <3>2. ASSUME run.calm PROVE Goal(op, Step)
      <4>1. run.seen = file["owned"]
        BY <1>0, <2>1, <3>2, ReplacesWhatItRead
      <4>2. ~HasEntry("owned")
        BY <2>1, <2>2, <4>1, ReadOfEntry DEF Removable, Marked, HasEntry, Exists
      <4>. QED
        BY <2>1, <4>2 DEF Goal
    <3>. QED
      BY <1>0, <1>1, <2>1, <3>1, <3>2, SameIsDone
  <2>3. CASE Removable
    <3>1. file' = [file EXCEPT !["owned"] = Absent] /\ Absent.state # "good"
      BY <1>10, <2>3 DEF RemoveOwned, Put, Absent
    <3>. QED
      BY <1>0, <1>1, <2>1, <3>1, AbsentIsContents, PutIsDone
  <2>. QED
    BY <2>1, <2>2, <2>3
<1>. QED
  BY <1>5, <1>6, <1>7, <1>8, <1>9, <1>10

(* The two steps that remove the plugin of Codex.                          *)
LEMMA PluginKeepsProgress ==
  ASSUME EntriesInv, ProgressInv, ReadManifest \/ RemovePlugin
  PROVE  ProgressInv'
<1>1. /\ run.op = "uninstall" /\ run.todo # <<>> /\ Step = "markedPlugin"
      /\ UNCHANGED <<harness, binary, excused>> /\ Target(Step) = "owned"
  BY DEF ReadManifest, RemovePlugin, At, Target
<1>2. /\ Step \in StepsOf("uninstall") /\ Step \in ToDo
      /\ "owned" \in Targets /\ "owned" \in Names /\ "manifest" \in Names
  BY <1>1, StepIsToDo DEF Names
<1>3. CASE ReadManifest /\ GoOn
  <2>1. UNCHANGED file /\ run.pc = "write"
    BY <1>3 DEF ReadManifest, At
  <2>2. CASE run' # [run EXCEPT !.pc = "remove"]
    <3>1. ~(Marked(run.seen) /\ Marked(file["manifest"]))
      BY <1>3, <2>2 DEF ReadManifest
    <3>2. ASSUME run.calm PROVE Goal("uninstall", Step)
      <4>1. run.seen = file["owned"]
        BY <1>1, <2>1, <3>2, ReplacesWhatItRead
      <4>2. ~HasEntry("owned") \/ ~HasEntry("manifest")
        <5>1. HasEntry("owned") => Marked(run.seen)
          BY <1>2, <4>1, ReadOfEntry DEF Marked
        <5>2. HasEntry("manifest") => Marked(file["manifest"])
          BY <1>2, ReadOfEntry DEF Marked
        <5>. QED
          BY <3>1, <5>1, <5>2
      <4>. QED
        BY <1>1, <4>2 DEF Goal
    <3>3. StepDone("uninstall")
      BY <1>1, <2>1, <3>2, SameIsDone
    <3>. QED
      BY <1>1, <1>3, <3>3, GoOnKeepsProgress
  <2>3. CASE run' = [run EXCEPT !.pc = "remove"]
    <3>1. run'.op = run.op /\ run'.pc = "remove"
      BY <2>3 DEF EntriesInv, RunInv
    <3>2. run' = NoRun \/ run' = [run EXCEPT !.todo = Tail(run.todo), !.pc = "read"]
      BY <1>3 DEF GoOn
    <3>3. NoRun.op = "none"
          /\ [run EXCEPT !.todo = Tail(run.todo), !.pc = "read"].pc = "read"
      BY DEF NoRun, EntriesInv, RunInv
    <3>. QED
      BY <1>1, <3>1, <3>2, <3>3
  <2>. QED
    BY <2>2, <2>3
<1>4. CASE ReadManifest /\ run' = [run EXCEPT !.pc = "remove"] /\ UNCHANGED ended
  <2>1. /\ run'.op = run.op /\ run'.pc = "remove" /\ run'.todo = run.todo
        /\ run'.calm = run.calm /\ UNCHANGED <<file, ended>>
    BY <1>4 DEF ReadManifest, EntriesInv, RunInv
  <2>2. /\ ToDo' = ToDo /\ StepsOf(run.op)' = StepsOf(run.op) /\ Targets' = Targets
        /\ Counts(run.op)' = Counts(run.op)
    BY <1>1, <2>1 DEF ToDo, StepsOf, Targets, Counts
  <2>3. ASSUME NEW s PROVE Goal(run.op, s)' <=> Goal(run.op, s)
    BY <1>1, <2>1 DEF Goal, Named, HasEntry
  <2>4. ended = "none"
    BY <1>1 DEF ProgressInv
  <2>. QED
    BY <1>1, <2>1, <2>2, <2>3, <2>4 DEF ProgressInv
<1>5. CASE RemovePlugin
  <2>1. PICK name \in {"owned", "manifest"} :
          /\ Exists(file[name]) /\ Put(name, Absent)
          /\ IF \E other \in Plugin \ {name} : Exists(file[other])
             THEN UNCHANGED <<run, ended>>
             ELSE GoOn
    BY <1>5 DEF RemovePlugin, Plugin
  <2>2. /\ file'[name] = Absent /\ Absent.ours = "none" /\ Absent.state = "absent"
        /\ \A n \in Names \ {name} : file'[n] = file[n]
    BY <1>2, <2>1 DEF Put, EntriesInv, Absent
  <2>3. \A n \in Names : file'[n].ours # "none" => n \in Targets
    BY <2>2 DEF ProgressInv
  <2>4. ASSUME NEW s \in StepsOf("uninstall"), Goal("uninstall", s)
        PROVE  Goal("uninstall", s)'
    <3>1. Target(s) \in Names
      BY StepsHaveTargets DEF EntriesInv
    <3>2. \A n \in Names : HasEntry(n)' => HasEntry(n)
      BY <2>2 DEF HasEntry
    <3>. QED
      BY <1>2, <2>4, <3>1, <3>2 DEF Goal
  <2>5. CASE ~\E other \in Plugin \ {name} : Exists(file[other])
    <3>1. file'["owned"].state = "absent"
      <4>1. CASE name = "owned"
        BY <2>2, <4>1
      <4>2. CASE name = "manifest"
        <5>1. "owned" \in Plugin \ {name}
          BY <4>2 DEF Plugin
        <5>2. file["owned"].state = "absent"
          BY <2>5, <5>1 DEF Exists
        <5>. QED
          BY <1>2, <2>2, <4>2, <5>2
      <4>. QED
        BY <4>1, <4>2
    <3>2. Goal("uninstall", "markedPlugin")'
      <4>1. ~HasEntry("owned")'
        BY <3>1 DEF HasEntry
      <4>. QED
        BY <4>1 DEF Goal, Target
    <3>3. StepDone("uninstall")
      BY <1>1, <2>3, <2>4, <3>2 DEF StepDone
    <3>. QED
      BY <1>1, <2>1, <2>5, <3>3, GoOnKeepsProgress
  <2>6. CASE \E other \in Plugin \ {name} : Exists(file[other])
    <3>1. UNCHANGED <<run, ended>>
      BY <2>1, <2>6
    <3>2. run.pc = "remove" /\ ended = "none"
      BY <1>1, <1>5 DEF RemovePlugin, At, ProgressInv
    <3>3. /\ ToDo' = ToDo /\ StepsOf(run.op)' = StepsOf("uninstall") /\ Targets' = Targets
          /\ Counts(run.op)' = Counts(run.op)
      BY <1>1, <3>1 DEF ToDo, StepsOf, Targets, Counts
    <3>4. ASSUME run.calm, NEW s \in StepsOf("uninstall")
          PROVE  s \in ToDo' \/ Goal(run.op, s)'
      <4>1. s \in ToDo \/ Goal("uninstall", s)
        BY <1>1, <3>4 DEF ProgressInv, Counts
      <4>2. Goal(run.op, s)' <=> Goal("uninstall", s)'
        BY <1>1, <3>1 DEF Goal
      <4>. QED
        BY <2>4, <3>3, <4>1, <4>2
    <3>. QED
      BY <1>1, <2>3, <3>1, <3>2, <3>3, <3>4 DEF ProgressInv
  <2>. QED
    BY <2>5, <2>6
<1>. QED
  BY <1>3, <1>4, <1>5 DEF ReadManifest

(* An edit of the user disturbs what is under way, and adds no entry of    *)
(* TriSeek's.                                                              *)
LEMMA EditKeepsProgress ==
  ASSUME EntriesInv, ProgressInv, NEW name \in Names, NEW content,
         content.ours \in {file[name].ours, "none"}, EditFile(name, content)
  PROVE  ProgressInv'
<1>1. /\ file' = [file EXCEPT ![name] = content]
      /\ ended' = "none" /\ UNCHANGED <<harness, binary>>
      /\ run' = [run EXCEPT !.calm = (run = NoRun)]
  BY DEF EditFile
<1>2. /\ run'.op = run.op /\ run'.pc = run.pc /\ run'.todo = run.todo
      /\ run'.calm => run.op = "none"
  <2>1. /\ run'.op = run.op /\ run'.pc = run.pc /\ run'.todo = run.todo
        /\ run'.calm = (run = NoRun)
    BY <1>1 DEF EntriesInv, RunInv
  <2>2. run = NoRun => run.op = "none"
    BY DEF NoRun
  <2>. QED
    BY <2>1, <2>2
<1>3. /\ Targets' = Targets /\ ToDo' = ToDo /\ StepsOf(run.op)' = StepsOf(run.op)
  BY <1>1, <1>2 DEF Targets, StepsOf, ToDo
<1>4. \A n \in Names : file'[n].ours # "none" => n \in Targets
  BY <1>1 DEF EntriesInv, ProgressInv
<1>. QED
  BY <1>1, <1>2, <1>3, <1>4 DEF ProgressInv

(* What is known of every reachable state.                                 *)
LEMMA ProgressInvHolds == Spec => []ProgressInv
<1>1. Init => ProgressInv
  BY DEF Init, ProgressInv, NoRun, Absent
<1>2. EntriesInv /\ ProgressInv /\ [Next]_vars => ProgressInv'
  <2>. SUFFICES ASSUME EntriesInv, ProgressInv, [Next]_vars PROVE ProgressInv'
    OBVIOUS
  <2>1. ASSUME NEW op \in {"install", "uninstall"}, Begin(op) PROVE ProgressInv'
    <3>1. /\ UNCHANGED <<harness, file, binary, excused>> /\ ended' = "none"
          /\ run'.op = op /\ run'.pc = "read"
          /\ run'.todo = IF op = "install" THEN InstallSteps(harness)
                         ELSE UninstallSteps(harness)
      BY <2>1 DEF Begin, NoRun
    <3>2. /\ ToDo' = StepsOf(op) /\ StepsOf(run.op)' = StepsOf(op) /\ Targets' = Targets
      BY <3>1 DEF ToDo, StepsOf, Targets
    <3>3. \A j \in 2..Len(run'.todo) : run'.todo[j] # "cliOrMcp"
      BY <3>1, McpComesFirst DEF EntriesInv
    <3>. QED
      BY <3>1, <3>2, <3>3 DEF ProgressInv
  <2>2. CASE ReadFile
    <3>1. /\ UNCHANGED <<harness, file, binary, excused, ended>>
          /\ run'.op = run.op /\ run'.pc = "write" /\ run'.todo = run.todo
          /\ run'.calm = run.calm /\ run'.seen = file[Target(Step)] /\ run.pc = "read"
      BY <2>2 DEF ReadFile, history, EntriesInv, RunInv
    <3>2. /\ ToDo' = ToDo /\ StepsOf(run.op)' = StepsOf(run.op) /\ Targets' = Targets
          /\ Target(Step)' = Target(Step) /\ Counts(run.op)' = Counts(run.op)
      BY <3>1 DEF ToDo, StepsOf, Targets, Step, Counts, Target
    <3>3. ASSUME NEW s PROVE Goal(run.op, s)' <=> Goal(run.op, s)
      BY <3>1 DEF Goal, Named, HasEntry
    <3>4. run.op # "none" /\ ended = "none"
      BY <3>1 DEF ProgressInv
    <3>. QED
      BY <3>1, <3>2, <3>3, <3>4 DEF ProgressInv
  <2>3. CASE RunCli \/ Install \/ InstallFlag \/ InstallOwned
             \/ Uninstall \/ RemoveOwned
    <3>1. CASE Fail
      BY <2>3, <3>1, FailKeepsProgress
      DEF Fail, RunCli, Install, InstallFlag, InstallOwned, Uninstall, RemoveOwned
    <3>. QED
      BY <2>3, <3>1, StepsAreDone, GoOnKeepsProgress
  <2>8. CASE ReadManifest \/ RemovePlugin
    BY <2>8, PluginKeepsProgress
  <2>4. CASE Killed
    BY <2>4, FailKeepsProgress DEF Killed, Fail
  <2>5. CASE \/ \E name \in Names :
                  UserEdits(name) \/ UserBreaks(name) \/ UserRepairs(name)
             \/ UserTurnsHooksOff
    <3>1. ASSUME NEW name \in Names,
                 UserEdits(name) \/ UserBreaks(name) \/ UserRepairs(name)
                 \/ UserTurnsHooksOff
          PROVE  ProgressInv'
      <4>1. /\ name \in Names /\ "config" \in Names
            /\ file[name] \in Contents /\ file["config"] \in Contents
        BY DEF Names, EntriesInv
      <4>2. /\ \A items, shared :
                 [Good(file[name]) EXCEPT !.user = items, !.shared = shared].ours
                   = file[name].ours
            /\ \A shared :
                 [file[name] EXCEPT !.ours = "none", !.shared = shared].ours = "none"
            /\ \A state : [file[name] EXCEPT !.state = state].ours = file[name].ours
            /\ Good(file[name]).ours = file[name].ours
            /\ [file["config"] EXCEPT !.flag = "off"].ours = file["config"].ours
        BY <4>1 DEF Good, Contents
      <4>3. ASSUME NEW n \in Names, NEW content, EditFile(n, content),
                   content.ours = file[n].ours \/ content.ours = "none"
            PROVE  ProgressInv'
        <5>1. content.ours \in {file[n].ours, "none"}
          BY <4>3
        <5>. QED
          BY <4>3, <5>1, EditKeepsProgress
      <4>4. CASE UserEdits(name)
        <5>1. CASE \E items \in SUBSET Items :
                     \E shared \in SUBSET (IF name = "hooks" THEN items ELSE {}) :
                       EditFile(name, [Good(file[name]) EXCEPT !.user = items,
                                                               !.shared = shared])
          <6>1. PICK items, shared :
                  EditFile(name, [Good(file[name]) EXCEPT !.user = items, !.shared = shared])
            BY <5>1, Zenon
          <6>. QED
            BY <6>1, <4>2, <4>3
        <5>2. CASE \E shared \in SUBSET file[name].shared :
                     EditFile(name, [file[name] EXCEPT !.ours = "none", !.shared = shared])
          <6>1. PICK shared :
                  EditFile(name, [file[name] EXCEPT !.ours = "none", !.shared = shared])
            BY <5>2, Zenon
          <6>. QED
            BY <6>1, <4>2, <4>3
        <5>. QED
          BY <4>4, <5>1, <5>2 DEF UserEdits
      <4>5. CASE UserBreaks(name)
        <5>1. PICK state : EditFile(name, [file[name] EXCEPT !.state = state])
          BY <4>5, Zenon DEF UserBreaks
        <5>. QED
          BY <5>1, <4>2, <4>3
      <4>6. CASE UserRepairs(name)
        <5>1. EditFile(name, Good(file[name]))
          BY <4>6 DEF UserRepairs
        <5>. QED
          BY <5>1, <4>2, <4>3
      <4>7. CASE UserTurnsHooksOff
        <5>1. EditFile("config", [file["config"] EXCEPT !.flag = "off"])
          BY <4>7 DEF UserTurnsHooksOff
        <5>. QED
          BY <5>1, <4>1, <4>2, <4>3
      <4>. QED
        BY <3>1, <4>4, <4>5, <4>6, <4>7
    <3>. QED
      BY <2>5, <3>1 DEF Names
  <2>6. CASE Upgrade
    <3>1. /\ run' = run /\ run.op = "none" /\ run.pc = "none" /\ ended' = "none"
          /\ UNCHANGED <<file, harness>>
      BY <2>6 DEF Upgrade, NoRun
    <3>. QED
      BY <3>1 DEF ProgressInv, Targets, StepsOf
  <2>7. CASE UNCHANGED vars
    <3>1. UNCHANGED <<run, ended, file, harness, binary, excused>>
      BY <2>7 DEF vars, history
    <3>2. ASSUME NEW op \in {"none", "install", "uninstall"}, NEW s
          PROVE Goal(op, s)' <=> Goal(op, s)
      BY <3>1 DEF Goal, Named, HasEntry
    <3>3. /\ ToDo' = ToDo /\ Targets' = Targets /\ Target(Step)' = Target(Step)
          /\ \A op \in {"none", "install", "uninstall"} :
               StepsOf(op)' = StepsOf(op) /\ (Counts(op)' <=> Counts(op))
      BY <3>1 DEF Targets, StepsOf, ToDo, Step, Counts, Target
    <3>4. PICK op \in {"none", "install", "uninstall"} : op = run.op
      BY DEF ProgressInv
    <3>5. PICK last \in {"none", "install", "uninstall"} : last = ended
      BY DEF ProgressInv
    <3>6. /\ StepsOf(run.op)' = StepsOf(run.op) /\ (Counts(run.op)' <=> Counts(run.op))
          /\ StepsOf(ended)' = StepsOf(ended) /\ (Counts(ended)' <=> Counts(ended))
          /\ \A s : Goal(run.op, s)' <=> Goal(run.op, s)
          /\ \A s : Goal(ended, s)' <=> Goal(ended, s)
      BY <3>1, <3>2, <3>3, <3>4, <3>5 DEF StepsOf, Counts, Goal, Named, HasEntry
    <3>. QED
      BY <3>1, <3>3, <3>6 DEF ProgressInv
  <2>. QED
    BY <2>1, <2>2, <2>3, <2>4, <2>5, <2>6, <2>7, <2>8 DEF Next
<1>. QED
  BY <1>1, <1>2, EntriesInvHolds, PTL DEF Spec

(* An install that ended well, with nobody writing meanwhile and no file   *)
(* it could not read, leaves every file of its client with an entry for the*)
(* binary that ran, and Codex with its hooks on, whatever was installed,   *)
(* broken off or removed before (install/mod.rs; doctor.rs).               *)
THEOREM InstallsAreComplete == Spec => []InstallIsComplete
<1>1. EntriesInv /\ ProgressInv => InstallIsComplete
  <2>. SUFFICES ASSUME EntriesInv, ProgressInv, ended = "install", excused = {}
                PROVE  /\ Missing = {}
                       /\ \A name \in Names : HasEntry(name) => file[name].ours = binary
                       /\ harness = "codex" => FlagOn(file["config"])
    BY DEF InstallIsComplete
  <2>1. \A s \in StepsOf("install") : Goal("install", s)
    BY DEF ProgressInv, Counts
  <2>2. \A name \in Targets : Named(name)
    BY <2>1, TargetsHaveSteps DEF Goal, EntriesInv
  <2>3. \A name \in Names : HasEntry(name) => name \in Targets
    BY DEF ProgressInv, HasEntry
  <2>4. \A name \in {"hooks", "manifest"} :
          (\E i \in DOMAIN InstallSteps(harness) : Target(InstallSteps(harness)[i]) = name)
            => name \in Targets
    <3>1. DOMAIN InstallSteps(harness) = 1..Len(InstallSteps(harness))
      BY StepsAreSteps DEF EntriesInv
    <3>. QED
      BY <3>1 DEF Targets, StepsOf, Elems
  <2>5. Missing = {}
    BY <2>2, <2>4, StepsHaveTargets DEF Missing, Named, Names, EntriesInv
  <2>6. harness = "codex" => FlagOn(file["config"])
    BY <2>1, StepsHaveTargets DEF Goal, EntriesInv
  <2>. QED
    BY <2>2, <2>3, <2>5, <2>6 DEF Named
<1>. QED
  BY <1>1, EntriesInvHolds, ProgressInvHolds, PTL

(* An uninstall that ended well, with nobody writing meanwhile, leaves no  *)
(* file that names TriSeek but the half of a Codex plugin that a kill left:*)
(* what remove_triseek_owned_plugin_dir does not take for its own          *)
(* (shared.rs).                                                            *)
THEOREM UninstallsAreClean == Spec => []UninstallIsClean
<1>1. EntriesInv /\ ProgressInv => UninstallIsClean
  <2>. SUFFICES ASSUME EntriesInv, ProgressInv, ended = "uninstall",
                       NEW name \in {"config", "hooks", "owned"}, HasEntry(name)
                PROVE  name = "owned" /\ harness = "codex" /\ ~HasEntry("manifest")
    BY DEF UninstallIsClean
  <2>1. \A s \in StepsOf("uninstall") : Goal("uninstall", s)
    BY DEF ProgressInv, Counts
  <2>2. name \in Targets
    BY DEF ProgressInv, HasEntry, Names
  <2>3. PICK s \in StepsOf("uninstall") : Target(s) = name
    BY <2>2, TargetsHaveSteps DEF EntriesInv
  <2>4. s = "markedPlugin" /\ ~HasEntry("manifest")
    BY <2>1, <2>3 DEF Goal
  <2>5. name = "owned" /\ harness = "codex"
    BY <2>3, <2>4, StepsHaveTargets DEF Target, EntriesInv
  <2>. QED
    BY <2>4, <2>5
<1>. QED
  BY <1>1, EntriesInvHolds, ProgressInvHolds, PTL
=============================================================================
