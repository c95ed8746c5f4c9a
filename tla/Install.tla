------------------------------- MODULE Install ------------------------------
(***************************************************************************)
(* Installing TriSeek into an agent client (search-cli/src/install): a list*)
(* of steps, each of which reads a configuration file of the client, edits *)
(* what it read and replaces the file.  The user, and the client itself,   *)
(* write the same files.  A step that fails ends the command, a command    *)
(* may be killed between any two steps, and what is run again starts from  *)
(* the first one.                                                          *)
(*                                                                         *)
(* A file is what the edits tell apart: whether it can be read and parsed, *)
(* the entries of the user, the entry of TriSeek, and Codex's hooks flag;  *)
(* of a hooks file also which of the user's hooks are "shared": they are in*)
(* a matcher group with a command that names triseek, TriSeek's own hook, a*)
(* hook of the user, or the very one.                                      *)
(***************************************************************************)
EXTENDS Naturals, FiniteSets, Sequences

CONSTANTS
  Items,      \* entries of the user in a file
  Harnesses,  \* the clients installed into, of the five known
  MaxRuns,    \* bound: install and uninstall commands
  MaxEdits    \* bound: writes by the user or the client

ASSUME InstallAssumption ==
  /\ Harnesses \subseteq {"project", "claude", "codex", "opencode", "pi"}
  /\ MaxRuns \in Nat
  /\ MaxEdits \in Nat

VARIABLES
  harness,  \* the client: Claude Code by file or by its command, ...
  file,     \* its files
  binary,   \* the path of the running triseek binary: "old" or "new"
  run,      \* the command that runs: its steps to do, what it read, and
            \* whether nobody else has written since it began
  users,    \* history: the entries the user left in the configuration and,
            \* outside of shared groups, in the hooks
  excused,  \* history: files the command could not read or was raced on
  ended,    \* history: the last command that ended well, with nothing since
  runs,     \* history: commands so far
  edits     \* history: writes by the user so far

history == <<users, excused, ended, runs, edits>>
vars == <<harness, file, binary, run, history>>

(* The MCP configuration, the hooks, and the files that are TriSeek's own: *)
(* a command, a plugin or an extension, with a manifest for Codex.         *)
Names == {"config", "hooks", "manifest", "owned"}
Flags == {"unset", "on", "off"}

Absent == [state |-> "absent", user |-> {}, shared |-> {}, ours |-> "none",
           flag |-> "unset"]
Empty == [Absent EXCEPT !.state = "good"]

NoRun == [op |-> "none", todo |-> <<>>, seen |-> Absent, pc |-> "none", calm |-> TRUE]

-----------------------------------------------------------------------------
(* The steps of each client.                                               *)

InstallClaudeProject == <<"mcp", "hooks", "own">>
InstallClaude == <<"cli", "hooks", "own">>
InstallCodex == <<"cliOrMcp", "hooks", "flag", "ownManifest", "own">>
InstallOpencode == <<"mcp", "own">>
InstallPi == <<"mcp", "own">>

InstallSteps(h) ==
  CASE h = "project" -> InstallClaudeProject
    [] h = "claude" -> InstallClaude
    [] h = "codex" -> InstallCodex
    [] h = "opencode" -> InstallOpencode
    [] h = "pi" -> InstallPi

UninstallWithoutHooks == <<"mcp", "marked">>
UninstallClaudeProject == <<"mcp", "hooks", "marked">>
UninstallClaude == <<"cli", "hooks", "marked">>
UninstallCodex == <<"cliOrMcp", "hooks", "markedPlugin">>
UninstallOpencode == <<"mcp", "own">>
UninstallPi == <<"mcp", "own">>

UninstallSteps(h) ==
  CASE h = "project" -> UninstallClaudeProject
    [] h = "claude" -> UninstallClaude
    [] h = "codex" -> UninstallCodex
    [] h = "opencode" -> UninstallOpencode
    [] h = "pi" -> UninstallPi

Target(step) ==
  CASE step \in {"mcp", "cli", "cliOrMcp", "flag"} -> "config"
    [] step = "hooks" -> "hooks"
    [] step = "ownManifest" -> "manifest"
    [] step \in {"own", "marked", "markedPlugin"} -> "owned"

-----------------------------------------------------------------------------
(* The edits.  "good" is a file that parses and has the expected shape,    *)
(* "odd" one that parses and has not, "broken" one that does not parse, and*)
(* "unreadable" one whose text cannot be had.                              *)

(* fs::read_to_string(..).ok(): what cannot be read is as good as absent.  *)
Read(content) == IF content.state = "unreadable" THEN Absent ELSE content

Exists(content) == content.state # "absent"
Parses(content) == content.state \in {"good", "odd", "absent"}
CanEdit(content) == content.state \in {"good", "absent"}
Good(content) == [content EXCEPT !.state = "good"]

(* upsert_mcp_json, remove_mcp_json: the entry is replaced or removed, the *)
(* rest stays.  The functions for Codex do the same to TOML.               *)
UpsertMcpOnce(content) ==
  IF content.ours = "none" THEN [Good(content) EXCEPT !.ours = binary] ELSE Good(content)
UpsertMcp(content) == [Good(content) EXCEPT !.ours = binary]
RemoveMcp(content) == [content EXCEPT !.ours = "none"]
UpsertCodexConfig(content) == UpsertMcp(content)
RemoveCodexConfig(content) == RemoveMcp(content)

(* is_triseek_hook_group, groups.retain: a matcher group of an event goes  *)
(* as a whole when any command in it names triseek, the user's hooks in it *)
(* with it; the new hook is pushed in a group of its own.                  *)
KeptNone(content) == {}
Kept(content) == content.user \ content.shared
UpsertHooks(content) ==
  [Good(content) EXCEPT !.ours = binary, !.user = Kept(content), !.shared = {}]
RemoveHooks(content) ==
  [content EXCEPT !.ours = "none", !.user = Kept(content), !.shared = {}]
UpsertCodexHooks(content) == UpsertHooks(content)
RemoveCodexHooks(content) == RemoveHooks(content)

(* codex_hooks_enabled and ensure_codex_hooks_enabled: an absent flag is on;*)
(* the legacy flag counts as off.                                          *)
FlagOn(content) == content.flag # "off"
EnableFlag(content) == [content EXCEPT !.flag = "on"]

(* TriSeek's own files are written whole.                                  *)
WriteOwned == [Empty EXCEPT !.ours = binary]

Put(name, content) == file' = [file EXCEPT ![name] = content] /\ UNCHANGED users

Same == UNCHANGED <<file, users>>

(* What a command loses by an edit that is not the user's latest, or of a  *)
(* file it could not read.                                                 *)
Excuse(name) ==
  excused' = IF run.seen = file[name] /\ file[name].state # "unreadable"
             THEN excused ELSE excused \cup {name}

Fail == run' = NoRun /\ UNCHANGED <<file, users, excused, ended>>

GoOn ==
  LET rest == Tail(run.todo) IN
  IF rest = <<>> THEN run' = NoRun /\ ended' = IF run.calm THEN run.op ELSE "none"
  ELSE run' = [run EXCEPT !.todo = rest, !.pc = "read"] /\ UNCHANGED ended

Step == run.todo[1]
At(op, steps, pc) == run.op = op /\ run.pc = pc /\ run.todo # <<>> /\ Step \in steps

-----------------------------------------------------------------------------
(* A command, step by step.                                                *)

Begin(op) ==
  /\ run = NoRun
  /\ runs < MaxRuns
  /\ runs' = runs + 1
  /\ run' = [NoRun EXCEPT !.op = op, !.pc = "read",
             !.todo = IF op = "install" THEN InstallSteps(harness)
                     ELSE UninstallSteps(harness)]
  /\ ended' = "none"
  /\ UNCHANGED <<harness, file, binary, users, excused, edits>>

ReadFile ==
  /\ run.pc = "read" /\ Step \notin {"cli"}
  /\ run' = [run EXCEPT !.seen = file[Target(Step)], !.pc = "write"]
  /\ UNCHANGED <<harness, file, binary, history>>

(* `claude mcp add` and `remove`: the command of the client edits its file,*)
(* or it fails, and with it the step.                                      *)
RunCli ==
  /\ run.pc = "read" /\ Step \in {"cli", "cliOrMcp"}
  /\ \/ /\ file["config"].state \in {"good", "absent"}
        /\ Put("config", IF run.op = "install" THEN UpsertMcp(file["config"])
                         ELSE RemoveMcp(file["config"]))
        /\ GoOn
        /\ UNCHANGED excused
     \/ Step = "cli" /\ Fail
  /\ UNCHANGED <<harness, binary, runs, edits>>

(* What an install and an uninstall make of a configuration file. *)
InstallEdit(content) ==
  CASE Step = "mcp" -> UpsertMcp(content)
    [] Step = "cliOrMcp" -> UpsertCodexConfig(content)
    [] Step = "hooks" -> IF harness = "codex" THEN UpsertCodexHooks(content)
                         ELSE UpsertHooks(content)
UninstallEdit(content) ==
  CASE Step = "mcp" -> RemoveMcp(content)
    [] Step = "cliOrMcp" -> RemoveCodexConfig(content)
    [] Step = "hooks" -> IF harness = "codex" THEN RemoveCodexHooks(content)
                         ELSE RemoveHooks(content)

Replace(content) == Put(Target(Step), content) /\ Excuse(Target(Step))

(* An upsert: a file that does not parse, or has another shape, is an error.*)
Install ==
  /\ At("install", {"mcp", "cliOrMcp", "hooks"}, "write")
  /\ LET content == Read(run.seen)
     IN IF CanEdit(content) THEN Replace(InstallEdit(content)) /\ GoOn ELSE Fail
  /\ UNCHANGED <<harness, binary, runs, edits>>

(* The hooks flag of Codex is on by default.                               *)
InstallFlag ==
  /\ At("install", {"flag"}, "write")
  /\ LET content == Read(run.seen)
     IN IF ~Parses(content) THEN Fail
        ELSE /\ IF FlagOn(content) THEN Same /\ UNCHANGED excused
                ELSE Replace(EnableFlag(content))
             /\ GoOn
  /\ UNCHANGED <<harness, binary, runs, edits>>

InstallOwned ==
  /\ At("install", {"own", "ownManifest"}, "write")
  /\ Replace(WriteOwned)
  /\ GoOn
  /\ UNCHANGED <<harness, binary, runs, edits>>

(* A removal: a file that cannot be read, or has another shape, is left    *)
(* alone, one that does not parse is an error.                             *)
Uninstall ==
  /\ At("uninstall", {"mcp", "cliOrMcp", "hooks"}, "write")
  /\ LET content == Read(run.seen)
         edited == UninstallEdit(content)
     IN IF ~Parses(content) THEN Fail
        ELSE /\ IF content.state = "good" /\ edited # content
                THEN Replace(edited)
                ELSE Same /\ UNCHANGED excused
             /\ GoOn
  /\ UNCHANGED <<harness, binary, runs, edits>>

(* remove_triseek_owned_file: what bore TriSeek's mark when it was read is *)
(* removed, whatever is there by then; OpenCode and Pi remove what exists. *)
Marked(content) == Read(content).ours # "none"

Removable == IF Step = "own" THEN Exists(run.seen) ELSE Marked(run.seen)

RemoveOwned ==
  /\ At("uninstall", {"own", "marked"}, "write")
  /\ IF Removable THEN Put("owned", Absent) ELSE Same
  /\ GoOn
  /\ UNCHANGED <<harness, binary, excused, runs, edits>>

(* remove_triseek_owned_plugin_dir: after the command the manifest is read,*)
(* and when both bear the mark the directory goes, one file after the      *)
(* other, in the order the file system lists them.                         *)
Plugin == {"owned", "manifest"}

ReadManifest ==
  /\ At("uninstall", {"markedPlugin"}, "write")
  /\ IF Marked(run.seen) /\ Marked(file["manifest"])
     THEN run' = [run EXCEPT !.pc = "remove"] /\ UNCHANGED ended
     ELSE GoOn
  /\ UNCHANGED <<harness, file, binary, users, excused, runs, edits>>

RemovePlugin ==
  /\ At("uninstall", {"markedPlugin"}, "remove")
  /\ \E name \in Plugin :
       /\ Exists(file[name])
       /\ Put(name, Absent)
       /\ IF \E other \in Plugin \ {name} : Exists(file[other])
          THEN UNCHANGED <<run, ended>>
          ELSE GoOn
  /\ UNCHANGED <<harness, binary, excused, runs, edits>>

(* A kill, or an error of the file system: the file of the step is as it   *)
(* was, for it is replaced by a rename.                                    *)
Killed ==
  /\ run # NoRun
  /\ Fail
  /\ UNCHANGED <<harness, binary, runs, edits>>

-----------------------------------------------------------------------------
(* The user, the client and an upgrade.                                    *)

EditFile(name, content) ==
  /\ edits < MaxEdits
  /\ edits' = edits + 1
  /\ file' = [file EXCEPT ![name] = content]
  /\ users' = [n \in DOMAIN users |-> IF n = name 
                                 THEN content.user \ content.shared ELSE users[n]]
  /\ excused' = excused \ {name}
  /\ ended' = "none"
  /\ run' = [run EXCEPT !.calm = (run = NoRun)]
  /\ UNCHANGED <<harness, binary, runs>>

(* The user's entries of a file change, or TriSeek's entry goes, and with  *)
(* it what it shared a group with is the user's alone again.               *)
UserEdits(name) ==
  \/ \E items \in SUBSET Items :
       \E shared \in SUBSET (IF name = "hooks" THEN items ELSE {}) :
         EditFile(name, [Good(file[name]) EXCEPT !.user = items, !.shared = shared])
  \/ /\ Exists(file[name])
     /\ \E shared \in SUBSET file[name].shared :
          EditFile(name, [file[name] EXCEPT !.ours = "none", !.shared = shared])

UserBreaks(name) ==
  /\ file[name].state = "good"
  /\ \E state \in {"odd", "broken", "unreadable"} :
       EditFile(name, [file[name] EXCEPT !.state = state])

UserRepairs(name) ==
  /\ file[name].state \in {"odd", "broken", "unreadable"}
  /\ EditFile(name, Good(file[name]))

UserTurnsHooksOff ==
  /\ harness = "codex" /\ file["config"].state = "good"
  /\ EditFile("config", [file["config"] EXCEPT !.flag = "off"])

Upgrade ==
  /\ binary = "old" /\ run = NoRun
  /\ binary' = "new"
  /\ ended' = "none"
  /\ UNCHANGED <<harness, file, run, users, excused, runs, edits>>

-----------------------------------------------------------------------------
Init ==
  /\ harness \in Harnesses
  /\ file = [name \in Names |-> Absent]
  /\ binary = "old"
  /\ run = NoRun
  /\ users = [name \in {"config", "hooks"} |-> {}]
  /\ excused = {}
  /\ ended = "none"
  /\ runs = 0
  /\ edits = 0

Next ==
  \/ \E op \in {"install", "uninstall"} : Begin(op)
  \/ ReadFile \/ RunCli \/ Install \/ InstallFlag \/ InstallOwned
  \/ Uninstall \/ RemoveOwned \/ ReadManifest \/ RemovePlugin \/ Killed
  \/ \E name \in Names :
       UserEdits(name) \/ UserBreaks(name) \/ UserRepairs(name)
  \/ UserTurnsHooksOff \/ Upgrade

Spec == Init /\ [][Next]_vars

-----------------------------------------------------------------------------
(* triseek doctor: what it calls missing.                                  *)

HasEntry(name) == file[name].state = "good" /\ file[name].ours # "none"

Missing ==
  {name \in Names :
     /\ name \in {"hooks", "manifest"} => \E i \in DOMAIN InstallSteps(harness) :
                                            Target(InstallSteps(harness)[i]) = name
     /\ ~HasEntry(name)}

-----------------------------------------------------------------------------
(* Properties.                                                             *)

Contents ==
  [state : {"good", "absent", "odd", "broken", "unreadable"}, user : SUBSET Items,
   shared : SUBSET Items, ours : {"none", "old", "new"}, flag : Flags]

(* Files are contents, a file of nothing holds nothing, and a command has  *)
(* steps to do as long as it runs.                                         *)
TypeOK ==
  /\ file \in [Names -> Contents]
  /\ \A name \in Names : file[name].state = "absent" => file[name] = Absent
  /\ run.op # "none" <=> run.todo # <<>>
  /\ run.seen \in Contents
  /\ users \in [{"config", "hooks"} -> SUBSET Items]
  /\ excused \subseteq Names

(* "merge-preserving edits to their config files" (install/mod.rs:6): the  *)
(* user's entries survive every sequence of commands, killed ones too,     *)
(* unless the user wrote while a step ran, the file could not be read, or  *)
(* a hook was put in one matcher group with a command that names triseek:  *)
(* the code takes that group for its own and drops it (shared.rs:674, 719).*)
UsersEntriesStay ==
  \A name \in {"config", "hooks"} \ excused : users[name] \subseteq file[name].user

(* After an install that ended well, whatever was installed, broken off or *)
(* removed before, doctor misses nothing, the entries name the binary that *)
(* runs, and Codex has its hooks on.                                       *)
InstallIsComplete ==
  (ended = "install" /\ excused = {}) =>
    /\ Missing = {}
    /\ \A name \in Names : HasEntry(name) => file[name].ours = binary
    /\ harness = "codex" => FlagOn(file["config"])

(* After an uninstall that ended well no file of the expected shape names  *)
(* TriSeek, except the half of a Codex plugin that a killed install or     *)
(* uninstall left.                                                         *)
UninstallIsClean ==
  ended = "uninstall" =>
    \A name \in {"config", "hooks", "owned"} :
      HasEntry(name) => name = "owned" /\ harness = "codex" /\ ~HasEntry("manifest")
=============================================================================
