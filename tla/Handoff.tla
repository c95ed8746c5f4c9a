------------------------------- MODULE Handoff -------------------------------
(***************************************************************************)
(* A handoff of a working session between two checkouts of a repository    *)
(* (search-cli/src/git_handoff.rs, handoff_metadata.rs, pack.rs and the    *)
(* callers in main.rs and mcp/tools.rs).  In git mode the uncommitted work *)
(* travels as a commit on a handoff branch: the tool stashes it, switches, *)
(* pops it, commits and pushes; the other side stashes its own work,       *)
(* fetches, switches, checks the commit and pops.  In metadata mode the    *)
(* pack only names a commit and the dirty files, and the other checkout    *)
(* must already match.                                                     *)
(*                                                                         *)
(* Each git command is a step.  Any of them may fail, or the tool may be   *)
(* killed before it: the error returns at once, whatever was done so far.  *)
(* A commit is the sequence of the works it is built from; an edit is one  *)
(* work, in one file.                                                      *)
(***************************************************************************)
EXTENDS Naturals, FiniteSets, SequencesExt

CONSTANTS
  Hosts,        \* the checkouts
  Works,        \* the edits users make
  FileOf,       \* the file each of them is in
  Branches,     \* handoff branches
  Main,         \* the branch everybody starts on
  NoRef,        \* a branch that does not exist
  PackFile,     \* the pack, as an untracked file of the checkout
  PackInRepo,   \* the pack is written into the checkout, the CLI's default
  MaxRuns,      \* bound: commands of the tool
  MaxFails      \* bound: commands that fail

ASSUME HandoffAssumption ==
  /\ FileOf \in [Works -> Nat]
  /\ Main \notin Branches
  /\ PackFile \notin Works
  /\ PackInRepo \in BOOLEAN
  /\ MaxRuns \in Nat
  /\ MaxFails \in Nat

VARIABLES
  repo,     \* per host: current branch, heads, work tree, stash list
  remote,   \* the shared remote: the commit of each branch
  packs,    \* the packs written, each with what it was to carry
  op,       \* per host: the command that runs and what it remembers
  runs,     \* history: commands of the tool so far
  fails     \* history: steps that failed

vars == <<repo, remote, packs, op, runs, fails>>

Refs == Branches \cup {Main}
Dirt == Works \cup {PackFile}

ASSUME RefsAssumption == NoRef \notin Seq(SUBSET Dirt)

Content(commit) == UNION {commit[i] : i \in DOMAIN commit}
Tip(h) == repo[h].heads[repo[h].branch]
Stashed(h) == UNION {repo[h].stashes[i].works : i \in DOMAIN repo[h].stashes}
InFiles(works) == {FileOf[w] : w \in works \cap Works}

-----------------------------------------------------------------------------
(* The commands of git, as the tool and the users run them.                *)

(* What "git stash list" says of an entry, apart from its number. *)
Line(h, label) == <<repo[h].branch, label>>

(* git stash push -u -m "triseek handoff <label>" *)
Push(h, label) ==
  [repo EXCEPT ![h].tree = {},
               ![h].stashes = <<[works |-> repo[h].tree, base |-> Tip(h),
                                 line |-> Line(h, label)]>> \o @]

(* Popping conflicts when a file of the stash was changed by commits since,*)
(* or is dirty.                                                            *)
Conflicts(h, i) ==
  LET entry == repo[h].stashes[i]
      here == Content(Tip(h))  there == Content(entry.base)
      changed == ((here \ there) \cup (there \ here)) \ entry.works
  IN \/ InFiles(entry.works) \cap InFiles(changed \cup repo[h].tree) # {}
     \/ PackFile \in entry.works /\ PackFile \in repo[h].tree \cup changed

(* git stash pop of the i-th entry; a conflict leaves it in the list and   *)
(* unmerged files in the tree.                                             *)
PopDropping(h, i) ==
  IF Conflicts(h, i)
  THEN [repo EXCEPT ![h].unmerged = TRUE, ![h].stashes = RemoveAt(@, i)]
  ELSE [repo EXCEPT ![h].tree = @ \cup repo[h].stashes[i].works,
                    ![h].stashes = RemoveAt(@, i)]
Pop(h, i) ==
  IF Conflicts(h, i)
  THEN [repo EXCEPT ![h].unmerged = TRUE]
  ELSE [repo EXCEPT ![h].tree = @ \cup repo[h].stashes[i].works,
                    ![h].stashes = RemoveAt(@, i)]

(* git commit after git add -A *)
CommitAll(h) ==
  [repo EXCEPT ![h].heads[repo[h].branch] = Append(@, repo[h].tree),
               ![h].tree = {}]

AlwaysAccepted(from, to) == TRUE
FastForwards(from, to) == IF from = NoRef THEN TRUE ELSE IsPrefix(from, to)

-----------------------------------------------------------------------------
(* The tool.                                                               *)

Idle == [pc |-> "idle"]
Busy(h) == op[h] # Idle
At(h, pc) == op[h].pc = pc
Goto(h, pc) == op' = [op EXCEPT ![h].pc = pc]
Done(h) == op' = [op EXCEPT ![h] = Idle]

(* The stash to pop later: the first line of the list that the list before *)
(* did not have, the number being part of a line.                          *)
NewEntry(h, label) ==
  LET before == repo[h].stashes
      after == Push(h, label)[h].stashes
  IN CHOOSE i \in DOMAIN after :
       /\ i > Len(before) \/ before[i].line # after[i].line
       /\ \A j \in 1..(i - 1) : before[j].line = after[j].line

(* stash_if_dirty *)
StashIfDirty(h) ==
  /\ At(h, "stash")
  /\ ~repo[h].unmerged
  /\ IF repo[h].tree = {} THEN UNCHANGED repo ELSE repo' = Push(h, op[h].label)
  /\ op' = [op EXCEPT ![h].pc = IF op[h].kind = "resume" THEN "fetch"
                                ELSE "branch",
                      ![h].stash = IF repo[h].tree = {} THEN 0
                                   ELSE NewEntry(h, op[h].label)]
  /\ UNCHANGED <<remote, packs, runs, fails>>

(* restore_stash: on the way to pc, or to the end when it conflicts or the *)
(* way is an error.                                                        *)
RestoreUnlessError(h, pc) ==
  /\ repo' = IF op[h].stash = 0 \/ pc = "error" THEN repo ELSE Pop(h, op[h].stash)
  /\ IF repo'[h].unmerged \/ pc = "error" THEN Done(h)
     ELSE op' = [op EXCEPT ![h].pc = pc, ![h].stash = 0]
  /\ UNCHANGED <<remote, packs, runs, fails>>
RestoreStash(h, pc) ==
  /\ repo' = IF op[h].stash = 0 THEN repo ELSE Pop(h, op[h].stash)
  /\ IF repo'[h].unmerged \/ pc = "error" THEN Done(h)
     ELSE op' = [op EXCEPT ![h].pc = pc, ![h].stash = 0]
  /\ UNCHANGED <<remote, packs, runs, fails>>

(* triseek handoff, session_handoff: mode and branch are the caller's. *)
StartHandoff(h, b, mode) ==
  /\ ~Busy(h)
  /\ runs < MaxRuns
  /\ runs' = runs + 1
  /\ op' = [op EXCEPT ![h] =
       [pc |-> IF mode = "git" THEN "stash" ELSE "snapshot", kind |-> "handoff",
        mode |-> mode, branch |-> b, label |-> "session",
        stash |-> 0, before |-> repo[h].tree, list |-> repo[h].stashes]]
  /\ UNCHANGED <<repo, remote, packs, fails>>

(* An existing branch needs --continue, or a yes at the prompt. *)
ChooseBranch(h) ==
  /\ At(h, "branch")
  /\ Goto(h, "switch")
  /\ UNCHANGED <<repo, remote, packs, runs, fails>>

RefuseBranch(h) ==
  /\ At(h, "branch")
  /\ repo[h].heads[op[h].branch] # NoRef
  /\ RestoreStash(h, "error")

(* git switch, with -c when the branch is new. *)
SwitchBranch(h) ==
  /\ At(h, "switch")
  /\ op[h].kind = "handoff"
  /\ repo' = [repo EXCEPT
       ![h].heads[op[h].branch] = IF @ = NoRef THEN Tip(h) ELSE @,
       ![h].branch = op[h].branch]
  /\ Goto(h, "pop")
  /\ UNCHANGED <<remote, packs, runs, fails>>

PopOnResumeOnly(h) ==
  /\ At(h, "pop")
  /\ IF op[h].kind = "resume" THEN RestoreStash(h, "validate")
     ELSE Goto(h, "commit") /\ UNCHANGED <<repo, remote, packs, runs, fails>>
PopWork(h) ==
  /\ At(h, "pop")
  /\ RestoreStash(h, IF op[h].kind = "handoff" THEN "commit" ELSE "validate")

CommitWork(h) ==
  /\ At(h, "commit")
  /\ repo' = IF repo[h].tree = {} THEN repo ELSE CommitAll(h)
  /\ Goto(h, "push")
  /\ UNCHANGED <<remote, packs, runs, fails>>

(* git push, never with --force; a push that is rejected is a failure. *)
PushBranch(h) ==
  /\ At(h, "push")
  /\ FastForwards(remote[op[h].branch], Tip(h))
  /\ remote' = [remote EXCEPT ![op[h].branch] = Tip(h)]
  /\ Goto(h, "snapshot")
  /\ UNCHANGED <<repo, packs, runs, fails>>

(* The daemon's snapshot captures commit and dirty files, handoff.json has *)
(* the mode and the branch, and the pack holds both; the rest is history.  *)
Captured(h) == [commit |-> Tip(h), dirty |-> repo[h].tree]
Described(h) == [mode |-> op[h].mode, branch |-> op[h].branch]
Origin(h) == [from |-> h, carries |-> op[h].before, clean |-> op[h].list = <<>>]
PackOf(h) ==
  [commit |-> Captured(h).commit, dirty |-> Captured(h).dirty,
   mode |-> Described(h).mode, branch |-> Described(h).branch,
   from |-> Origin(h).from, carries |-> Origin(h).carries, clean |-> Origin(h).clean]

WritePack(h) ==
  /\ At(h, "snapshot")
  /\ packs' = packs \cup {PackOf(h)}
  /\ repo' = IF PackInRepo THEN [repo EXCEPT ![h].tree = @ \cup {PackFile}]
             ELSE repo
  /\ Done(h)
  /\ UNCHANGED <<remote, runs, fails>>

(* triseek resume, session_resume: the pack is imported and says the rest. *)
StartResume(h, p) ==
  /\ ~Busy(h)
  /\ runs < MaxRuns
  /\ runs' = runs + 1
  /\ op' = [op EXCEPT ![h] =
       [pc |-> IF p.mode = "git" THEN "stash" ELSE "validate",
        kind |-> "resume", pack |-> p, branch |-> p.branch, label |-> "resume",
        tip |-> NoRef, stash |-> 0, before |-> repo[h].tree, list |-> repo[h].stashes]]
  /\ UNCHANGED <<repo, remote, packs, fails>>

Fetch(h) ==
  /\ At(h, "fetch")
  /\ remote[op[h].branch] # NoRef
  /\ op' = [op EXCEPT ![h].pc = "switch", ![h].tip = remote[op[h].branch]]
  /\ UNCHANGED <<repo, remote, packs, runs, fails>>

(* git switch; then merge --ff-only when the branch was there already.  A  *)
(* branch that went its own way makes the merge fail, on that branch.      *)
FollowBranch(h) ==
  LET local == repo[h].heads[op[h].branch] IN
  /\ At(h, "switch")
  /\ op[h].kind = "resume"
  /\ IF local # NoRef /\ ~IsPrefix(local, op[h].tip) /\ ~IsPrefix(op[h].tip, local)
     THEN /\ repo' = [repo EXCEPT ![h].branch = op[h].branch]
          /\ Done(h)
     ELSE /\ repo' = [repo EXCEPT
               ![h].branch = op[h].branch,
               ![h].heads[op[h].branch] =
                 IF local # NoRef /\ IsPrefix(op[h].tip, local)
                 THEN local ELSE op[h].tip]
          /\ Goto(h, "check")
  /\ UNCHANGED <<remote, packs, runs, fails>>

CheckCommit(h) ==
  /\ At(h, "check")
  /\ IF Tip(h) = op[h].pack.commit
     THEN Goto(h, "pop") /\ UNCHANGED <<repo, remote, packs, runs, fails>>
     ELSE RestoreStash(h, "error")

(* validate_checkout: the commit, and the dirty files when no git handoff  *)
(* was restored.  Files are compared by name.                              *)
SameDirt(tree, dirty) ==
  /\ InFiles(tree) = InFiles(dirty)
  /\ PackFile \in tree <=> PackFile \in dirty
MatchesClean(h, p) ==
  /\ Tip(h) = p.commit
  /\ p.mode = "metadata" => repo[h].tree = {}
CheckoutMatches(h, p) ==
  /\ Tip(h) = p.commit
  /\ p.mode = "metadata" => SameDirt(repo[h].tree, p.dirty)

Validate(h) ==
  /\ At(h, "validate")
  /\ IF CheckoutMatches(h, op[h].pack) THEN Goto(h, "prime") ELSE Done(h)
  /\ UNCHANGED <<repo, remote, packs, runs, fails>>

(* session_resume_prepare by the daemon, the last step *)
Prime(h) ==
  /\ At(h, "prime")
  /\ Done(h)
  /\ UNCHANGED <<repo, remote, packs, runs, fails>>

(* The next command fails, the daemon does not answer, or the tool is      *)
(* killed: nothing is undone.                                              *)
Fail(h) ==
  /\ Busy(h)
  /\ fails < MaxFails
  /\ fails' = fails + 1
  /\ Done(h)
  /\ UNCHANGED <<repo, remote, packs, runs>>

(* git itself refuses: unmerged files, a rejected push, no branch. *)
Refused(h) ==
  /\ \/ At(h, "stash") /\ repo[h].unmerged
     \/ At(h, "push") /\ ~FastForwards(remote[op[h].branch], Tip(h))
     \/ At(h, "fetch") /\ remote[op[h].branch] = NoRef
  /\ Done(h)
  /\ UNCHANGED <<repo, remote, packs, runs, fails>>

-----------------------------------------------------------------------------
(* The users, between two commands of the tool.                            *)

Made == UNION {repo[h].made : h \in Hosts}

Edit(h, w) ==
  /\ ~Busy(h)
  /\ w \notin Made
  /\ repo' = [repo EXCEPT ![h].tree = @ \cup {w}, ![h].made = @ \cup {w}]
  /\ UNCHANGED <<remote, packs, op, runs, fails>>

UserCommit(h) ==
  /\ ~Busy(h)
  /\ repo[h].tree # {}
  /\ ~repo[h].unmerged
  /\ repo' = CommitAll(h)
  /\ UNCHANGED <<remote, packs, op, runs, fails>>

(* Back to the first branch, with a clean tree. *)
UserLeaves(h) ==
  /\ ~Busy(h)
  /\ repo[h].tree = {}
  /\ ~repo[h].unmerged
  /\ repo[h].branch # Main
  /\ repo' = [repo EXCEPT ![h].branch = Main]
  /\ UNCHANGED <<remote, packs, op, runs, fails>>

(* The merge markers go, the stash stays. *)
UserGivesUpMerge(h) ==
  /\ ~Busy(h)
  /\ repo[h].unmerged
  /\ repo' = [repo EXCEPT ![h].unmerged = FALSE]
  /\ UNCHANGED <<remote, packs, op, runs, fails>>

-----------------------------------------------------------------------------
Init ==
  /\ repo = [h \in Hosts |->
       [branch |-> Main, heads |-> [b \in Refs |-> IF b = Main THEN <<>> ELSE NoRef],
        tree |-> {}, stashes |-> <<>>, unmerged |-> FALSE, made |-> {}]]
  /\ remote = [b \in Branches |-> NoRef]
  /\ packs = {}
  /\ op = [h \in Hosts |-> Idle]
  /\ runs = 0
  /\ fails = 0

Tool(h) ==
  \/ StashIfDirty(h) \/ ChooseBranch(h) \/ RefuseBranch(h) \/ SwitchBranch(h)
  \/ PopWork(h) \/ CommitWork(h) \/ PushBranch(h) \/ WritePack(h)
  \/ Fetch(h) \/ FollowBranch(h) \/ CheckCommit(h) \/ Validate(h) \/ Prime(h)
  \/ Fail(h) \/ Refused(h)

Next ==
  \E h \in Hosts :
    \/ Tool(h)
    \/ \E b \in Branches, mode \in {"git", "metadata"} : StartHandoff(h, b, mode)
    \/ \E p \in packs : StartResume(h, p)
    \/ \E w \in Works : Edit(h, w)
    \/ UserCommit(h)
    \/ UserLeaves(h)
    \/ UserGivesUpMerge(h)

Spec == Init /\ [][Next]_vars

-----------------------------------------------------------------------------
(* Properties.                                                             *)

Commits == Seq(SUBSET Dirt) \cup {NoRef}
EntryType ==
  [works : SUBSET Dirt, base : Seq(SUBSET Dirt),
   line : Refs \X {"session", "resume"}]
RepoType ==
  [branch : Refs, heads : [Refs -> Commits], tree : SUBSET Dirt,
   stashes : Seq(EntryType), unmerged : BOOLEAN, made : SUBSET Works]
PackType ==
  [mode : {"git", "metadata"}, branch : Branches, commit : Seq(SUBSET Dirt),
   dirty : SUBSET Dirt, from : Hosts, carries : SUBSET Dirt, clean : BOOLEAN]

(* The current branch exists, and a command remembers an existing stash.   *)
TypeOK ==
  /\ repo \in [Hosts -> RepoType]
  /\ remote \in [Branches -> Commits]
  /\ packs \subseteq PackType
  /\ runs \in 0..MaxRuns
  /\ fails \in 0..MaxFails
  /\ \A h \in Hosts :
       /\ Tip(h) # NoRef
       /\ Busy(h) => op[h].stash \in 0..Len(repo[h].stashes)

(* What a user edited is never gone: it is in the work tree, in a stash or *)
(* in a commit, whatever failed and whoever pushed.                        *)
NothingLost ==
  \A h \in Hosts :
    repo[h].made \subseteq
      repo[h].tree \cup Stashed(h)
        \cup UNION {Content(repo[h].heads[b]) : b \in {c \in Refs : repo[h].heads[c] # NoRef}}

(* A git pack that was written from a checkout without leftover stashes    *)
(* names a commit that holds all work the checkout had, and the remote     *)
(* branch still contains that commit: docs/mcp.md:550 "commits only when   *)
(* the working tree has uncommitted changes, pushes without force".        *)
PackHoldsWork ==
  \A p \in packs :
    p.mode = "git" =>
      /\ p.clean => p.carries \subseteq Content(p.commit)
      /\ remote[p.branch] # NoRef /\ IsPrefix(p.commit, remote[p.branch])

(* A command of the tool that gets to its end, and one that refuses an     *)
(* existing branch or a wrong commit, gives back what it stashed: the      *)
(* stash list is as before and the work is in the tree or committed.       *)
GivesBack(h) ==
  /\ repo'[h].stashes = op[h].list
  /\ op[h].before \subseteq repo'[h].tree \cup Content(Tip(h)')
Ends(h) ==
  \/ WritePack(h)
  \/ Prime(h)
  \/ RefuseBranch(h)
  \/ CheckCommit(h) /\ Done(h)
WorkComesBack ==
  [][ \A h \in Hosts :
        (Busy(h) /\ op[h].list = <<>> /\ Ends(h) /\ ~repo'[h].unmerged)
          => GivesBack(h) ]_vars

(* The same with stashes that earlier commands left: docs/mcp.md:672 "If   *)
(* the pack contains Git handoff metadata, TriSeek stashes local target    *)
(* changes, fetches and checks out the recorded handoff branch, reapplies  *)
(* the stash, validates the restored commit".  The code does not keep this:*)
(* see the README.                                                         *)
ResumeReappliesStash ==
  [][ \A h \in Hosts :
        (Prime(h) /\ op[h].pack.mode = "git") => GivesBack(h) ]_vars

(* A resume that succeeds has the commit of the pack checked out, on the   *)
(* branch of the pack, with the work of the other side in it.              *)
ResumeArrives ==
  [][ \A h \in Hosts :
        (Prime(h) /\ op[h].pack.mode = "git") =>
          LET p == op[h].pack IN
          /\ repo'[h].branch = p.branch
          /\ p.clean => p.carries \subseteq Content(Tip(h)') ]_vars

(* While a checkout is as the metadata handoff left it, it can be resumed  *)
(* there: docs/mcp.md:548 "the target checkout must already match the      *)
(* snapshot commit and dirty-file list".                                   *)
QuietResume ==
  \A h \in Hosts, p \in packs :
    (p.mode = "metadata" /\ p.from = h /\ Tip(h) = p.commit
       /\ repo[h].tree \ {PackFile} = p.dirty \ {PackFile})
      => CheckoutMatches(h, p)
=============================================================================
