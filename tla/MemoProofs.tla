------------------------------ MODULE MemoProofs ------------------------------
(***************************************************************************)
(* Proofs about Memo: a read is blocked only when the conversation holds   *)
(* what is on disk, for every number of conversations, files and contents. *)
(* The invariant is MemoInv.  Its steps are split by what they touch: the  *)
(* entries (a check, a report, marks), the reports on their way, or what   *)
(* the conversation holds.                                                 *)
(***************************************************************************)
EXTENDS Memo, TLAPS

(* What the proofs ask of the hooks and their clients; MCMemo's sibling    *)
(* runs show what goes wrong without each of them.                         *)
FaithfulHooks ==
  /\ PayloadContent
  /\ CompactHook
  /\ \A c, d \in Conversations : SessionId[c] = SessionId[d] => c = d

Memos == [Sessions -> [Files -> Entry \cup {None}]]
Calls == [step : {"idle", "read", "hook", "sent", "edited"},
          file : Files \cup {None}, hash : Hashes \cup {None},
          tokens : Tokens]

-----------------------------------------------------------------------------
(* Operators on entries.                                                   *)

(* A refreshed or marked entry says the same was read: check, status and   *)
(* mark_stale_for_all (memo.rs 173-342, 344-355) only move the flag.       *)
LEMMA FlagOnly ==
  ASSUME NEW entry \in Entry, NEW f
  PROVE  /\ Refreshed(entry, f) \in Entry
         /\ Refreshed(entry, f).content = entry.content
         /\ MarkedStale(entry) \in Entry \cup {None}
         /\ MarkedStale(entry) # None => MarkedStale(entry).content = entry.content
<1>. DEFINE b == DiskHash(f) = 0 \/ DiskHash(f) # entry.content
<1>1. b \in BOOLEAN
  OBVIOUS
<1>2. [entry EXCEPT !.stale = b] \in Entry
      /\ [entry EXCEPT !.stale = b].content = entry.content
  BY <1>1 DEF Entry
<1>3. [entry EXCEPT !.stale = TRUE] \in Entry
      /\ [entry EXCEPT !.stale = TRUE].content = entry.content
  BY DEF Entry
<1>. QED
  BY <1>2, <1>3 DEF Refreshed, MarkedStale

(* An observed read leaves an entry of the content read (memo.rs 81-171).  *)
LEMMA ObservedIsRead ==
  ASSUME NEW entry \in Entry \cup {None},
         NEW hash \in Hashes, NEW tokens \in Tokens
  PROVE  /\ Observed(entry, hash, tokens) \in Entry
         /\ Observed(entry, hash, tokens).content = hash
<1>. DEFINE before == IF entry = None THEN 0 ELSE entry.tokens
            again == entry # None /\ ~entry.stale /\ entry.content = hash
            kept == IF tokens > 0 THEN tokens ELSE entry.tokens
            fresh == [content |-> hash, stale |-> FALSE,
                      tokens |-> LargerOf(tokens, before)]
<1>1. before \in Tokens
  BY DEF Entry, Tokens
<1>2. LargerOf(tokens, before) \in Tokens
  BY <1>1 DEF LargerOf
<1>3. fresh \in Entry /\ fresh.content = hash
  BY <1>2 DEF Entry
<1>4. ASSUME again
      PROVE  /\ [entry EXCEPT !.tokens = kept] \in Entry
             /\ [entry EXCEPT !.tokens = kept].content = hash
  <2>1. entry \in Entry
    BY <1>4
  <2>2. kept \in Tokens
    BY <2>1 DEF Entry
  <2>. QED
    BY <2>1, <2>2, <1>4 DEF Entry
<1>5. Observed(entry, hash, tokens)
        = IF again THEN [entry EXCEPT !.tokens = kept] ELSE fresh
  BY DEF Observed
<1>. HIDE DEF again, kept, fresh
<1>. QED
  BY <1>3, <1>4, <1>5

-----------------------------------------------------------------------------
(* The steps.                                                              *)

(* Initially nobody knows anything.                                        *)
LEMMA InitMakesMemoInv == Init => MemoInv
<1>. SUFFICES ASSUME Init PROVE MemoInv
  OBVIOUS
<1>1. Idle.step = "idle" /\ Idle \in Calls
  BY DEF Idle, Tokens, Calls
<1>2. memo \in [Sessions -> [Files -> Entry \cup {None}]]
  BY DEF Init, NoFiles
<1>3. held \in [Conversations -> [Files -> SUBSET (Contents \cup Parts)]]
  BY DEF Init, Nothing
<1>4. TypeOK
  BY <1>1, <1>2, <1>3, MemoAssumption DEF Init, TypeOK, Calls
<1>5. EntriesAreHeld
  BY MemoAssumption DEF Init, EntriesAreHeld, NoFiles
<1>6. ReportsAreHeld
  BY <1>1 DEF Init, ReportsAreHeld
<1>. QED
  BY <1>4, <1>5, <1>6 DEF MemoInv, Init

(* What a conversation holds only grows, in every step but a compaction.   *)
HeldGrows ==
  /\ held' \in [Conversations -> [Files -> SUBSET (Contents \cup Parts)]]
  /\ \A c \in Conversations, f \in Files : held[c][f] \subseteq held'[c][f]

(* Steps that read or forget no file leave HeldGrows. *)
LEMMA HeldAlone == ASSUME MemoInv, UNCHANGED held PROVE HeldGrows
BY DEF MemoInv, TypeOK, HeldGrows

(* Writing one entry, as what the conversations of the session hold, keeps *)
(* the entries true.                                                       *)
LEMMA EntryWritten ==
  ASSUME MemoInv,
         NEW s \in Sessions, NEW f \in Files, NEW v \in Entry \cup {None},
         memo' = [memo EXCEPT ![s][f] = v],
         v # None /\ v.content \in Contents =>
           \A c \in Conversations :
             SessionId[c] = s => v.content \in held[c][f],
         HeldGrows
  PROVE  memo' \in Memos /\ EntriesAreHeld'
<1>1. memo \in Memos
  BY DEF MemoInv, TypeOK, Memos
<1>2. /\ memo' \in Memos
      /\ memo'[s][f] = v
      /\ \A t \in Sessions, g \in Files :
           (t # s \/ g # f) => memo'[t][g] = memo[t][g]
  BY <1>1 DEF Memos
<1>3. ASSUME NEW c \in Conversations, NEW g \in Files,
             memo'[SessionId[c]][g] # None,
             memo'[SessionId[c]][g].content \in Contents
      PROVE  memo'[SessionId[c]][g].content \in held[c][g]
  <2>1. SessionId[c] \in Sessions
    BY MemoAssumption
  <2>2. CASE SessionId[c] = s /\ g = f
    BY <1>2, <1>3, <2>2
  <2>3. CASE SessionId[c] # s \/ g # f
    BY <1>2, <1>3, <2>1, <2>3 DEF MemoInv, EntriesAreHeld
  <2>. QED
    BY <2>2, <2>3
<1>. QED
  BY <1>2, <1>3 DEF EntriesAreHeld, HeldGrows

(* Moving the tool call of one conversation on, to a report of nothing the *)
(* conversation does not hold by then, keeps the reports true.             *)
LEMMA CallMoved ==
  ASSUME MemoInv,
         NEW c \in Conversations, NEW call \in Calls,
         call.step # "idle" => call.file \in Files,
         call.step \in {"hook", "sent"} =>
           /\ call.hash \in Hashes
           /\ call.hash \in Contents => call.hash \in held'[c][call.file],
         call.step = "sent" => up,
         tool' = [tool EXCEPT ![c] = call],
         HeldGrows
  PROVE  /\ tool' \in [Conversations -> Calls]
         /\ ReportsAreHeld'
         /\ ~up => \A d \in Conversations : tool'[d].step # "sent"
<1>1. tool \in [Conversations -> Calls]
  BY DEF MemoInv, TypeOK, Calls
<1>2. /\ tool' \in [Conversations -> Calls]
      /\ tool'[c] = call
      /\ \A d \in Conversations : d # c => tool'[d] = tool[d]
  BY <1>1
<1>3. ReportsAreHeld'
  <2>. SUFFICES ASSUME NEW d \in Conversations
                PROVE /\ tool'[d].step # "idle" => tool'[d].file \in Files
                      /\ tool'[d].step \in {"hook", "sent"} =>
                           /\ tool'[d].hash \in Hashes
                           /\ tool'[d].hash \in Contents =>
                                tool'[d].hash \in held'[d][tool'[d].file]
    BY DEF ReportsAreHeld
  <2>1. CASE d = c
    BY <1>2, <2>1
  <2>2. CASE d # c
    BY <1>2, <2>2 DEF MemoInv, ReportsAreHeld, HeldGrows
  <2>. QED
    BY <2>1, <2>2
<1>4. ~up => \A d \in Conversations : tool'[d].step # "sent"
  BY <1>2 DEF MemoInv
<1>. QED
  BY <1>2, <1>3, <1>4

(* What an unchanged memo, or unchanged calls, keep.                       *)
LEMMA EntriesAlone ==
  ASSUME MemoInv, UNCHANGED memo, HeldGrows
  PROVE  memo' \in Memos /\ EntriesAreHeld'
<1>1. memo' \in Memos
  BY DEF MemoInv, TypeOK, Memos
<1>2. EntriesAreHeld'
  BY DEF MemoInv, EntriesAreHeld, HeldGrows
<1>. QED
  BY <1>1, <1>2

(* The same of the reports on their way. *)
LEMMA CallsAlone ==
  ASSUME MemoInv, UNCHANGED tool, HeldGrows
  PROVE  /\ tool' \in [Conversations -> Calls]
         /\ ReportsAreHeld'
         /\ ~up => \A d \in Conversations : tool'[d].step # "sent"
<1>1. tool' \in [Conversations -> Calls]
  BY DEF MemoInv, TypeOK, Calls
<1>2. ReportsAreHeld'
  BY DEF MemoInv, ReportsAreHeld, HeldGrows
<1>. QED
  BY <1>1, <1>2 DEF MemoInv

(* The invariant from what the entries and the calls keep, in a step that  *)
(* leaves the daemon up or down, and the memo alone while it is down.      *)
LEMMA TalkKeepsMemoInv ==
  ASSUME MemoInv,
         memo' \in Memos, EntriesAreHeld',
         tool' \in [Conversations -> Calls], ReportsAreHeld',
         ~up => \A d \in Conversations : tool'[d].step # "sent",
         up \/ UNCHANGED memo,
         HeldGrows, UNCHANGED up,
         disk' \in [Files -> Contents \cup {Gone}],
         writes' \in 0..MaxWrites, changed' \in SUBSET Files
  PROVE  MemoInv'
<1>1. TypeOK'
  BY DEF MemoInv, TypeOK, Memos, Calls, HeldGrows
<1>. QED
  BY <1>1 DEF MemoInv

(* The same of a step that does not touch the files either.                *)
LEMMA QuietTalkKeepsMemoInv ==
  ASSUME MemoInv,
         memo' \in Memos, EntriesAreHeld',
         tool' \in [Conversations -> Calls], ReportsAreHeld',
         ~up => \A d \in Conversations : tool'[d].step # "sent",
         up \/ UNCHANGED memo,
         HeldGrows, UNCHANGED <<disk, writes, changed, up>>
  PROVE  MemoInv'
<1>1. /\ disk' \in [Files -> Contents \cup {Gone}]
      /\ writes' \in 0..MaxWrites /\ changed' \in SUBSET Files
  BY DEF MemoInv, TypeOK
<1>. QED
  BY <1>1, TalkKeepsMemoInv

-----------------------------------------------------------------------------
(* Every step preserves the invariant.                                     *)

(* The steps of a read: ReadCheck, ReadFile, SendRead, ServeRead.          *)
LEMMA ReadKeepsMemoInv ==
  ASSUME FaithfulHooks, MemoInv, NEW c \in Conversations,
         \/ \E f \in Files : ReadCheck(c, f)
         \/ ReadFile(c)
         \/ SendRead(c)
         \/ ServeRead(c)
  PROVE  MemoInv'
<1>. DEFINE s == SessionId[c]
<1>ty. /\ memo \in Memos /\ tool \in [Conversations -> Calls]
       /\ s \in Sessions /\ Idle \in Calls /\ Idle.step = "idle"
       /\ disk \in [Files -> Contents \cup {Gone}]
       /\ held \in [Conversations -> [Files -> SUBSET (Contents \cup Parts)]]
  BY MemoAssumption DEF MemoInv, TypeOK, Memos, Calls, Idle, Tokens
<1>1. ASSUME NEW f \in Files, ReadCheck(c, f) PROVE MemoInv'
  <2>. DEFINE call == Call("read", f, None, 0)
  <2>0. HeldGrows
    BY <1>1, HeldAlone DEF ReadCheck
  <2>1. call \in Calls /\ call.step = "read" /\ call.file = f
    BY DEF Call, Calls, Tokens
  <2>2. tool' = tool \/ tool' = [tool EXCEPT ![c] = call]
    BY <1>1 DEF ReadCheck
  <2>3. /\ tool' \in [Conversations -> Calls]
        /\ ReportsAreHeld'
        /\ ~up => \A d \in Conversations : tool'[d].step # "sent"
    <3>2. CASE tool' = tool
      BY <2>0, <3>2, CallsAlone
    <3>3. CASE tool' = [tool EXCEPT ![c] = call]
      <4>. HIDE DEF call
      <4>. QED
        BY <2>0, <3>3, <2>1, CallMoved
    <3>. QED
      BY <2>2, <3>2, <3>3
  <2>4. CASE up /\ memo[s][f] # None
    <3>. DEFINE v == Refreshed(memo[s][f], f)
    <3>1. memo[s][f] \in Entry
      BY <1>ty, <2>4 DEF Memos
    <3>2. v \in Entry /\ v.content = memo[s][f].content
      BY <3>1, FlagOnly
    <3>3. memo' = [memo EXCEPT ![s][f] = v]
      BY <1>1, <2>4 DEF ReadCheck
    <3>4. v.content \in Contents =>
            \A d \in Conversations :
              SessionId[d] = s => v.content \in held[d][f]
      BY <2>4, <3>2 DEF MemoInv, EntriesAreHeld
    <3>. HIDE DEF v
    <3>5. memo' \in Memos /\ EntriesAreHeld'
      BY <1>ty, <2>0, <3>2, <3>3, <3>4, EntryWritten
    <3>. QED
      BY <1>1, <2>0, <2>3, <2>4, <3>5, QuietTalkKeepsMemoInv DEF ReadCheck
  <2>5. CASE ~(up /\ memo[s][f] # None)
    <3>1. UNCHANGED memo
      BY <1>1, <2>5 DEF ReadCheck
    <3>2. memo' \in Memos /\ EntriesAreHeld'
      BY <2>0, <3>1, EntriesAlone
    <3>. QED
      BY <1>1, <2>0, <2>3, <3>1, <3>2, QuietTalkKeepsMemoInv DEF ReadCheck
  <2>. QED
    BY <2>4, <2>5
<1>2. ASSUME ReadFile(c) PROVE MemoInv'
  <2>. DEFINE f == tool[c].file
  <2>0. tool[c].step = "read" /\ f \in Files /\ UNCHANGED memo
    BY <1>2, <1>ty DEF ReadFile, MemoInv, ReportsAreHeld
  <2>1. CASE disk[f] = Gone
    <3>1. tool' = [tool EXCEPT ![c] = Idle] /\ HeldGrows
      BY <1>2, <2>1, HeldAlone DEF ReadFile
    <3>2. /\ tool' \in [Conversations -> Calls]
          /\ ReportsAreHeld'
          /\ ~up => \A d \in Conversations : tool'[d].step # "sent"
      BY <1>ty, <3>1, CallMoved
    <3>3. memo' \in Memos /\ EntriesAreHeld'
      BY <2>0, <3>1, EntriesAlone
    <3>. QED
      BY <1>2, <2>0, <3>1, <3>2, <3>3, QuietTalkKeepsMemoInv DEF ReadFile
  <2>2. CASE disk[f] # Gone
    <3>0. PICK x \in Readable(f) :
            /\ tool' = [tool EXCEPT ![c] = Call("hook", f, x, Size[x])]
            /\ held' = [held EXCEPT ![c][f] = @ \cup {x}]
      BY <1>2, <2>2 DEF ReadFile
    <3>. DEFINE call == Call("hook", f, x, Size[x])
    <3>1. x \in Contents \cup Parts
      BY <1>ty, <2>0, <2>2 DEF Readable
    <3>2. HeldGrows /\ x \in held'[c][f]
      BY <1>ty, <2>0, <3>0, <3>1 DEF HeldGrows
    <3>3. /\ call \in Calls
          /\ call.step = "hook" /\ call.file = f /\ call.hash = x
      BY <2>0, <3>1 DEF Calls, Call, Hashes, Tokens
    <3>4. call.hash \in Hashes
      BY <3>1, <3>3 DEF Hashes
    <3>5. tool' = [tool EXCEPT ![c] = call]
      BY <3>0
    <3>. HIDE DEF call
    <3>6. /\ tool' \in [Conversations -> Calls]
          /\ ReportsAreHeld'
          /\ ~up => \A d \in Conversations : tool'[d].step # "sent"
      BY <2>0, <3>2, <3>3, <3>4, <3>5, CallMoved
    <3>7. memo' \in Memos /\ EntriesAreHeld'
      BY <2>0, <3>2, EntriesAlone
    <3>. QED
      BY <1>2, <2>0, <3>2, <3>6, <3>7, QuietTalkKeepsMemoInv DEF ReadFile
  <2>. QED
    BY <2>1, <2>2
<1>3. ASSUME SendRead(c) PROVE MemoInv'
  <2>. DEFINE call == IF ~up THEN Idle
                      ELSE Call("sent", tool[c].file, tool[c].hash,
                                tool[c].tokens)
  <2>0. HeldGrows
    BY <1>3, HeldAlone DEF SendRead
  <2>1. tool' = [tool EXCEPT ![c] = call] /\ UNCHANGED <<memo, held>>
    BY <1>3 DEF SendRead, FaithfulHooks
  <2>2. call \in Calls
    BY <1>ty DEF Calls, Call
  <2>3. call.step # "idle" =>
          /\ up
          /\ call.file \in Files
          /\ call.hash \in Hashes
          /\ call.hash \in Contents => call.hash \in held'[c][call.file]
    BY <1>3, <1>ty, <2>1 DEF Call, SendRead, MemoInv, ReportsAreHeld
  <2>. HIDE DEF call
  <2>4. /\ tool' \in [Conversations -> Calls]
        /\ ReportsAreHeld'
        /\ ~up => \A d \in Conversations : tool'[d].step # "sent"
    BY <2>0, <2>1, <2>2, <2>3, CallMoved
  <2>5. memo' \in Memos /\ EntriesAreHeld'
    BY <2>0, <2>1, EntriesAlone
  <2>. QED
    BY <1>3, <2>0, <2>1, <2>4, <2>5, QuietTalkKeepsMemoInv DEF SendRead
<1>4. ASSUME ServeRead(c) PROVE MemoInv'
  <2>. DEFINE f == tool[c].file
              v == Observed(memo[s][f], tool[c].hash, tool[c].tokens)
  <2>0. tool[c].step = "sent" /\ HeldGrows
    BY <1>4, HeldAlone DEF ServeRead
  <2>1. /\ f \in Files
        /\ tool[c].hash \in Hashes
        /\ tool[c].hash \in Contents => tool[c].hash \in held[c][f]
        /\ up
    BY <2>0 DEF MemoInv, ReportsAreHeld
  <2>2. tool[c].tokens \in Tokens
    BY <1>ty DEF Calls
  <2>3. memo[s][f] \in Entry \cup {None}
    BY <1>ty, <2>1 DEF Memos
  <2>4. v \in Entry /\ v.content = tool[c].hash
    BY <2>1, <2>2, <2>3, ObservedIsRead
  <2>5. /\ memo' = [memo EXCEPT ![s][f] = v]
        /\ tool' = [tool EXCEPT ![c] = Idle]
    BY <1>4 DEF ServeRead
  <2>6. v.content \in Contents =>
          \A d \in Conversations :
            SessionId[d] = s => v.content \in held[d][f]
    BY <2>1, <2>4 DEF FaithfulHooks
  <2>. HIDE DEF v, f
  <2>7. memo' \in Memos /\ EntriesAreHeld'
    BY <1>ty, <2>0, <2>1, <2>4, <2>5, <2>6, EntryWritten
  <2>8. /\ tool' \in [Conversations -> Calls]
        /\ ReportsAreHeld'
        /\ ~up => \A d \in Conversations : tool'[d].step # "sent"
    BY <1>ty, <2>0, <2>5, CallMoved
  <2>. QED
    BY <1>4, <2>0, <2>1, <2>7, <2>8, QuietTalkKeepsMemoInv DEF ServeRead
<1>. QED
  BY <1>1, <1>2, <1>3, <1>4

(* The edits and compactions of a conversation: EditFile, ServeEdit,       *)
(* Compact.                                                                *)
LEMMA OtherCallsKeepMemoInv ==
  ASSUME FaithfulHooks, MemoInv, NEW c \in Conversations,
         \/ \E f \in Files, x \in Contents : EditFile(c, f, x)
         \/ ServeEdit(c)
         \/ Compact(c)
  PROVE  MemoInv'
<1>. DEFINE s == SessionId[c]
<1>ty. /\ memo \in Memos /\ tool \in [Conversations -> Calls]
       /\ s \in Sessions /\ Idle \in Calls /\ Idle.step = "idle"
       /\ disk \in [Files -> Contents \cup {Gone}]
       /\ held \in [Conversations -> [Files -> SUBSET (Contents \cup Parts)]]
       /\ writes \in 0..MaxWrites /\ changed \in SUBSET Files
       /\ MaxWrites \in Nat
  BY MemoAssumption DEF MemoInv, TypeOK, Memos, Calls, Idle, Tokens
<1>1. ASSUME NEW f \in Files, NEW x \in Contents, EditFile(c, f, x)
      PROVE  MemoInv'
  <2>. DEFINE call == Call("edited", f, None, 0)
  <2>1. call \in Calls /\ call.step = "edited" /\ call.file = f
    BY DEF Call, Calls, Tokens
  <2>2. HeldGrows
    <3>1. CASE UNCHANGED held
      BY <3>1, HeldAlone
    <3>2. CASE held' = [held EXCEPT ![c][f] = @ \cup {x}]
      BY <1>ty, <3>2 DEF HeldGrows
    <3>. QED
      BY <1>1, <3>1, <3>2 DEF EditFile
  <2>3. tool' = [tool EXCEPT ![c] = call] /\ UNCHANGED <<memo, up>>
    BY <1>1 DEF EditFile
  <2>. HIDE DEF call
  <2>4. /\ tool' \in [Conversations -> Calls]
        /\ ReportsAreHeld'
        /\ ~up => \A d \in Conversations : tool'[d].step # "sent"
    BY <2>1, <2>2, <2>3, CallMoved
  <2>5. memo' \in Memos /\ EntriesAreHeld'
    BY <2>2, <2>3, EntriesAlone
  <2>6. /\ disk' \in [Files -> Contents \cup {Gone}]
        /\ writes' \in 0..MaxWrites /\ changed' \in SUBSET Files
    BY <1>1, <1>ty DEF EditFile
  <2>. QED
    BY <2>2, <2>3, <2>4, <2>5, <2>6, TalkKeepsMemoInv
<1>2. ASSUME ServeEdit(c) PROVE MemoInv'
  <2>. DEFINE f == tool[c].file
  <2>0. f \in Files /\ HeldGrows
    BY <1>2, HeldAlone DEF ServeEdit, MemoInv, ReportsAreHeld
  <2>1. /\ tool' \in [Conversations -> Calls]
        /\ ReportsAreHeld'
        /\ ~up => \A d \in Conversations : tool'[d].step # "sent"
    BY <1>2, <1>ty, <2>0, CallMoved DEF ServeEdit
  <2>2. CASE ~up
    <3>1. memo' \in Memos /\ EntriesAreHeld' /\ UNCHANGED memo
      BY <1>2, <2>0, <2>2, EntriesAlone DEF ServeEdit
    <3>. QED
      BY <1>2, <2>0, <2>1, <3>1, QuietTalkKeepsMemoInv DEF ServeEdit
  <2>3. CASE up
    <3>. DEFINE v == MarkedStale(memo[s][f])
    <3>1. memo[s][f] \in Entry \cup {None}
      BY <1>ty, <2>0 DEF Memos
    <3>2. /\ v \in Entry \cup {None}
          /\ v # None => memo[s][f] # None /\ v.content = memo[s][f].content
      <4>1. CASE memo[s][f] = None
        BY <4>1 DEF MarkedStale
      <4>2. CASE memo[s][f] # None
        BY <3>1, <4>2, FlagOnly
      <4>. QED
        BY <4>1, <4>2
    <3>3. v # None /\ v.content \in Contents =>
            \A d \in Conversations :
              SessionId[d] = s => v.content \in held[d][f]
      BY <2>0, <3>2 DEF MemoInv, EntriesAreHeld
    <3>4. memo' = [memo EXCEPT ![s][f] = v]
      BY <1>2, <2>3 DEF ServeEdit
    <3>. HIDE DEF v, f
    <3>5. memo' \in Memos /\ EntriesAreHeld'
      BY <1>ty, <2>0, <3>2, <3>3, <3>4, EntryWritten
    <3>. QED
      BY <1>2, <2>0, <2>1, <2>3, <3>5, QuietTalkKeepsMemoInv DEF ServeEdit
  <2>. QED
    BY <2>2, <2>3
<1>3. ASSUME Compact(c) PROVE MemoInv'
  <2>1. /\ held' = [held EXCEPT ![c] = Nothing]
        /\ tool[c] = Idle
        /\ UNCHANGED <<disk, writes, changed, up, tool>>
        /\ memo' = IF up THEN [memo EXCEPT ![s] = NoFiles] ELSE memo
    BY <1>3 DEF Compact, ForgetFiles, FaithfulHooks
  <2>2. /\ held' \in [Conversations -> [Files -> SUBSET (Contents \cup Parts)]]
        /\ \A d \in Conversations : d # c => held'[d] = held[d]
    BY <1>ty, <2>1 DEF Nothing
  <2>3. /\ memo' \in Memos
        /\ memo'[s] = NoFiles
        /\ \A t \in Sessions : t # s => memo'[t] = memo[t]
    BY <1>ty, <2>1 DEF Memos, NoFiles, MemoInv
  <2>4. TypeOK'
    BY <2>1, <2>2, <2>3 DEF MemoInv, TypeOK, Memos
  <2>5. EntriesAreHeld'
    <3>. SUFFICES ASSUME NEW d \in Conversations, NEW f \in Files,
                         memo'[SessionId[d]][f] # None,
                         memo'[SessionId[d]][f].content \in Contents
                  PROVE  memo'[SessionId[d]][f].content \in held'[d][f]
      BY DEF EntriesAreHeld
    <3>1. d # c
      BY <2>3 DEF NoFiles
    <3>2. SessionId[d] # s /\ SessionId[d] \in Sessions
      BY <3>1, MemoAssumption DEF FaithfulHooks
    <3>. QED
      BY <2>2, <2>3, <3>1, <3>2 DEF MemoInv, EntriesAreHeld
  <2>6. ReportsAreHeld'
    <3>. SUFFICES ASSUME NEW d \in Conversations
                  PROVE /\ tool[d].step # "idle" => tool[d].file \in Files
                        /\ tool[d].step \in {"hook", "sent"} =>
                             /\ tool[d].hash \in Hashes
                             /\ tool[d].hash \in Contents =>
                                  tool[d].hash \in held'[d][tool[d].file]
      BY <2>1 DEF ReportsAreHeld
    <3>1. CASE d = c
      BY <1>ty, <2>1, <3>1
    <3>2. CASE d # c
      BY <2>2, <3>2 DEF MemoInv, ReportsAreHeld
    <3>. QED
      BY <3>1, <3>2
  <2>7. ~up' => /\ memo' = [t \in Sessions |-> NoFiles]
                /\ \A d \in Conversations : tool'[d].step # "sent"
    BY <2>1 DEF MemoInv
  <2>. QED
    BY <2>4, <2>5, <2>6, <2>7 DEF MemoInv
<1>. QED
  BY <1>1, <1>2, <1>3

(* The daemon's own steps and other programs': DropSession, Status, Write, *)
(* MarkStaleForAll, Stop, Start.                                           *)
LEMMA DaemonKeepsMemoInv ==
  ASSUME MemoInv,
         \/ \E s \in Sessions : DropSession(s) \/ \E f \in Files : Status(s, f)
         \/ \E f \in Files, x \in Contents \cup {Gone} : Write(f, x)
         \/ \E f \in Files : MarkStaleForAll(f)
         \/ Stop
         \/ Start
  PROVE  MemoInv'
<1>ty. /\ memo \in Memos /\ tool \in [Conversations -> Calls]
       /\ Idle \in Calls /\ Idle.step = "idle"
       /\ disk \in [Files -> Contents \cup {Gone}]
       /\ held \in [Conversations -> [Files -> SUBSET (Contents \cup Parts)]]
       /\ writes \in 0..MaxWrites /\ changed \in SUBSET Files
       /\ MaxWrites \in Nat /\ \A c \in Conversations : SessionId[c] \in Sessions
  BY MemoAssumption DEF MemoInv, TypeOK, Memos, Calls, Idle, Tokens
<1>1. ASSUME NEW s \in Sessions, DropSession(s) PROVE MemoInv'
  <2>0. HeldGrows /\ up /\ UNCHANGED <<disk, writes, changed, up, tool, held>>
    BY <1>1, HeldAlone DEF DropSession
  <2>1. /\ memo' \in Memos
        /\ memo'[s] = NoFiles
        /\ \A t \in Sessions : t # s => memo'[t] = memo[t]
    BY <1>1, <1>ty DEF DropSession, Memos, NoFiles
  <2>2. EntriesAreHeld'
    BY <1>ty, <2>0, <2>1 DEF MemoInv, EntriesAreHeld, NoFiles
  <2>3. /\ tool' \in [Conversations -> Calls]
        /\ ReportsAreHeld'
        /\ ~up => \A d \in Conversations : tool'[d].step # "sent"
    BY <2>0, CallsAlone
  <2>. QED
    BY <2>0, <2>1, <2>2, <2>3, QuietTalkKeepsMemoInv
<1>2. ASSUME NEW s \in Sessions, NEW f \in Files, Status(s, f) PROVE MemoInv'
  <2>. DEFINE v == Refreshed(memo[s][f], f)
  <2>0. /\ HeldGrows /\ up /\ UNCHANGED <<disk, writes, changed, up, tool, held>>
        /\ memo[s][f] # None
        /\ memo' = [memo EXCEPT ![s][f] = v]
    BY <1>2, HeldAlone DEF Status
  <2>1. memo[s][f] \in Entry
    BY <1>ty, <2>0 DEF Memos
  <2>2. v \in Entry /\ v.content = memo[s][f].content
    BY <2>1, FlagOnly
  <2>3. v.content \in Contents =>
          \A d \in Conversations :
            SessionId[d] = s => v.content \in held[d][f]
    BY <2>0, <2>2 DEF MemoInv, EntriesAreHeld
  <2>. HIDE DEF v
  <2>4. memo' \in Memos /\ EntriesAreHeld'
    BY <2>0, <2>2, <2>3, EntryWritten
  <2>5. /\ tool' \in [Conversations -> Calls]
        /\ ReportsAreHeld'
        /\ ~up => \A d \in Conversations : tool'[d].step # "sent"
    BY <2>0, CallsAlone
  <2>. QED
    BY <2>0, <2>4, <2>5, QuietTalkKeepsMemoInv
<1>3. ASSUME NEW f \in Files, NEW x \in Contents \cup {Gone}, Write(f, x)
      PROVE  MemoInv'
  <2>0. HeldGrows /\ UNCHANGED <<up, memo, tool, held>>
    BY <1>3, HeldAlone DEF Write
  <2>1. memo' \in Memos /\ EntriesAreHeld'
    BY <2>0, EntriesAlone
  <2>2. /\ tool' \in [Conversations -> Calls]
        /\ ReportsAreHeld'
        /\ ~up => \A d \in Conversations : tool'[d].step # "sent"
    BY <2>0, CallsAlone
  <2>3. /\ disk' \in [Files -> Contents \cup {Gone}]
        /\ writes' \in 0..MaxWrites /\ changed' \in SUBSET Files
    BY <1>3, <1>ty DEF Write
  <2>. QED
    BY <2>0, <2>1, <2>2, <2>3, TalkKeepsMemoInv
<1>4. ASSUME NEW f \in Files, MarkStaleForAll(f) PROVE MemoInv'
  <2>0. /\ HeldGrows /\ up /\ UNCHANGED <<disk, writes, up, tool, held>>
        /\ changed' \in SUBSET Files
    BY <1>4, <1>ty, HeldAlone DEF MarkStaleForAll
  <2>1. \A s \in Sessions, g \in Files :
          memo'[s][g] = IF g = f THEN MarkedStale(memo[s][g]) ELSE memo[s][g]
    BY <1>4, <1>ty DEF MarkStaleForAll, Memos
  <2>2. ASSUME NEW s \in Sessions, NEW g \in Files
        PROVE  /\ memo'[s][g] \in Entry \cup {None}
               /\ memo'[s][g] # None =>
                    memo[s][g] # None /\ memo'[s][g].content = memo[s][g].content
    <3>1. CASE memo[s][g] = None
      BY <2>1, <3>1 DEF MarkedStale
    <3>2. CASE memo[s][g] # None
      <4>1. memo[s][g] \in Entry
        BY <1>ty, <3>2 DEF Memos
      <4>. QED
        BY <2>1, <3>2, <4>1, FlagOnly
    <3>. QED
      BY <3>1, <3>2
  <2>3. memo' \in Memos
    <3>1. \A s \in Sessions : memo'[s] = [g \in Files |-> memo'[s][g]]
      BY <1>4, <1>ty DEF MarkStaleForAll, Memos
    <3>2. memo' = [s \in Sessions |-> memo'[s]]
      BY <1>4 DEF MarkStaleForAll
    <3>. QED
      BY <2>2, <3>1, <3>2 DEF Memos
  <2>4. EntriesAreHeld'
    BY <1>ty, <2>0, <2>2 DEF MemoInv, EntriesAreHeld
  <2>5. /\ tool' \in [Conversations -> Calls]
        /\ ReportsAreHeld'
        /\ ~up => \A d \in Conversations : tool'[d].step # "sent"
    BY <2>0, CallsAlone
  <2>. QED
    BY <1>ty, <2>0, <2>3, <2>4, <2>5, TalkKeepsMemoInv
<1>5. ASSUME Stop PROVE MemoInv'
  <2>1. /\ memo' = [s \in Sessions |-> NoFiles]
        /\ UNCHANGED <<disk, writes, held>> /\ up' = FALSE /\ changed' = {}
        /\ tool' = [c \in Conversations |->
                      IF tool[c].step = "sent" THEN Idle ELSE tool[c]]
    BY <1>5 DEF Stop
  <2>2. memo' \in Memos /\ EntriesAreHeld'
    BY <1>ty, <2>1 DEF Memos, NoFiles, EntriesAreHeld
  <2>3. /\ tool' \in [Conversations -> Calls]
        /\ \A c \in Conversations : tool'[c].step # "sent"
        /\ ReportsAreHeld'
    BY <1>ty, <2>1 DEF MemoInv, ReportsAreHeld
  <2>4. TypeOK'
    BY <2>1, <2>2, <2>3 DEF MemoInv, TypeOK, Memos, Calls
  <2>. QED
    BY <2>1, <2>2, <2>3, <2>4 DEF MemoInv
<1>6. ASSUME Start PROVE MemoInv'
  <2>1. /\ UNCHANGED <<disk, writes, memo, tool, held>>
        /\ up' = TRUE /\ changed' = {}
    BY <1>6 DEF Start
  <2>2. TypeOK'
    BY <2>1 DEF MemoInv, TypeOK
  <2>3. EntriesAreHeld'
    BY <2>1 DEF MemoInv, EntriesAreHeld
  <2>4. ReportsAreHeld'
    BY <2>1 DEF MemoInv, ReportsAreHeld
  <2>. QED
    BY <2>1, <2>2, <2>3, <2>4 DEF MemoInv
<1>. QED
  BY <1>1, <1>2, <1>3, <1>4, <1>5, <1>6

-----------------------------------------------------------------------------
(* The theorems.                                                           *)

(* The daemon never knows more of a conversation than the conversation     *)
(* holds (MemoState, memo.rs).                                             *)
THEOREM MemoInvHolds == ASSUME FaithfulHooks PROVE Spec => []MemoInv
<1>1. Init => MemoInv
  BY InitMakesMemoInv
<1>2. MemoInv /\ [Next]_vars => MemoInv'
  <2>. SUFFICES ASSUME MemoInv, [Next]_vars PROVE MemoInv'
    OBVIOUS
  <2>1. CASE UNCHANGED vars
    BY <2>1 DEF vars, MemoInv, TypeOK, EntriesAreHeld, ReportsAreHeld
  <2>2. CASE Next
    BY <2>2, ReadKeepsMemoInv, OtherCallsKeepMemoInv, DaemonKeepsMemoInv
    DEF Next
  <2>. QED
    BY <2>1, <2>2
<1>. QED
  BY <1>1, <1>2, PTL DEF Spec

(* README.md:179: a read is blocked (memo.rs 273-342 recommends            *)
(* skip_reread) only when the conversation holds what is on disk.          *)
THEOREM SkipsAreSafe == ASSUME FaithfulHooks PROVE Spec => []SkipIsSafe
<1>1. MemoInv => SkipIsSafe
  <2>. SUFFICES ASSUME MemoInv, NEW c \in Conversations, NEW f \in Files,
                       Recommend(SessionId[c], f) = "skip_reread"
                PROVE  disk[f] \in held[c][f]
    BY DEF SkipIsSafe
  <2>. DEFINE entry == memo[SessionId[c]][f]
  <2>1. entry # None /\ ~Refreshed(entry, f).stale
    BY DEF Recommend
  <2>2. entry \in Entry
    BY <2>1, MemoAssumption DEF MemoInv, TypeOK
  <2>3. ~(DiskHash(f) = 0 \/ DiskHash(f) # entry.content)
    <3>. DEFINE b == DiskHash(f) = 0 \/ DiskHash(f) # entry.content
    <3>1. [entry EXCEPT !.stale = b].stale = b
      BY <2>2 DEF Entry
    <3>. QED
      BY <2>1, <3>1 DEF Refreshed
  <2>4. disk[f] \in Contents /\ disk[f] = entry.content
    BY <2>3 DEF DiskHash, MemoInv, TypeOK
  <2>. QED
    BY <2>1, <2>4 DEF MemoInv, EntriesAreHeld
<1>. QED
  BY <1>1, MemoInvHolds, PTL

-----------------------------------------------------------------------------
(* Diffs.                                                                  *)

(* What a count of tokens stands for: something the conversation has.      *)
Based(has, tokens) == \E x \in has : tokens = Size[x]

BaseInv ==
  /\ \A c \in Conversations, f \in Files :
       memo[SessionId[c]][f] # None => Based(held[c][f], memo[SessionId[c]][f].tokens)
  /\ \A c \in Conversations :
       tool[c].step \in {"hook", "sent"} => Based(held[c][tool[c].file], tool[c].tokens)

(* The invariant from the entries and the reports that are new in a step.  *)
LEMMA NewAreBased ==
  ASSUME MemoInv, BaseInv, HeldGrows,
         \A c \in Conversations, f \in Files :
           memo'[SessionId[c]][f] # None =>
             \/ /\ memo[SessionId[c]][f] # None
                /\ memo'[SessionId[c]][f].tokens = memo[SessionId[c]][f].tokens
             \/ Based(held'[c][f], memo'[SessionId[c]][f].tokens),
         \A c \in Conversations :
           tool'[c].step \in {"hook", "sent"} =>
             \/ UNCHANGED tool[c]
             \/ Based(held'[c][tool'[c].file], tool'[c].tokens)
  PROVE  BaseInv'
<1>1. ASSUME NEW c \in Conversations, NEW f \in Files, NEW tokens,
             Based(held[c][f], tokens)
      PROVE  Based(held'[c][f], tokens)
  BY <1>1 DEF Based, HeldGrows
<1>2. \A c \in Conversations :
        tool[c].step \in {"hook", "sent"} => tool[c].file \in Files
  BY DEF MemoInv, ReportsAreHeld
<1>3. ASSUME NEW c \in Conversations, NEW f \in Files, memo'[SessionId[c]][f] # None
      PROVE  Based(held'[c][f], memo'[SessionId[c]][f].tokens)
  <2>1. CASE Based(held'[c][f], memo'[SessionId[c]][f].tokens)
    BY <2>1
  <2>2. CASE /\ memo[SessionId[c]][f] # None
             /\ memo'[SessionId[c]][f].tokens = memo[SessionId[c]][f].tokens
    <3>1. Based(held[c][f], memo[SessionId[c]][f].tokens)
      BY <2>2 DEF BaseInv
    <3>2. Based(held'[c][f], memo[SessionId[c]][f].tokens)
      BY <1>1, <3>1
    <3>. QED
      BY <2>2, <3>2
  <2>. QED
    BY <1>3, <2>1, <2>2
<1>4. ASSUME NEW c \in Conversations, tool'[c].step \in {"hook", "sent"}
      PROVE  Based(held'[c][tool'[c].file], tool'[c].tokens)
  <2>1. CASE UNCHANGED tool[c]
    <3>1. Based(held[c][tool[c].file], tool[c].tokens) /\ tool[c].file \in Files
      BY <1>2, <1>4, <2>1 DEF BaseInv
    <3>2. Based(held'[c][tool[c].file], tool[c].tokens)
      BY <1>1, <3>1
    <3>. QED
      BY <2>1, <3>2
  <2>. QED
    BY <1>4, <2>1
<1>. QED
  BY <1>3, <1>4 DEF BaseInv

(* Flags that move, and entries that go, change no count.                  *)
LEMMA RefreshedTokens ==
  ASSUME NEW entry \in Entry, NEW f
  PROVE  /\ Refreshed(entry, f).tokens = entry.tokens
         /\ MarkedStale(entry) # None => MarkedStale(entry).tokens = entry.tokens
<1>. DEFINE b == DiskHash(f) = 0 \/ DiskHash(f) # entry.content
<1>1. /\ [entry EXCEPT !.stale = b].tokens = entry.tokens
      /\ [entry EXCEPT !.stale = TRUE].tokens = entry.tokens
  BY DEF Entry
<1>. QED
  BY <1>1 DEF Refreshed, MarkedStale

(* An observed read leaves the count of the report or of the entry before. *)
LEMMA ObservedTokens ==
  ASSUME NEW entry \in Entry \cup {None}, NEW hash \in Hashes, NEW tokens \in Tokens
  PROVE  \/ Observed(entry, hash, tokens).tokens = tokens
         \/ /\ entry # None
            /\ Observed(entry, hash, tokens).tokens = entry.tokens
<1>1. CASE entry = None
  <2>1. tokens \in Nat
    BY MemoAssumption DEF Tokens
  <2>2. LargerOf(tokens, 0) = tokens
    BY <2>1 DEF LargerOf
  <2>. QED
    BY <1>1, <2>2 DEF Observed
<1>2. CASE entry \in Entry /\ entry # None
  <2>. DEFINE kept == IF tokens > 0 THEN tokens ELSE entry.tokens
  <2>1. [entry EXCEPT !.tokens = kept].tokens = kept
    BY <1>2 DEF Entry
  <2>2. Observed(entry, hash, tokens) = [entry EXCEPT !.tokens = kept]
        \/ Observed(entry, hash, tokens).tokens = LargerOf(tokens, entry.tokens)
    BY <1>2 DEF Observed
  <2>. HIDE DEF kept
  <2>3. Observed(entry, hash, tokens).tokens \in {kept, LargerOf(tokens, entry.tokens)}
    BY <2>1, <2>2
  <2>. QED
    BY <1>2, <2>3 DEF kept, LargerOf
<1>. QED
  BY <1>1, <1>2

(* The steps of a read.                                                    *)
LEMMA ReadKeepsBaseInv ==
  ASSUME FaithfulHooks, MemoInv, BaseInv, NEW c \in Conversations,
         \/ \E f \in Files : ReadCheck(c, f)
         \/ ReadFile(c)
         \/ SendRead(c)
         \/ ServeRead(c)
  PROVE  BaseInv'
<1>. DEFINE s == SessionId[c]
<1>ty. /\ memo \in Memos /\ tool \in [Conversations -> Calls]
       /\ s \in Sessions /\ Idle.step = "idle"
       /\ disk \in [Files -> Contents \cup {Gone}]
       /\ held \in [Conversations -> [Files -> SUBSET (Contents \cup Parts)]]
       /\ \A d \in Conversations : SessionId[d] \in Sessions
       /\ \A d \in Conversations : SessionId[d] = s => d = c
  BY MemoAssumption DEF FaithfulHooks, MemoInv, TypeOK, Memos, Calls, Idle
<1>1. ASSUME NEW f \in Files, ReadCheck(c, f) PROVE BaseInv'
  <2>1. HeldGrows
    BY <1>1, HeldAlone DEF ReadCheck
  <2>2. \A d \in Conversations : tool'[d].step \in {"hook", "sent"} => UNCHANGED tool[d]
    BY <1>1, <1>ty DEF ReadCheck, Call
  <2>3. ASSUME NEW d \in Conversations, NEW g \in Files, memo'[SessionId[d]][g] # None
        PROVE  /\ memo[SessionId[d]][g] # None
               /\ memo'[SessionId[d]][g].tokens = memo[SessionId[d]][g].tokens
    <3>1. UNCHANGED memo \/ (memo[s][f] \in Entry
                             /\ memo' = [memo EXCEPT ![s][f] = Refreshed(memo[s][f], f)])
      BY <1>1, <1>ty DEF ReadCheck, Memos
    <3>2. CASE SessionId[d] = s /\ g = f /\ ~UNCHANGED memo
      <4>1. memo'[s][f] = Refreshed(memo[s][f], f) /\ memo[s][f] \in Entry
        BY <1>ty, <3>1, <3>2 DEF Memos
      <4>2. memo[s][f] # None
        BY <1>1, <3>2 DEF ReadCheck
      <4>. QED
        BY <3>2, <4>1, <4>2, RefreshedTokens
    <3>3. CASE ~(SessionId[d] = s /\ g = f /\ ~UNCHANGED memo)
      BY <1>ty, <2>3, <3>1, <3>3 DEF Memos
    <3>. QED
      BY <3>2, <3>3
  <2>. QED
    BY <2>1, <2>2, <2>3, NewAreBased
<1>2. ASSUME ReadFile(c) PROVE BaseInv'
  <2>. DEFINE f == tool[c].file
  <2>1. tool[c].step = "read" /\ f \in Files /\ UNCHANGED memo
    BY <1>2, <1>ty DEF ReadFile, MemoInv, ReportsAreHeld
  <2>2. \A d \in Conversations : d # c => UNCHANGED tool[d]
    BY <1>2, <1>ty DEF ReadFile
  <2>3. CASE disk[f] = Gone
    <3>1. tool'[c] = Idle /\ HeldGrows
      BY <1>2, <1>ty, <2>3, HeldAlone DEF ReadFile
    <3>. QED
      BY <1>ty, <2>1, <2>2, <3>1, NewAreBased
  <2>4. CASE disk[f] # Gone
    <3>0. PICK x \in Readable(f) :
            /\ tool' = [tool EXCEPT ![c] = Call("hook", f, x, Size[x])]
            /\ held' = [held EXCEPT ![c][f] = @ \cup {x}]
      BY <1>2, <2>4 DEF ReadFile
    <3>1. x \in Contents \cup Parts
      BY <1>ty, <2>1, <2>4 DEF Readable
    <3>2. HeldGrows /\ x \in held'[c][f]
      BY <1>ty, <2>1, <3>0, <3>1 DEF HeldGrows
    <3>3. tool'[c].file = f /\ tool'[c].tokens = Size[x]
      BY <1>ty, <3>0 DEF Call
    <3>4. Based(held'[c][tool'[c].file], tool'[c].tokens)
      BY <3>2, <3>3 DEF Based
    <3>. QED
      BY <2>1, <2>2, <3>2, <3>4, NewAreBased
  <2>. QED
    BY <2>3, <2>4
<1>3. ASSUME SendRead(c) PROVE BaseInv'
  <2>1. /\ HeldGrows /\ UNCHANGED <<memo, held>> /\ tool[c].step = "hook"
        /\ tool' = [tool EXCEPT ![c] = IF ~up THEN Idle
                      ELSE Call("sent", tool[c].file, tool[c].hash, tool[c].tokens)]
    BY <1>3, HeldAlone DEF SendRead, FaithfulHooks
  <2>2. tool'[c].step = "sent" =>
          tool'[c].file = tool[c].file /\ tool'[c].tokens = tool[c].tokens
    BY <1>ty, <2>1 DEF Call
  <2>3. tool'[c].step # "hook" /\ \A d \in Conversations : d # c => UNCHANGED tool[d]
    BY <1>ty, <2>1 DEF Call
  <2>4. tool'[c].step = "sent" => Based(held'[c][tool'[c].file], tool'[c].tokens)
    BY <2>1, <2>2 DEF BaseInv, Based
  <2>5. \A d \in Conversations :
          tool'[d].step \in {"hook", "sent"} =>
            UNCHANGED tool[d] \/ Based(held'[d][tool'[d].file], tool'[d].tokens)
    BY <2>3, <2>4 DEF Based
  <2>. QED
    BY <2>1, <2>5, NewAreBased
<1>4. ASSUME ServeRead(c) PROVE BaseInv'
  <2>. DEFINE f == tool[c].file
              v == Observed(memo[s][f], tool[c].hash, tool[c].tokens)
  <2>1. /\ HeldGrows /\ UNCHANGED held /\ tool[c].step = "sent"
        /\ memo' = [memo EXCEPT ![s][f] = v] /\ tool' = [tool EXCEPT ![c] = Idle]
    BY <1>4, HeldAlone DEF ServeRead
  <2>2. f \in Files /\ tool[c].hash \in Hashes /\ tool[c].tokens \in Tokens
    BY <1>ty, <2>1 DEF MemoInv, ReportsAreHeld, Calls
  <2>3. memo[s][f] \in Entry \cup {None}
    BY <1>ty, <2>2 DEF Memos
  <2>4. \/ v.tokens = tool[c].tokens
        \/ memo[s][f] # None /\ v.tokens = memo[s][f].tokens
    BY <2>2, <2>3, ObservedTokens
  <2>5. Based(held'[c][f], v.tokens)
    <3>1. Based(held[c][f], tool[c].tokens)
      BY <2>1 DEF BaseInv
    <3>2. memo[s][f] # None => Based(held[c][f], memo[s][f].tokens)
      BY <2>2 DEF BaseInv
    <3>. HIDE DEF v
    <3>. QED
      BY <2>1, <2>4, <3>1, <3>2 DEF Based
  <2>. HIDE DEF v
  <2>6. ASSUME NEW d \in Conversations, NEW g \in Files, memo'[SessionId[d]][g] # None
        PROVE  \/ /\ memo[SessionId[d]][g] # None
                  /\ memo'[SessionId[d]][g].tokens = memo[SessionId[d]][g].tokens
               \/ Based(held'[d][g], memo'[SessionId[d]][g].tokens)
    <3>1. CASE d = c /\ g = f
      <4>1. memo'[s][f] = v
        BY <1>ty, <2>1, <2>2 DEF Memos
      <4>. QED
        BY <2>5, <3>1, <4>1 DEF Based
    <3>2. CASE d # c \/ g # f
      BY <1>ty, <2>1, <2>2, <2>6, <3>2 DEF Memos
    <3>. QED
      BY <3>1, <3>2
  <2>7. \A d \in Conversations : tool'[d].step \in {"hook", "sent"} => UNCHANGED tool[d]
    BY <1>ty, <2>1
  <2>. QED
    BY <2>1, <2>6, <2>7, NewAreBased
<1>. QED
  BY <1>1, <1>2, <1>3, <1>4

(* The other steps: none makes an entry or a report, and a compaction      *)
(* forgets both sides.                                                     *)
LEMMA OthersKeepBaseInv ==
  ASSUME FaithfulHooks, MemoInv, BaseInv,
         \/ \E c \in Conversations :
              \/ \E f \in Files, x \in Contents : EditFile(c, f, x)
              \/ ServeEdit(c)
              \/ Compact(c)
         \/ \E s \in Sessions : DropSession(s) \/ \E f \in Files : Status(s, f)
         \/ \E f \in Files, x \in Contents \cup {Gone} : Write(f, x)
         \/ \E f \in Files : MarkStaleForAll(f)
         \/ Stop
         \/ Start
  PROVE  BaseInv'
<1>ty. /\ memo \in Memos /\ tool \in [Conversations -> Calls] /\ Idle.step = "idle"
       /\ held \in [Conversations -> [Files -> SUBSET (Contents \cup Parts)]]
       /\ \A d \in Conversations : SessionId[d] \in Sessions
       /\ \A c, d \in Conversations : SessionId[d] = SessionId[c] => d = c
  BY MemoAssumption DEF FaithfulHooks, MemoInv, TypeOK, Memos, Calls, Idle
<1>1. ASSUME NEW c \in Conversations, Compact(c) PROVE BaseInv'
  <2>1. /\ held' = [held EXCEPT ![c] = Nothing] /\ UNCHANGED <<up, tool>>
        /\ tool[c] = Idle
        /\ memo' = IF up THEN [memo EXCEPT ![SessionId[c]] = NoFiles] ELSE memo
    BY <1>1 DEF Compact, ForgetFiles, FaithfulHooks
  <2>2. ~up => memo[SessionId[c]] = NoFiles
    BY <1>ty DEF MemoInv
  <2>3. \A f \in Files : memo'[SessionId[c]][f] = None
    BY <1>ty, <2>1, <2>2 DEF Memos, NoFiles
  <2>4. \A d \in Conversations : d # c => UNCHANGED <<held[d], memo[SessionId[d]]>>
    BY <1>ty, <2>1 DEF Memos
  <2>. QED
    BY <1>ty, <2>1, <2>3, <2>4 DEF BaseInv, Based
<1>2. CASE ~\E c \in Conversations : Compact(c)
  <2>1. HeldGrows
    <3>1. CASE UNCHANGED held
      BY <3>1, HeldAlone
    <3>2. ASSUME NEW c \in Conversations, NEW f \in Files, NEW x \in Contents,
                 EditFile(c, f, x)
          PROVE  HeldGrows
      BY <1>ty, <3>1, <3>2 DEF EditFile, HeldGrows
    <3>3. ASSUME NEW c \in Conversations, ServeEdit(c) PROVE UNCHANGED held
      BY <3>3 DEF ServeEdit
    <3>4. CASE \/ \E s \in Sessions : DropSession(s) \/ \E f \in Files : Status(s, f)
               \/ \E f \in Files, x \in Contents \cup {Gone} : Write(f, x)
               \/ \E f \in Files : MarkStaleForAll(f)
               \/ Stop
               \/ Start
      BY <3>1, <3>4 DEF DropSession, Status, Write, MarkStaleForAll, Stop, Start
    <3>. QED
      BY <1>2, <3>1, <3>2, <3>3, <3>4
  <2>2. \A d \in Conversations : tool'[d].step \in {"hook", "sent"} => UNCHANGED tool[d]
    <3>1. ASSUME NEW c \in Conversations, NEW call \in {Idle} \cup
                   {Call("edited", f, None, 0) : f \in Files},
                 tool' = [tool EXCEPT ![c] = call]
          PROVE  \A d \in Conversations :
                   tool'[d].step \in {"hook", "sent"} => UNCHANGED tool[d]
      BY <1>ty, <3>1 DEF Call
    <3>2. CASE Stop
      BY <1>ty, <3>2 DEF Stop
    <3>3. CASE UNCHANGED tool
      BY <3>3
    <3>. QED
      BY <1>2, <3>1, <3>2, <3>3
      DEF EditFile, ServeEdit, DropSession, Status, Write, MarkStaleForAll, Start
  <2>3. ASSUME NEW t \in Sessions, NEW g \in Files, memo'[t][g] # None
        PROVE  memo[t][g] # None /\ memo'[t][g].tokens = memo[t][g].tokens
    <3>1. memo[t][g] # None => memo[t][g] \in Entry
      BY <1>ty DEF Memos
    <3>2. \/ memo'[t][g] = memo[t][g]
          \/ memo'[t][g] = None
          \/ memo'[t][g] = MarkedStale(memo[t][g])
          \/ memo[t][g] # None /\ memo'[t][g] = Refreshed(memo[t][g], g)
      <4>1. ASSUME NEW s \in Sessions, NEW f, NEW v, memo' = [memo EXCEPT ![s][f] = v]
            PROVE  memo'[t][g] = IF t = s /\ g = f THEN v ELSE memo[t][g]
        BY <1>ty, <4>1 DEF Memos
      <4>2. ASSUME NEW c \in Conversations, ServeEdit(c)
            PROVE  memo'[t][g] = memo[t][g] \/ memo'[t][g] = MarkedStale(memo[t][g])
        BY <1>ty, <4>1, <4>2 DEF ServeEdit
      <4>3. ASSUME NEW s \in Sessions, DropSession(s)
            PROVE  memo'[t][g] = memo[t][g] \/ memo'[t][g] = None
        BY <1>ty, <4>3 DEF DropSession, Memos, NoFiles
      <4>4. ASSUME NEW s \in Sessions, NEW f \in Files, Status(s, f)
            PROVE  \/ memo'[t][g] = memo[t][g]
                   \/ memo[t][g] # None /\ memo'[t][g] = Refreshed(memo[t][g], g)
        BY <4>1, <4>4 DEF Status
      <4>5. ASSUME NEW f \in Files, MarkStaleForAll(f)
            PROVE  memo'[t][g] = memo[t][g] \/ memo'[t][g] = MarkedStale(memo[t][g])
        BY <1>ty, <4>5 DEF MarkStaleForAll, Memos
      <4>6. Stop => memo'[t][g] = None
        BY DEF Stop, NoFiles
      <4>. QED
        BY <1>2, <4>2, <4>3, <4>4, <4>5, <4>6 DEF EditFile, Write, Start
    <3>3. memo[t][g] # None
      BY <2>3, <3>2 DEF MarkedStale
    <3>. QED
      BY <2>3, <3>1, <3>2, <3>3, RefreshedTokens
  <2>. QED
    BY <1>ty, <2>1, <2>2, <2>3, NewAreBased
<1>. QED
  BY <1>1, <1>2

(* check (memo.rs 302-318) advises a diff only when the conversation has   *)
(* read something of the file, whole or in part, within a tenth of its     *)
(* size now, and no compaction came since.                                 *)
THEOREM DiffsAreSlight ==
  ASSUME FaithfulHooks PROVE Spec => []DiffIsSlight
<1>1. Init => BaseInv
  BY MemoAssumption DEF Init, BaseInv, NoFiles, Idle
<1>2. MemoInv /\ BaseInv /\ [Next]_vars => BaseInv'
  <2>. SUFFICES ASSUME MemoInv, BaseInv, [Next]_vars PROVE BaseInv'
    OBVIOUS
  <2>1. CASE UNCHANGED vars
    BY <2>1 DEF vars, BaseInv, Based
  <2>2. CASE Next
    BY <2>2, ReadKeepsBaseInv, OthersKeepBaseInv DEF Next
  <2>. QED
    BY <2>1, <2>2
<1>3. MemoInv /\ BaseInv => DiffIsSlight
  <2>. SUFFICES ASSUME MemoInv, BaseInv, NEW c \in Conversations, NEW f \in Files,
                       Recommend(SessionId[c], f) = "reread_with_diff"
                PROVE  \E x \in held[c][f] : CloseTo(DiskTokens(f), Size[x])
    BY DEF DiffIsSlight
  <2>. DEFINE entry == memo[SessionId[c]][f]
  <2>1. entry # None /\ CloseTo(DiskTokens(f), entry.tokens)
    BY DEF Recommend
  <2>2. PICK x \in held[c][f] : entry.tokens = Size[x]
    BY <2>1 DEF BaseInv, Based
  <2>. QED
    BY <2>1, <2>2
<1>. QED
  BY <1>1, <1>2, <1>3, MemoInvHolds, PTL DEF Spec
=============================================================================
